-------------------------------- MODULE Values --------------------------------
(***************************************************************************)
(* HTTP::Value: the tree of values a worker fills to answer a request.     *)
(* Each node is an object on the heap that owns its children through a map *)
(* of pointers; the code that fills the tree holds references to nodes,    *)
(* which a change of type, anywhere above, deletes.                        *)
(*                                                                         *)
(* The keys of an array's children are the decimal numbers from 0 on, as   *)
(* strings: the map has them in the order of strings, which is modelled    *)
(* with digits in base Base.                                               *)
(***************************************************************************)
EXTENDS Naturals, Sequences, FiniteSets, SequencesExt, Functions

CONSTANTS
    Nodes,      \* the heap
    Root,       \* the value the worker was given
    Standard,   \* names a container's text is looked up by, in order
    Names,      \* names of children, those among them
    Texts,      \* texts, "" among them
    Base,       \* of the numbers in keys
    None        \* absent

ASSUME RootAssumption  == Root \in Nodes
ASSUME NodesAssumption == IsFiniteSet(Nodes)
ASSUME NamesAssumption == Standard \in Seq(Names)
ASSUME TextsAssumption == "" \in Texts
ASSUME BaseAssumption  == Base \in Nat /\ Base > 1 /\ Cardinality(Nodes) <= Base * Base

VARIABLE node   \* node[n]: an allocated object, or None

Types == {"undefined", "text", "object", "array"}

(* "path" and "order" are history: the keys that lead to the object, and an
   array's children in the order they were appended. *)
New(type, path) ==
    [type |-> type, text |-> "", kids |-> <<>>, path |-> path, order |-> <<>>]

Keys    == Names \cup 0 .. Cardinality(Nodes)
Maps    == UNION {[K -> Nodes] : K \in SUBSET Keys}
Objects == [type : Types, text : Texts, kids : Maps, path : Seq(Keys), order : Seq(Nodes)]

ASSUME NoneAssumption == None \notin Objects

Children(h, n) == Range(h[n].kids)

(* A destructor resets its object, which deletes the children unless the
   type is "undefined" already. *)
DeletedWith(h, S) ==
    \A m \in S : h[m] # None /\ h[m].type # "undefined" => Children(h, m) \subseteq S

(* What deleting n deletes, all the destructors run *)
Deleted(h, n) == {m \in Nodes : \A S \in SUBSET Nodes : n \in S /\ DeletedWith(h, S) => m \in S}

(* What reset deletes of n *)
Gone(h, n) == UNION {Deleted(h, c) : c \in Children(h, n)}

ChildrenForgotten(h, n, type) ==  \* no children.clear()
    IF h[n].type = type THEN h
    ELSE LET gone == Gone(h, n)
         IN [m \in Nodes |-> IF m = n THEN [h[n] EXCEPT !.type = type, !.text = ""]
                             ELSE IF m \in gone THEN None ELSE h[m]]

TextKept(h, n, type) ==  \* no value.clear()
    IF h[n].type = type THEN h
    ELSE LET gone == Gone(h, n)
         IN [m \in Nodes |-> IF m = n THEN [New(type, h[n].path) EXCEPT !.text = h[n].text]
                             ELSE IF m \in gone THEN None ELSE h[m]]

NothingDeleted(h, n, type) ==  \* no delete
    IF h[n].type = type THEN h ELSE [h EXCEPT ![n] = New(type, h[n].path)]

(* reset: the heap after n became a value of the given type *)
Reset(h, n, type) ==
    IF h[n].type = type THEN h
    ELSE LET gone == Gone(h, n)
         IN [m \in Nodes |-> IF m = n THEN New(type, h[n].path)
                             ELSE IF m \in gone THEN None ELSE h[m]]

(* new: an object that was free before the operation began *)
Free == {c \in Nodes : node[c] = None}
Allocated == CHOOSE c \in Free : TRUE

(* children[key] = c in n, c a new value *)
Adopt(h, n, key, c, type) ==
    [h EXCEPT ![c] = New(type, Append(h[n].path, key)),
              ![n].kids = [k \in DOMAIN @ \cup {key} |-> IF k = key THEN c ELSE @[k]]]

-----------------------------------------------------------------------------
Init == node = [n \in Nodes |-> IF n = Root THEN New("undefined", <<>>) ELSE None]

(* The worker calls reset. *)
Retype(n, type) == node' = Reset(node, n, type)

(* set, in all its forms *)
SetText(n, text, type) ==
    node' = [Reset(node, n, type) EXCEPT ![n].text = text]

ItemReplaced(n, name) ==  \* children[name] = new Value(), always
    LET h == Reset(node, n, "object") IN
    /\ Free # {}
    /\ LET old == IF name \in DOMAIN h[n].kids THEN Deleted(h, h[n].kids[name]) ELSE {}
       IN node' = Adopt([m \in Nodes |-> IF m \in old THEN None ELSE h[m]],
                        n, name, Allocated, "undefined")

(* operator[] *)
Item(n, name) ==
    LET h == Reset(node, n, "object") IN
    IF name \in DOMAIN h[n].kids THEN node' = h
    ELSE Free # {} /\ node' = Adopt(h, n, name, Allocated, "undefined")

CountedFromOne(n, type) ==
    LET h == Reset(node, n, "array")
        i == Cardinality(DOMAIN h[n].kids) + 1
    IN /\ Free # {}
       /\ node' = [Adopt(h, n, i, Allocated, type) EXCEPT ![n].order = Append(@, Allocated)]

(* append *)
Push(n, type) ==
    LET h == Reset(node, n, "array")
        i == Cardinality(DOMAIN h[n].kids)
    IN /\ Free # {}
       /\ node' = [Adopt(h, n, i, Allocated, type) EXCEPT ![n].order = Append(@, Allocated)]

Live == {n \in Nodes : node[n] # None}

Next ==
    \E n \in Live :
        \/ \E name \in Names : Item(n, name)
        \/ \E type \in Types :
              \/ Retype(n, type)
              \/ \E text \in Texts : SetText(n, text, type)
              \/ Push(n, type)

Spec == Init /\ [][Next]_node

-----------------------------------------------------------------------------
(* Reading *)

(* The names of the list that a value has children of, by their place in it *)
Places(m) == {i \in DOMAIN Standard : Standard[i] \in DOMAIN node[m].kids}

Child(m, i) == node[m].kids[Standard[i]]

FirstFound[m \in Live] ==  \* the first child with a standard name, empty or not
    IF Places(m) = {} THEN node[m].text ELSE FirstFound[Child(m, Min(Places(m)))]

FirstChild(n) == FirstFound[n]

(* get: the first text that is not empty of the children with standard
   names, else the value's own *)
Gotten[m \in Live] ==
    LET found == {i \in Places(m) : Gotten[Child(m, i)] # ""}
    IN IF found = {} THEN node[m].text ELSE Gotten[Child(m, Min(found))]

Get(n) == Gotten[n]

Digits(i) == IF i < Base THEN <<i>> ELSE <<i \div Base, i % Base>>

(* The order of the map: "10" before "2" *)
Before(i, j) ==
    LET s == Digits(i)
        t == Digits(j)
    IN \E k \in DOMAIN t :
          /\ \A l \in 1 .. k - 1 : l \in DOMAIN s /\ s[l] = t[l]
          /\ k \notin DOMAIN s \/ s[k] < t[k]

(* for_each, of an array: the elements by their keys, in the order of the map *)
ForEach(n) ==
    LET K == DOMAIN node[n].kids
        keys == CHOOSE s \in [1 .. Cardinality(K) -> K] :
                    \A i \in 2 .. Cardinality(K) : Before(s[i - 1], s[i])
    IN [i \in 1 .. Cardinality(K) |-> node[n].kids[keys[i]]]

-----------------------------------------------------------------------------
(* Properties *)

TypeOK ==
    /\ node \in [Nodes -> Objects \cup {None}]
    /\ \A n \in Live :
          DOMAIN node[n].kids \subseteq IF node[n].type = "object" THEN Names
                                       ELSE 0 .. Cardinality(Nodes)

(* No leak and no object owned twice, whatever sequence of operations: all
   allocated objects but the root are in the map of exactly one other, under
   one key, and no map has a pointer to a deleted object. *)
OwnedOnce ==
    \A c \in Nodes :
        LET owners == {o \in UNION {{n} \X DOMAIN node[n].kids : n \in Live} :
                           node[o[1]].kids[o[2]] = c}
        IN Cardinality(owners) = IF c = Root \/ node[c] = None THEN 0 ELSE 1

(* A reference stays good until a value above it changes its type: reading
   and adding siblings, above or below, does not delete what it names. *)
ReferencesStayGood ==
    [][\A n \in Nodes :
          node[n] # None /\ node'[n] = None =>
              \E a \in Live :
                  /\ a # n
                  /\ IsPrefix(node[a].path, node[n].path)
                  /\ node'[a] # None
                  /\ node'[a].type # node[a].type]_node

(* The elements of an array come out in the order they went in, as long as
   their numbers have one digit.  From the eleventh element on they do not. *)
ArraysInOrder ==
    \A n \in Live :
        node[n].type = "array" /\ Len(node[n].order) <= Base =>
            ForEach(n) = node[n].order

(* A value reads as empty only if there is no text in it and nowhere below
   it that standard names lead to. *)
StandardSteps(ns) == UNION {{Child(m, i) : i \in Places(m)} : m \in ns}

Reached(n) == {m \in Live : \A S \in SUBSET Live : n \in S /\ StandardSteps(S) \subseteq S => m \in S}

EmptyMeansEmpty ==
    \A n \in Live : Get(n) = "" <=> \A m \in Reached(n) : node[m].text = ""

(* The heap, its pointers and its deletions implement a document. *)
Doc == INSTANCE Document WITH
           Names <- Names, Texts <- Texts,
           doc <- [p \in {node[n].path : n \in Live} |->
                      LET n == CHOOSE n \in Live : node[n].path = p
                      IN [type |-> node[n].type, text |-> node[n].text]]

DocumentSpec == Doc!Spec
=============================================================================
