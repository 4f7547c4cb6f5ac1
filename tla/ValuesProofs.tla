----------------------------- MODULE ValuesProofs -----------------------------
(***************************************************************************)
(* The heap of values, for any number of objects and any names.            *)
(*                                                                         *)
(* Every object has one owner because its path, the keys that lead to it   *)
(* from the root, is the owner's with one key more, and no two objects     *)
(* have the same path (Heap).  A change of type deletes what is below the  *)
(* value, which are the objects whose path its own begins: each of them,   *)
(* and no other.                                                           *)
(***************************************************************************)
EXTENDS Values, FiniteSetTheorems, FunctionTheorems, SequenceTheorems, TLAPS

LiveIn(h) == {n \in Nodes : h[n] # None}

(* The root is there, and has no owner. *)
Rooted(h) == h[Root] # None /\ h[Root].path = <<>>

(* A child is there, one key below its owner. *)
KidsBelow(h) ==
    \A n \in LiveIn(h) : \A k \in DOMAIN h[n].kids :
        /\ h[h[n].kids[k]] # None
        /\ h[h[n].kids[k]].path = Append(h[n].path, k)

PathsDiffer(h) == \A m, n \in LiveIn(h) : h[m].path = h[n].path => m = n

Owned(h) ==
    \A c \in LiveIn(h) \ {Root} : \E n \in LiveIn(h) : \E k \in DOMAIN h[n].kids :
        h[n].kids[k] = c

(* Keys are what the type says: names, or the numbers from 0 on. *)
Shaped(v) ==
    /\ v.type \in {"undefined", "text"} => DOMAIN v.kids = {}
    /\ v.type = "object" => DOMAIN v.kids \subseteq Names
    /\ v.type = "array" =>
          /\ DOMAIN v.kids = 0 .. Len(v.order) - 1
          /\ \A i \in DOMAIN v.kids : v.kids[i] = v.order[i + 1]

Heap(h) ==
    /\ h \in [Nodes -> Objects \cup {None}]
    /\ Rooted(h)
    /\ KidsBelow(h)
    /\ PathsDiffer(h)
    /\ Owned(h)
    /\ \A n \in LiveIn(h) : Shaped(h[n])

-----------------------------------------------------------------------------
(* Objects *)

LEMMA ObjectType ==
    ASSUME NEW v \in Objects
    PROVE  /\ v.type \in Types /\ v.text \in Texts
           /\ DOMAIN v.kids \in SUBSET Keys
           /\ v.kids \in [DOMAIN v.kids -> Nodes]
           /\ v.path \in Seq(Keys) /\ v.order \in Seq(Nodes)
           /\ Range(v.kids) \subseteq Nodes
  <1>1. PICK K \in SUBSET Keys : v.kids \in [K -> Nodes]
    BY DEF Objects, Maps
  <1> QED
    BY <1>1 DEF Objects, Range

LEMMA NewType ==
    ASSUME NEW type \in Types, NEW path \in Seq(Keys)
    PROVE  /\ New(type, path) \in Objects
           /\ New(type, path).type = type
           /\ New(type, path).path = path
           /\ New(type, path).text = ""
           /\ DOMAIN New(type, path).kids = {}
           /\ Shaped(New(type, path))
  <1>1. <<>> \in Maps
    <2>1. <<>> \in [{} -> Nodes]
      OBVIOUS
    <2> QED
      BY <2>1 DEF Maps
  <1>2. <<>> \in Seq(Nodes) /\ Len(<<>>) = 0 /\ DOMAIN <<>> = {}
    BY EmptySeq
  <1>3. New(type, path) \in Objects
    BY <1>1, <1>2, TextsAssumption DEF New, Objects
  <1>4. DOMAIN New(type, path).kids = {} /\ Len(New(type, path).order) = 0
    BY <1>2 DEF New
  <1>5. Shaped(New(type, path))
    BY <1>4 DEF Shaped
  <1> QED
    BY <1>3, <1>4, <1>5 DEF New

(* A live object of a heap *)
LEMMA LiveType ==
    ASSUME NEW h, Heap(h), NEW n \in LiveIn(h)
    PROVE  /\ n \in Nodes /\ h[n] \in Objects
           /\ h[n].path \in Seq(Keys) /\ Len(h[n].path) \in Nat
           /\ DOMAIN h[n].kids \in SUBSET Keys
           /\ Children(h, n) \subseteq LiveIn(h)
           /\ \A k \in DOMAIN h[n].kids : h[n].kids[k] \in Children(h, n)
  <1>1. n \in Nodes /\ h[n] \in Objects
    BY DEF Heap, LiveIn
  <1>2. h[n].kids \in [DOMAIN h[n].kids -> Nodes]
    BY <1>1, ObjectType
  <1>3. Children(h, n) \subseteq LiveIn(h)
    BY <1>2 DEF Children, Range, LiveIn, Heap, KidsBelow
  <1>4. \A k \in DOMAIN h[n].kids : h[n].kids[k] \in Children(h, n)
    BY DEF Children, Range
  <1>5. Len(h[n].path) \in Nat
    BY <1>1, ObjectType, LenProperties
  <1> QED
    BY <1>1, <1>3, <1>4, <1>5, ObjectType

LEMMA SameAppend ==
    ASSUME NEW p \in Seq(Keys), NEW q \in Seq(Keys), NEW j \in Keys, NEW k \in Keys,
           Append(p, j) = Append(q, k)
    PROVE  p = q /\ j = k
  <1>1. Len(p) = Len(q) /\ Len(p) \in Nat
    BY AppendProperties, LenProperties
  <1>2. \A i \in 1 .. Len(p) : p[i] = q[i]
    BY <1>1, AppendProperties
  <1>3. j = k
    BY <1>1, AppendProperties
  <1> QED
    BY <1>1, <1>2, <1>3, SeqEqual

(* An object is a child once. *)
LEMMA OneOwner ==
    ASSUME NEW h, Heap(h), NEW m \in LiveIn(h), NEW n \in LiveIn(h),
           NEW j \in DOMAIN h[m].kids, NEW k \in DOMAIN h[n].kids,
           h[m].kids[j] = h[n].kids[k]
    PROVE  m = n /\ j = k
  <1>1. Append(h[m].path, j) = Append(h[n].path, k)
    BY DEF Heap, KidsBelow
  <1>2. h[m].path \in Seq(Keys) /\ h[n].path \in Seq(Keys) /\ j \in Keys /\ k \in Keys
    BY LiveType
  <1>3. h[m].path = h[n].path /\ j = k
    BY <1>1, <1>2, SameAppend
  <1> QED
    BY <1>3 DEF Heap, PathsDiffer

(* The value under a key is the one a key below. *)
LEMMA PathOwned ==
    ASSUME NEW h, Heap(h), NEW n \in LiveIn(h), NEW m \in LiveIn(h), NEW k \in Keys,
           h[m].path = Append(h[n].path, k)
    PROVE  k \in DOMAIN h[n].kids /\ h[n].kids[k] = m
  <1>1. h[n].path \in Seq(Keys)
    BY LiveType
  <1>2. m # Root
    BY <1>1, AppendProperties DEF Heap, Rooted
  <1>3. PICK a \in LiveIn(h) : \E j \in DOMAIN h[a].kids : h[a].kids[j] = m
    BY <1>2 DEF Heap, Owned
  <1>4. PICK j \in DOMAIN h[a].kids : h[a].kids[j] = m
    BY <1>3
  <1>5. h[m].path = Append(h[a].path, j) /\ h[a].path \in Seq(Keys) /\ j \in Keys
    BY <1>4, LiveType DEF Heap, KidsBelow
  <1>6. h[a].path = h[n].path /\ j = k
    <2> DEFINE p == h[a].path
               q == h[n].path
    <2>1. /\ Append(p, j) = Append(q, k) /\ p \in Seq(Keys) /\ q \in Seq(Keys)
          /\ j \in Keys /\ k \in Keys
      BY <1>1, <1>5
    <2> HIDE DEF p, q
    <2>2. p = q /\ j = k
      BY <2>1, SameAppend
    <2> QED
      BY <2>2 DEF p, q
  <1> QED
    BY <1>4, <1>6 DEF Heap, PathsDiffer

-----------------------------------------------------------------------------
(* What a change of type deletes *)

(* A set that its members' destructors keep to has all of what is deleted. *)
LEMMA GoneWithin ==
    ASSUME NEW h, NEW n, NEW S \in SUBSET Nodes, Children(h, n) \subseteq S, DeletedWith(h, S)
    PROVE  Gone(h, n) \subseteq S
  BY DEF Gone, Deleted

LEMMA GoneHas ==
    ASSUME NEW h, Heap(h), NEW n \in LiveIn(h)
    PROVE  /\ Gone(h, n) \subseteq Nodes
           /\ Children(h, n) \subseteq Gone(h, n)
           /\ \A m \in Gone(h, n) : h[m] # None => Children(h, m) \subseteq Gone(h, n)
  <1>1. Children(h, n) \subseteq Nodes
    BY LiveType DEF LiveIn
  <1>2. \A c \in Children(h, n) : c \in Deleted(h, c)
    BY <1>1 DEF Deleted
  <1>3. ASSUME NEW m \in Gone(h, n), h[m] # None, NEW d \in Children(h, m)
        PROVE  d \in Gone(h, n)
    <2>1. PICK c \in Children(h, n) : m \in Deleted(h, c)
      BY DEF Gone
    <2>2. m \in LiveIn(h) /\ m \in Nodes
      BY <1>3, <2>1 DEF Deleted, LiveIn
    <2>3. h[m].type # "undefined"
      <3>1. DOMAIN h[m].kids # {}
        BY <1>3 DEF Children, Range
      <3> QED
        BY <2>2, <3>1 DEF Heap, Shaped
    <2>4. d \in Nodes
      BY <1>3, <2>2, LiveType DEF LiveIn
    <2>5. ASSUME NEW S \in SUBSET Nodes, c \in S, DeletedWith(h, S)
          PROVE  d \in S
      <3>1. m \in S
        BY <2>1, <2>5 DEF Deleted
      <3> QED
        BY <1>3, <2>3, <2>5, <3>1 DEF DeletedWith
    <2>6. d \in Deleted(h, c)
      BY <2>4, <2>5 DEF Deleted
    <2> QED
      BY <2>1, <2>6 DEF Gone
  <1>4. Gone(h, n) \subseteq Nodes
    BY DEF Gone, Deleted
  <1> QED
    BY <1>2, <1>3, <1>4 DEF Gone

LEMMA AppendPath ==
    ASSUME NEW p \in Seq(Keys), NEW q \in Seq(Keys), NEW k \in Keys
    PROVE  /\ Append(p, k) \in Seq(Keys)
           /\ Len(Append(p, k)) = Len(p) + 1
           /\ IsPrefix(p, p)
           /\ IsPrefix(p, q) => IsPrefix(p, Append(q, k))
  <1>1. /\ Append(p, k) \in Seq(Keys) /\ Append(q, k) \in Seq(Keys)
        /\ Len(Append(p, k)) = Len(p) + 1 /\ Len(Append(q, k)) = Len(q) + 1
        /\ Len(p) \in Nat /\ Len(q) \in Nat
    BY AppendProperties, LenProperties
  <1>2. ASSUME IsPrefix(p, q) PROVE IsPrefix(p, Append(q, k))
    <2>1. SubSeq(Append(q, k), 1, Len(p)) = SubSeq(q, 1, Len(p))
      <3>1. Len(p) <= Len(q)
        BY <1>2 DEF IsPrefix
      <3>2. \A i \in 1 .. Len(p) : Append(q, k)[i] = q[i]
        BY <1>1, <3>1, AppendProperties
      <3> QED
        BY <1>1, <3>1, <3>2
    <2> QED
      BY <1>1, <1>2, <2>1 DEF IsPrefix
  <1> QED
    BY <1>1, <1>2 DEF IsPrefix

(* All that is deleted is below. *)
LEMMA GoneBelow ==
    ASSUME NEW h, Heap(h), NEW n \in LiveIn(h), NEW m \in Gone(h, n)
    PROVE  /\ m \in LiveIn(h)
           /\ IsPrefix(h[n].path, h[m].path)
           /\ Len(h[n].path) < Len(h[m].path)
  <1> DEFINE S == {c \in LiveIn(h) : /\ IsPrefix(h[n].path, h[c].path)
                                     /\ Len(h[n].path) < Len(h[c].path)}
  <1>1. ASSUME NEW c \in LiveIn(h), c = n \/ c \in S, NEW d \in Children(h, c)
        PROVE  d \in S
    <2>1. PICK k \in DOMAIN h[c].kids : d = h[c].kids[k]
      BY <1>1 DEF Children, Range
    <2>2. d \in LiveIn(h) /\ h[d].path = Append(h[c].path, k) /\ k \in Keys
      BY <1>1, <2>1, LiveType DEF Heap, KidsBelow
    <2>3. /\ h[n].path \in Seq(Keys) /\ Len(h[n].path) \in Nat
          /\ h[c].path \in Seq(Keys) /\ Len(h[c].path) \in Nat
      BY LiveType
    <2>4. IsPrefix(h[n].path, h[c].path) /\ Len(h[n].path) <= Len(h[c].path)
      BY <1>1, <2>2, <2>3, AppendPath
    <2>5. IsPrefix(h[n].path, h[d].path)
      BY <2>2, <2>3, <2>4, AppendPath
    <2>6. Len(h[d].path) = Len(h[c].path) + 1
      BY <2>2, <2>3, AppendPath
    <2>7. Len(h[n].path) < Len(h[d].path)
      BY <2>3, <2>4, <2>6
    <2> QED
      BY <2>2, <2>5, <2>7
  <1>2. Children(h, n) \subseteq S
    BY <1>1
  <1>3. DeletedWith(h, S) /\ S \in SUBSET Nodes
    BY <1>1 DEF DeletedWith, LiveIn
  <1>4. Gone(h, n) \subseteq S
    BY <1>2, <1>3, GoneWithin
  <1> QED
    BY <1>4

(* Nothing that stays points to what is deleted, but the value itself. *)
LEMMA GoneOwned ==
    ASSUME NEW h, Heap(h), NEW n \in LiveIn(h), NEW m \in LiveIn(h), m # n,
           m \notin Gone(h, n)
    PROVE  Children(h, m) \cap Gone(h, n) = {}
  <1> SUFFICES ASSUME NEW d \in Children(h, m), d \in Gone(h, n) PROVE FALSE
    OBVIOUS
  <1> DEFINE S == Gone(h, n) \ {d}
  <1>1. ASSUME NEW c \in LiveIn(h), d \in Children(h, c) PROVE c = m
    BY <1>1, OneOwner DEF Children, Range
  <1>2. Children(h, n) \subseteq S
    BY <1>1, GoneHas
  <1>3. DeletedWith(h, S)
    <2> SUFFICES ASSUME NEW c \in S, h[c] # None PROVE Children(h, c) \subseteq S
      BY DEF DeletedWith
    <2>1. c \in LiveIn(h) /\ c # m
      BY GoneBelow
    <2> QED
      BY <1>1, <2>1, GoneHas
  <1>4. Gone(h, n) \subseteq S
    BY <1>2, <1>3, GoneHas, GoneWithin
  <1> QED
    BY <1>4

-----------------------------------------------------------------------------
(* The operations keep a heap a heap *)

(* What a change of type leaves *)
LEMMA ResetValue ==
    ASSUME NEW h, Heap(h), NEW n \in LiveIn(h), NEW type \in Types, type # h[n].type
    PROVE  /\ DOMAIN Reset(h, n, type) = Nodes
           /\ Reset(h, n, type)[n] = New(type, h[n].path)
           /\ LiveIn(Reset(h, n, type)) = LiveIn(h) \ Gone(h, n)
           /\ n \in LiveIn(Reset(h, n, type))
           /\ \A m \in LiveIn(Reset(h, n, type)) \ {n} : Reset(h, n, type)[m] = h[m]
           /\ \A m \in LiveIn(Reset(h, n, type)) : Reset(h, n, type)[m].path = h[m].path
  <1> DEFINE g == Reset(h, n, type)
  <1>1. g = [m \in Nodes |-> IF m = n THEN New(type, h[n].path)
                             ELSE IF m \in Gone(h, n) THEN None ELSE h[m]]
    BY DEF Reset
  <1> HIDE DEF g
  <1>2. n \in Nodes /\ h[n].path \in Seq(Keys) /\ Len(h[n].path) \in Nat
    BY LiveType
  <1>3. g[n] = New(type, h[n].path) /\ DOMAIN g = Nodes
    BY <1>1, <1>2
  <1>4. g[n] # None /\ g[n].path = h[n].path
    <2>1. New(type, h[n].path) \in Objects /\ New(type, h[n].path).path = h[n].path
      BY <1>2, NewType
    <2> QED
      BY <1>3, <2>1, NoneAssumption
  <1>5. n \notin Gone(h, n)
    BY <1>2, GoneBelow
  <1>6. \A m \in Nodes \ {n} : g[m] = IF m \in Gone(h, n) THEN None ELSE h[m]
    BY <1>1
  <1>7. LiveIn(g) = LiveIn(h) \ Gone(h, n)
    BY <1>2, <1>4, <1>5, <1>6 DEF LiveIn
  <1>8. \A m \in LiveIn(g) \ {n} : g[m] = h[m]
    BY <1>6, <1>7 DEF LiveIn
  <1>9. \A m \in LiveIn(g) : g[m].path = h[m].path
    BY <1>4, <1>8
  <1> QED
    BY <1>2, <1>3, <1>4, <1>7, <1>8, <1>9 DEF g, LiveIn

LEMMA ResetHeap ==
    ASSUME NEW h, Heap(h), NEW n \in LiveIn(h), NEW type \in Types
    PROVE  /\ Heap(Reset(h, n, type))
           /\ n \in LiveIn(Reset(h, n, type))
           /\ LiveIn(Reset(h, n, type)) \subseteq LiveIn(h)
           /\ Reset(h, n, type)[n].type = type
           /\ Reset(h, n, type)[n].path = h[n].path
  <1>1. CASE h[n].type = type
    BY <1>1 DEF Reset
  <1>2. CASE h[n].type # type
    <2> DEFINE g == Reset(h, n, type)
    <2>1. /\ DOMAIN g = Nodes
          /\ g[n] = New(type, h[n].path)
          /\ LiveIn(g) = LiveIn(h) \ Gone(h, n)
          /\ n \in LiveIn(g)
          /\ \A m \in LiveIn(g) \ {n} : g[m] = h[m]
          /\ \A m \in LiveIn(g) : g[m].path = h[m].path
      BY <1>2, ResetValue
    <2>2. g = [m \in Nodes |-> g[m]]
      BY <1>2 DEF Reset
    <2> HIDE DEF g
    <2>3. /\ g[n] \in Objects /\ Shaped(g[n]) /\ g[n].type = type
          /\ DOMAIN g[n].kids = {}
      <3>1. h[n].path \in Seq(Keys)
        BY LiveType
      <3>2. /\ New(type, h[n].path) \in Objects /\ Shaped(New(type, h[n].path))
            /\ New(type, h[n].path).type = type /\ DOMAIN New(type, h[n].path).kids = {}
        BY <3>1, NewType
      <3> QED
        BY <2>1, <3>2
    <2>4. \A m \in LiveIn(g) : g[m] \in Objects /\ Shaped(g[m])
      BY <2>1, <2>3, LiveType DEF Heap
    <2>5. g \in [Nodes -> Objects \cup {None}]
      BY <2>2, <2>4 DEF LiveIn
    <2>6. Rooted(g)
      <3>1. Root \in LiveIn(h) /\ h[Root].path = <<>> /\ Len(h[Root].path) = 0
        BY RootAssumption, EmptySeq DEF Heap, Rooted, LiveIn
      <3>2. Len(h[n].path) \in Nat
        BY LiveType
      <3>3. Root \notin Gone(h, n)
        BY <3>1, <3>2, GoneBelow
      <3> QED
        BY <2>1, <3>1, <3>3 DEF Rooted, LiveIn
    <2>7. KidsBelow(g)
      <3> SUFFICES ASSUME NEW m \in LiveIn(g), NEW k \in DOMAIN g[m].kids
                   PROVE  /\ g[g[m].kids[k]] # None
                          /\ g[g[m].kids[k]].path = Append(g[m].path, k)
        BY DEF KidsBelow
      <3>1. m # n /\ g[m] = h[m] /\ m \in LiveIn(h) /\ m \notin Gone(h, n)
        BY <2>1, <2>3
      <3>2. h[m].kids[k] \in Children(h, m) /\ h[m].kids[k] \in LiveIn(h)
        BY <3>1, LiveType
      <3>3. h[m].kids[k] \in LiveIn(g)
        BY <2>1, <3>1, <3>2, GoneOwned
      <3> QED
        BY <2>1, <3>1, <3>3 DEF LiveIn, Heap, KidsBelow
    <2>8. PathsDiffer(g)
      BY <2>1 DEF PathsDiffer, Heap
    <2>9. Owned(g)
      <3> SUFFICES ASSUME NEW c \in LiveIn(g) \ {Root}
                   PROVE  \E m \in LiveIn(g) : \E k \in DOMAIN g[m].kids : g[m].kids[k] = c
        BY DEF Owned
      <3>1. PICK m \in LiveIn(h) : \E k \in DOMAIN h[m].kids : h[m].kids[k] = c
        BY <2>1 DEF Heap, Owned
      <3>2. c \in Children(h, m) /\ h[m] # None
        BY <3>1 DEF Children, Range, LiveIn
      <3>3. m \notin Gone(h, n) /\ m # n
        BY <2>1, <3>2, GoneHas
      <3>4. m \in LiveIn(g) /\ g[m] = h[m]
        BY <2>1, <3>3
      <3> QED
        BY <3>1, <3>4
    <2> QED
      BY <2>1, <2>3, <2>4, <2>5, <2>6, <2>7, <2>8, <2>9 DEF Heap, g
  <1> QED
    BY <1>1, <1>2

(* A text is nobody's child. *)
LEMMA TextHeap ==
    ASSUME NEW h, Heap(h), NEW n \in LiveIn(h), NEW text \in Texts
    PROVE  /\ Heap([h EXCEPT ![n].text = text])
           /\ LiveIn([h EXCEPT ![n].text = text]) = LiveIn(h)
  <1> DEFINE v == [h[n] EXCEPT !.text = text]
             g == [h EXCEPT ![n] = v]
  <1>1. n \in Nodes /\ h[n] \in Objects /\ h \in [Nodes -> Objects \cup {None}]
    BY LiveType DEF Heap
  <1>2. /\ v \in Objects /\ v.kids = h[n].kids /\ v.path = h[n].path
        /\ v.order = h[n].order /\ v.type = h[n].type
    BY <1>1 DEF Objects
  <1>3. v # None
    BY <1>2, NoneAssumption
  <1> HIDE DEF v
  <1>4. g[n] = v /\ \A m \in Nodes \ {n} : g[m] = h[m]
    BY <1>1
  <1>5. g \in [Nodes -> Objects \cup {None}]
    BY <1>1, <1>2
  <1> HIDE DEF g
  <1>6. LiveIn(g) = LiveIn(h)
    BY <1>1, <1>3, <1>4 DEF LiveIn
  <1>7. \A m \in LiveIn(h) : /\ g[m].kids = h[m].kids /\ g[m].path = h[m].path
                             /\ g[m].order = h[m].order /\ g[m].type = h[m].type
    BY <1>2, <1>4 DEF LiveIn
  <1>8. \A m \in LiveIn(h) : g[m] # None
    BY <1>6 DEF LiveIn
  <1>9. Rooted(g)
    BY <1>7, <1>8, RootAssumption DEF Heap, Rooted, LiveIn
  <1>10. KidsBelow(g)
    <2> SUFFICES ASSUME NEW m \in LiveIn(g), NEW k \in DOMAIN g[m].kids
                 PROVE  /\ g[g[m].kids[k]] # None
                        /\ g[g[m].kids[k]].path = Append(g[m].path, k)
      BY DEF KidsBelow
    <2>1. /\ m \in LiveIn(h) /\ k \in DOMAIN h[m].kids
          /\ g[m].kids[k] = h[m].kids[k] /\ g[m].path = h[m].path
      BY <1>6, <1>7
    <2>2. h[m].kids[k] \in LiveIn(h) /\ h[h[m].kids[k]].path = Append(h[m].path, k)
      BY <2>1, LiveType DEF Heap, KidsBelow
    <2> QED
      BY <2>1, <2>2, <1>7, <1>8
  <1>11. PathsDiffer(g) /\ Owned(g) /\ \A m \in LiveIn(g) : Shaped(g[m])
    BY <1>6, <1>7 DEF Heap, PathsDiffer, Owned, Shaped
  <1> QED
    BY <1>5, <1>6, <1>9, <1>10, <1>11 DEF Heap, g, v

(* A new value under a key that was not there *)
LEMMA GrownHeap ==
    ASSUME NEW h, Heap(h), NEW n \in LiveIn(h), NEW c \in Nodes, h[c] = None,
           NEW key \in Keys, key \notin DOMAIN h[n].kids, NEW type \in Types,
           NEW v \in Objects, Shaped(v), v.path = h[n].path,
           v.kids = [k \in DOMAIN h[n].kids \cup {key} |->
                        IF k = key THEN c ELSE h[n].kids[k]],
           NEW g, g = [m \in Nodes |-> g[m]], g[n] = v,
           g[c] = New(type, Append(h[n].path, key)),
           \A m \in Nodes \ {n, c} : g[m] = h[m]
    PROVE  /\ Heap(g)
           /\ LiveIn(g) = LiveIn(h) \cup {c}
           /\ \A m \in LiveIn(h) : g[m].path = h[m].path
  <1> DEFINE p == h[n].path
             q == Append(h[n].path, key)
  <1>1. n \in Nodes /\ n # c /\ p \in Seq(Keys) /\ q \in Seq(Keys) /\ c \notin LiveIn(h)
    BY LiveType, AppendPath DEF LiveIn
  <1>q. p = h[n].path /\ q = Append(p, key) /\ g[c] = New(type, q)
    OBVIOUS
  <1> HIDE DEF p, q
  <1>2. /\ g[c] \in Objects /\ g[c].path = q /\ DOMAIN g[c].kids = {} /\ Shaped(g[c])
    <2>1. /\ New(type, q) \in Objects /\ New(type, q).path = q
          /\ DOMAIN New(type, q).kids = {} /\ Shaped(New(type, q))
      BY <1>1, NewType
    <2> QED
      BY <1>q, <2>1
  <1>3. LiveIn(g) = LiveIn(h) \cup {c}
    BY <1>1, <1>2, NoneAssumption DEF LiveIn
  <1>4. \A m \in LiveIn(h) \ {n} : g[m] = h[m]
    BY <1>1 DEF LiveIn
  <1>5. \A m \in LiveIn(h) : g[m].path = h[m].path /\ g[m] # None
    BY <1>4, NoneAssumption DEF LiveIn
  <1>6. \A m \in LiveIn(h) \ {n} : g[m] \in Objects /\ Shaped(g[m])
    BY <1>4, LiveType DEF Heap
  <1>7. g \in [Nodes -> Objects \cup {None}]
    BY <1>1, <1>2, <1>3, <1>6 DEF LiveIn
  <1>8. Rooted(g)
    BY <1>5, RootAssumption DEF Heap, Rooted, LiveIn
  <1>9. KidsBelow(g)
    <2> SUFFICES ASSUME NEW m \in LiveIn(g), NEW k \in DOMAIN g[m].kids
                 PROVE  /\ g[g[m].kids[k]] # None
                        /\ g[g[m].kids[k]].path = Append(g[m].path, k)
      BY DEF KidsBelow
    <2>1. m \in LiveIn(h)
      BY <1>2, <1>3
    <2>2. CASE m = n /\ k = key
      <3>1. g[m].kids[k] = c /\ g[m].path = p
        BY <1>q, <2>2
      <3>2. g[c] # None
        BY <1>2, NoneAssumption
      <3> QED
        BY <1>2, <1>q, <2>2, <3>1, <3>2
    <2>3. CASE ~(m = n /\ k = key)
      <3>1. k \in DOMAIN h[m].kids /\ g[m].kids[k] = h[m].kids[k]
        BY <1>4, <2>1, <2>3
      <3>2. h[m].kids[k] \in LiveIn(h)
        BY <2>1, <3>1, LiveType
      <3>3. h[h[m].kids[k]].path = Append(h[m].path, k)
        BY <2>1, <3>1 DEF Heap, KidsBelow
      <3> QED
        BY <1>5, <2>1, <3>1, <3>2, <3>3
    <2> QED
      BY <2>2, <2>3
  <1>10. \A m \in LiveIn(h) : h[m].path # q
    BY <1>q, PathOwned
  <1>11. PathsDiffer(g)
    BY <1>2, <1>3, <1>5, <1>10 DEF Heap, PathsDiffer
  <1>12. Owned(g)
    <2> SUFFICES ASSUME NEW d \in LiveIn(g) \ {Root}
                 PROVE  \E m \in LiveIn(g) : \E k \in DOMAIN g[m].kids : g[m].kids[k] = d
      BY DEF Owned
    <2>1. CASE d = c
      <3>1. n \in LiveIn(g) /\ key \in DOMAIN g[n].kids /\ g[n].kids[key] = c
        BY <1>3
      <3> QED
        BY <2>1, <3>1
    <2>2. CASE d # c
      <3>1. PICK m \in LiveIn(h) : \E k \in DOMAIN h[m].kids : h[m].kids[k] = d
        BY <1>3, <2>2 DEF Heap, Owned
      <3>2. PICK k \in DOMAIN h[m].kids : h[m].kids[k] = d
        BY <3>1
      <3>3. k \in DOMAIN g[m].kids /\ g[m].kids[k] = d
        BY <1>4, <3>1, <3>2
      <3> QED
        BY <1>3, <3>1, <3>3
    <2> QED
      BY <2>1, <2>2
  <1>13. \A m \in LiveIn(g) : Shaped(g[m])
    BY <1>2, <1>3, <1>6
  <1> QED
    BY <1>3, <1>5, <1>7, <1>8, <1>9, <1>11, <1>12, <1>13 DEF Heap

-----------------------------------------------------------------------------
(* The actions *)

(* The keys an array has used are its size, and no more than the objects. *)
LEMMA ArraySize ==
    ASSUME NEW h, Heap(h), NEW n \in LiveIn(h), h[n].type = "array"
    PROVE  /\ Cardinality(DOMAIN h[n].kids) = Len(h[n].order)
           /\ Len(h[n].order) \in Nat
           /\ Len(h[n].order) <= Cardinality(Nodes)
  <1>1. /\ h[n].order \in Seq(Nodes)
        /\ h[n].kids \in [DOMAIN h[n].kids -> Nodes]
    BY LiveType, ObjectType
  <1>2. Len(h[n].order) \in Nat /\ DOMAIN h[n].kids = 0 .. Len(h[n].order) - 1
    BY <1>1, LenProperties DEF Heap, Shaped
  <1>3. Cardinality(DOMAIN h[n].kids) = Len(h[n].order)
    BY <1>2, FS_Interval
  <1>4. h[n].kids \in Injection(DOMAIN h[n].kids, Nodes)
    <2>1. \A j, k \in DOMAIN h[n].kids : h[n].kids[j] = h[n].kids[k] => j = k
      BY OneOwner
    <2> QED
      BY <1>1, <2>1, Fun_IsInj
  <1> QED
    BY <1>2, <1>3, <1>4, NodesAssumption, FS_Injection

LEMMA NewKids ==
    ASSUME NEW kids \in Maps, NEW key \in Keys, NEW c \in Nodes
    PROVE  [k \in DOMAIN kids \cup {key} |-> IF k = key THEN c ELSE kids[k]] \in Maps
  <1>1. PICK K \in SUBSET Keys : kids \in [K -> Nodes]
    BY DEF Maps
  <1>2. [k \in K \cup {key} |-> IF k = key THEN c ELSE kids[k]] \in [K \cup {key} -> Nodes]
    BY <1>1
  <1>3. K \cup {key} \in SUBSET Keys /\ DOMAIN kids = K
    BY <1>1
  <1> QED
    BY <1>2, <1>3 DEF Maps

(* operator[], of a name that is not there *)
LEMMA AdoptHeap ==
    ASSUME NEW h, Heap(h), NEW n \in LiveIn(h), h[n].type = "object",
           NEW c \in Nodes, h[c] = None,
           NEW name \in Names, name \notin DOMAIN h[n].kids
    PROVE  LET g == Adopt(h, n, name, c, "undefined")
           IN  /\ Heap(g)
               /\ LiveIn(g) = LiveIn(h) \cup {c}
               /\ g[n].type = "object" /\ g[n].text = h[n].text
               /\ g[c] = New("undefined", Append(h[n].path, name))
               /\ \A m \in LiveIn(h) \ {n} : g[m] = h[m]
               /\ \A m \in LiveIn(h) : g[m].path = h[m].path
  <1> DEFINE K == [k \in DOMAIN h[n].kids \cup {name} |->
                      IF k = name THEN c ELSE h[n].kids[k]]
             v == [h[n] EXCEPT !.kids = K]
             g == Adopt(h, n, name, c, "undefined")
  <1>1. /\ n \in Nodes /\ n # c /\ h[n] \in Objects /\ name \in Keys
        /\ h \in [Nodes -> Objects \cup {None}]
    BY LiveType DEF Heap, LiveIn, Keys
  <1>2. K \in Maps
    <2>1. h[n].kids \in Maps
      BY <1>1 DEF Objects
    <2> QED
      BY <1>1, <2>1, NewKids
  <1>3. DOMAIN K = DOMAIN h[n].kids \cup {name}
    OBVIOUS
  <1>4. /\ g = [m \in Nodes |-> g[m]]
        /\ g[n] = [h[n] EXCEPT !.kids = K]
        /\ g[c] = New("undefined", Append(h[n].path, name))
        /\ \A m \in Nodes \ {n, c} : g[m] = h[m]
    BY <1>1 DEF Adopt
  <1>5. K = [k \in DOMAIN h[n].kids \cup {name} |->
                      IF k = name THEN c ELSE h[n].kids[k]]
    OBVIOUS
  <1> HIDE DEF K, g
  <1>6. /\ v \in Objects /\ v.type = "object" /\ v.text = h[n].text
        /\ v.path = h[n].path /\ v.kids = K
    BY <1>1, <1>2 DEF Objects
  <1>7. Shaped(v)
    <2>1. DOMAIN K \subseteq Names
      BY <1>3 DEF Heap, Shaped
    <2> QED
      BY <1>6, <2>1 DEF Shaped
  <1>8. g[n] = v
    BY <1>4
  <1> HIDE DEF v
  <1>9. "undefined" \in Types
    BY DEF Types
  <1>10. /\ Heap(g)
         /\ LiveIn(g) = LiveIn(h) \cup {c}
         /\ \A m \in LiveIn(h) : g[m].path = h[m].path
    BY <1>1, <1>4, <1>5, <1>6, <1>7, <1>8, <1>9, GrownHeap
  <1>11. \A m \in LiveIn(h) \ {n} : g[m] = h[m]
    BY <1>4 DEF LiveIn
  <1> QED
    BY <1>4, <1>6, <1>8, <1>10, <1>11 DEF g

(* append *)
Pushed(h, n, c, type) ==
    [Adopt(h, n, Cardinality(DOMAIN h[n].kids), c, type) EXCEPT ![n].order = Append(@, c)]

LEMMA PushHeap ==
    ASSUME NEW h, Heap(h), NEW n \in LiveIn(h), h[n].type = "array",
           NEW c \in Nodes, h[c] = None, NEW type \in Types
    PROVE  LET i == Cardinality(DOMAIN h[n].kids)
               g == Pushed(h, n, c, type)
           IN  /\ Heap(g)
               /\ LiveIn(g) = LiveIn(h) \cup {c}
               /\ g[n].type = "array" /\ g[n].text = h[n].text
               /\ g[c] = New(type, Append(h[n].path, i))
               /\ \A m \in LiveIn(h) \ {n} : g[m] = h[m]
               /\ \A m \in LiveIn(h) : g[m].path = h[m].path
  <1> DEFINE i == Cardinality(DOMAIN h[n].kids)
             g == Pushed(h, n, c, type)
             K == [k \in DOMAIN h[n].kids \cup {i} |->
                      IF k = i THEN c ELSE h[n].kids[k]]
             v == [h[n] EXCEPT !.kids = K, !.order = Append(@, c)]
             f == Adopt(h, n, i, c, type)
  <1>1. /\ n \in Nodes /\ n # c /\ h[n] \in Objects
        /\ h \in [Nodes -> Objects \cup {None}]
        /\ h[n].order \in Seq(Nodes)
    BY LiveType, ObjectType DEF Heap, LiveIn
  <1>2. i = Len(h[n].order) /\ i \in Nat /\ i <= Cardinality(Nodes)
    BY ArraySize
  <1>3. i \in Keys
    <2>1. Cardinality(Nodes) \in Nat
      BY NodesAssumption, FS_CardinalityType
    <2> QED
      BY <1>2, <2>1 DEF Keys
  <1>4. DOMAIN h[n].kids = 0 .. i - 1 /\ i \notin DOMAIN h[n].kids
        /\ \A k \in DOMAIN h[n].kids : h[n].kids[k] = h[n].order[k + 1]
    BY <1>2 DEF Heap, Shaped
  <1> HIDE DEF i, g
  <1>5. K \in Maps
    <2>1. h[n].kids \in Maps
      BY <1>1 DEF Objects
    <2> QED
      BY <1>1, <1>3, <2>1, NewKids
  <1>6. K = [k \in DOMAIN h[n].kids \cup {i} |->
                IF k = i THEN c ELSE h[n].kids[k]]
    OBVIOUS
  <1>7. /\ f = [m \in Nodes |-> f[m]]
        /\ f[n] = [h[n] EXCEPT !.kids = K]
        /\ f[c] = New(type, Append(h[n].path, i))
        /\ \A m \in Nodes \ {n, c} : f[m] = h[m]
    BY <1>1 DEF Adopt
  <1> HIDE DEF K, f
  <1>8. /\ g = [m \in Nodes |-> g[m]]
        /\ g[c] = New(type, Append(h[n].path, i))
        /\ \A m \in Nodes \ {n, c} : g[m] = h[m]
    <2>1. g = [f EXCEPT ![n].order = Append(@, c)]
      BY DEF f, g, i, Pushed
    <2> QED
      BY <1>1, <1>7, <2>1
  <1>9. g[n] = v
    <2>1. g = [f EXCEPT ![n].order = Append(@, c)]
      BY DEF f, g, i, Pushed
    <2> QED
      BY <1>1, <1>7, <2>1 DEF Objects
  <1>10. Append(h[n].order, c) \in Seq(Nodes)
    BY <1>1, AppendProperties
  <1>11. /\ v \in Objects /\ v.type = "array" /\ v.text = h[n].text
         /\ v.path = h[n].path /\ v.kids = K /\ v.order = Append(h[n].order, c)
    BY <1>1, <1>5, <1>10 DEF Objects
  <1> HIDE DEF v
  <1>12. Shaped(v)
    <2>1. Len(Append(h[n].order, c)) = i + 1
      BY <1>1, <1>2, AppendProperties
    <2>2. DOMAIN K = 0 .. i
      BY <1>2, <1>4, <1>6
    <2>3. \A k \in DOMAIN K : K[k] = Append(h[n].order, c)[k + 1]
      <3> SUFFICES ASSUME NEW k \in 0 .. i PROVE K[k] = Append(h[n].order, c)[k + 1]
        BY <2>2
      <3>1. CASE k = i
        BY <1>1, <1>2, <1>6, <3>1, AppendProperties
      <3>2. CASE k # i
        <4>1. k \in DOMAIN h[n].kids /\ K[k] = h[n].order[k + 1]
          BY <1>2, <1>4, <1>6, <3>2
        <4>2. k + 1 \in 1 .. Len(h[n].order)
          BY <1>2, <3>2
        <4> QED
          BY <1>1, <4>1, <4>2, AppendProperties
      <3> QED
        BY <3>1, <3>2
    <2>4. DOMAIN v.kids = 0 .. Len(v.order) - 1
      BY <1>2, <1>11, <2>1, <2>2
    <2>5. \A j \in DOMAIN v.kids : v.kids[j] = v.order[j + 1]
      BY <1>11, <2>3
    <2>6. v.type = "array"
      BY <1>11
    <2> QED
      BY <2>4, <2>5, <2>6 DEF Shaped
  <1>13. /\ Heap(g)
         /\ LiveIn(g) = LiveIn(h) \cup {c}
         /\ \A m \in LiveIn(h) : g[m].path = h[m].path
    <2>1. v.kids = [k \in DOMAIN h[n].kids \cup {i} |-> IF k = i THEN c ELSE h[n].kids[k]]
      BY <1>6, <1>11
    <2>2. v \in Objects /\ Shaped(v) /\ v.path = h[n].path /\ i \notin DOMAIN h[n].kids
      BY <1>4, <1>11, <1>12
    <2> QED
      BY <1>3, <1>8, <1>9, <2>1, <2>2, GrownHeap
  <1>14. \A m \in LiveIn(h) \ {n} : g[m] = h[m]
    BY <1>8 DEF LiveIn
  <1>15. /\ g[n].type = "array" /\ g[n].text = h[n].text
    BY <1>9, <1>11
  <1> QED
    BY <1>8, <1>13, <1>14, <1>15 DEF i, g

(* What an operation on n, which becomes a value of the given type, may do to
   the heap: delete what is below n, and only if the type is another. *)
Outcome(g, n, type) ==
    /\ Heap(g)
    /\ g[n] # None /\ g[n].type = type /\ g[n].path = node[n].path
    /\ \A m \in Nodes : node[m] # None /\ g[m] = None =>
          type # node[n].type /\ m \in Gone(node, n)

LEMMA ResetOutcome ==
    ASSUME Heap(node), NEW n \in Live, NEW type \in Types
    PROVE  /\ Outcome(Reset(node, n, type), n, type)
           /\ n \in LiveIn(Reset(node, n, type))
           /\ \A c \in Free : Reset(node, n, type)[c] = None
  <1> DEFINE h == Reset(node, n, type)
  <1>1. n \in LiveIn(node)
    BY DEF Live, LiveIn
  <1>2. /\ Heap(h) /\ n \in LiveIn(h) /\ LiveIn(h) \subseteq LiveIn(node)
        /\ h[n].type = type /\ h[n].path = node[n].path
    BY <1>1, ResetHeap
  <1>3. type # node[n].type => LiveIn(h) = LiveIn(node) \ Gone(node, n)
    BY <1>1, ResetValue
  <1>4. type = node[n].type => h = node
    BY DEF Reset
  <1> HIDE DEF h
  <1>5. \A c \in Free : h[c] = None
    BY <1>2 DEF Free, LiveIn
  <1>6. \A m \in Nodes : node[m] # None /\ h[m] = None =>
            type # node[n].type /\ m \in Gone(node, n)
    BY <1>3, <1>4 DEF LiveIn
  <1> QED
    BY <1>2, <1>5, <1>6 DEF Outcome, LiveIn, h

LEMMA FreeObject ==
    ASSUME Free # {}
    PROVE  Allocated \in Free
  BY DEF Allocated

LEMMA SetTextOutcome ==
    ASSUME Heap(node), NEW n \in Live, NEW type \in Types, NEW text \in Texts,
           SetText(n, text, type)
    PROVE  Outcome(node', n, type)
  <1> DEFINE h == Reset(node, n, type)
  <1>1. Outcome(h, n, type) /\ n \in LiveIn(h)
    BY ResetOutcome
  <1>2. node' = [h EXCEPT ![n].text = text]
    BY DEF SetText
  <1> HIDE DEF h
  <1>3. Heap(node') /\ LiveIn(node') = LiveIn(h)
    BY <1>1, <1>2, TextHeap DEF Outcome
  <1>4. node'[n].type = h[n].type /\ node'[n].path = h[n].path
    <2>1. h \in [Nodes -> Objects \cup {None}] /\ h[n] \in Objects /\ n \in Nodes
      BY <1>1, LiveType DEF Outcome, Heap
    <2> QED
      BY <1>2, <2>1 DEF Objects
  <1>5. \A m \in Nodes : h[m] = None <=> node'[m] = None
    BY <1>3 DEF LiveIn
  <1>6. n \in Nodes
    BY DEF Live
  <1> QED
    BY <1>1, <1>3, <1>4, <1>5, <1>6 DEF Outcome

LEMMA ItemOutcome ==
    ASSUME Heap(node), NEW n \in Live, NEW name \in Names, Item(n, name)
    PROVE  Outcome(node', n, "object")
  <1> DEFINE h == Reset(node, n, "object")
             c == Allocated
  <1>1. "object" \in Types
    BY DEF Types
  <1>2. /\ Outcome(h, n, "object") /\ n \in LiveIn(h)
        /\ \A d \in Free : h[d] = None
    BY <1>1, ResetOutcome
  <1>3. IF name \in DOMAIN h[n].kids THEN node' = h
        ELSE Free # {} /\ node' = Adopt(h, n, name, c, "undefined")
    BY DEF Item
  <1>4. Free # {} => c \in Free
    BY FreeObject
  <1> HIDE DEF h, c
  <1>5. CASE name \in DOMAIN h[n].kids
    BY <1>2, <1>3, <1>5
  <1>6. CASE name \notin DOMAIN h[n].kids
    <2>1. c \in Nodes /\ h[c] = None
      BY <1>2, <1>3, <1>4, <1>6 DEF Free
    <2>2. /\ Heap(node')
          /\ LiveIn(node') = LiveIn(h) \cup {c}
          /\ node'[n].type = "object"
          /\ node'[n].path = h[n].path
      BY <1>2, <1>3, <1>6, <2>1, AdoptHeap DEF Outcome
    <2>3. \A m \in Nodes : node'[m] = None => h[m] = None
      BY <2>2 DEF LiveIn
    <2>4. node'[n] # None
      BY <1>2, <2>2 DEF LiveIn
    <2> QED
      BY <1>2, <2>2, <2>3, <2>4 DEF Outcome
  <1> QED
    BY <1>5, <1>6

LEMMA PushOutcome ==
    ASSUME Heap(node), NEW n \in Live, NEW type \in Types, Push(n, type)
    PROVE  Outcome(node', n, "array")
  <1> DEFINE h == Reset(node, n, "array")
             c == Allocated
  <1>1. "array" \in Types
    BY DEF Types
  <1>2. /\ Outcome(h, n, "array") /\ n \in LiveIn(h)
        /\ \A d \in Free : h[d] = None
    BY <1>1, ResetOutcome
  <1>3. /\ Free # {}
        /\ node' = Pushed(h, n, c, type)
    BY DEF Push, Pushed
  <1>4. c \in Free
    BY <1>3, FreeObject
  <1> HIDE DEF h, c
  <1>5. c \in Nodes /\ h[c] = None
    BY <1>2, <1>4 DEF Free
  <1>6. /\ Heap(node')
        /\ LiveIn(node') = LiveIn(h) \cup {c}
        /\ node'[n].type = "array"
        /\ node'[n].path = h[n].path
    <2>1. Heap(h) /\ h[n].type = "array"
      BY <1>2 DEF Outcome
    <2> QED
      BY <1>2, <1>3, <1>5, <2>1, PushHeap
  <1>7. \A m \in Nodes : node'[m] = None => h[m] = None
    BY <1>6 DEF LiveIn
  <1>8. node'[n] # None
    BY <1>2, <1>6 DEF LiveIn
  <1> QED
    BY <1>2, <1>6, <1>7, <1>8 DEF Outcome

LEMMA NextOutcome ==
    ASSUME Heap(node), Next
    PROVE  \E n \in Live, type \in Types : Outcome(node', n, type)
  <1>1. PICK n \in Live, type \in Types :
            \/ Retype(n, type)
            \/ \E text \in Texts : SetText(n, text, type)
            \/ \E name \in Names : Item(n, name)
            \/ Push(n, type)
    BY DEF Next, Types
  <1>2. CASE Retype(n, type)
    <2>1. Outcome(node', n, type)
      BY <1>2, ResetOutcome DEF Retype
    <2> QED
      BY <2>1
  <1>3. CASE \E text \in Texts : SetText(n, text, type)
    BY <1>3, SetTextOutcome
  <1>4. CASE \E name \in Names : Item(n, name)
    <2>1. Outcome(node', n, "object")
      BY <1>4, ItemOutcome
    <2>2. "object" \in Types
      BY DEF Types
    <2> QED
      BY <2>1, <2>2
  <1>5. CASE Push(n, type)
    <2>1. Outcome(node', n, "array")
      BY <1>5, PushOutcome
    <2>2. "array" \in Types
      BY DEF Types
    <2> QED
      BY <2>1, <2>2
  <1> QED
    BY <1>1, <1>2, <1>3, <1>4, <1>5

LEMMA InitHeap ==
    ASSUME Init
    PROVE  Heap(node)
  <1>1. <<>> \in Seq(Keys) /\ "undefined" \in Types
    BY DEF Types
  <1>2. DOMAIN node = Nodes /\ node[Root] = New("undefined", <<>>)
    BY RootAssumption DEF Init
  <1>3. /\ node[Root] \in Objects /\ node[Root] # None /\ node[Root].path = <<>>
        /\ DOMAIN node[Root].kids = {} /\ Shaped(node[Root])
    <2>1. /\ New("undefined", <<>>) \in Objects /\ New("undefined", <<>>).path = <<>>
          /\ DOMAIN New("undefined", <<>>).kids = {} /\ Shaped(New("undefined", <<>>))
      BY <1>1, NewType
    <2> QED
      BY <1>2, <2>1, NoneAssumption
  <1>4. LiveIn(node) = {Root}
    BY <1>3, RootAssumption DEF Init, LiveIn
  <1>5. node \in [Nodes -> Objects \cup {None}]
    BY <1>3, RootAssumption DEF Init
  <1> QED
    BY <1>3, <1>4, <1>5 DEF Heap, Rooted, KidsBelow, PathsDiffer, Owned

(* What is on the heap is a tree in every state. *)
HeapOK == Heap(node)

THEOREM HeapInvariant == Spec => []HeapOK
  <1>1. Init => HeapOK
    BY InitHeap DEF HeapOK
  <1>2. HeapOK /\ [Next]_node => HeapOK'
    <2>1. ASSUME Heap(node), Next PROVE Heap(node')
      BY <2>1, NextOutcome DEF Outcome
    <2>2. ASSUME Heap(node), UNCHANGED node PROVE Heap(node')
      BY <2>2
    <2> QED
      BY <2>1, <2>2 DEF HeapOK
  <1> QED
    BY <1>1, <1>2, PTL DEF Spec

-----------------------------------------------------------------------------
(* What follows *)

LEMMA LiveInNode == Live = LiveIn(node)
  BY DEF Live, LiveIn

(* All objects are well formed, and the keys of their children are what their
   type says: names, or numbers no larger than the heap. *)
THEOREM ObjectsWellFormed == Spec => []TypeOK
  <1>1. HeapOK => TypeOK
    <2> SUFFICES ASSUME Heap(node) PROVE TypeOK
      BY DEF HeapOK
    <2>1. ASSUME NEW n \in Live
          PROVE  DOMAIN node[n].kids \subseteq IF node[n].type = "object" THEN Names
                                               ELSE 0 .. Cardinality(Nodes)
      <3>1. n \in LiveIn(node) /\ node[n].type \in Types /\ Shaped(node[n])
        BY LiveInNode, LiveType, ObjectType DEF Heap
      <3>2. CASE node[n].type = "array"
        <4>1. /\ Len(node[n].order) \in Nat /\ Len(node[n].order) <= Cardinality(Nodes)
              /\ DOMAIN node[n].kids = 0 .. Len(node[n].order) - 1
          BY <3>1, <3>2, ArraySize DEF Shaped
        <4>2. Cardinality(Nodes) \in Nat
          BY NodesAssumption, FS_CardinalityType
        <4> QED
          BY <3>2, <4>1, <4>2
      <3>3. CASE node[n].type # "array"
        BY <3>1, <3>3 DEF Shaped, Types
      <3> QED
        BY <3>2, <3>3
    <2> QED
      BY <2>1 DEF TypeOK, Heap
  <1> QED
    BY <1>1, HeapInvariant, PTL

(* Whatever the sequence of operations, every allocated object but the root
   has exactly one owner, and nothing points to what was deleted. *)
THEOREM EveryObjectOwnedOnce == Spec => []OwnedOnce
  <1>1. HeapOK => OwnedOnce
    <2> SUFFICES ASSUME Heap(node), NEW c \in Nodes
                 PROVE  LET owners == {o \in UNION {{n} \X DOMAIN node[n].kids : n \in Live} :
                                           node[o[1]].kids[o[2]] = c}
                        IN Cardinality(owners) = IF c = Root \/ node[c] = None THEN 0 ELSE 1
      BY DEF HeapOK, OwnedOnce
    <2> DEFINE owners == {o \in UNION {{n} \X DOMAIN node[n].kids : n \in Live} :
                              node[o[1]].kids[o[2]] = c}
    <2>1. ASSUME NEW o \in owners
          PROVE  /\ o[1] \in LiveIn(node) /\ o[2] \in DOMAIN node[o[1]].kids
                 /\ node[o[1]].kids[o[2]] = c /\ o = <<o[1], o[2]>>
      BY <2>1, LiveInNode
    <2>2. CASE c = Root \/ node[c] = None
      <3>1. ASSUME NEW o \in owners PROVE FALSE
        <4>1. node[c] # None /\ node[c].path = Append(node[o[1]].path, o[2])
          BY <2>1 DEF Heap, KidsBelow
        <4>2. node[o[1]].path \in Seq(Keys) /\ o[2] \in Keys
          BY <2>1, LiveType
        <4>3. Append(node[o[1]].path, o[2]) # <<>>
          BY <4>2, AppendProperties
        <4>4. node[c].path # <<>>
          BY <4>1, <4>3
        <4> QED
          BY <2>2, <4>1, <4>4 DEF Heap, Rooted
      <3>2. owners = {}
        BY <3>1
      <3> HIDE DEF owners
      <3>3. Cardinality(owners) = 0
        BY <3>2, FS_EmptySet
      <3> QED
        BY <2>2, <3>3 DEF owners
    <2>3. CASE c # Root /\ node[c] # None
      <3>1. PICK n \in LiveIn(node) : \E k \in DOMAIN node[n].kids : node[n].kids[k] = c
        BY <2>3 DEF Heap, Owned, LiveIn
      <3>2. PICK k \in DOMAIN node[n].kids : node[n].kids[k] = c
        BY <3>1
      <3>3. <<n, k>> \in owners
        BY <3>2, LiveInNode
      <3>4. ASSUME NEW o \in owners PROVE o = <<n, k>>
        <4>1. o[1] = n /\ o[2] = k
          BY <2>1, <3>2, OneOwner
        <4> QED
          BY <2>1, <4>1
      <3>5. owners = {<<n, k>>}
        BY <3>3, <3>4
      <3> HIDE DEF owners
      <3>6. Cardinality(owners) = 1
        BY <3>5, FS_Singleton
      <3> QED
        BY <2>3, <3>6 DEF owners
    <2> QED
      BY <2>2, <2>3
  <1> QED
    BY <1>1, HeapInvariant, PTL

(* What a reference names is deleted only by a change of the type of a value
   above it. *)
THEOREM OnlyAChangeAboveDeletes == Spec => ReferencesStayGood
  <1> DEFINE Good == \A n \in Nodes :
          node[n] # None /\ node'[n] = None =>
              \E a \in Live :
                  /\ a # n
                  /\ IsPrefix(node[a].path, node[n].path)
                  /\ node'[a] # None
                  /\ node'[a].type # node[a].type
  <1>1. ASSUME HeapOK, Next
        PROVE  Good
    <2> SUFFICES ASSUME NEW n \in Nodes, node[n] # None, node'[n] = None
                 PROVE  \E a \in Live :
                            /\ a # n
                            /\ IsPrefix(node[a].path, node[n].path)
                            /\ node'[a] # None
                            /\ node'[a].type # node[a].type
      OBVIOUS
    <2>1. PICK a \in Live, type \in Types : Outcome(node', a, type)
      BY <1>1, NextOutcome DEF HeapOK
    <2>2. /\ node'[a] # None /\ node'[a].type # node[a].type
          /\ n \in Gone(node, a)
      BY <2>1 DEF Outcome
    <2>3. IsPrefix(node[a].path, node[n].path)
      BY <1>1, <2>2, GoneBelow, LiveInNode DEF HeapOK
    <2> QED
      BY <2>2, <2>3
  <1>2. HeapOK /\ [Next]_node => [Good]_node
    BY <1>1
  <1> QED
    BY <1>2, HeapInvariant, PTL DEF Spec, ReferencesStayGood

-----------------------------------------------------------------------------
(* The heap is a document *)

LEMMA LeastNat ==
    ASSUME NEW T \in SUBSET Nat, T # {}
    PROVE  \E x \in T : \A y \in T : x <= y
  <1> DEFINE R == OpToRel(<, Nat)
  <1>1. PICK x \in T : \A y \in T : <<y, x>> \notin R
    BY NatLessThanWellFounded, WFMin
  <1>2. ASSUME NEW y \in T PROVE x <= y
    <2>1. x \in Nat /\ y \in Nat
      OBVIOUS
    <2>2. <<y, x>> \notin R
      BY <1>1
    <2>3. ~ (y < x)
      BY <2>1, <2>2 DEF OpToRel
    <2> QED
      BY <2>1, <2>3
  <1> QED
    BY <1>2

LEMMA PrefixElts ==
    ASSUME NEW p \in Seq(Keys), NEW q \in Seq(Keys)
    PROVE  /\ IsPrefix(p, q) <=> Len(p) <= Len(q) /\ \A i \in 1 .. Len(p) : p[i] = q[i]
           /\ IsPrefix(p, q) <=> Len(p) <= Len(q) /\ SubSeq(q, 1, Len(p)) = p
  <1>1. Len(p) \in Nat /\ Len(q) \in Nat /\ SubSeq(p, 1, Len(p)) = p
    BY LenProperties, SubSeqFull
  <1>2. ASSUME Len(p) <= Len(q)
        PROVE  SubSeq(q, 1, Len(p)) = p <=> \A i \in 1 .. Len(p) : p[i] = q[i]
    <2> DEFINE s == SubSeq(q, 1, Len(p))
    <2>1. \A i \in 1 .. Len(p) : q[i] \in Keys
      BY <1>1, <1>2, ElementOfSeq
    <2>2. /\ s \in Seq(Keys) /\ Len(s) = Len(p)
          /\ \A i \in 1 .. Len(p) : s[i] = q[i]
      BY <1>1, <2>1, SubSeqProperties
    <2> HIDE DEF s
    <2>3. (\A i \in 1 .. Len(p) : p[i] = q[i]) => s = p
      BY <2>2, SeqEqual
    <2>4. s = p => \A i \in 1 .. Len(p) : p[i] = q[i]
      BY <2>2
    <2> QED
      BY <2>3, <2>4 DEF s
  <1> QED
    BY <1>1, <1>2 DEF IsPrefix

LEMMA PrefixOfAppend ==
    ASSUME NEW p \in Seq(Keys), NEW q \in Seq(Keys), NEW k \in Keys
    PROVE  /\ Len(p) = Len(q) /\ IsPrefix(p, q) => p = q
           /\ Len(p) <= Len(q) /\ IsPrefix(p, Append(q, k)) => IsPrefix(p, q)
  <1>1. Len(p) \in Nat /\ Len(q) \in Nat
    BY LenProperties
  <1>2. Append(q, k) \in Seq(Keys) /\ Len(Append(q, k)) = Len(q) + 1
        /\ \A i \in 1 .. Len(q) : Append(q, k)[i] = q[i]
    BY AppendProperties
  <1>3. IsPrefix(p, q) <=> Len(p) <= Len(q) /\ \A i \in 1 .. Len(p) : p[i] = q[i]
    BY PrefixElts
  <1> DEFINE r == Append(q, k)
  <1>4. r \in Seq(Keys) /\ Len(r) = Len(q) + 1 /\ \A i \in 1 .. Len(q) : r[i] = q[i]
    BY <1>2
  <1> HIDE DEF r
  <1>5. IsPrefix(p, r) <=> Len(p) <= Len(r) /\ \A i \in 1 .. Len(p) : p[i] = r[i]
    BY <1>4, PrefixElts
  <1>6. Len(p) = Len(q) /\ IsPrefix(p, q) => p = q
    BY <1>3, SeqEqual
  <1>7. Len(p) <= Len(q) /\ IsPrefix(p, r) => IsPrefix(p, q)
    BY <1>1, <1>3, <1>4, <1>5
  <1> QED
    BY <1>6, <1>7 DEF r

(* All that is below is deleted. *)
LEMMA BelowGone ==
    ASSUME NEW h, Heap(h), NEW n \in LiveIn(h), NEW m \in LiveIn(h),
           IsPrefix(h[n].path, h[m].path), Len(h[n].path) < Len(h[m].path)
    PROVE  m \in Gone(h, n)
  <1> DEFINE X == {c \in LiveIn(h) : /\ IsPrefix(h[n].path, h[c].path)
                                     /\ Len(h[n].path) < Len(h[c].path)
                                     /\ c \notin Gone(h, n)}
             L == {Len(h[c].path) : c \in X}
  <1> SUFFICES ASSUME X # {} PROVE FALSE
    OBVIOUS
  <1>1. L \in SUBSET Nat /\ L # {}
    <2>1. \A c \in X : Len(h[c].path) \in Nat
      BY LiveType
    <2> QED
      BY <2>1
  <1>2. PICK least \in L : \A y \in L : least <= y
    <2> HIDE DEF L
    <2> QED
      BY <1>1, LeastNat
  <1>3. PICK c \in X : least = Len(h[c].path)
    OBVIOUS
  <1>4. /\ h[n].path \in Seq(Keys) /\ Len(h[n].path) \in Nat
        /\ h[c].path \in Seq(Keys) /\ Len(h[c].path) \in Nat
        /\ n \in Nodes /\ c \in Nodes
    BY LiveType
  <1>5. c # Root
    <2>1. Len(<<>>) = 0
      BY EmptySeq
    <2> QED
      BY <1>4, <2>1 DEF Heap, Rooted
  <1>6. PICK a \in LiveIn(h) : \E j \in DOMAIN h[a].kids : h[a].kids[j] = c
    BY <1>5 DEF Heap, Owned
  <1>7. PICK j \in DOMAIN h[a].kids : h[a].kids[j] = c
    BY <1>6
  <1>8. /\ h[c].path = Append(h[a].path, j) /\ j \in Keys
        /\ h[a].path \in Seq(Keys) /\ Len(h[a].path) \in Nat
        /\ c \in Children(h, a) /\ h[a] # None
    <2>1. h[c].path = Append(h[a].path, j)
      BY <1>7 DEF Heap, KidsBelow
    <2> QED
      BY <1>7, <2>1, LiveType DEF LiveIn
  <1>9. Len(h[c].path) = Len(h[a].path) + 1
    BY <1>8, AppendProperties
  <1>10. IsPrefix(h[n].path, h[a].path)
    <2>1. Len(h[n].path) <= Len(h[a].path)
      BY <1>4, <1>8, <1>9
    <2>2. IsPrefix(h[n].path, Append(h[a].path, j))
      BY <1>8
    <2> QED
      BY <1>4, <1>8, <2>1, <2>2, PrefixOfAppend
  <1>11. CASE Len(h[a].path) = Len(h[n].path)
    <2>1. h[a].path = h[n].path
      BY <1>4, <1>8, <1>10, <1>11, PrefixOfAppend
    <2>2. a = n
      BY <2>1 DEF Heap, PathsDiffer
    <2> QED
      BY <1>8, <2>2, GoneHas
  <1>12. CASE Len(h[a].path) # Len(h[n].path)
    <2>1. Len(h[n].path) < Len(h[a].path)
      BY <1>4, <1>8, <1>9, <1>12
    <2>2. a \notin X
      BY <1>2, <1>3, <1>8, <1>9
    <2>3. a \in Gone(h, n)
      BY <1>10, <2>1, <2>2
    <2> QED
      BY <1>8, <2>3, GoneHas
  <1> QED
    BY <1>11, <1>12

(* The document a heap is *)
DocOf(h) ==
    [p \in {h[n].path : n \in LiveIn(h)} |->
        LET n == CHOOSE n \in LiveIn(h) : h[n].path = p
        IN [type |-> h[n].type, text |-> h[n].text]]

Paths(h) == {h[n].path : n \in LiveIn(h)}

LEMMA DocDomain ==
    ASSUME NEW h
    PROVE  DocOf(h) = [p \in Paths(h) |-> DocOf(h)[p]]
  BY DEF DocOf, Paths

LEMMA DocValue ==
    ASSUME NEW h, Heap(h), NEW n \in LiveIn(h)
    PROVE  /\ h[n].path \in Paths(h)
           /\ DocOf(h)[h[n].path] = [type |-> h[n].type, text |-> h[n].text]
           /\ DocOf(h)[h[n].path].type = h[n].type
  <1>1. (CHOOSE m \in LiveIn(h) : h[m].path = h[n].path) = n
    BY DEF Heap, PathsDiffer
  <1>2. DocOf(h)[h[n].path] = [type |-> h[n].type, text |-> h[n].text]
    BY <1>1 DEF DocOf
  <1>3. DocOf(h)[h[n].path].type = h[n].type
    BY <1>2
  <1>4. h[n].path \in Paths(h)
    BY DEF Paths
  <1> QED
    BY <1>2, <1>3, <1>4

(* Two documents with the same paths and values are one. *)
LEMMA DocEqual ==
    ASSUME NEW h, Heap(h), NEW d, d = [p \in Paths(h) |-> d[p]],
           \A n \in LiveIn(h) : d[h[n].path] = [type |-> h[n].type, text |-> h[n].text]
    PROVE  DocOf(h) = d
  <1>1. ASSUME NEW p \in Paths(h) PROVE DocOf(h)[p] = d[p]
    <2>1. PICK n \in LiveIn(h) : p = h[n].path
      BY DEF Paths
    <2> QED
      BY <2>1, DocValue
  <1> QED
    BY <1>1, DocDomain

LEMMA DocBelow ==
    ASSUME NEW h, Heap(h), NEW n \in LiveIn(h)
    PROVE  Doc!Below(h[n].path, DocOf(h)) = {h[m].path : m \in Gone(h, n)}
  <1> DEFINE p == h[n].path
             Under(q) == Len(q) > Len(p) /\ SubSeq(q, 1, Len(p)) = p
  <1>1. ASSUME NEW m \in LiveIn(h)
        PROVE  m \in Gone(h, n) <=> Under(h[m].path)
    <2>1. /\ p \in Seq(Keys) /\ h[m].path \in Seq(Keys)
          /\ Len(p) \in Nat /\ Len(h[m].path) \in Nat
      BY LiveType
    <2>2. IsPrefix(p, h[m].path) <=>
              Len(p) <= Len(h[m].path) /\ SubSeq(h[m].path, 1, Len(p)) = p
      BY <2>1, PrefixElts
    <2>3. m \in Gone(h, n) <=> IsPrefix(p, h[m].path) /\ Len(p) < Len(h[m].path)
      BY GoneBelow, BelowGone
    <2> QED
      BY <2>1, <2>2, <2>3
  <1>2. Gone(h, n) \subseteq LiveIn(h)
    BY GoneBelow
  <1>3. Doc!Below(p, DocOf(h)) = {q \in {h[m].path : m \in LiveIn(h)} : Under(q)}
    BY DocDomain DEF Doc!Below, Paths
  <1> HIDE DEF Under, p
  <1> QED
    BY <1>1, <1>2, <1>3 DEF p

LEMMA DocRetyped ==
    ASSUME NEW h, Heap(h), NEW n \in LiveIn(h), NEW type \in Types
    PROVE  DocOf(Reset(h, n, type)) = Doc!Retyped(DocOf(h), h[n].path, type)
  <1> DEFINE p == h[n].path
             g == Reset(h, n, type)
             d == Doc!Retyped(DocOf(h), p, type)
  <1>1. DocOf(h)[p].type = h[n].type
    BY DocValue
  <1>2. CASE h[n].type = type
    BY <1>1, <1>2 DEF Reset, Doc!Retyped
  <1>3. CASE h[n].type # type
    <2>1. Heap(g)
      BY ResetHeap
    <2>2. /\ g[n] = New(type, p)
          /\ LiveIn(g) = LiveIn(h) \ Gone(h, n)
          /\ n \in LiveIn(g)
          /\ \A m \in LiveIn(g) \ {n} : g[m] = h[m]
          /\ \A m \in LiveIn(g) : g[m].path = h[m].path
      BY <1>3, ResetValue
    <2>3. d = [q \in DOMAIN DocOf(h) \ Doc!Below(p, DocOf(h)) |->
                  IF q = p THEN Doc!Fresh(type) ELSE DocOf(h)[q]]
      BY <1>1, <1>3 DEF Doc!Retyped
    <2> HIDE DEF g, d
    <2>4. d = [q \in Paths(g) |-> d[q]]
      <3>1. DOMAIN DocOf(h) = Paths(h)
        BY DocDomain
      <3>2. Gone(h, n) \subseteq LiveIn(h)
        BY GoneBelow
      <3>3. Paths(h) \ Doc!Below(p, DocOf(h)) = Paths(g)
        <4>1. Paths(h) \ Doc!Below(p, DocOf(h)) = {h[m].path : m \in LiveIn(h) \ Gone(h, n)}
          BY <3>2, DocBelow DEF Paths, Heap, PathsDiffer
        <4> QED
          BY <2>2, <4>1 DEF Paths
      <3> QED
        BY <2>3, <3>1, <3>3
    <2>5. ASSUME NEW m \in LiveIn(g)
          PROVE  d[g[m].path] = [type |-> g[m].type, text |-> g[m].text]
      <3>1. g[m].path = h[m].path /\ g[m].path \in DOMAIN d /\ m \in LiveIn(h)
        BY <2>2, <2>4 DEF Paths
      <3>2. CASE m = n
        <4>1. g[m].type = type /\ g[m].text = ""
          <5>1. New(type, p).type = type /\ New(type, p).text = ""
            BY DEF New
          <5> QED
            BY <2>2, <3>2, <5>1
        <4>2. d[g[m].path] = Doc!Fresh(type)
          BY <2>3, <3>1, <3>2
        <4> QED
          BY <4>1, <4>2 DEF Doc!Fresh
      <3>3. CASE m # n
        <4>1. h[m].path # p
          BY <3>1, <3>3 DEF Heap, PathsDiffer
        <4>2. d[g[m].path] = DocOf(h)[h[m].path]
          BY <2>3, <3>1, <4>1
        <4>3. g[m] = h[m]
          BY <2>2, <3>3
        <4> QED
          BY <3>1, <4>2, <4>3, DocValue
      <3> QED
        BY <3>2, <3>3
    <2>6. DocOf(g) = d
      BY <2>1, <2>4, <2>5, DocEqual
    <2> QED
      BY <2>6 DEF g, d
  <1> QED
    BY <1>2, <1>3

LEMMA DocText ==
    ASSUME NEW h, Heap(h), NEW n \in LiveIn(h), NEW text \in Texts
    PROVE  DocOf([h EXCEPT ![n].text = text]) =
               Doc!With(DocOf(h), h[n].path, [type |-> h[n].type, text |-> text])
  <1> DEFINE g == [h EXCEPT ![n].text = text]
             p == h[n].path
             v == [type |-> h[n].type, text |-> text]
             d == Doc!With(DocOf(h), p, v)
  <1>1. Heap(g) /\ LiveIn(g) = LiveIn(h)
    BY TextHeap
  <1>2. /\ g[n].path = p /\ g[n].type = h[n].type /\ g[n].text = text
        /\ \A m \in LiveIn(h) \ {n} : g[m] = h[m]
    <2>1. n \in Nodes /\ h[n] \in Objects /\ h \in [Nodes -> Objects \cup {None}]
      BY LiveType DEF Heap
    <2> QED
      BY <2>1 DEF LiveIn, Objects
  <1> HIDE DEF g
  <1>3. Paths(g) = Paths(h)
    BY <1>1, <1>2 DEF Paths
  <1>4. DOMAIN DocOf(h) = Paths(h) /\ p \in Paths(h)
    BY DocDomain, DocValue
  <1>5. d = [q \in Paths(g) |-> IF q = p THEN v ELSE DocOf(h)[q]]
    <2>1. DOMAIN DocOf(h) \cup {p} = Paths(g)
      BY <1>3, <1>4
    <2> QED
      BY <2>1 DEF Doc!With
  <1> HIDE DEF d, v
  <1>6. ASSUME NEW m \in LiveIn(g)
        PROVE  d[g[m].path] = [type |-> g[m].type, text |-> g[m].text]
    <2>1. g[m].path \in Paths(g) /\ m \in LiveIn(h)
      BY <1>1 DEF Paths
    <2>2. CASE m = n
      <3>1. d[g[m].path] = v
        BY <1>2, <1>5, <2>1, <2>2
      <3> QED
        BY <1>2, <2>2, <3>1 DEF v
    <2>3. CASE m # n
      <3>1. g[m] = h[m] /\ h[m].path # p
        BY <1>2, <2>1, <2>3 DEF Heap, PathsDiffer
      <3>2. d[g[m].path] = DocOf(h)[h[m].path]
        BY <1>5, <2>1, <3>1
      <3> QED
        BY <2>1, <3>1, <3>2, DocValue
    <2> QED
      BY <2>2, <2>3
  <1>7. d = [q \in Paths(g) |-> d[q]]
    BY <1>5
  <1>8. DocOf(g) = d
    BY <1>1, <1>6, <1>7, DocEqual
  <1> QED
    BY <1>8 DEF g, d, v

LEMMA DocGrown ==
    ASSUME NEW h, Heap(h), NEW g, Heap(g), NEW c, c \notin LiveIn(h),
           LiveIn(g) = LiveIn(h) \cup {c},
           \A m \in LiveIn(h) : /\ g[m].path = h[m].path /\ g[m].type = h[m].type
                                /\ g[m].text = h[m].text,
           NEW q, NEW type \in Types, g[c] = New(type, q)
    PROVE  DocOf(g) = Doc!With(DocOf(h), q, Doc!Fresh(type))
  <1> DEFINE d == Doc!With(DocOf(h), q, Doc!Fresh(type))
  <1>1. g[c].path = q /\ g[c].type = type /\ g[c].text = ""
    <2>1. New(type, q).path = q /\ New(type, q).type = type /\ New(type, q).text = ""
      BY DEF New
    <2> QED
      BY <2>1
  <1>2. Paths(g) = Paths(h) \cup {q}
    <2>1. ASSUME NEW x \in Paths(g) PROVE x \in Paths(h) \cup {q}
      <3>1. PICK m \in LiveIn(g) : x = g[m].path
        BY DEF Paths
      <3>2. CASE m = c
        BY <1>1, <3>1, <3>2
      <3>3. CASE m # c
        BY <3>1, <3>3 DEF Paths
      <3> QED
        BY <3>2, <3>3
    <2>2. \A x \in Paths(h) : x \in Paths(g)
      BY DEF Paths
    <2>3. q \in Paths(g)
      BY <1>1 DEF Paths
    <2> QED
      BY <2>1, <2>2, <2>3
  <1>3. d = [p \in Paths(g) |-> IF p = q THEN Doc!Fresh(type) ELSE DocOf(h)[p]]
    <2>1. DOMAIN DocOf(h) \cup {q} = Paths(g)
      BY <1>2, DocDomain
    <2> QED
      BY <2>1 DEF Doc!With
  <1> HIDE DEF d
  <1>4. ASSUME NEW m \in LiveIn(g)
        PROVE  d[g[m].path] = [type |-> g[m].type, text |-> g[m].text]
    <2>1. g[m].path \in Paths(g)
      BY DEF Paths
    <2>2. CASE m = c
      <3>1. d[g[m].path] = Doc!Fresh(type)
        BY <1>1, <1>3, <2>1, <2>2
      <3> QED
        BY <1>1, <2>2, <3>1 DEF Doc!Fresh
    <2>3. CASE m # c
      <3>1. m \in LiveIn(h) /\ c \in LiveIn(g)
        BY <2>3
      <3>2. g[m].path # q
        BY <1>1, <2>3, <3>1 DEF Heap, PathsDiffer
      <3>3. d[g[m].path] = DocOf(h)[h[m].path]
        BY <1>3, <2>1, <3>1, <3>2
      <3>4. DocOf(h)[h[m].path] = [type |-> h[m].type, text |-> h[m].text]
        BY <3>1, DocValue
      <3> QED
        BY <3>1, <3>3, <3>4
    <2> QED
      BY <2>2, <2>3
  <1>5. d = [p \in Paths(g) |-> d[p]]
    BY <1>3
  <1>6. DocOf(g) = d
    BY <1>4, <1>5, DocEqual
  <1> QED
    BY <1>6 DEF d

(* A name is in the map if and only if its path is in the document. *)
LEMMA DocHas ==
    ASSUME NEW h, Heap(h), NEW n \in LiveIn(h), NEW k \in Keys
    PROVE  k \in DOMAIN h[n].kids <=> Append(h[n].path, k) \in Paths(h)
  <1>1. ASSUME k \in DOMAIN h[n].kids PROVE Append(h[n].path, k) \in Paths(h)
    <2>1. h[n].kids[k] \in LiveIn(h) /\ h[h[n].kids[k]].path = Append(h[n].path, k)
      BY <1>1, LiveType DEF Heap, KidsBelow
    <2> QED
      BY <2>1 DEF Paths
  <1>2. ASSUME Append(h[n].path, k) \in Paths(h) PROVE k \in DOMAIN h[n].kids
    <2>1. PICK m \in LiveIn(h) : h[m].path = Append(h[n].path, k)
      BY <1>2 DEF Paths
    <2> QED
      BY <2>1, PathOwned
  <1> QED
    BY <1>1, <1>2

(* An array has as many parts as children. *)
LEMMA DocParts ==
    ASSUME NEW h, Heap(h), NEW n \in LiveIn(h), h[n].type = "array"
    PROVE  Cardinality(Doc!Parts(DocOf(h), h[n].path)) = Cardinality(DOMAIN h[n].kids)
  <1> DEFINE p == h[n].path
             K == DOMAIN h[n].kids
             P == Doc!Parts(DocOf(h), p)
             f == [k \in K |-> Append(p, k)]
  <1>1. p \in Seq(Keys) /\ Len(p) \in Nat /\ K \in SUBSET Keys
    BY LiveType
  <1>2. P = {q \in {h[m].path : m \in Gone(h, n)} : Len(q) = Len(p) + 1}
    BY DocBelow DEF Doc!Parts
  <1>3. ASSUME NEW k \in K PROVE Append(p, k) \in P
    <2>1. h[h[n].kids[k]].path = Append(p, k) /\ h[n].kids[k] \in Children(h, n)
      BY LiveType DEF Heap, KidsBelow
    <2>2. h[n].kids[k] \in Gone(h, n)
      BY <2>1, GoneHas
    <2>3. Len(Append(p, k)) = Len(p) + 1
      BY <1>1, AppendProperties
    <2> QED
      BY <1>2, <2>1, <2>2, <2>3
  <1>4. ASSUME NEW q \in P PROVE \E k \in K : Append(p, k) = q
    <2>1. PICK m \in Gone(h, n) : h[m].path = q
      BY <1>2
    <2>2. m \in LiveIn(h) /\ IsPrefix(p, q) /\ Len(q) = Len(p) + 1 /\ q \in Seq(Keys)
      BY <1>2, <2>1, GoneBelow, LiveType
    <2>3. q = Append(p, q[Len(q)]) /\ q[Len(q)] \in Keys
      <3> DEFINE r == Append(p, q[Len(q)])
      <3>1. q[Len(q)] \in Keys
        BY <1>1, <2>2, ElementOfSeq
      <3>2. /\ r \in Seq(Keys) /\ Len(r) = Len(p) + 1 /\ r[Len(p) + 1] = q[Len(q)]
            /\ \A i \in 1 .. Len(p) : r[i] = p[i]
        BY <1>1, <3>1, AppendProperties
      <3>3. \A i \in 1 .. Len(p) : p[i] = q[i]
        BY <1>1, <2>2, PrefixElts
      <3> HIDE DEF r
      <3>4. \A i \in 1 .. Len(q) : r[i] = q[i]
        BY <1>1, <2>2, <3>2, <3>3
      <3>5. r = q
        BY <2>2, <3>2, <3>4, SeqEqual
      <3> QED
        BY <3>1, <3>5 DEF r
    <2>4. q[Len(q)] \in K
      BY <2>1, <2>2, <2>3, PathOwned
    <2> QED
      BY <2>3, <2>4
  <1>5. ASSUME NEW j \in K, NEW k \in K, Append(p, j) = Append(p, k) PROVE j = k
    <2> HIDE DEF p, K
    <2> QED
      BY <1>1, <1>5, SameAppend
  <1>6. f \in [K -> P] /\ \A k \in K : f[k] = Append(p, k)
    BY <1>3
  <1> HIDE DEF f
  <1>7. f \in Bijection(K, P)
    <2>1. \A a, b \in K : f[a] = f[b] => a = b
      BY <1>5, <1>6
    <2>2. \A t \in P : \E k \in K : f[k] = t
      BY <1>4, <1>6
    <2> HIDE DEF K, P
    <2> QED
      BY <1>6, <2>1, <2>2, Fun_IsBij
  <1>8. IsFiniteSet(K)
    <2>1. /\ Len(h[n].order) \in Nat /\ K = 0 .. Len(h[n].order) - 1
      BY ArraySize DEF Heap, Shaped
    <2> QED
      BY <2>1, FS_Interval
  <1>9. ExistsBijection(K, P)
    BY <1>7 DEF ExistsBijection
  <1> HIDE DEF K, P
  <1>10. Cardinality(P) = Cardinality(K)
    BY <1>8, <1>9, FS_Bijection
  <1> QED
    BY <1>10 DEF K, P

LEMMA RetypeRefines ==
    ASSUME Heap(node), NEW n \in Live, NEW type \in Types, Retype(n, type)
    PROVE  DocOf(node') = Doc!Retyped(DocOf(node), node[n].path, type)
  BY LiveInNode, DocRetyped DEF Retype

LEMMA SetTextRefines ==
    ASSUME Heap(node), NEW n \in Live, NEW type \in Types, NEW text \in Texts,
           SetText(n, text, type)
    PROVE  DocOf(node') = Doc!With(Doc!Retyped(DocOf(node), node[n].path, type),
                                   node[n].path, [type |-> type, text |-> text])
  <1> DEFINE h == Reset(node, n, type)
  <1>1. n \in LiveIn(node)
    BY LiveInNode
  <1>2. /\ Heap(h) /\ n \in LiveIn(h)
        /\ h[n].type = type /\ h[n].path = node[n].path
    BY <1>1, ResetHeap
  <1>3. DocOf(h) = Doc!Retyped(DocOf(node), node[n].path, type)
    BY <1>1, DocRetyped
  <1>4. node' = [h EXCEPT ![n].text = text]
    BY DEF SetText
  <1> HIDE DEF h
  <1>5. DocOf(node') = Doc!With(DocOf(h), h[n].path, [type |-> h[n].type, text |-> text])
    BY <1>2, <1>4, DocText
  <1> QED
    BY <1>2, <1>3, <1>5

LEMMA ItemRefines ==
    ASSUME Heap(node), NEW n \in Live, NEW name \in Names, Item(n, name)
    PROVE  LET d == Doc!Retyped(DocOf(node), node[n].path, "object")
               q == Append(node[n].path, name)
           IN DocOf(node') = IF q \in DOMAIN d THEN d
                             ELSE Doc!With(d, q, Doc!Fresh("undefined"))
  <1> DEFINE h == Reset(node, n, "object")
             c == Allocated
             p == node[n].path
             q == Append(p, name)
  <1>1. n \in LiveIn(node) /\ "object" \in Types /\ "undefined" \in Types
    BY LiveInNode DEF Types
  <1>2. /\ Heap(h) /\ n \in LiveIn(h) /\ h[n].type = "object" /\ h[n].path = p
        /\ \A d \in Free : h[d] = None
    BY <1>1, ResetHeap, ResetOutcome
  <1>3. DocOf(h) = Doc!Retyped(DocOf(node), p, "object")
    BY <1>1, DocRetyped
  <1>4. IF name \in DOMAIN h[n].kids THEN node' = h
        ELSE Free # {} /\ node' = Adopt(h, n, name, c, "undefined")
    BY DEF Item
  <1>5. Free # {} => c \in Free
    BY FreeObject
  <1> HIDE DEF h, c
  <1>6. name \in DOMAIN h[n].kids <=> q \in DOMAIN DocOf(h)
    <2>1. DOMAIN DocOf(h) = Paths(h) /\ name \in Keys
      BY DocDomain DEF Keys
    <2>2. name \in DOMAIN h[n].kids <=> Append(h[n].path, name) \in Paths(h)
      BY <1>2, <2>1, DocHas
    <2> QED
      BY <1>2, <2>1, <2>2
  <1>7. CASE name \in DOMAIN h[n].kids
    BY <1>3, <1>4, <1>6, <1>7
  <1>8. CASE name \notin DOMAIN h[n].kids
    <2>1. c \in Nodes /\ h[c] = None /\ c \notin LiveIn(h)
      BY <1>2, <1>4, <1>5, <1>8 DEF Free, LiveIn
    <2>2. /\ Heap(node')
          /\ LiveIn(node') = LiveIn(h) \cup {c}
          /\ node'[n].type = "object" /\ node'[n].text = h[n].text
          /\ node'[c] = New("undefined", Append(h[n].path, name))
          /\ \A m \in LiveIn(h) \ {n} : node'[m] = h[m]
          /\ \A m \in LiveIn(h) : node'[m].path = h[m].path
      BY <1>2, <1>4, <1>8, <2>1, AdoptHeap
    <2>3. \A m \in LiveIn(h) : /\ node'[m].path = h[m].path /\ node'[m].type = h[m].type
                               /\ node'[m].text = h[m].text
      BY <1>2, <2>2
    <2>4. node'[c] = New("undefined", q)
      BY <1>2, <2>2
    <2> HIDE DEF q
    <2>5. DocOf(node') = Doc!With(DocOf(h), q, Doc!Fresh("undefined"))
      BY <1>1, <1>2, <2>1, <2>2, <2>3, <2>4, DocGrown
    <2> QED
      BY <1>3, <1>6, <1>8, <2>5 DEF q
  <1> QED
    BY <1>7, <1>8

LEMMA PushRefines ==
    ASSUME Heap(node), NEW n \in Live, NEW type \in Types, Push(n, type)
    PROVE  LET d == Doc!Retyped(DocOf(node), node[n].path, "array")
           IN DocOf(node') =
                  Doc!With(d, Append(node[n].path, Cardinality(Doc!Parts(d, node[n].path))),
                           Doc!Fresh(type))
  <1> DEFINE h == Reset(node, n, "array")
             c == Allocated
             p == node[n].path
             q == Append(p, Cardinality(DOMAIN h[n].kids))
  <1>1. n \in LiveIn(node) /\ "array" \in Types
    BY LiveInNode DEF Types
  <1>2. /\ Heap(h) /\ n \in LiveIn(h) /\ h[n].type = "array" /\ h[n].path = p
        /\ \A d \in Free : h[d] = None
    BY <1>1, ResetHeap, ResetOutcome
  <1>3. DocOf(h) = Doc!Retyped(DocOf(node), p, "array")
    BY <1>1, DocRetyped
  <1>4. /\ Free # {}
        /\ node' = Pushed(h, n, c, type)
    BY DEF Push, Pushed
  <1>5. c \in Free
    BY <1>4, FreeObject
  <1> HIDE DEF h, c
  <1>6. c \in Nodes /\ h[c] = None /\ c \notin LiveIn(h)
    BY <1>2, <1>5 DEF Free, LiveIn
  <1>7. /\ Heap(node')
        /\ LiveIn(node') = LiveIn(h) \cup {c}
        /\ node'[n].type = "array" /\ node'[n].text = h[n].text
        /\ node'[c] = New(type, Append(h[n].path, Cardinality(DOMAIN h[n].kids)))
        /\ \A m \in LiveIn(h) \ {n} : node'[m] = h[m]
        /\ \A m \in LiveIn(h) : node'[m].path = h[m].path
    BY <1>2, <1>4, <1>6, PushHeap
  <1>8. \A m \in LiveIn(h) : /\ node'[m].path = h[m].path /\ node'[m].type = h[m].type
                             /\ node'[m].text = h[m].text
    BY <1>2, <1>7
  <1>9. node'[c] = New(type, q)
    BY <1>2, <1>7
  <1>10. q = Append(p, Cardinality(Doc!Parts(DocOf(h), p)))
    <2>1. Cardinality(Doc!Parts(DocOf(h), h[n].path)) = Cardinality(DOMAIN h[n].kids)
      BY <1>2, DocParts
    <2> QED
      BY <1>2, <2>1
  <1> HIDE DEF q
  <1>11. DocOf(node') = Doc!With(DocOf(h), q, Doc!Fresh(type))
    BY <1>2, <1>6, <1>7, <1>8, <1>9, DocGrown
  <1> QED
    BY <1>3, <1>10, <1>11

(* Values with their objects, pointers and deletions behave as a document,
   in which a value that changes its type begins anew without its parts. *)
THEOREM ValuesAreADocument == Spec => DocumentSpec
  <1> DEFINE doc == [p \in {node[n].path : n \in Live} |->
                        LET n == CHOOSE n \in Live : node[n].path = p
                        IN [type |-> node[n].type, text |-> node[n].text]]
  <1>1. doc = DocOf(node)
    BY LiveInNode DEF DocOf
  <1>2. doc' = DocOf(node')
    BY LiveInNode DEF DocOf, Live, LiveIn
  <1>3. Init => Doc!Init
    <2> SUFFICES ASSUME Init PROVE DocOf(node) = [p \in {<<>>} |-> Doc!Fresh("undefined")]
      BY <1>1 DEF Doc!Init
    <2>1. Heap(node)
      BY InitHeap
    <2>2. LiveIn(node) = {Root} /\ node[Root] = New("undefined", <<>>)
      <3>1. LiveIn(node) \subseteq {Root} /\ Root \in LiveIn(node)
        BY <2>1, RootAssumption DEF Init, LiveIn, Heap, Rooted
      <3> QED
        BY <3>1, RootAssumption DEF Init
    <2>3. node[Root].path = <<>> /\ node[Root].type = "undefined" /\ node[Root].text = ""
      <3>1. /\ New("undefined", <<>>).path = <<>> /\ New("undefined", <<>>).type = "undefined"
            /\ New("undefined", <<>>).text = ""
        BY DEF New
      <3> QED
        BY <2>2, <3>1
    <2>4. Paths(node) = {<<>>}
      BY <2>2, <2>3 DEF Paths
    <2> DEFINE d == [p \in {<<>>} |-> Doc!Fresh("undefined")]
    <2>5. d = [p \in Paths(node) |-> d[p]] /\ d[<<>>] = Doc!Fresh("undefined")
      BY <2>4
    <2> HIDE DEF d
    <2>6. \A n \in LiveIn(node) :
              d[node[n].path] = [type |-> node[n].type, text |-> node[n].text]
      BY <2>2, <2>3, <2>5 DEF Doc!Fresh
    <2>7. DocOf(node) = d
      BY <2>1, <2>5, <2>6, DocEqual
    <2> QED
      BY <2>7 DEF d
  <1>4. HeapOK /\ [Next]_node => [Doc!Next]_doc
    <2>1. ASSUME HeapOK, Next PROVE Doc!Next
      <3>1. PICK n \in Live, type \in Types :
                \/ Retype(n, type)
                \/ \E text \in Texts : SetText(n, text, type)
                \/ \E name \in Names : Item(n, name)
                \/ Push(n, type)
        BY <2>1 DEF Next, Types
      <3>2. Heap(node) /\ node[n].path \in DOMAIN doc /\ type \in Doc!Types
        BY <2>1 DEF HeapOK, Types, Doc!Types
      <3> DEFINE p == node[n].path
      <3>4. CASE Retype(n, type)
        <4>1. Doc!Reset(p, type)
          BY <1>1, <1>2, <3>2, <3>4, RetypeRefines DEF Doc!Reset
        <4> QED
          BY <3>2, <4>1 DEF Doc!Next, Doc!Reset
      <3>5. CASE \E text \in Texts : SetText(n, text, type)
        <4>1. PICK text \in Texts : SetText(n, text, type)
          BY <3>5
        <4>2. Doc!Set(p, text, type)
          BY <1>1, <1>2, <3>2, <4>1, SetTextRefines DEF Doc!Set
        <4> QED
          BY <3>2, <4>2 DEF Doc!Next, Doc!Set
      <3>6. CASE \E name \in Names : Item(n, name)
        <4>1. PICK name \in Names : Item(n, name)
          BY <3>6
        <4>2. Doc!Item(p, name)
          BY <1>1, <1>2, <3>2, <4>1, ItemRefines DEF Doc!Item
        <4> QED
          BY <3>2, <4>2 DEF Doc!Next, Doc!Item
      <3>7. CASE Push(n, type)
        <4>1. LET d == Doc!Retyped(DocOf(node), p, "array")
              IN DocOf(node') = Doc!With(d, Append(p, Cardinality(Doc!Parts(d, p))),
                                         Doc!Fresh(type))
          BY <3>2, <3>7, PushRefines
        <4>2. Doc!Push(p, type)
          BY <1>1, <1>2, <4>1 DEF Doc!Push, Doc!Cardinality, Doc!IsFiniteSet, Cardinality, IsFiniteSet
        <4> QED
          BY <3>2, <4>2 DEF Doc!Next, Doc!Push
      <3> QED
        BY <3>1, <3>4, <3>5, <3>6, <3>7
    <2>2. ASSUME UNCHANGED node PROVE UNCHANGED doc
      BY <2>2, <1>1, <1>2
    <2> QED
      BY <2>1, <2>2
  <1> QED
    BY <1>3, <1>4, HeapInvariant, PTL DEF Spec, DocumentSpec, Doc!Spec

-----------------------------------------------------------------------------
(* Reading *)

(* Among some objects, one is as deep as any. *)
LEMMA Deepest ==
    ASSUME NEW h, Heap(h), NEW X \in SUBSET LiveIn(h), X # {}
    PROVE  \E m \in X : \A x \in X : Len(h[x].path) <= Len(h[m].path)
  <1> SUFFICES ASSUME \A m \in X : \E x \in X : ~ (Len(h[x].path) <= Len(h[m].path))
               PROVE  FALSE
    OBVIOUS
  <1> DEFINE Deeper(m) == {x \in X : Len(h[x].path) > Len(h[m].path)}
             T == {V \in SUBSET X : V # {} /\ \A v \in V : Deeper(v) \subseteq V}
             R == StrictSubsetOrdering(Nodes)
  <1>1. X \in T
    OBVIOUS
  <1>2. IsWellFoundedOn(R, SUBSET Nodes)
    BY NodesAssumption, FS_StrictSubsetOrderingWellFounded, FS_FiniteSubsetsOfFinite
  <1>3. T \subseteq SUBSET Nodes
    BY DEF LiveIn
  <1>4. PICK V \in T : \A W \in T : <<W, V>> \notin R
    <2> HIDE DEF T, R
    <2> QED
      BY <1>1, <1>2, <1>3, WFMin
  <1>5. PICK m \in V : TRUE
    OBVIOUS
  <1>6. m \in X /\ \A x \in X : Len(h[x].path) \in Nat
    BY LiveType
  <1>7. Deeper(m) \in T
    <2>1. Deeper(m) # {}
      <3>1. PICK x \in X : ~ (Len(h[x].path) <= Len(h[m].path))
        BY <1>6
      <3> QED
        BY <1>6, <3>1
    <2>2. \A v \in Deeper(m) : Deeper(v) \subseteq Deeper(m)
      BY <1>6
    <2> QED
      BY <2>1, <2>2
  <1>8. Deeper(m) \subseteq V /\ m \notin Deeper(m)
    BY <1>6
  <1>9. <<Deeper(m), V>> \in R
    <2>1. Deeper(m) \in SUBSET Nodes /\ V \in SUBSET Nodes /\ Deeper(m) # V
      BY <1>3, <1>7, <1>8
    <2> QED
      BY <1>8, <2>1 DEF StrictSubsetOrdering
  <1> QED
    BY <1>4, <1>7, <1>9

(* What a value reads as, given what the values below it do *)
Reads(g, m) ==
    LET found == {i \in Places(m) : g[Child(m, i)] # ""}
    IN IF found = {} THEN node[m].text ELSE g[Child(m, Min(found))]

LEMMA ChildrenByName ==
    ASSUME HeapOK, NEW m \in Live, NEW i \in Places(m)
    PROVE  /\ Child(m, i) \in Children(node, m) /\ Child(m, i) \in Live
           /\ Len(node[m].path) < Len(node[Child(m, i)].path)
           /\ ~ (Len(node[Child(m, i)].path) <= Len(node[m].path))
           /\ i \in Nat
  <1>1. /\ m \in LiveIn(node) /\ Standard[i] \in DOMAIN node[m].kids
        /\ i \in DOMAIN Standard /\ Heap(node)
    BY LiveInNode DEF Places, HeapOK
  <1>2. Child(m, i) \in Children(node, m) /\ Child(m, i) \in LiveIn(node)
    BY <1>1, LiveType DEF Child
  <1>3. Child(m, i) \in Gone(node, m)
    BY <1>1, <1>2, GoneHas
  <1>4. Len(node[m].path) < Len(node[Child(m, i)].path)
    BY <1>1, <1>3, GoneBelow
  <1>5. i \in Nat
    BY <1>1, NamesAssumption, LenProperties
  <1>6. Len(node[m].path) \in Nat /\ Len(node[Child(m, i)].path) \in Nat
    BY <1>1, <1>2, LiveType
  <1>7. ~ (Len(node[Child(m, i)].path) <= Len(node[m].path))
    BY <1>4, <1>6
  <1> QED
    BY <1>2, <1>4, <1>5, <1>7, LiveInNode

LEMMA MinIn ==
    ASSUME NEW S \in SUBSET Nat, S # {}
    PROVE  Min(S) \in S
  BY LeastNat DEF Min

(* It depends on no other value. *)
LEMMA ReadsBelow ==
    ASSUME HeapOK, NEW m \in Live, NEW f, NEW g,
           \A i \in Places(m) : f[Child(m, i)] = g[Child(m, i)]
    PROVE  Reads(f, m) = Reads(g, m)
  <1> DEFINE F == {i \in Places(m) : f[Child(m, i)] # ""}
             G == {i \in Places(m) : g[Child(m, i)] # ""}
  <1>1. F = G
    OBVIOUS
  <1>2. CASE F = {}
    BY <1>1, <1>2 DEF Reads
  <1>3. CASE F # {}
    <2>1. F \in SUBSET Nat
      BY ChildrenByName
    <2>2. Min(F) \in F
      <3> HIDE DEF F
      <3> QED
        BY <1>3, <2>1, MinIn
    <2>3. f[Child(m, Min(F))] = g[Child(m, Min(F))]
      BY <2>2
    <2> QED
      BY <1>1, <1>3, <2>3 DEF Reads
  <1> QED
    BY <1>2, <1>3

(* The recursion ends, at the leaves of the heap: there are such readings. *)
LEMMA ReadingExists ==
    ASSUME HeapOK
    PROVE  \E g : g = [m \in Live |-> Reads(g, m)]
  <1> DEFINE Open(U) == \A m \in Live \ U : \A i \in Places(m) : Child(m, i) \notin U
             Solved(U) == \E g : \A m \in Live \ U : g[m] = Reads(g, m)
             T == {U \in SUBSET Live : Open(U) /\ Solved(U)}
             R == StrictSubsetOrdering(Nodes)
  <1>1. Live \in T
    OBVIOUS
  <1>2. IsWellFoundedOn(R, SUBSET Nodes)
    BY NodesAssumption, FS_StrictSubsetOrderingWellFounded, FS_FiniteSubsetsOfFinite
  <1>3. T \subseteq SUBSET Nodes
    BY DEF Live
  <1>4. PICK U \in T : \A W \in T : <<W, U>> \notin R
    <2> HIDE DEF T, R
    <2> QED
      BY <1>1, <1>2, <1>3, WFMin
  <1>5. PICK g : \A m \in Live \ U : g[m] = Reads(g, m)
    OBVIOUS
  <1>6. CASE U = {}
    <2> DEFINE f == [m \in Live |-> g[m]]
    <2>1. ASSUME NEW m \in Live PROVE f[m] = Reads(f, m)
      <3>1. Reads(f, m) = Reads(g, m)
        <4>1. \A i \in Places(m) : f[Child(m, i)] = g[Child(m, i)]
          BY ChildrenByName
        <4> HIDE DEF f
        <4> QED
          BY <4>1, ReadsBelow
      <3> QED
        BY <1>5, <1>6, <3>1
    <2>2. f = [m \in Live |-> f[m]]
      OBVIOUS
    <2> HIDE DEF f
    <2>3. f = [m \in Live |-> Reads(f, m)]
      BY <2>1, <2>2
    <2> QED
      BY <2>3
  <1>7. CASE U # {}
    <2>1. PICK m \in U : \A x \in U : Len(node[x].path) <= Len(node[m].path)
      BY <1>7, Deepest, LiveInNode DEF HeapOK
    <2>2. m \in Live /\ \A x \in Live : Len(node[x].path) \in Nat
      BY LiveInNode, LiveType DEF HeapOK
    <2>3. \A i \in Places(m) : Child(m, i) \notin U
      <3> SUFFICES ASSUME NEW i \in Places(m), Child(m, i) \in U PROVE FALSE
        OBVIOUS
      <3>1. /\ Len(node[m].path) < Len(node[Child(m, i)].path)
            /\ Child(m, i) \in Live
        BY <2>2, ChildrenByName
      <3> QED
        BY <2>1, <2>2, <3>1
    <2> DEFINE W == U \ {m}
               f == [x \in Live |-> IF x = m THEN Reads(g, m) ELSE g[x]]
    <2>4. Open(W)
      BY <2>3
    <2>5. ASSUME NEW x \in Live \ W PROVE f[x] = Reads(f, x)
      <3>1. \A i \in Places(x) : Child(x, i) \in Live /\ Child(x, i) # m
        BY <2>2, <2>3, ChildrenByName
      <3>2. \A i \in Places(x) : f[Child(x, i)] = g[Child(x, i)]
        BY <3>1
      <3>3. f[x] = Reads(g, x)
        BY <1>5
      <3> HIDE DEF f
      <3>4. Reads(f, x) = Reads(g, x)
        BY <3>2, ReadsBelow
      <3> QED
        BY <3>3, <3>4
    <2>6. Solved(W)
      <3> HIDE DEF f
      <3> QED
        BY <2>5
    <2>7. W \in T /\ <<W, U>> \in R
      BY <1>3, <2>4, <2>6 DEF StrictSubsetOrdering
    <2> QED
      BY <1>4, <2>7
  <1> QED
    BY <1>6, <1>7

LEMMA GottenValue ==
    ASSUME HeapOK, NEW m \in Live
    PROVE  Gotten[m] = Reads(Gotten, m)
  <1>1. Gotten = CHOOSE g : g = [x \in Live |-> Reads(g, x)]
    BY DEF Gotten, Reads
  <1>2. Gotten = [x \in Live |-> Reads(Gotten, x)]
    BY <1>1, ReadingExists
  <1> QED
    BY <1>2

LEMMA ReachedSteps ==
    ASSUME HeapOK, NEW n \in Live
    PROVE  /\ n \in Reached(n)
           /\ \A m \in Reached(n) : \A i \in Places(m) : Child(m, i) \in Reached(n)
           /\ Reached(n) \subseteq Live
  <1>1. n \in Reached(n) /\ Reached(n) \subseteq Live
    BY DEF Reached
  <1>2. ASSUME NEW m \in Reached(n), NEW i \in Places(m)
        PROVE  Child(m, i) \in Reached(n)
    <2>1. m \in Live /\ Child(m, i) \in Live
      BY <1>1, ChildrenByName
    <2>2. ASSUME NEW S \in SUBSET Live, n \in S, StandardSteps(S) \subseteq S
          PROVE  Child(m, i) \in S
      <3>1. m \in S
        BY <2>2 DEF Reached
      <3> QED
        BY <2>2, <3>1 DEF StandardSteps
    <2> QED
      BY <2>1, <2>2 DEF Reached
  <1> QED
    BY <1>1, <1>2

(* A value reads as empty if and only if no standard names lead from it to a
   text: get() looks past the children that are there and have none. *)
THEOREM OnlyEmptyReadsEmpty == Spec => []EmptyMeansEmpty
  <1>1. HeapOK => EmptyMeansEmpty
    <2> SUFFICES ASSUME HeapOK, NEW n \in Live
                 PROVE  Get(n) = "" <=> \A m \in Reached(n) : node[m].text = ""
      BY DEF EmptyMeansEmpty
    <2> DEFINE Found(m) == {k \in Places(m) : Gotten[Child(m, k)] # ""}
    <2>1. ASSUME NEW m \in Live
          PROVE  Gotten[m] = IF Found(m) = {} THEN node[m].text
                             ELSE Gotten[Child(m, Min(Found(m)))]
      BY GottenValue DEF Reads
    <2>2. ASSUME NEW m \in Live, Found(m) # {}
          PROVE  Gotten[m] # ""
      <3>1. Found(m) \in SUBSET Nat
        BY <2>2, ChildrenByName
      <3>2. Min(Found(m)) \in Found(m)
        <4> HIDE DEF Found
        <4> QED
          BY <2>2, <3>1, MinIn
      <3> QED
        BY <2>1, <2>2, <3>2
    <2>3. ASSUME Get(n) = "" PROVE \A m \in Reached(n) : node[m].text = ""
      <3> DEFINE S == {m \in Live : Gotten[m] = ""}
      <3>1. n \in S /\ S \in SUBSET Live
        BY <2>3 DEF Get
      <3>2. StandardSteps(S) \subseteq S
        <4>1. ASSUME NEW m \in S, NEW i \in Places(m) PROVE Child(m, i) \in S
          <5>1. Found(m) = {}
            BY <2>2
          <5> QED
            BY <5>1, ChildrenByName
        <4> HIDE DEF S
        <4> QED
          BY <4>1 DEF StandardSteps
      <3>3. Reached(n) \subseteq S
        BY <3>1, <3>2 DEF Reached
      <3>4. \A m \in S : node[m].text = ""
        BY <2>1, <2>2
      <3> QED
        BY <3>3, <3>4
    <2>4. ASSUME \A m \in Reached(n) : node[m].text = "" PROVE Get(n) = ""
      <3> SUFFICES ASSUME Gotten[n] # "" PROVE FALSE
        BY DEF Get
      <3> DEFINE X == {x \in Reached(n) : Gotten[x] # ""}
      <3>1. X # {} /\ X \in SUBSET LiveIn(node)
        BY ReachedSteps, LiveInNode
      <3>2. PICK m \in X : \A x \in X : Len(node[x].path) <= Len(node[m].path)
        <4> HIDE DEF X
        <4> QED
          BY <3>1, Deepest DEF HeapOK
      <3>3. m \in Live /\ m \in Reached(n)
        BY ReachedSteps
      <3>4. PICK i \in Found(m) : TRUE
        BY <2>1, <2>4, <3>3
      <3>5. Child(m, i) \in X
        BY <3>3, <3>4, ReachedSteps
      <3>6. ~ (Len(node[Child(m, i)].path) <= Len(node[m].path))
        BY <3>3, <3>4, ChildrenByName
      <3> QED
        BY <3>2, <3>5, <3>6
    <2> QED
      BY <2>3, <2>4
  <1> QED
    BY <1>1, HeapInvariant, PTL

-----------------------------------------------------------------------------
(* The order of an array *)

(* Numbers of one digit are in their own order. *)
LEMMA OneDigit ==
    ASSUME NEW i \in 0 .. Base - 1, NEW j \in 0 .. Base - 1
    PROVE  Before(i, j) <=> i < j
  <1>1. Base \in Nat /\ i \in Nat /\ j \in Nat /\ i < Base /\ j < Base
    BY BaseAssumption
  <1>2. Digits(i) = <<i>> /\ Digits(j) = <<j>>
    BY <1>1 DEF Digits
  <1>3. DOMAIN <<i>> = {1} /\ DOMAIN <<j>> = {1} /\ 1 .. 1 - 1 = {}
    OBVIOUS
  <1> QED
    BY <1>2, <1>3 DEF Before

(* The numbers below L, in increasing order, are counted from 0. *)
LEMMA OnlyOneOrder ==
    ASSUME NEW L \in Nat, NEW s \in [1 .. L -> 0 .. L - 1],
           \A i \in 2 .. L : s[i - 1] < s[i]
    PROVE  \A i \in 1 .. L : s[i] = i - 1
  <1>1. \A i \in 1 .. L : s[i] \in Nat /\ s[i] <= L - 1 /\ i \in Nat
    OBVIOUS
  <1>2. \A i \in 1 .. L : s[i] >= i - 1
    <2> DEFINE X == {i \in 1 .. L : s[i] < i - 1}
    <2> SUFFICES ASSUME X # {} PROVE FALSE
      <3>1. ASSUME NEW i \in 1 .. L, i \notin X PROVE s[i] >= i - 1
        BY <1>1, <3>1
      <3> QED
        BY <3>1
    <2>1. X \in SUBSET Nat
      OBVIOUS
    <2>2. PICK i \in X : \A j \in X : i <= j
      <3> HIDE DEF X
      <3> QED
        BY <2>1, LeastNat
    <2>3. i \in 2 .. L /\ i - 1 \in 1 .. L /\ i - 1 \notin X
      BY <1>1, <2>2
    <2>4. s[i - 1] >= (i - 1) - 1 /\ s[i - 1] < s[i]
      BY <1>1, <2>3
    <2> QED
      BY <1>1, <2>3, <2>4
  <1>3. \A i \in 1 .. L : s[i] <= i - 1
    <2> DEFINE X == {i \in 1 .. L : s[i] > i - 1}
               D == {L - i : i \in X}
    <2> SUFFICES ASSUME X # {} PROVE FALSE
      <3>1. ASSUME NEW i \in 1 .. L, i \notin X PROVE s[i] <= i - 1
        BY <1>1, <3>1
      <3> QED
        BY <3>1
    <2>1. D \in SUBSET Nat /\ D # {}
      OBVIOUS
    <2>2. PICK d \in D : \A e \in D : d <= e
      <3> HIDE DEF D
      <3> QED
        BY <2>1, LeastNat
    <2>3. PICK i \in X : d = L - i
      OBVIOUS
    <2>4. i + 1 \in 2 .. L /\ i + 1 \in 1 .. L /\ i \in 1 .. L
      BY <1>1, <2>3
    <2>5. i + 1 \notin X
      <3> SUFFICES ASSUME i + 1 \in X PROVE FALSE
        OBVIOUS
      <3>1. L - (i + 1) \in D
        OBVIOUS
      <3>2. L - i <= L - (i + 1)
        BY <2>2, <2>3, <3>1
      <3> QED
        BY <2>4, <3>2
    <2>6. s[i + 1] <= i /\ s[i] < s[i + 1]
      <3>1. (i + 1) - 1 = i
        BY <2>4
      <3> QED
        BY <1>1, <2>4, <2>5, <3>1
    <2> QED
      BY <1>1, <2>3, <2>4, <2>6
  <1> QED
    BY <1>1, <1>2, <1>3

(* The elements of an array of at most Base come out in the order they went
   in. *)
THEOREM SmallArraysInOrder == Spec => []ArraysInOrder
  <1>1. HeapOK => ArraysInOrder
    <2> SUFFICES ASSUME Heap(node), NEW n \in Live, node[n].type = "array",
                        Len(node[n].order) <= Base
                 PROVE  ForEach(n) = node[n].order
      BY DEF HeapOK, ArraysInOrder
    <2> DEFINE K == DOMAIN node[n].kids
               L == Len(node[n].order)
               Sorted(s) == \A i \in 2 .. Cardinality(K) : Before(s[i - 1], s[i])
               keys == CHOOSE s \in [1 .. Cardinality(K) -> K] : Sorted(s)
    <2>1. n \in LiveIn(node) /\ node[n].order \in Seq(Nodes) /\ Shaped(node[n])
      BY LiveInNode, LiveType, ObjectType DEF Heap
    <2>2. /\ Cardinality(K) = L /\ L \in Nat /\ L <= Base
          /\ K = 0 .. L - 1
          /\ \A i \in K : node[n].kids[i] = node[n].order[i + 1]
      BY <2>1, ArraySize DEF Shaped
    <2>3. ForEach(n) = [i \in 1 .. L |-> node[n].kids[keys[i]]]
      BY <2>2 DEF ForEach
    <2> HIDE DEF K, L
    <2>4. \A i, j \in K : Before(i, j) <=> i < j
      <3>1. K \subseteq 0 .. Base - 1
        BY <2>2, BaseAssumption
      <3> QED
        BY <3>1, OneDigit
    <2>5. \E s \in [1 .. Cardinality(K) -> K] : Sorted(s)
      <3> DEFINE s == [i \in 1 .. L |-> i - 1]
      <3>1. s \in [1 .. L -> K]
        BY <2>2
      <3>2. ASSUME NEW i \in 2 .. L PROVE Before(s[i - 1], s[i])
        <4>1. s[i - 1] = (i - 1) - 1 /\ s[i] = i - 1 /\ s[i - 1] \in K /\ s[i] \in K
          BY <2>2
        <4>2. (i - 1) - 1 < i - 1
          BY <2>2
        <4> HIDE DEF s
        <4> QED
          BY <2>4, <4>1, <4>2
      <3> HIDE DEF s
      <3> QED
        BY <2>2, <3>1, <3>2
    <2>6. keys \in [1 .. Cardinality(K) -> K] /\ Sorted(keys)
      <3> HIDE DEF Sorted
      <3> QED
        BY <2>5
    <2> HIDE DEF keys
    <2>7. keys \in [1 .. L -> 0 .. L - 1] /\ \A i \in 2 .. L : keys[i - 1] < keys[i]
      <3>1. keys \in [1 .. L -> K]
        BY <2>2, <2>6
      <3>2. ASSUME NEW i \in 2 .. L PROVE keys[i - 1] < keys[i]
        <4>1. i \in 1 .. L /\ i - 1 \in 1 .. L
          BY <2>2
        <4>2. keys[i - 1] \in K /\ keys[i] \in K
          BY <3>1, <4>1
        <4> QED
          BY <2>2, <2>4, <2>6, <4>2
      <3> QED
        BY <2>2, <3>1, <3>2
    <2>8. \A i \in 1 .. L : keys[i] = i - 1
      BY <2>2, <2>7, OnlyOneOrder
    <2>9. ASSUME NEW i \in 1 .. L PROVE node[n].kids[keys[i]] = node[n].order[i]
      <3>1. i - 1 \in K /\ (i - 1) + 1 = i
        BY <2>2
      <3> QED
        BY <2>2, <2>8, <3>1
    <2>10. node[n].order = [i \in 1 .. L |-> node[n].order[i]]
      BY <2>1 DEF L
    <2> QED
      BY <2>3, <2>9, <2>10
  <1> QED
    BY <1>1, HeapInvariant, PTL
=============================================================================
