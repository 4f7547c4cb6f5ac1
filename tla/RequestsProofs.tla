---------------------------- MODULE RequestsProofs ----------------------------
(***************************************************************************)
(* Proofs about Requests, for any paths, digits, names and pieces, and     *)
(* forms of any size.                                                      *)
(*                                                                         *)
(* What unescaping computes for every text needs induction; here it is the *)
(* well-foundedness of < on the naturals, applied to the lengths of the    *)
(* texts a claim fails for.                                                *)
(***************************************************************************)
EXTENDS Requests, FiniteSetTheorems, FunctionTheorems, SequenceTheorems,
        WellFoundedInduction, TLAPS

USE DEF Text

LEMMA LeastNat ==
    ASSUME NEW T \in SUBSET Nat, T # {}
    PROVE  \E x \in T : \A y \in T : x <= y
  <1> DEFINE R == OpToRel(<, Nat)
  <1>1. PICK x \in T : \A y \in T : <<y, x>> \notin R
    BY NatLessThanWellFounded, WFMin
  <1>2. ASSUME NEW y \in T PROVE x <= y
    <2>1. x \in Nat /\ y \in Nat
      OBVIOUS
    <2>2. ~ (y < x)
      BY <1>1, <2>1 DEF OpToRel
    <2> QED
      BY <2>1, <2>2
  <1> QED
    BY <1>2

(* Of the texts in a set, one is as short as any. *)
LEMMA Shortest ==
    ASSUME NEW X \in SUBSET Text, X # {}
    PROVE  \E s \in X : \A u \in Text : Len(u) < Len(s) => u \notin X
  <1> DEFINE T == {Len(s) : s \in X}
  <1>1. T \in SUBSET Nat /\ T # {}
    <2>1. \A s \in X : Len(s) \in Nat
      BY LenProperties
    <2>2. PICK s \in X : TRUE
      OBVIOUS
    <2>3. Len(s) \in T
      OBVIOUS
    <2> QED
      BY <2>1, <2>3
  <1>2. PICK l \in T : \A y \in T : l <= y
    <2> HIDE DEF T
    <2> QED
      BY <1>1, LeastNat
  <1>3. PICK s \in X : l = Len(s)
    OBVIOUS
  <1>4. ASSUME NEW u \in Text, Len(u) < Len(s), u \in X PROVE FALSE
    <2>1. Len(u) \in T
      BY <1>4
    <2>2. Len(s) <= Len(u) /\ Len(s) \in Nat /\ Len(u) \in Nat
      BY <1>2, <1>3, <2>1
    <2> QED
      BY <1>4, <2>2
  <1> QED
    BY <1>4

-----------------------------------------------------------------------------
(* Unescaping *)

Escaped(s) == Len(s) > 1 /\ s[1] = "%" /\ s[2] = "h"

(* One turn of it, with g for the rest of the text *)
Turn(g, s) ==
    IF s = <<>> THEN <<>>
    ELSE IF Escaped(s) THEN <<"d">> \o g[Tail(Tail(s))] ELSE <<Head(s)>> \o g[Tail(s)]

LEMMA SymbolFirst ==
    ASSUME NEW c \in Symbols, NEW s \in Text
    PROVE  <<c>> \in Text /\ <<c>> \o s \in Text /\ <<c>> \o s # <<>>
  <1>1. <<c>> \in Text /\ Len(<<c>>) = 1
    OBVIOUS
  <1>2. <<c>> \o s \in Text /\ Len(<<c>> \o s) = 1 + Len(s) /\ Len(s) \in Nat
    BY <1>1, ConcatProperties, LenProperties
  <1> QED
    BY <1>1, <1>2

LEMMA Associative ==
    ASSUME NEW s \in Text, NEW t \in Text, NEW u \in Text
    PROVE  (s \o t) \o u = s \o (t \o u)
  BY ConcatAssociative

LEMMA Tails ==
    ASSUME NEW s \in Text, s # <<>>
    PROVE  /\ Head(s) \in Symbols /\ Head(s) = s[1]
           /\ Tail(s) \in Text /\ Len(Tail(s)) < Len(s)
           /\ Len(Tail(s)) = Len(s) - 1 /\ Len(s) \in Nat /\ Len(s) >= 1
           /\ Len(s) > 1 => /\ Tail(s) # <<>>
                            /\ Tail(Tail(s)) \in Text
                            /\ Len(Tail(Tail(s))) < Len(s)
                            /\ Len(Tail(Tail(s))) = Len(s) - 2
  <1>1. /\ Head(s) \in Symbols /\ Head(s) = s[1] /\ Tail(s) \in Text
        /\ Len(Tail(s)) = Len(s) - 1 /\ Len(s) \in Nat /\ Len(s) >= 1
    OBVIOUS
  <1>2. ASSUME Len(s) > 1
        PROVE  /\ Tail(s) # <<>> /\ Tail(Tail(s)) \in Text
               /\ Len(Tail(Tail(s))) = Len(s) - 2
    <2>1. PICK t \in Text : t = Tail(s)
      BY <1>1
    <2>2. Len(t) = Len(s) - 1 /\ Len(t) >= 1
      BY <1>1, <1>2, <2>1
    <2>3. t # <<>>
      BY <2>2
    <2>4. Tail(t) \in Text /\ Len(Tail(t)) = Len(t) - 1
      BY <2>3
    <2> QED
      BY <1>1, <2>1, <2>2, <2>3, <2>4
  <1> QED
    BY <1>1, <1>2

LEMMA TurnBelow ==
    ASSUME NEW s \in Text, NEW g, NEW h,
           \A u \in Text : Len(u) < Len(s) => g[u] = h[u]
    PROVE  Turn(g, s) = Turn(h, s)
  <1>1. CASE s = <<>>
    BY <1>1 DEF Turn
  <1>2. CASE s # <<>>
    BY <1>2, Tails DEF Turn, Escaped
  <1> QED
    BY <1>1, <1>2

Solves(g, n) == \A s \in Text : Len(s) < n => g[s] = Turn(g, s)

LEMMA SolutionsAgree ==
    ASSUME NEW n \in Nat, NEW g, NEW h, Solves(g, n), Solves(h, n)
    PROVE  \A s \in Text : Len(s) < n => g[s] = h[s]
  <1> DEFINE X == {s \in Text : Len(s) < n /\ g[s] # h[s]}
  <1> SUFFICES ASSUME X # {} PROVE FALSE
    OBVIOUS
  <1>1. PICK s \in X : \A u \in Text : Len(u) < Len(s) => u \notin X
    <2>1. X \in SUBSET Text
      OBVIOUS
    <2> HIDE DEF X
    <2> QED
      BY <2>1, Shortest
  <1>2. ASSUME NEW u \in Text, Len(u) < Len(s) PROVE g[u] = h[u]
    <2>1. Len(u) < n
      <3>1. Len(u) \in Nat /\ Len(s) \in Nat /\ Len(s) < n
        OBVIOUS
      <3> QED
        BY <1>2, <3>1
    <2> QED
      BY <1>1, <1>2, <2>1
  <1>3. Turn(g, s) = Turn(h, s)
    BY <1>2, TurnBelow
  <1> QED
    BY <1>3 DEF Solves

LEMMA Solvable ==
    ASSUME NEW n \in Nat
    PROVE  \E g : Solves(g, n)
  <1> DEFINE T == {m \in Nat : ~ \E g : Solves(g, m)}
  <1> SUFFICES ASSUME T # {} PROVE FALSE
    OBVIOUS
  <1>1. PICK m \in T : \A k \in T : m <= k
    <2>1. T \in SUBSET Nat
      OBVIOUS
    <2> HIDE DEF T
    <2> QED
      BY <2>1, LeastNat
  <1>2. CASE m = 0
    <2>1. Solves([s \in {} |-> s], 0)
      BY DEF Solves
    <2> QED
      BY <1>2, <2>1
  <1>3. CASE m # 0
    <2>1. PICK g : Solves(g, m - 1)
      <3>1. m - 1 \in Nat /\ ~ (m <= m - 1)
        BY <1>3
      <3> QED
        BY <1>1, <3>1
    <2> DEFINE f == [s \in Text |-> Turn(g, s)]
    <2>2. ASSUME NEW s \in Text, Len(s) < m PROVE f[s] = Turn(f, s)
      <3>1. ASSUME NEW u \in Text, Len(u) < Len(s) PROVE g[u] = f[u]
        <4>1. Len(u) < m - 1
          BY <2>2, <3>1
        <4> QED
          BY <2>1, <4>1 DEF Solves
      <3>2. f[s] = Turn(g, s)
        OBVIOUS
      <3> HIDE DEF f
      <3> QED
        BY <3>1, <3>2, TurnBelow
    <2>3. Solves(f, m)
      BY <2>2 DEF Solves
    <2> HIDE DEF f
    <2> QED
      BY <2>3
  <1> QED
    BY <1>2, <1>3

LEMMA UnescapeIs ==
    ASSUME NEW s \in Text
    PROVE  Unescape[s] = Turn(Unescape, s)
  <1> DEFINE G(n) == CHOOSE g : Solves(g, n)
             f == [u \in Text |-> G(Len(u) + 1)[u]]
  <1>1. \A n \in Nat : Solves(G(n), n)
    BY Solvable
  <1> HIDE DEF G
  <1>2. ASSUME NEW u \in Text PROVE f[u] = Turn(f, u)
    <2> DEFINE l == Len(u)
    <2>1. l \in Nat /\ l + 1 \in Nat /\ Solves(G(l + 1), l + 1)
      BY <1>1
    <2>2. ASSUME NEW v \in Text, Len(v) < l PROVE G(l + 1)[v] = f[v]
      <3>1. Len(v) + 1 \in Nat /\ Len(v) \in Nat /\ Len(v) < Len(v) + 1 /\ Len(v) + 1 < l + 1
        BY <2>1, <2>2
      <3>2. Solves(G(Len(v) + 1), Len(v) + 1)
        BY <1>1, <3>1
      <3>3. Solves(G(l + 1), Len(v) + 1)
        <4>1. \A w \in Text : Len(w) < Len(v) + 1 => Len(w) < l + 1
          BY <2>1, <3>1
        <4> QED
          BY <2>1, <4>1 DEF Solves
      <3> QED
        BY <3>1, <3>2, <3>3, SolutionsAgree
    <2>3. f[u] = G(l + 1)[u]
      OBVIOUS
    <2>4. G(l + 1)[u] = Turn(G(l + 1), u)
      BY <2>1 DEF Solves
    <2> HIDE DEF f
    <2>5. Turn(G(l + 1), u) = Turn(f, u)
      BY <2>2, TurnBelow
    <2> QED
      BY <2>3, <2>4, <2>5
  <1>3. f = [u \in Text |-> f[u]]
    OBVIOUS
  <1> HIDE DEF f
  <1>4. f = [u \in Text |-> Turn(f, u)]
    BY <1>2, <1>3
  <1>5. Unescape = CHOOSE g : g = [u \in Text |-> Turn(g, u)]
    BY DEF Unescape, Turn, Escaped
  <1>6. Unescape = [u \in Text |-> Turn(Unescape, u)]
    BY <1>4, <1>5
  <1> QED
    BY <1>6

LEMMA UnescapeType ==
    ASSUME NEW s \in Text
    PROVE  Unescape[s] \in Text /\ (s # <<>> => Unescape[s] # <<>>)
  <1> DEFINE X == {u \in Text : Unescape[u] \notin Text}
  <1>1. X = {}
    <2> SUFFICES ASSUME X # {} PROVE FALSE
      OBVIOUS
    <2>1. PICK u \in X : \A v \in Text : Len(v) < Len(u) => v \notin X
      <3>1. X \in SUBSET Text
        OBVIOUS
      <3> HIDE DEF X
      <3> QED
        BY <3>1, Shortest
    <2>2. \A v \in Text : Len(v) < Len(u) => Unescape[v] \in Text
      BY <2>1
    <2>3. u # <<>> /\ Unescape[u] = Turn(Unescape, u) /\ u \in Text
      BY UnescapeIs DEF Turn
    <2>4. CASE Escaped(u)
      <3>1. Tail(Tail(u)) \in Text /\ Len(Tail(Tail(u))) < Len(u)
        BY <2>3, <2>4, Tails DEF Escaped
      <3>2. Unescape[Tail(Tail(u))] \in Text
        BY <2>2, <3>1
      <3>3. <<"d">> \o Unescape[Tail(Tail(u))] \in Text
        <4> HIDE DEF Text
        <4> QED
          BY <3>2, SymbolFirst, SymbolsAssumption
      <3> QED
        BY <2>1, <2>3, <2>4, <3>3 DEF Turn
    <2>5. CASE ~ Escaped(u)
      <3>1. Tail(u) \in Text /\ Len(Tail(u)) < Len(u) /\ Head(u) \in Symbols
        BY <2>3, Tails
      <3>2. Unescape[Tail(u)] \in Text
        BY <2>2, <3>1
      <3>3. <<Head(u)>> \o Unescape[Tail(u)] \in Text
        <4> HIDE DEF Text
        <4> QED
          BY <3>1, <3>2, SymbolFirst
      <3> QED
        BY <2>1, <2>3, <2>5, <3>3 DEF Turn
    <2> QED
      BY <2>4, <2>5
  <1>2. ASSUME s # <<>> PROVE Unescape[s] # <<>>
    <2>1. \A v \in Text : Unescape[v] \in Text
      BY <1>1
    <2>2. \A c \in Symbols, v \in Text : <<c>> \o Unescape[v] # <<>>
      <3> HIDE DEF Text
      <3> QED
        BY <2>1, SymbolFirst
    <2>3. Head(s) \in Symbols /\ Tail(s) \in Text /\ "d" \in Symbols
      BY <1>2, Tails, SymbolsAssumption
    <2>4. Escaped(s) => Tail(Tail(s)) \in Text
      BY <1>2, Tails DEF Escaped
    <2> QED
      BY <1>2, <2>2, <2>3, <2>4, UnescapeIs DEF Turn
  <1> QED
    BY <1>1, <1>2

(* Two texts unescape to what each unescapes to, unless an escape is cut. *)
LEMMA UnescapeConcat ==
    ASSUME NEW s \in Text, NEW t \in Text,
           ~ (s # <<>> /\ t # <<>> /\ s[Len(s)] = "%" /\ t[1] = "h")
    PROVE  Unescape[s \o t] = Unescape[s] \o Unescape[t]
  <1> DEFINE Whole(u) == ~ (u # <<>> /\ t # <<>> /\ u[Len(u)] = "%" /\ t[1] = "h")
             X == {u \in Text : Whole(u) /\ Unescape[u \o t] # Unescape[u] \o Unescape[t]}
  <1> SUFFICES ASSUME X # {} PROVE FALSE
    OBVIOUS
  <1>1. PICK u \in X : \A v \in Text : Len(v) < Len(u) => v \notin X
    <2>1. X \in SUBSET Text
      OBVIOUS
    <2> HIDE DEF X
    <2> QED
      BY <2>1, Shortest
  <1>2. u \in Text /\ Whole(u) /\ Unescape[t] \in Text
    BY UnescapeType
  <1>3. ASSUME NEW v \in Text, Len(v) < Len(u), Whole(v)
        PROVE  Unescape[v \o t] = Unescape[v] \o Unescape[t]
    BY <1>1, <1>3
  <1>4. Unescape[u \o t] # Unescape[u] \o Unescape[t]
    OBVIOUS
  <1> HIDE DEF X
  <1>5. CASE u = <<>>
    <2>1. Unescape[u] = <<>>
      BY <1>2, <1>5, UnescapeIs DEF Turn
    <2>2. u \o t = t /\ <<>> \o Unescape[t] = Unescape[t]
      BY <1>2, <1>5, ConcatEmptySeq
    <2> QED
      BY <1>4, <2>1, <2>2
  <1>6. CASE u # <<>>
    <2>1. /\ u \o t \in Text /\ u \o t # <<>>
          /\ Head(u \o t) = Head(u) /\ Tail(u \o t) = Tail(u) \o t
      BY <1>2, <1>6, HeadTailProperties
    <2>2. Escaped(u \o t) <=> Escaped(u)
      BY <1>2, <1>6 DEF Escaped
    <2>3. Whole(Tail(u))
      BY <1>2, <1>6
    <2>4. CASE Escaped(u)
      <3>1. Len(u) > 1 /\ Tail(u) # <<>> /\ Tail(Tail(u)) \in Text /\ Tail(u) \in Text
            /\ Len(Tail(Tail(u))) < Len(u)
        BY <1>2, <1>6, <2>4, Tails DEF Escaped
      <3>2. Tail(Tail(u \o t)) = Tail(Tail(u)) \o t
        <4>1. PICK v \in Text : v = Tail(u)
          BY <3>1
        <4>2. Tail(v \o t) = Tail(v) \o t
          <5>1. v # <<>>
            BY <3>1, <4>1
          <5> QED
            BY <5>1
        <4> QED
          BY <2>1, <4>1, <4>2
      <3>3. Whole(Tail(Tail(u)))
        BY <1>2, <1>6, <3>1
      <3>4. Unescape[Tail(Tail(u)) \o t] = Unescape[Tail(Tail(u))] \o Unescape[t]
        BY <1>3, <3>1, <3>3
      <3>5. Unescape[u \o t] = <<"d">> \o Unescape[Tail(Tail(u)) \o t]
        BY <2>1, <2>2, <2>4, <3>2, UnescapeIs DEF Turn
      <3>6. Unescape[u] = <<"d">> \o Unescape[Tail(Tail(u))]
        BY <1>2, <1>6, <2>4, UnescapeIs DEF Turn
      <3>7. Unescape[Tail(Tail(u))] \in Text
        BY <3>1, UnescapeType
      <3>8. (<<"d">> \o Unescape[Tail(Tail(u))]) \o Unescape[t]
              = <<"d">> \o (Unescape[Tail(Tail(u))] \o Unescape[t])
        <4>1. <<"d">> \in Text
          <5> HIDE DEF Text
          <5> QED
            BY <3>7, SymbolFirst, SymbolsAssumption
        <4> HIDE DEF Whole, Text
        <4> QED
          BY <1>2, <3>7, <4>1, Associative
      <3> QED
        BY <1>4, <3>4, <3>5, <3>6, <3>8
    <2>5. CASE ~ Escaped(u)
      <3>1. Tail(u) \in Text /\ Len(Tail(u)) < Len(u) /\ Head(u) \in Symbols
        BY <1>2, <1>6, Tails
      <3>2. Unescape[Tail(u) \o t] = Unescape[Tail(u)] \o Unescape[t]
        BY <1>3, <2>3, <3>1
      <3>3. Unescape[u \o t] = <<Head(u)>> \o Unescape[Tail(u) \o t]
        BY <2>1, <2>2, <2>5, UnescapeIs DEF Turn
      <3>4. Unescape[u] = <<Head(u)>> \o Unescape[Tail(u)]
        BY <1>2, <1>6, <2>5, UnescapeIs DEF Turn
      <3>5. Unescape[Tail(u)] \in Text
        BY <3>1, UnescapeType
      <3>6. (<<Head(u)>> \o Unescape[Tail(u)]) \o Unescape[t]
              = <<Head(u)>> \o (Unescape[Tail(u)] \o Unescape[t])
        <4>1. <<Head(u)>> \in Text
          <5> HIDE DEF Text
          <5> QED
            BY <3>1, <3>5, SymbolFirst
        <4> HIDE DEF Whole, Text
        <4> QED
          BY <1>2, <3>5, <4>1, Associative
      <3> QED
        BY <1>4, <3>2, <3>3, <3>4, <3>6
    <2> QED
      BY <2>4, <2>5
  <1> QED
    BY <1>5, <1>6

-----------------------------------------------------------------------------
(* The invariant *)

IsApi == path # <<>> /\ Head(path) = Api

(* No slash has been passed, and the reading stops at one or at the end. *)
PathRead ==
    /\ ~ IsApi => pos = 1 /\ phase # "path"
    /\ IsApi => pos >= 2 /\ \A i \in 2 .. pos - 1 : path[i] # "/"
    /\ IsApi /\ phase # "path" => ~ AtVersion

(* A field is there if any text came for it; its value is that text. *)
FormRead ==
    \A n \in Names :
        /\ values[n] = None <=> form[n].text = <<>>
        /\ ~ Cut(form[n]) /\ form[n].text # <<>> => values[n] = Unescape[form[n].text]

Inv == TypeOK /\ PathRead /\ FormRead

LEMMA InitInv == Init => Inv
  <1> SUFFICES ASSUME Init PROVE Inv
    OBVIOUS
  <1>1. path \in Text /\ Len(path) \in Nat /\ (path # <<>> => Len(path) >= 1)
    BY PathsAssumption DEF Init
  <1>2. TypeOK
    BY <1>1, FormAssumption DEF Init, TypeOK
  <1>3. PathRead
    BY <1>1 DEF Init, PathRead, IsApi
  <1>4. FormRead
    BY DEF Init, FormRead
  <1> QED
    BY <1>2, <1>3, <1>4 DEF Inv

LEMMA ReadVersionInv == Inv /\ ReadVersion => Inv'
  <1> SUFFICES ASSUME Inv, ReadVersion PROVE Inv'
    OBVIOUS
  <1>1. path \in Text /\ Len(path) \in Nat /\ pos \in 1 .. Len(path) + 1 /\ path' = path
    BY PathsAssumption DEF Inv, TypeOK, ReadVersion, input
  <1>2. FormRead'
    BY DEF Inv, FormRead, ReadVersion
  <1>3. CASE AtVersion
    <2>1. pos' = pos + 1 /\ pos <= Len(path) /\ path[pos] # "/" /\ phase' = phase
      BY <1>3 DEF ReadVersion, AtVersion
    <2>2. apiver' \in Int
      <3>1. apiver \in Int /\ (path[pos] \in DOMAIN Digit => Digit[path[pos]] \in Int)
        <4>1. \A c \in DOMAIN Digit : Digit[c] \in Int
          BY DigitAssumption
        <4> QED
          BY <4>1 DEF Inv, TypeOK
      <3>2. apiver' = IF path[pos] \in DOMAIN Digit
                      THEN 10 * apiver - Digit[path[pos]] ELSE apiver
        BY <1>3 DEF ReadVersion
      <3> QED
        BY <3>1, <3>2
    <2>3. TypeOK'
      BY <1>1, <2>1, <2>2 DEF Inv, TypeOK, ReadVersion, input
    <2>4. PathRead'
      <3>1. IsApi /\ IsApi' /\ phase = "path"
        BY <1>1 DEF Inv, PathRead, IsApi, ReadVersion
      <3>2. pos >= 2 /\ \A i \in 2 .. pos - 1 : path[i] # "/"
        BY <3>1 DEF Inv, PathRead
      <3>3. \A i \in 2 .. pos' - 1 : i \in 2 .. pos - 1 \/ i = pos
        BY <1>1, <2>1
      <3> QED
        BY <1>1, <2>1, <3>1, <3>2, <3>3 DEF PathRead
    <2> QED
      BY <1>2, <2>3, <2>4 DEF Inv
  <1>4. CASE ~ AtVersion
    BY <1>2, <1>4 DEF Inv, TypeOK, PathRead, IsApi, AtVersion, ReadVersion, input
  <1> QED
    BY <1>3, <1>4

(* Steps that read no path keep what was read of it. *)
LEMMA PathKept ==
    ASSUME PathRead, UNCHANGED <<path, pos>>, phase # "path", phase' # "path"
    PROVE  PathRead'
  BY DEF PathRead, IsApi, AtVersion

LEMMA FieldFoundInv ==
    ASSUME Inv, NEW n \in Names, FieldFound(n)
    PROVE  Inv'
  <1>1. TypeOK'
    BY FormAssumption DEF Inv, TypeOK, FieldFound, input
  <1>2. PathRead'
    BY PathKept DEF Inv, FieldFound, input
  <1>3. FormRead'
    BY DEF Inv, FormRead, FieldFound
  <1> QED
    BY <1>1, <1>2, <1>3 DEF Inv

(* The text a piece is added to is cut between them, and nowhere else. *)
LEMMA CutGrows ==
    ASSUME NEW f \in [text : Text, cuts : SUBSET Nat], NEW p \in Text,
           NEW g, g = [text |-> f.text \o p, cuts |-> f.cuts \cup {Len(f.text)}],
           ~ Cut(g)
    PROVE  /\ ~ Cut(f)
           /\ ~ (/\ f.text # <<>> /\ p # <<>>
                 /\ f.text[Len(f.text)] = "%" /\ p[1] = "h")
  <1> DEFINE s == f.text
  <1>1. /\ s \in Text /\ Len(s) \in Nat /\ Len(p) \in Nat /\ Len(s \o p) = Len(s) + Len(p)
        /\ g.text = s \o p /\ g.cuts = f.cuts \cup {Len(s)}
        /\ \A i \in 1 .. Len(s) : (s \o p)[i] = s[i]
        /\ p # <<>> => Len(p) >= 1 /\ (s \o p)[Len(s) + 1] = p[1]
        /\ s # <<>> => Len(s) >= 1
    OBVIOUS
  <1> HIDE DEF s
  <1>2. \A i \in g.cuts : ~ (/\ i \in 1 .. Len(s) + Len(p) - 1
                             /\ (s \o p)[i] = "%" /\ (s \o p)[i + 1] = "h")
    <2>1. \A i \in g.cuts : ~ (/\ i \in 1 .. Len(g.text) - 1
                               /\ g.text[i] = "%" /\ g.text[i + 1] = "h")
      BY DEF Cut
    <2>2. g.text = s \o p /\ Len(g.text) - 1 = Len(s) + Len(p) - 1
      BY <1>1
    <2> QED
      BY <2>1, <2>2, Zenon
  <1>3. ~ Cut(f)
    <2> SUFFICES ASSUME NEW i \in f.cuts, i \in 1 .. Len(s) - 1, s[i] = "%", s[i + 1] = "h"
                 PROVE  FALSE
      BY DEF Cut, s
    <2>1. i \in 1 .. Len(s) /\ i + 1 \in 1 .. Len(s) /\ i \in 1 .. Len(s) + Len(p) - 1
      BY <1>1
    <2> QED
      BY <1>1, <1>2, <2>1
  <1>4. ASSUME s # <<>>, p # <<>>, s[Len(s)] = "%", p[1] = "h" PROVE FALSE
    <2>1. Len(s) \in 1 .. Len(s) /\ Len(s) \in 1 .. Len(s) + Len(p) - 1
      BY <1>1, <1>4
    <2> QED
      BY <1>1, <1>2, <1>4, <2>1
  <1> QED
    BY <1>3, <1>4 DEF s

LEMMA FieldGetInv ==
    ASSUME Inv, NEW p \in Pieces, FieldGet(p)
    PROVE  Inv'
  <1> DEFINE f == form[field]
             v == values[field]
  <1>1. /\ p \in Text /\ field \in Names /\ f \in [text : Text, cuts : SUBSET Nat]
        /\ f.text \in Text /\ v \in (Text \ {<<>>}) \cup {None}
    BY FormAssumption DEF FieldGet, Inv, TypeOK
  <1>2. /\ form' = [form EXCEPT ![field] =
                      [text |-> f.text \o p, cuts |-> f.cuts \cup {Len(f.text)}]]
        /\ size < MaxForm /\ size' = size + 1
    BY DEF FieldGet, Recorded
  <1>3. values' = IF p = <<>> THEN values
                  ELSE [values EXCEPT ![field] =
                           (IF v = None THEN <<>> ELSE v) \o Unescape[p]]
    BY DEF FieldGet
  <1>4. [text |-> f.text \o p, cuts |-> f.cuts \cup {Len(f.text)}]
          \in [text : Text, cuts : SUBSET Nat]
    BY <1>1
  <1>5. Unescape[p] \in Text /\ (p # <<>> => Unescape[p] # <<>>)
    BY <1>1, UnescapeType
  <1>6. p # <<>> => (IF v = None THEN <<>> ELSE v) \o Unescape[p] \in Text \ {<<>>}
    BY <1>1, <1>5
  <1>7. TypeOK'
    <2>1. form' \in [Names -> [text : Text, cuts : SUBSET Nat]]
      BY <1>1, <1>2, <1>4 DEF Inv, TypeOK
    <2>2. values' \in [Names -> (Text \ {<<>>}) \cup {None}]
      BY <1>1, <1>3, <1>6 DEF Inv, TypeOK
    <2>3. size' \in 0 .. MaxForm
      BY <1>2, FormAssumption DEF Inv, TypeOK
    <2> QED
      BY <2>1, <2>2, <2>3 DEF Inv, TypeOK, FieldGet, input
  <1>8. PathRead'
    BY PathKept DEF Inv, FieldGet, input
  <1>9. FormRead'
    <2> SUFFICES ASSUME NEW n \in Names
                 PROVE  /\ values'[n] = None <=> form'[n].text = <<>>
                        /\ ~ Cut(form'[n]) /\ form'[n].text # <<>> =>
                              values'[n] = Unescape[form'[n].text]
      BY DEF FormRead, Cut
    <2>1. CASE n # field
      <3>1. values'[n] = values[n] /\ form'[n] = form[n]
        BY <1>2, <1>3, <2>1 DEF Inv, TypeOK
      <3> QED
        BY <3>1 DEF Inv, FormRead
    <2>2. CASE n = field
      <3> DEFINE g == form'[field]
      <3>1. /\ g = [text |-> f.text \o p, cuts |-> f.cuts \cup {Len(f.text)}]
            /\ g.text = f.text \o p
        BY <1>1, <1>2 DEF Inv, TypeOK
      <3>2. /\ v = None <=> f.text = <<>>
            /\ ~ Cut(f) /\ f.text # <<>> => v = Unescape[f.text]
        BY <1>1 DEF Inv, FormRead
      <3> HIDE DEF g, f, v
      <3>3. ~ Cut(g) => ~ Cut(f) /\ ~ (/\ f.text # <<>> /\ p # <<>>
                                       /\ f.text[Len(f.text)] = "%" /\ p[1] = "h")
        BY <1>1, <3>1, CutGrows
      <3>4. CASE p = <<>>
        <4>1. g.text = f.text /\ values'[field] = v
          BY <1>1, <1>3, <3>1, <3>4 DEF v
        <4> QED
          BY <2>2, <3>2, <3>3, <4>1 DEF g
      <3>5. CASE p # <<>>
        <4>1. values'[field] = (IF v = None THEN <<>> ELSE v) \o Unescape[p]
          BY <1>1, <1>3, <3>5 DEF Inv, TypeOK
        <4>2. values'[field] # None /\ g.text # <<>>
          <5>1. values'[field] \in Text \ {<<>>}
            BY <1>6, <3>5, <4>1
          <5>2. f.text \o p # <<>>
            BY <1>1, <3>5, ConcatEqualIffEmpty
          <5> HIDE DEF Text
          <5> QED
            BY <3>1, <5>1, <5>2, NoneAssumption
        <4>3. ASSUME ~ Cut(g) PROVE values'[field] = Unescape[g.text]
          <5>1. CASE f.text = <<>>
            <6>1. g.text = p /\ v = None /\ <<>> \o Unescape[p] = Unescape[p]
              BY <1>1, <1>5, <3>1, <3>2, <5>1, ConcatEmptySeq
            <6> QED
              BY <4>1, <6>1
          <5>2. CASE f.text # <<>>
            <6>1. v # None /\ v = Unescape[f.text]
              BY <3>2, <3>3, <4>3, <5>2
            <6>2. Unescape[f.text \o p] = Unescape[f.text] \o Unescape[p]
              BY <1>1, <3>3, <4>3, UnescapeConcat
            <6> QED
              BY <3>1, <4>1, <6>1, <6>2
          <5> QED
            BY <5>1, <5>2
        <4> QED
          BY <2>2, <4>2, <4>3 DEF g
      <3> QED
        BY <3>4, <3>5
    <2> QED
      BY <2>1, <2>2
  <1> QED
    BY <1>7, <1>8, <1>9 DEF Inv

LEMMA FormDoneInv == Inv /\ FormDone => Inv'
  <1> SUFFICES ASSUME Inv, FormDone PROVE Inv'
    OBVIOUS
  <1>1. TypeOK'
    BY DEF Inv, TypeOK, FormDone, input
  <1>2. PathRead'
    BY PathKept DEF Inv, FormDone, input
  <1>3. FormRead'
    BY DEF Inv, FormRead, FormDone
  <1> QED
    BY <1>1, <1>2, <1>3 DEF Inv

LEMMA NextInv == Inv /\ [Next]_vars => Inv'
  <1> SUFFICES ASSUME Inv, [Next]_vars PROVE Inv'
    OBVIOUS
  <1>1. CASE UNCHANGED vars
    BY <1>1 DEF vars, input, Inv, TypeOK, PathRead, IsApi, AtVersion, FormRead, Cut
  <1>2. CASE Next
    BY <1>2, ReadVersionInv, FieldFoundInv, FieldGetInv, FormDoneInv DEF Next
  <1> QED
    BY <1>1, <1>2

LEMMA AlwaysInv == Spec => []Inv
  BY InitInv, NextInv, PTL DEF Spec

(* A request keeps its types: above all, the pointer into the path never
   passes its end, and no name has an empty value. *)
THEOREM RequestTypes == Spec => []TypeOK
  <1>1. Inv => TypeOK
    BY DEF Inv
  <1> QED
    BY <1>1, AlwaysInv, PTL

(* The path of a request under "/api/<version>" begins at the first slash
   after the version, whatever the version is made of; it is the whole path
   if there is none, and for requests elsewhere. *)
THEOREM PathsAfterVersions == Spec => []PathAfterVersion
  <1>1. Inv => PathAfterVersion
    <2> DEFINE end == CHOOSE i \in Slashes : \A j \in Slashes : i <= j
    <2> SUFFICES ASSUME Inv, Ready
                 PROVE  RequestPath = IF IsApi /\ Slashes # {}
                                      THEN SubSeq(path, end, Len(path)) ELSE path
      BY DEF PathAfterVersion, IsApi
    <2>1. path \in Text /\ Len(path) \in Nat /\ pos \in 1 .. Len(path) + 1
      BY PathsAssumption DEF Inv, TypeOK
    <2>2. phase # "path"
      BY DEF Ready
    <2>3. CASE ~ IsApi
      <3>1. pos = 1
        BY <2>3 DEF Inv, PathRead
      <3>2. path # <<>> => SubSeq(path, 1, Len(path)) = path
        BY <2>1, SubSeqFull
      <3> QED
        BY <2>1, <2>3, <3>1, <3>2 DEF RequestPath
    <2>4. CASE IsApi
      <3>1. /\ pos >= 2 /\ \A i \in 2 .. pos - 1 : path[i] # "/"
            /\ ~ AtVersion
        BY <2>2, <2>4 DEF Inv, PathRead
      <3>2. CASE pos <= Len(path)
        <4>1. pos \in Slashes
          BY <2>1, <3>1, <3>2 DEF AtVersion, Slashes
        <4>2. \A j \in Slashes : pos <= j
          BY <2>1, <3>1 DEF Slashes
        <4>3. \A i \in Slashes : (\A j \in Slashes : i <= j) => i = pos
          BY <2>1, <4>1, <4>2 DEF Slashes
        <4>4. end = pos
          BY <4>1, <4>2, <4>3
        <4> HIDE DEF end
        <4>5. RequestPath = SubSeq(path, end, Len(path))
          BY <3>2, <4>4 DEF RequestPath
        <4> QED
          BY <2>4, <4>1, <4>5
      <3>3. CASE ~ (pos <= Len(path))
        <4>1. Slashes = {}
          BY <2>1, <3>1, <3>3 DEF Slashes
        <4> QED
          BY <3>3, <4>1 DEF RequestPath
      <3> QED
        BY <3>2, <3>3
    <2> QED
      BY <2>3, <2>4
  <1> QED
    BY <1>1, AlwaysInv, PTL

(* However civetweb cuts the fields of a form, and however many times it
   posts them: what is read is the text that came, unless an escape is cut. *)
THEOREM FormsAreWhole == Spec => []FormIsWhole
  <1>1. Inv => FormIsWhole
    BY DEF Inv, FormRead, FormIsWhole
  <1> QED
    BY <1>1, AlwaysInv, PTL

-----------------------------------------------------------------------------
(* Looking up and enumerating *)

LEMMA MinIn ==
    ASSUME NEW X \in SUBSET Nat, X # {}
    PROVE  Min(X) \in X /\ \A y \in X : Min(X) <= y
  BY LeastNat DEF Min

Named(list, k) == {i \in DOMAIN list : list[i].name = k}

LEMMA FirstNone ==
    ASSUME NEW list, NEW k, Named(list, k) = {}
    PROVE  First(list, k) = None
  BY DEF First, Named

LEMMA FirstSome ==
    ASSUME NEW S, NEW list \in Seq(S), NEW k, Named(list, k) # {}
    PROVE  /\ Min(Named(list, k)) \in Named(list, k)
           /\ \A i \in Named(list, k) : Min(Named(list, k)) <= i
           /\ First(list, k) = list[Min(Named(list, k))].value
  <1>1. Named(list, k) \in SUBSET Nat
    BY DEF Named
  <1>2. First(list, k) = list[Min(Named(list, k))].value
    BY DEF First, Named
  <1> QED
    BY <1>1, <1>2, MinIn

(* What is first in a list is first in a longer one. *)
LEMMA FirstConcat ==
    ASSUME NEW S, NEW s \in Seq(S), NEW t \in Seq(S), NEW k
    PROVE  First(s \o t, k) = IF Named(s, k) = {} THEN First(t, k) ELSE First(s, k)
  <1> DEFINE u == s \o t
             l == Len(s)
  <1>1. /\ u \in Seq(S) /\ l \in Nat /\ Len(t) \in Nat
        /\ DOMAIN s = 1 .. l /\ DOMAIN t = 1 .. Len(t) /\ DOMAIN u = 1 .. l + Len(t)
        /\ \A i \in 1 .. l : u[i] = s[i]
        /\ \A i \in 1 .. Len(t) : u[l + i] = t[i]
    OBVIOUS
  <1> HIDE DEF u, l
  <1>2. \A i \in Named(s, k) : i \in Named(u, k) /\ u[i] = s[i]
    BY <1>1 DEF Named
  <1>3. \A i \in Named(t, k) : l + i \in Named(u, k) /\ u[l + i] = t[i]
    BY <1>1 DEF Named
  <1>4. ASSUME NEW i \in Named(u, k)
        PROVE  i \in Named(s, k) \/ (i > l /\ i - l \in Named(t, k))
    <2>1. CASE i \in 1 .. l
      BY <1>1, <2>1 DEF Named
    <2>2. CASE i \notin 1 .. l
      <3>1. i - l \in 1 .. Len(t) /\ i > l /\ l + (i - l) = i
        BY <1>1, <2>2 DEF Named
      <3>2. t[i - l] = u[i]
        BY <1>1, <3>1
      <3> QED
        BY <1>1, <3>1, <3>2 DEF Named
    <2> QED
      BY <2>1, <2>2
  <1>5. CASE Named(s, k) # {}
    <2> DEFINE m == Min(Named(s, k))
               n == Min(Named(u, k))
    <2>1. m \in Named(s, k) /\ (\A i \in Named(s, k) : m <= i) /\ First(s, k) = s[m].value
      BY <1>5, FirstSome
    <2>2. n \in Named(u, k) /\ (\A i \in Named(u, k) : n <= i) /\ First(u, k) = u[n].value
      <3>1. Named(u, k) # {}
        BY <1>2, <1>5
      <3> QED
        BY <1>1, <3>1, FirstSome
    <2> HIDE DEF m, n
    <2>3. m \in 1 .. l /\ n \in Nat
      BY <1>1, <2>1, <2>2 DEF Named
    <2>4. n <= m
      BY <1>2, <2>1, <2>2
    <2>5. n \in Named(s, k)
      BY <1>1, <1>4, <2>2, <2>3, <2>4
    <2>6. n = m
      BY <2>1, <2>3, <2>4, <2>5
    <2> QED
      BY <1>2, <1>5, <2>1, <2>2, <2>6 DEF u
  <1>6. CASE Named(s, k) = {} /\ Named(t, k) # {}
    <2> DEFINE m == Min(Named(t, k))
               n == Min(Named(u, k))
    <2>1. m \in Named(t, k) /\ (\A i \in Named(t, k) : m <= i) /\ First(t, k) = t[m].value
      BY <1>6, FirstSome
    <2>2. n \in Named(u, k) /\ (\A i \in Named(u, k) : n <= i) /\ First(u, k) = u[n].value
      <3>1. Named(u, k) # {}
        BY <1>3, <1>6
      <3> QED
        BY <1>1, <3>1, FirstSome
    <2> HIDE DEF m, n
    <2>3. m \in Nat /\ n \in Nat
      BY <1>1, <2>1, <2>2 DEF Named
    <2>4. n <= l + m
      BY <1>3, <2>1, <2>2
    <2>5. n - l \in Named(t, k)
      BY <1>4, <1>6, <2>2
    <2>6. n = l + m
      BY <1>1, <2>1, <2>3, <2>4, <2>5
    <2> QED
      BY <1>3, <1>6, <2>1, <2>2, <2>6 DEF u
  <1>7. CASE Named(s, k) = {} /\ Named(t, k) = {}
    <2>1. Named(u, k) = {}
      BY <1>4, <1>7
    <2> QED
      BY <1>7, <2>1, FirstNone DEF u
  <1> QED
    BY <1>5, <1>6, <1>7

(* A name is in two lists joined if it is in either; it is in the first one
   unless it is only met past its end. *)
LEMMA NamedConcat ==
    ASSUME NEW S, NEW s \in Seq(S), NEW t \in Seq(S), NEW k
    PROVE  /\ Named(s \o t, k) = {} <=> Named(s, k) = {} /\ Named(t, k) = {}
           /\ Named(s, k) = {} <=>
                 \A i \in DOMAIN (s \o t) :
                     (s \o t)[i].name = k => i > Len(s \o t) - Len(t)
  <1>1. PICK u \in Seq(S) : u = s \o t
    BY ConcatProperties
  <1>2. /\ Len(u) = Len(s) + Len(t) /\ Len(s) \in Nat /\ Len(t) \in Nat
        /\ \A i \in 1 .. Len(s) + Len(t) :
              u[i] = IF i <= Len(s) THEN s[i] ELSE t[i - Len(s)]
    BY <1>1, ConcatProperties, LenProperties
  <1>3. DOMAIN u = 1 .. Len(u) /\ DOMAIN s = 1 .. Len(s) /\ DOMAIN t = 1 .. Len(t)
    BY LenProperties
  <1>4. \A i \in DOMAIN s : i \in DOMAIN u /\ u[i] = s[i] /\ ~ (i > Len(u) - Len(t))
    BY <1>2, <1>3
  <1>5. \A i \in DOMAIN t : Len(s) + i \in DOMAIN u /\ u[Len(s) + i] = t[i]
    BY <1>2, <1>3
  <1>6. \A i \in DOMAIN u :
           \/ i \in DOMAIN s /\ u[i] = s[i]
           \/ i - Len(s) \in DOMAIN t /\ u[i] = t[i - Len(s)] /\ i > Len(u) - Len(t)
    BY <1>2, <1>3
  <1>7. Named(u, k) = {} <=> Named(s, k) = {} /\ Named(t, k) = {}
    BY <1>4, <1>5, <1>6 DEF Named
  <1>8. Named(s, k) = {} <=> \A i \in DOMAIN u : u[i].name = k => i > Len(u) - Len(t)
    BY <1>4, <1>6 DEF Named
  <1> QED
    BY <1>1, <1>7, <1>8

(* Any set of places can be listed in ascending order. *)
Ascending(s, c) == \A i, j \in 1 .. c : i < j => s[i] < s[j]

Listed(U) == \E s \in [1 .. Cardinality(U) -> U] : Ascending(s, Cardinality(U))

LEMMA PlacesListed ==
    ASSUME NEW N \in Nat, NEW U \in SUBSET (1 .. N)
    PROVE  Listed(U)
  <1> DEFINE T == {n \in Nat : \E V \in SUBSET (1 .. n) : ~ Listed(V)}
  <1> SUFFICES ASSUME T # {} PROVE FALSE
    OBVIOUS
  <1>1. PICK n \in T : \A m \in T : n <= m
    <2>1. T \in SUBSET Nat
      OBVIOUS
    <2> HIDE DEF T
    <2> QED
      BY <2>1, LeastNat
  <1>2. PICK V \in SUBSET (1 .. n) : ~ Listed(V)
    OBVIOUS
  <1>3. n \in Nat
    OBVIOUS
  <1>4. n # 0
    <2> SUFFICES ASSUME n = 0 PROVE FALSE
      OBVIOUS
    <2>0. n = 0
      OBVIOUS
    <2>1. V = {} /\ Cardinality(V) = 0
      <3>1. 1 .. n = {}
        BY <2>0
      <3>2. V = {}
        BY <3>1
      <3> QED
        BY <3>2, FS_EmptySet
    <2>2. [i \in {} |-> i] \in [1 .. Cardinality(V) -> V]
      BY <2>1
    <2>3. Ascending([i \in {} |-> i], Cardinality(V))
      BY <2>1 DEF Ascending
    <2> QED
      BY <1>2, <2>2, <2>3 DEF Listed
  <1>5. \A W \in SUBSET (1 .. n - 1) : Listed(W)
    <2>1. n - 1 \in Nat /\ ~ (n <= n - 1)
      BY <1>3, <1>4
    <2>2. n - 1 \notin T
      <3> HIDE DEF T
      <3> QED
        BY <1>1, <2>1
    <2> QED
      BY <2>1, <2>2
  <1> HIDE DEF T
  <1>6. CASE n \notin V
    <2>1. V \in SUBSET (1 .. n - 1)
      BY <1>3, <1>6
    <2> QED
      BY <1>2, <1>5, <2>1
  <1>7. CASE n \in V
    <2> DEFINE W == V \ {n}
               c == Cardinality(V)
    <2>1. IsFiniteSet(V)
      <3>1. IsFiniteSet(1 .. n)
        BY <1>3, FS_Interval
      <3> QED
        BY <3>1, FS_Subset
    <2>2. c \in Nat /\ c >= 1 /\ Cardinality(W) = c - 1
      BY <1>7, <2>1, FS_RemoveElement, FS_CardinalityType, FS_EmptySet
    <2>3. W \in SUBSET (1 .. n - 1)
      BY <1>3
    <2>4. PICK t \in [1 .. c - 1 -> W] : Ascending(t, c - 1)
      BY <1>5, <2>2, <2>3 DEF Listed
    <2> HIDE DEF c
    <2> DEFINE s == [i \in 1 .. c |-> IF i = c THEN n ELSE t[i]]
    <2>5. \A i \in 1 .. c : i # c => i \in 1 .. c - 1 /\ t[i] \in W
      BY <2>2, <2>4
    <2>6. s \in [1 .. c -> V]
      BY <1>7, <2>5
    <2>7. ASSUME NEW i \in 1 .. c, NEW j \in 1 .. c, i < j PROVE s[i] < s[j]
      <3>1. i # c /\ i \in 1 .. c - 1 /\ s[i] = t[i] /\ t[i] \in W
        BY <2>2, <2>5, <2>7
      <3>2. CASE j = c
        <4>1. t[i] < n
          <5>1. t[i] \in 1 .. n - 1
            BY <2>3, <3>1
          <5> QED
            BY <1>3, <5>1
        <4> QED
          BY <3>1, <3>2, <4>1
      <3>3. CASE j # c
        BY <2>4, <2>5, <2>7, <3>1, <3>3 DEF Ascending
      <3> QED
        BY <3>2, <3>3
    <2>8. Ascending(s, c)
      <3> HIDE DEF s
      <3> QED
        BY <2>7 DEF Ascending
    <2> HIDE DEF s
    <2> QED
      BY <1>2, <2>6, <2>8 DEF Listed, c
  <1> QED
    BY <1>6, <1>7

(* Every field that has a value is listed, with that value, and no other. *)
LEMMA PostedIs ==
    ASSUME TypeOK
    PROVE  /\ Posted \in Seq(Argument)
           /\ \A k \in Names :
                 /\ Named(Posted, k) = {} <=> values[k] = None
                 /\ \A i \in Named(Posted, k) : Posted[i].value = values[k]
  <1> DEFINE found == {i \in DOMAIN NameOrder : values[NameOrder[i]] # None}
             c == Cardinality(found)
             places == CHOOSE s \in [1 .. c -> found] : Ascending(s, c)
  <1>1. /\ DOMAIN NameOrder = 1 .. Len(NameOrder) /\ Len(NameOrder) \in Nat
        /\ \A i \in DOMAIN NameOrder : NameOrder[i] \in Names
    BY NamesAssumption
  <1>2. IsFiniteSet(found) /\ c \in Nat
    <2>1. IsFiniteSet(1 .. Len(NameOrder))
      BY <1>1, FS_Interval
    <2> QED
      BY <1>1, <2>1, FS_Subset, FS_CardinalityType
  <1>3. Posted = [i \in 1 .. c |-> [name |-> NameOrder[places[i]],
                                    value |-> values[NameOrder[places[i]]]]]
    BY DEF Posted, Ascending
  <1>4. places \in [1 .. c -> found] /\ Ascending(places, c)
    <2>1. found \in SUBSET (1 .. Len(NameOrder))
      BY <1>1
    <2> HIDE DEF found
    <2>2. Listed(found)
      BY <1>1, <2>1, PlacesListed
    <2> QED
      BY <2>2 DEF Listed
  <1>5. \A i \in 1 .. c : /\ places[i] \in DOMAIN NameOrder
                          /\ values[NameOrder[places[i]]] # None
    BY <1>4
  <1>6. \A i \in found : \E j \in 1 .. c : places[j] = i
    <2>1. found \subseteq Nat
      BY <1>1
    <2> HIDE DEF found, places, c
    <2>2. \A i, j \in 1 .. c : places[i] = places[j] => i = j
      <3> SUFFICES ASSUME NEW i \in 1 .. c, NEW j \in 1 .. c, places[i] = places[j], i # j
                   PROVE  FALSE
        OBVIOUS
      <3>1. places[i] \in Nat /\ (i < j \/ j < i)
        <4>1. places[i] \in Nat
          BY <1>4, <2>1
        <4>2. i \in Nat /\ j \in Nat
          BY <1>2
        <4> QED
          BY <4>1, <4>2
      <3>2. places[i] < places[j] \/ places[j] < places[i]
        BY <1>4, <3>1 DEF Ascending
      <3> QED
        BY <3>1, <3>2
    <2>3. places \in Injection(1 .. c, found)
      BY <1>4, <2>2 DEF Injection, IsInjective
    <2>4. Cardinality(1 .. c) = c
      BY <1>2, FS_Interval
    <2>5. places \in Surjection(1 .. c, found)
      BY <1>2, <2>3, <2>4, FS_Injection DEF c
    <2> QED
      BY <2>5 DEF Surjection
  <1> HIDE DEF places, c
  <1>7. Posted \in Seq(Argument)
    <2>1. ASSUME NEW i \in 1 .. c PROVE Posted[i] \in Argument
      <3>1. NameOrder[places[i]] \in Names /\ values[NameOrder[places[i]]] # None
        BY <1>1, <1>5
      <3>2. values[NameOrder[places[i]]] \in Text
        BY <3>1 DEF TypeOK
      <3> QED
        BY <1>3, <3>1, <3>2 DEF Argument
    <2> QED
      BY <1>2, <1>3, <2>1
  <1>8. DOMAIN Posted = 1 .. c
    BY <1>3
  <1>9. ASSUME NEW k \in Names, NEW i \in Named(Posted, k)
        PROVE  Posted[i].value = values[k] /\ values[k] # None
    BY <1>3, <1>5, <1>8 DEF Named
  <1>10. ASSUME NEW k \in Names, values[k] # None PROVE Named(Posted, k) # {}
    <2>1. PICK i \in DOMAIN NameOrder : NameOrder[i] = k
      BY DEF Names, Range
    <2>2. i \in found
      BY <1>10, <2>1
    <2>3. PICK j \in 1 .. c : places[j] = i
      BY <1>6, <2>2
    <2>4. Posted[j].name = k
      BY <1>3, <2>1, <2>3
    <2> QED
      BY <1>8, <2>4 DEF Named
  <1> QED
    BY <1>7, <1>9, <1>10

(* The address of the client is a text. *)
LEMMA AddressType ==
    ASSUME TypeOK
    PROVE  Address \in Text
  <1> DEFINE proxies == {i \in DOMAIN headers : headers[i].name \in Proxied}
  <1>1. CASE proxies = {}
    BY <1>1, AddressAssumption DEF Address
  <1>2. CASE proxies # {}
    <2>1. headers \in Seq(Argument) /\ proxies \in SUBSET Nat
      BY HeadersAssumption DEF TypeOK
    <2>2. Min(proxies) \in DOMAIN headers
      <3>1. Min(proxies) \in proxies
        <4> HIDE DEF proxies
        <4> QED
          BY <1>2, <2>1, MinIn
      <3> QED
        BY <3>1
    <2>3. PICK text \in Text : text = headers[Min(proxies)].value
      <3>1. headers[Min(proxies)] \in Argument
        <4> HIDE DEF proxies
        <4> QED
          BY <2>1, <2>2
      <3> QED
        BY <3>1 DEF Argument
    <2>4. UpToComma(text) \in Text
      <3> DEFINE commas == {i \in DOMAIN text : text[i] = ","}
      <3>1. CASE commas = {}
        BY <3>1 DEF UpToComma
      <3>2. CASE commas # {}
        <4>0. Len(text) \in Nat /\ DOMAIN text = 1 .. Len(text)
          OBVIOUS
        <4>1. commas \in SUBSET Nat /\ commas \subseteq 1 .. Len(text)
          <5>1. commas \subseteq DOMAIN text
            OBVIOUS
          <5> HIDE DEF commas
          <5> QED
            BY <4>0, <5>1
        <4>2. Min(commas) \in 1 .. Len(text)
          <5> HIDE DEF commas
          <5> QED
            BY <3>2, <4>1, MinIn
        <4>3. UpToComma(text) = SubSeq(text, 1, Min(commas) - 1)
          BY <3>2 DEF UpToComma
        <4> HIDE DEF commas
        <4>4. \A m \in 1 .. Len(text) : SubSeq(text, 1, m - 1) \in Text
          BY <4>0
        <4> QED
          BY <4>2, <4>3, <4>4
      <3> QED
        BY <3>1, <3>2
    <2>5. Address = UpToComma(text)
      BY <1>2, <2>3 DEF Address
    <2> QED
      BY <2>4, <2>5
  <1> QED
    BY <1>1, <1>2

(* An argument that is found by its name is the first one that enumerating
   gives of that name, posted values before the client's address before the
   query before the headers, and the names that are enumerated but not found
   are those that only headers have. *)
THEOREM LookupsAgreeWithEnumeration == Spec => []LookupsAgree
  <1>1. TypeOK => LookupsAgree
    <2> SUFFICES ASSUME TypeOK, NEW k \in Names
                 PROVE  IF k \in Spellings \ {ClientAddress} /\ values[k] = None
                        THEN GetProperty(k) = Address
                        ELSE /\ GetProperty(k) # None => GetProperty(k) = First(ForEach, k)
                             /\ GetProperty(k) = None <=> OnlyInHeaders(k)
      BY DEF LookupsAgree
    <2> DEFINE own == <<[name |-> ClientAddress, value |-> Address]>>
               found == (Posted \o own) \o args
    <2>1. /\ Posted \in Seq(Argument) /\ args \in Seq(Argument)
          /\ headers \in Seq(Argument)
      BY PostedIs, ArgumentsAssumption, HeadersAssumption DEF TypeOK
    <2>2. own \in Seq(Argument)
      <3>1. Address \in Text /\ ClientAddress \in Names
        BY AddressType, NamesAssumption
      <3>2. [name |-> ClientAddress, value |-> Address] \in Argument
        BY <3>1 DEF Argument
      <3> QED
        BY <3>2
    <2>3. Named(own, k) = IF k = ClientAddress THEN {1} ELSE {}
      BY DEF Named
    <2>4. k = ClientAddress => First(own, k) = Address
      <3> SUFFICES ASSUME k = ClientAddress PROVE First(own, k) = Address
        OBVIOUS
      <3>1. Min(Named(own, k)) = 1
        BY <2>2, <2>3, FirstSome
      <3>2. First(own, k) = own[1].value
        BY <2>2, <2>3, <3>1, FirstSome
      <3> QED
        BY <3>2
    <2>5. ForEach = found \o headers
      BY DEF ForEach
    <2> HIDE DEF own
    <2>6. Posted \o own \in Seq(Argument) /\ found \in Seq(Argument)
      BY <2>1, <2>2, ConcatProperties
    <2>7. /\ First(found, k) = IF Named(Posted \o own, k) = {}
                               THEN First(args, k) ELSE First(Posted \o own, k)
          /\ First(Posted \o own, k) = IF Named(Posted, k) = {}
                                       THEN First(own, k) ELSE First(Posted, k)
      BY <2>1, <2>2, <2>6, FirstConcat
    <2>8. Named(Posted \o own, k) = {} <=> Named(Posted, k) = {} /\ Named(own, k) = {}
      BY <2>1, <2>2, NamedConcat
    <2> HIDE DEF found
    <2>9. GetProperty(k) = IF k \in Spellings \ {ClientAddress} /\ values[k] = None
                           THEN Address ELSE First(found, k)
      <3>1. CASE values[k] # None
        <4>1. Named(Posted, k) # {} /\ \A i \in Named(Posted, k) : Posted[i].value = values[k]
          BY <3>1, PostedIs
        <4>2. First(Posted, k) = values[k]
          BY <2>1, <4>1, FirstSome
        <4> QED
          BY <2>7, <2>8, <3>1, <4>1, <4>2 DEF GetProperty
      <3>2. CASE values[k] = None
        <4>1. Named(Posted, k) = {}
          BY <3>2, PostedIs
        <4> QED
          BY <2>3, <2>4, <2>7, <2>8, <3>2, <4>1, NamesAssumption DEF GetProperty
      <3> QED
        BY <3>1, <3>2
    <2>10. First(found, k) = None <=> Named(found, k) = {}
      <3>1. CASE Named(found, k) = {}
        BY <3>1, FirstNone
      <3>2. CASE Named(found, k) # {}
        <4>1. PICK i \in DOMAIN found : First(found, k) = found[i].value
          <5>1. Min(Named(found, k)) \in Named(found, k)
                /\ First(found, k) = found[Min(Named(found, k))].value
            BY <2>6, <3>2, FirstSome
          <5>2. Named(found, k) \subseteq DOMAIN found
            BY DEF Named
          <5> QED
            BY <5>1, <5>2
        <4>2. found[i] \in Argument
          BY <2>6, <4>1
        <4> QED
          BY <3>2, <4>1, <4>2, NoneAssumption DEF Argument
      <3> QED
        BY <3>1, <3>2
    <2>11. Named(found, k) # {} => First(ForEach, k) = First(found, k)
      BY <2>1, <2>5, <2>6, FirstConcat
    <2>12. Named(found, k) = {} <=> OnlyInHeaders(k)
      BY <2>1, <2>5, <2>6, NamedConcat DEF OnlyInHeaders
    <2> QED
      BY <2>9, <2>10, <2>11, <2>12
  <1> QED
    BY <1>1, RequestTypes, PTL
=============================================================================
