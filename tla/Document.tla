------------------------------- MODULE Document -------------------------------
(***************************************************************************)
(* What the values of the module (HTTP::Value) promise to the code that    *)
(* fills them: a tree of texts, addressed by paths of keys.  There are no  *)
(* objects in memory here, no maps and nothing to delete: a value whose    *)
(* type changes begins anew, and its parts are gone with it.  Values.tla   *)
(* is the detailed specification.                                          *)
(***************************************************************************)
EXTENDS Naturals, Sequences, FiniteSets

CONSTANTS
    Names,      \* keys of the parts of an object
    Texts       \* texts, among them ""

VARIABLE doc    \* doc[p]: type and text of the value at path p

Types == {"undefined", "text", "object", "array"}

Fresh(type) == [type |-> type, text |-> ""]

Below(p, d) == {q \in DOMAIN d : Len(q) > Len(p) /\ SubSeq(q, 1, Len(p)) = p}

(* d, with the value at p made one of the given type *)
Retyped(d, p, type) ==
    IF d[p].type = type THEN d
    ELSE [q \in DOMAIN d \ Below(p, d) |-> IF q = p THEN Fresh(type) ELSE d[q]]

With(d, p, v) == [q \in DOMAIN d \cup {p} |-> IF q = p THEN v ELSE d[q]]

Parts(d, p) == {q \in Below(p, d) : Len(q) = Len(p) + 1}

Init == doc = [p \in {<<>>} |-> Fresh("undefined")]

Reset(p, type) == doc' = Retyped(doc, p, type)

Set(p, text, type) ==
    doc' = With(Retyped(doc, p, type), p, [type |-> type, text |-> text])

Item(p, name) ==
    LET d == Retyped(doc, p, "object")
        q == Append(p, name)
    IN doc' = IF q \in DOMAIN d THEN d ELSE With(d, q, Fresh("undefined"))

Push(p, type) ==
    LET d == Retyped(doc, p, "array")
    IN doc' = With(d, Append(p, Cardinality(Parts(d, p))), Fresh(type))

Next ==
    \E p \in DOMAIN doc :
        \/ \E name \in Names : Item(p, name)
        \/ \E type \in Types :
              \/ Reset(p, type)
              \/ \E text \in Texts : Set(p, text, type)
              \/ Push(p, type)

Spec == Init /\ [][Next]_doc
=============================================================================
