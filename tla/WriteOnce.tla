------------------------------- MODULE WriteOnce -------------------------------
(***************************************************************************)
(* What the cache of icons promises to the threads that use it.  No lock   *)
(* and no load in progress is in it: a book whose entries are decided      *)
(* once, at some moment, and then never change; whoever asks for an entry  *)
(* is told what was decided.  A restart of the program begins an empty     *)
(* book.  SharedObjects.tla is the detailed specification.                 *)
(***************************************************************************)
CONSTANTS
    Threads,    \* who asks
    Entries,    \* what for
    Values,     \* what they may be decided to be
    None        \* absent

VARIABLES
    book,       \* book[e]: the decision on e, or None
    told        \* told[t]: the last answer t got since it asked, or None

vars == <<book, told>>

Init ==
    /\ book = [e \in Entries |-> None]
    /\ told = [t \in Threads |-> None]

Ask(t) ==
    /\ told' = [told EXCEPT ![t] = None]
    /\ UNCHANGED book

Decided(e, v) ==
    /\ v \in Values
    /\ book[e] \in {None, v}
    /\ book' = [book EXCEPT ![e] = v]

Decide(e) ==
    /\ \E v \in Values : Decided(e, v)
    /\ UNCHANGED told

Tell(t, e) ==
    \E v \in Values :
        /\ Decided(e, v)
        /\ told' = [told EXCEPT ![t] = [entry |-> e, value |-> v]]

Restart ==
    /\ book' = [e \in Entries |-> None]
    /\ told' = [t \in Threads |-> None]

Next ==
    \/ \E t \in Threads : Ask(t)
    \/ \E e \in Entries : Decide(e)
    \/ \E t \in Threads, e \in Entries : Tell(t, e)
    \/ Restart

Spec == Init /\ [][Next]_vars
=============================================================================
