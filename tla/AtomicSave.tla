------------------------------ MODULE AtomicSave ------------------------------
(***************************************************************************)
(* What saving a resource to a file promises to whoever reads the file.    *)
(* There are no connections, pieces, temporary files or file times in it:  *)
(* a save takes effect at one moment or not at all.  The file goes from    *)
(* one body to another, which was the server's at some moment of the save. *)
(* A save that ended well did that, and one told to keep the file did not; *)
(* one that failed or died with the program may have done it or not, which *)
(* its caller cannot tell.  ProtocolWorker.tla is the detailed             *)
(* specification.                                                          *)
(***************************************************************************)
EXTENDS Naturals

CONSTANTS
    Workers,    \* saves that run at once
    Empty,      \* the body of an answer that does not tell its length
    None        \* absent

VARIABLES
    version,    \* the server's copy
    content,    \* what a reader of the file finds
    saving,     \* saving[w]: the save w is in: since when, and done or not
    outcome     \* outcome[w]: how w's last save ended

vars == <<version, content, saving, outcome>>

Init ==
    /\ version = 1
    /\ content = None
    /\ saving = [w \in Workers |-> None]
    /\ outcome = [w \in Workers |-> None]

Start(w) ==
    /\ saving[w] = None
    /\ saving' = [saving EXCEPT ![w] = [from |-> version, done |-> FALSE]]
    /\ outcome' = [outcome EXCEPT ![w] = None]
    /\ UNCHANGED <<version, content>>

(* The one moment at which readers see another file *)
TakeEffect(w) ==
    /\ saving[w] # None
    /\ ~ saving[w].done
    /\ content' \in saving[w].from .. version \cup {Empty}
    /\ saving' = [saving EXCEPT ![w] = [from |-> @.from, done |-> TRUE]]
    /\ UNCHANGED <<version, outcome>>

(* How a save may end that took effect, and one that did not *)
Outcomes(done) == IF done THEN {"ok", "failed"} ELSE {"kept", "failed"}

Finish(w) ==
    /\ saving[w] # None
    /\ saving' = [saving EXCEPT ![w] = None]
    /\ \E o \in Outcomes(saving[w].done) : outcome' = [outcome EXCEPT ![w] = o]
    /\ UNCHANGED <<version, content>>

(* Another use of the worker: nothing is known of its last save any more. *)
Forget(w) ==
    /\ saving[w] = None
    /\ outcome' = [outcome EXCEPT ![w] = None]
    /\ UNCHANGED <<version, content, saving>>

Change ==
    /\ version' = version + 1
    /\ UNCHANGED <<content, saving, outcome>>

Crash ==
    /\ saving' = [w \in Workers |-> None]
    /\ outcome' = [w \in Workers |-> None]
    /\ UNCHANGED <<version, content>>

Next ==
    \/ \E w \in Workers : Start(w) \/ TakeEffect(w) \/ Finish(w) \/ Forget(w)
    \/ Change
    \/ Crash

Spec == Init /\ [][Next]_vars
=============================================================================
