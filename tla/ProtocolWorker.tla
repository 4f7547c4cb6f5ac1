---------------------------- MODULE ProtocolWorker ----------------------------
(***************************************************************************)
(* The HTTP client of the module (CivetWeb::Worker): one call asks a       *)
(* server for a resource and keeps it as a file (save), returns it (get)   *)
(* or only reads it (test).  The server's copy changes, connections break, *)
(* callers cancel, and the program may stop at any point; a file that was  *)
(* saved is asked for again with its time as If-Modified-Since.            *)
(*                                                                         *)
(* The server's version numbers are its clock and everybody's: version v   *)
(* was last modified at v, and now is the current version.                 *)
(***************************************************************************)
EXTENDS Naturals

CONSTANTS
    Workers,        \* calls that run at once, each on a worker of its own
    Length,         \* pieces a body is read in
    MaxVersion,     \* bound: changes of the server's copy
    None            \* absent

ASSUME LengthAssumption  == Length \in Nat \ {0}
ASSUME VersionAssumption == MaxVersion \in Nat \ {0}

VARIABLES
    version,    \* the server's copy
    file,       \* the local file: which version, how much of it, its time
    call,       \* call[w]: the call w is in, or None
    result      \* result[w]: how w's last call ended, or None

vars == <<version, file, call, result>>

Versions == 1..MaxVersion

(* Of a file, "framed" tells whether the answer it came in gave its length;
   "by" and "settled" are history: who put it in place, and whether that call
   has since set its time, and nobody else did. *)
Files == [version : Versions, pieces : 0..Length, framed : BOOLEAN,
          mtime : Versions, by : Workers, settled : BOOLEAN]

(* "from" is history: the server's version when the call began. *)
Calls == [op : {"save", "get", "test"},
          pc : {"connect", "read", "rename", "utime"},
          from : Versions, since : {0} \cup Versions, version : {0} \cup Versions,
          framed : BOOLEAN, loaded : 0..Length]

Results == [op : {"save", "get", "test"}, outcome : {"ok", "kept", "failed"},
            framed : BOOLEAN, read : 0..Length]

(* A save, to those who see only the file *)
Saves == [from : Versions, done : BOOLEAN]

ASSUME NoneAssumption == None \notin Files \cup Calls \cup Results \cup Saves

-----------------------------------------------------------------------------
(* Ends of a call: "ok" with how much of the body was read, "kept" for a
   304, "failed" for an exception or an error code. *)
End(w, outcome) ==
    /\ call' = [call EXCEPT ![w] = None]
    /\ result' = [result EXCEPT ![w] =
          [op |-> call[w].op, outcome |-> outcome,
           framed |-> outcome = "ok" => call[w].framed,
           read |-> IF outcome = "ok" THEN call[w].loaded ELSE 0]]

At(w, pc) == call[w] # None /\ call[w].pc = pc

Goto(w, pc) == call' = [call EXCEPT ![w].pc = pc]

(* info->content_length; -1, that nothing is less than, when unknown *)
ContentLength(w) == IF call[w].framed THEN Length ELSE 0

Init ==
    /\ version = 1
    /\ file = None
    /\ call = [w \in Workers |-> None]
    /\ result = [w \in Workers |-> None]

(* save, get or test is called; only save asks conditionally, if there is
   a file. *)
Begin(w, op) ==
    /\ call[w] = None
    /\ call' = [call EXCEPT ![w] =
          [op |-> op, pc |-> "connect", from |-> version,
           since |-> IF op = "save" /\ file # None THEN file.mtime ELSE 0,
           version |-> 0, framed |-> TRUE, loaded |-> 0]]
    /\ result' = [result EXCEPT ![w] = None]
    /\ UNCHANGED <<version, file>>

(* connect() and the status: no connection, no answer in time, an error
   status, 304 or a body to read.  The answer may lack Content-Length. *)
Connect(w) ==
    /\ At(w, "connect")
    /\ \/ End(w, "failed")
       \/ /\ call[w].since >= version
          /\ End(w, "kept")
       \/ /\ call[w].since < version
          /\ \E framed \in BOOLEAN :
                call' = [call EXCEPT ![w].pc = "read", ![w].version = version,
                                     ![w].framed = framed]
          /\ UNCHANGED result
    /\ UNCHANGED <<version, file>>

PartialSaved(w) ==  \* an end of file ends the loop, the rest goes on
    /\ At(w, "read")
    /\ call[w].loaded < ContentLength(w)
    /\ \/ call' = [call EXCEPT ![w].loaded = @ + 1] /\ UNCHANGED result
       \/ call[w].op = "save" /\ Goto(w, "rename") /\ UNCHANGED result
       \/ call[w].op # "save" /\ End(w, "failed")
    /\ UNCHANGED <<version, file>>

OnePieceMore(w) ==  \* "<=" for "<"
    /\ At(w, "read")
    /\ call[w].loaded <= ContentLength(w)
    /\ \/ call' = [call EXCEPT ![w].loaded = @ + 1] /\ UNCHANGED result
       \/ End(w, "failed")
    /\ UNCHANGED <<version, file>>

RetryForever(w) ==  \* a download that broke off is started again
    /\ At(w, "read")
    /\ call[w].loaded < ContentLength(w)
    /\ \/ call' = [call EXCEPT ![w].loaded = @ + 1]
       \/ call' = [call EXCEPT ![w].pc = "connect", ![w].loaded = 0]
    /\ UNCHANGED <<version, file, result>>

(* One mg_read in the loop of save, get and test, and the progress call
   after it: a closed connection, an error or a caller that cancels fails. *)
Read(w) ==
    /\ At(w, "read")
    /\ call[w].loaded < ContentLength(w)
    /\ \/ call' = [call EXCEPT ![w].loaded = @ + 1] /\ UNCHANGED result
       \/ End(w, "failed")
    /\ UNCHANGED <<version, file>>

ClosedIsEnd(w) ==  \* the loop also ends when the connection does
    /\ At(w, "read")
    /\ IF call[w].op = "save" THEN Goto(w, "rename") /\ UNCHANGED result
       ELSE End(w, "ok")
    /\ UNCHANGED <<version, file>>

(* The loop ends: the body is returned, or is in a temporary file. *)
BodyRead(w) ==
    /\ At(w, "read")
    /\ call[w].loaded >= ContentLength(w)
    /\ IF call[w].op = "save" THEN Goto(w, "rename") /\ UNCHANGED result
       ELSE End(w, "ok")
    /\ UNCHANGED <<version, file>>

RenameUnchecked(w) ==  \* a renaming that fails is only logged, as utime is
    /\ At(w, "rename")
    /\ \/ /\ file' = [version |-> call[w].version, pieces |-> call[w].loaded,
                      framed |-> call[w].framed, mtime |-> version,
                      by |-> w, settled |-> FALSE]
          /\ Goto(w, "utime")
          /\ UNCHANGED result
       \/ End(w, "ok") /\ UNCHANGED file
    /\ UNCHANGED version

(* response.save: the temporary file takes the file's place, dated now. *)
Replace(w) ==
    /\ At(w, "rename")
    /\ \/ /\ file' = [version |-> call[w].version, pieces |-> call[w].loaded,
                      framed |-> call[w].framed, mtime |-> version,
                      by |-> w, settled |-> FALSE]
          /\ Goto(w, "utime")
          /\ UNCHANGED result
       \/ End(w, "failed") /\ UNCHANGED file
    /\ UNCHANGED version

Dated(f, w, time) == [f EXCEPT !.mtime = time, !.settled = f.by = w]

DatedNow(w) ==  \* the time is left as the renaming made it
    /\ At(w, "utime")
    /\ file' = Dated(file, w, file.mtime)
    /\ End(w, "ok")
    /\ UNCHANGED version

(* What follows the renaming.  The file gets the time of the version the
   call got; or it does not, as the answer has no Last-Modified or utime
   fails, which is only logged; or the Last-Modified is no date, HTTP::TimeStamp
   throws, and the call fails though the file was replaced. *)
SetTime(w) ==
    /\ At(w, "utime")
    /\ \/ file' = Dated(file, w, call[w].version) /\ End(w, "ok")
       \/ UNCHANGED file /\ End(w, "ok")
       \/ UNCHANGED file /\ End(w, "failed")
    /\ UNCHANGED version

-----------------------------------------------------------------------------
(* The server's copy changes. *)
Change ==
    /\ version < MaxVersion
    /\ version' = version + 1
    /\ UNCHANGED <<file, call, result>>

(* The program stops and is started again; temporary files are lost. *)
Crash ==
    /\ call' = [w \in Workers |-> None]
    /\ result' = [w \in Workers |-> None]
    /\ UNCHANGED <<version, file>>

Work(w) == Connect(w) \/ Read(w) \/ BodyRead(w) \/ Replace(w) \/ SetTime(w)

Next ==
    \/ \E w \in Workers, op \in {"save", "get", "test"} : Begin(w, op)
    \/ \E w \in Workers : Work(w)
    \/ Change
    \/ Crash

Spec == Init /\ [][Next]_vars

(* A call goes on: civetweb's reads and connections time out. *)
FairSpec == Spec /\ \A w \in Workers : WF_vars(Work(w))

-----------------------------------------------------------------------------
(* Properties *)

TypeOK ==
    /\ version \in Versions
    /\ file \in Files \cup {None}
    /\ call \in [Workers -> Calls \cup {None}]
    /\ result \in [Workers -> Results \cup {None}]

Whole(pieces, framed) == pieces = IF framed THEN Length ELSE 0

(* Whoever reads the file finds a whole copy of one version, whatever
   connection broke, whoever cancelled, crashed or saved at the same time.
   An answer without Content-Length leaves an empty file, never a part. *)
FileIsWhole == file # None => Whole(file.pieces, file.framed)

(* A call that ends well read the whole body: get returns it, and test does
   not report the status of an answer that broke off. *)
SuccessIsWhole ==
    \A w \in Workers : result[w] # None /\ result[w].outcome = "ok" =>
        Whole(result[w].read, result[w].framed)

(* When a 304 makes save keep the file, the file is the server's copy: it
   does, if the file has the time the call asked with, and that was set by
   the call that put the file in place.  (Without the second condition it
   does not: a file has the time of its download until then, and for good if
   the program stops there, the answer has no date or a malformed one, or two
   calls that save the same file set its time in the wrong order.) *)
KeptFileIsCurrent ==
    [][\A w \in Workers :
          /\ result[w] = None /\ result'[w] # None /\ result'[w].outcome = "kept"
          /\ file.settled
          /\ file.mtime = call[w].since
          => file.version = version]_vars

(* Every call ends, whatever the connection does. *)
CallsEnd == \A w \in Workers : call[w] # None ~> call[w] = None

-----------------------------------------------------------------------------
(* What readers of the file, and callers of save, see of all this *)

Empty == 0
Torn  == MaxVersion + 1     \* no body of the server

Content ==
    IF file = None THEN None
    ELSE IF ~ Whole(file.pieces, file.framed) THEN Torn
    ELSE IF file.framed THEN file.version
    ELSE Empty

Saving(w) ==
    IF call[w] = None \/ call[w].op # "save" THEN None
    ELSE [from |-> call[w].from, done |-> call[w].pc = "utime"]

Outcome(w) ==
    IF result[w] = None \/ result[w].op # "save" THEN None ELSE result[w].outcome

SaveIsAtomic == INSTANCE AtomicSave WITH
                    Workers <- Workers, Empty <- Empty, None <- None,
                    version <- version, content <- Content,
                    saving <- [w \in Workers |-> Saving(w)],
                    outcome <- [w \in Workers |-> Outcome(w)]

(* A save takes effect at one moment or never, with a body the server had
   during the call.  One that ended well did, one told to keep the file did
   not; of one that failed nothing is known, as it may fail after that. *)
AtomicSpec == SaveIsAtomic!Spec
=============================================================================
