------------------------- MODULE ProtocolWorkerProofs -------------------------
(***************************************************************************)
(* The properties of the saved file for any number of workers, pieces and  *)
(* versions, and that save implements AtomicSave.                          *)
(*                                                                         *)
(* None of them is inductive.  A file is whole because the call that is    *)
(* about to put it in place has read all of it, and has a version the      *)
(* server had during the call (CallSound).  A settled file has the time of *)
(* its version, which holds when several calls save the file because a     *)
(* call whose file is still in place knows which version it put there.     *)
(***************************************************************************)
EXTENDS ProtocolWorker, TLAPS

Total(c) == IF c.framed THEN Length ELSE 0

(* What holds of call c of worker w, while f is the file and v the server's
   version *)
CallSound(w, c, f, v) ==
    c # None =>
        /\ c.from <= v
        /\ c.loaded <= Total(c)
        /\ c.pc = "connect" => c.loaded = 0
        /\ c.since # 0 => f # None
        /\ c.pc # "connect" =>
              c.version \in Versions /\ c.from <= c.version /\ c.version <= v
        /\ c.pc \in {"rename", "utime"} => c.op = "save" /\ c.loaded = Total(c)
        /\ c.pc = "utime" => f # None /\ (f.by = w => f.version = c.version)

CallsSound ==
    \A w \in Workers :
        /\ CallSound(w, call[w], file, version)
        /\ call[w] # None => result[w] = None

FileSound(f, v) ==
    f # None =>
        /\ f.version <= v
        /\ f.settled => f.mtime = f.version
        /\ Whole(f.pieces, f.framed)

ResultSound(r) == r # None /\ r.outcome = "ok" => Whole(r.read, r.framed)

Inv ==
    /\ TypeOK
    /\ CallsSound
    /\ FileSound(file, version)
    /\ \A w \in Workers : ResultSound(result[w])

LEMMA InvImplies == Inv => FileIsWhole /\ SuccessIsWhole
  BY DEF Inv, FileSound, ResultSound, FileIsWhole, SuccessIsWhole

LEMMA InitInv == Init => Inv
  <1> SUFFICES ASSUME Init PROVE Inv
    OBVIOUS
  <1>1. TypeOK
    BY VersionAssumption DEF Init, TypeOK, Versions
  <1>2. CallsSound /\ FileSound(file, version)
    BY DEF Init, CallsSound, CallSound, FileSound
  <1>3. \A w \in Workers : ResultSound(result[w])
    BY DEF Init, ResultSound
  <1> QED
    BY <1>1, <1>2, <1>3 DEF Inv

-----------------------------------------------------------------------------
(* Steps of one worker *)

(* f replaces the file without passing for one that another worker saved. *)
Takes(w, f) ==
    /\ f \in Files \cup {None}
    /\ file # None => f # None
    /\ \A u \in Workers \ {w} :
          f # None /\ f.by = u => file # None /\ file.by = u /\ f.version = file.version

(* All that a step of w does is to bring it from call[w] to c, with result r
   and the file f. *)
LEMMA StepInv ==
    ASSUME Inv, NEW w \in Workers,
           NEW c \in Calls \cup {None}, NEW r \in Results \cup {None}, NEW f,
           Takes(w, f), version' = version, file' = f,
           call' = [call EXCEPT ![w] = c], result' = [result EXCEPT ![w] = r],
           CallSound(w, c, f, version), c # None => r = None,
           FileSound(f, version), ResultSound(r)
    PROVE  Inv'
  <1>1. TypeOK'
    BY DEF Inv, TypeOK, Takes
  <1>2. ASSUME NEW u \in Workers
        PROVE  /\ CallSound(u, call[u], file, version)'
               /\ (call[u] # None => result[u] = None)'
               /\ ResultSound(result[u])'
    <2>1. CASE u = w
      BY <2>1 DEF Inv, TypeOK
    <2>2. CASE u # w
      <3>1. call'[u] = call[u] /\ result'[u] = result[u]
        BY <2>2 DEF Inv, TypeOK
      <3>2. CallSound(u, call[u], file, version) /\ ResultSound(result[u])
        BY DEF Inv, CallsSound
      <3>3. CallSound(u, call[u], f, version)
        BY <2>2, <3>2 DEF Takes, CallSound
      <3> QED
        BY <3>1, <3>2, <3>3 DEF Inv, CallsSound
    <2> QED
      BY <2>1, <2>2
  <1>3. CallsSound' /\ \A u \in Workers : ResultSound(result[u])'
    BY <1>2 DEF CallsSound
  <1>4. FileSound(file, version)'
    OBVIOUS
  <1> QED
    BY <1>1, <1>3, <1>4 DEF Inv

LEMMA Stays == Inv => /\ \A w \in Workers : Takes(w, file)
                      /\ FileSound(file, version)
  BY DEF Inv, TypeOK, Takes, Files

LEMMA CallType ==
    ASSUME Inv, NEW w \in Workers, call[w] # None
    PROVE  /\ call[w] \in Calls
           /\ CallSound(w, call[w], file, version)
           /\ result[w] = None
           /\ ContentLength(w) = Total(call[w])
           /\ Total(call[w]) \in 0..Length
           /\ version \in Versions
  BY LengthAssumption DEF Inv, TypeOK, CallsSound, ContentLength, Total, Calls

(* An end that leaves the file alone *)
LEMMA EndInv ==
    ASSUME Inv, NEW w \in Workers, call[w] # None,
           NEW outcome \in {"ok", "kept", "failed"}, End(w, outcome),
           outcome = "ok" => call[w].loaded = Total(call[w]),
           NEW f, file' = f, Takes(w, f), FileSound(f, version), version' = version
    PROVE  Inv'
  <1> DEFINE r == [op |-> call[w].op, outcome |-> outcome,
                   framed |-> outcome = "ok" => call[w].framed,
                   read |-> IF outcome = "ok" THEN call[w].loaded ELSE 0]
  <1>1. call[w] \in Calls
    BY CallType
  <1>2. r \in Results /\ ResultSound(r)
    <2>1. call[w].op \in {"save", "get", "test"} /\ call[w].framed \in BOOLEAN
          /\ call[w].loaded \in 0..Length
      BY <1>1 DEF Calls
    <2>2. r.framed \in BOOLEAN
      BY <2>1
    <2>3. r.read \in 0..Length
      BY <2>1, LengthAssumption
    <2>4. r \in Results
      BY <2>1, <2>2, <2>3 DEF Results
    <2>5. ResultSound(r)
      BY <2>1 DEF ResultSound, Whole, Total
    <2> QED
      BY <2>4, <2>5
  <1>3. CallSound(w, None, f, version)
    BY DEF CallSound
  <1>4. call' = [call EXCEPT ![w] = None] /\ result' = [result EXCEPT ![w] = r]
    BY DEF End
  <1> HIDE DEF r
  <1> QED
    BY <1>2, <1>3, <1>4, StepInv

(* A step to another call that leaves the file alone *)
LEMMA CallInv ==
    ASSUME Inv, NEW w \in Workers, call[w] # None, NEW c \in Calls,
           call' = [call EXCEPT ![w] = c], UNCHANGED <<version, file, result>>,
           CallSound(w, c, file, version)
    PROVE  Inv'
  <1>1. result' = [result EXCEPT ![w] = None]
    BY CallType DEF Inv, TypeOK
  <1>2. ResultSound(None)
    BY DEF ResultSound
  <1> QED
    BY <1>1, <1>2, StepInv, Stays

LEMMA BeginInv ==
    ASSUME Inv, NEW w \in Workers, NEW op \in {"save", "get", "test"}, Begin(w, op)
    PROVE  Inv'
  <1> DEFINE c == [op |-> op, pc |-> "connect", from |-> version,
                   since |-> IF op = "save" /\ file # None THEN file.mtime ELSE 0,
                   version |-> 0, framed |-> TRUE, loaded |-> 0]
  <1>1. c \in Calls
    <2>1. version \in Versions
      BY DEF Inv, TypeOK
    <2>2. file # None => file.mtime \in Versions
      BY DEF Inv, TypeOK, Files
    <2> QED
      BY <2>1, <2>2, LengthAssumption DEF Calls
  <1>2. CallSound(w, c, file, version)
    BY LengthAssumption DEF CallSound, Total, Inv, TypeOK, Versions
  <1>3. /\ call' = [call EXCEPT ![w] = c]
        /\ result' = [result EXCEPT ![w] = None]
        /\ UNCHANGED <<version, file>>
    BY DEF Begin
  <1>4. ResultSound(None)
    BY DEF ResultSound
  <1> HIDE DEF c
  <1> QED
    BY <1>1, <1>2, <1>3, <1>4, StepInv, Stays

LEMMA ConnectInv ==
    ASSUME Inv, NEW w \in Workers, Connect(w)
    PROVE  Inv'
  <1>1. call[w] # None /\ call[w].pc = "connect" /\ UNCHANGED <<version, file>>
    BY DEF Connect, At
  <1>2. CASE End(w, "failed") \/ End(w, "kept")
    BY <1>1, <1>2, EndInv, Stays
  <1>3. ASSUME NEW framed \in BOOLEAN,
               call' = [call EXCEPT ![w].pc = "read", ![w].version = version,
                                    ![w].framed = framed],
               UNCHANGED result
        PROVE  Inv'
    <2> DEFINE c == [call[w] EXCEPT !.pc = "read", !.version = version,
                                    !.framed = framed]
    <2>1. call' = [call EXCEPT ![w] = c]
      BY <1>3 DEF Inv, TypeOK
    <2>2. c \in Calls
      BY <1>1, CallType DEF Calls
    <2>3. CallSound(w, c, file, version)
      BY <1>1, CallType, LengthAssumption DEF CallSound, Total, Calls, Versions
    <2> HIDE DEF c
    <2> QED
      BY <1>1, <1>3, <2>1, <2>2, <2>3, CallInv
  <1> QED
    BY <1>2, <1>3 DEF Connect

LEMMA ReadInv ==
    ASSUME Inv, NEW w \in Workers, Read(w)
    PROVE  Inv'
  <1>1. /\ call[w] # None /\ call[w].pc = "read" /\ UNCHANGED <<version, file>>
        /\ call[w].loaded < Total(call[w])
    BY CallType DEF Read, At
  <1>2. CASE End(w, "failed")
    BY <1>1, <1>2, EndInv, Stays
  <1>3. CASE call' = [call EXCEPT ![w].loaded = @ + 1] /\ UNCHANGED result
    <2> DEFINE c == [call[w] EXCEPT !.loaded = @ + 1]
    <2>1. call' = [call EXCEPT ![w] = c]
      BY <1>3 DEF Inv, TypeOK
    <2>2. c \in Calls
      <3>1. call[w].loaded + 1 \in 0..Length
        BY <1>1, CallType, LengthAssumption DEF Calls
      <3> QED
        BY <1>1, <3>1, CallType DEF Calls
    <2>3. CallSound(w, c, file, version)
      BY <1>1, CallType, LengthAssumption DEF CallSound, Total, Calls
    <2> HIDE DEF c
    <2> QED
      BY <1>1, <1>3, <2>1, <2>2, <2>3, CallInv
  <1> QED
    BY <1>2, <1>3 DEF Read

LEMMA BodyReadInv ==
    ASSUME Inv, NEW w \in Workers, BodyRead(w)
    PROVE  Inv'
  <1>1. /\ call[w] # None /\ call[w].pc = "read" /\ UNCHANGED <<version, file>>
        /\ call[w].loaded = Total(call[w])
    <2>1. call[w] # None /\ call[w].pc = "read" /\ call[w].loaded >= ContentLength(w)
      BY DEF BodyRead, At
    <2> QED
      BY <2>1, CallType, LengthAssumption DEF BodyRead, CallSound, Calls
  <1>2. CASE call[w].op # "save"
    BY <1>1, <1>2, EndInv, Stays DEF BodyRead
  <1>3. CASE call[w].op = "save"
    <2> DEFINE c == [call[w] EXCEPT !.pc = "rename"]
    <2>1. call' = [call EXCEPT ![w] = c] /\ UNCHANGED result
      BY <1>3 DEF BodyRead, Goto, Inv, TypeOK
    <2>2. c \in Calls
      BY <1>1, CallType DEF Calls
    <2>3. CallSound(w, c, file, version)
      BY <1>1, <1>3, CallType DEF CallSound, Total, Calls
    <2> HIDE DEF c
    <2> QED
      BY <1>1, <2>1, <2>2, <2>3, CallInv
  <1> QED
    BY <1>2, <1>3

LEMMA ReplaceInv ==
    ASSUME Inv, NEW w \in Workers, Replace(w)
    PROVE  Inv'
  <1>1. call[w] # None /\ call[w].pc = "rename" /\ UNCHANGED version
    BY DEF Replace, At
  <1>2. CASE End(w, "failed") /\ UNCHANGED file
    BY <1>1, <1>2, EndInv, Stays
  <1>3. CASE ~ (End(w, "failed") /\ UNCHANGED file)
    <2> DEFINE c == [call[w] EXCEPT !.pc = "utime"]
               f == [version |-> call[w].version, pieces |-> call[w].loaded,
                     framed |-> call[w].framed, mtime |-> version,
                     by |-> w, settled |-> FALSE]
    <2>1. call' = [call EXCEPT ![w] = c] /\ UNCHANGED result /\ file' = f
      BY <1>3 DEF Replace, Goto, Inv, TypeOK
    <2>2. c \in Calls
      BY <1>1, CallType DEF Calls
    <2>3. f \in Files /\ f # None
      <3>1. /\ call[w].version \in Versions /\ call[w].loaded \in 0..Length
            /\ call[w].framed \in BOOLEAN /\ version \in Versions
        BY <1>1, CallType DEF Calls, CallSound
      <3>2. f \in Files
        BY <3>1 DEF Files
      <3> QED
        BY <3>2, NoneAssumption
    <2>4. CallSound(w, c, f, version)
      BY <1>1, <2>3, CallType DEF CallSound, Total, Calls
    <2>5. FileSound(f, version)
      BY <1>1, CallType DEF FileSound, Whole, CallSound, Total, Calls
    <2>6. Takes(w, f)
      BY <2>3 DEF Takes
    <2>7. result' = [result EXCEPT ![w] = None]
      BY <1>1, <2>1, CallType DEF Inv, TypeOK
    <2>8. ResultSound(None)
      BY DEF ResultSound
    <2> HIDE DEF c, f
    <2> QED
      BY <1>1, <2>1, <2>2, <2>3, <2>4, <2>5, <2>6, <2>7, <2>8, StepInv
  <1> QED
    BY <1>2, <1>3

(* What utime leaves *)
LEMMA DatedSound ==
    ASSUME Inv, NEW w \in Workers, call[w] # None, call[w].pc = "utime"
    PROVE  LET f == Dated(file, w, call[w].version)
           IN /\ f \in Files
              /\ Takes(w, f)
              /\ FileSound(f, version)
              /\ f.version = file.version /\ f.pieces = file.pieces
              /\ f.framed = file.framed
  <1> DEFINE f == Dated(file, w, call[w].version)
  <1>1. file \in Files /\ file # None /\ call[w].version \in Versions
    BY CallType DEF Inv, TypeOK, CallSound
  <1>2. f \in Files
    BY <1>1 DEF Dated, Files
  <1>3. /\ f.version = file.version /\ f.pieces = file.pieces /\ f.framed = file.framed
        /\ f.by = file.by /\ f.mtime = call[w].version
        /\ f.settled = (file.by = w)
    BY <1>1 DEF Dated, Files
  <1>4. f # None
    BY <1>2, NoneAssumption
  <1>5. Takes(w, f)
    BY <1>1, <1>2, <1>3, <1>4 DEF Takes
  <1>6. file.by = w => file.version = call[w].version
    BY CallType DEF CallSound
  <1>7. FileSound(f, version)
    BY <1>1, <1>3, <1>6, Stays DEF FileSound
  <1> HIDE DEF f
  <1>8. QED
    BY <1>2, <1>3, <1>5, <1>7 DEF f

LEMMA SetTimeInv ==
    ASSUME Inv, NEW w \in Workers, SetTime(w)
    PROVE  Inv'
  <1>1. /\ call[w] # None /\ call[w].pc = "utime" /\ UNCHANGED version
        /\ End(w, "ok") \/ End(w, "failed")
        /\ call[w].loaded = Total(call[w])
    BY CallType DEF SetTime, At, CallSound
  <1>2. CASE file' = Dated(file, w, call[w].version)
    BY <1>1, <1>2, DatedSound, EndInv
  <1>3. CASE file' = file
    BY <1>1, <1>3, Stays, EndInv
  <1> QED
    BY <1>2, <1>3 DEF SetTime

LEMMA ChangeInv ==
    ASSUME Inv, Change
    PROVE  Inv'
  <1>1. TypeOK'
    <2>1. version' \in Versions
      BY VersionAssumption DEF Change, Inv, TypeOK, Versions
    <2> QED
      BY <2>1 DEF Change, Inv, TypeOK
  <1>2. \A w \in Workers : CallSound(w, call[w], file, version)
                           /\ (call[w] # None => call[w] \in Calls)
    BY DEF Inv, CallsSound, TypeOK
  <1>3. version \in Versions /\ version' = version + 1 /\ UNCHANGED <<file, call, result>>
    BY DEF Change, Inv, TypeOK
  <1>4. CallsSound'
    <2> SUFFICES ASSUME NEW w \in Workers
                 PROVE  CallSound(w, call[w], file, version + 1)
      BY <1>3 DEF Inv, CallsSound
    <2> QED
      BY <1>2, <1>3, VersionAssumption DEF CallSound, Calls, Versions
  <1>5. FileSound(file, version)'
    BY <1>3, VersionAssumption DEF Inv, FileSound, Versions, TypeOK, Files
  <1>6. \A w \in Workers : ResultSound(result[w])'
    BY <1>3 DEF Inv
  <1> QED
    BY <1>1, <1>4, <1>5, <1>6 DEF Inv

LEMMA CrashInv ==
    ASSUME Inv, Crash
    PROVE  Inv'
  <1>1. TypeOK' /\ CallsSound'
    BY DEF Crash, Inv, TypeOK, CallsSound, CallSound
  <1>2. FileSound(file, version)' /\ \A w \in Workers : ResultSound(result[w])'
    BY DEF Crash, Inv, FileSound, ResultSound
  <1> QED
    BY <1>1, <1>2 DEF Inv

LEMMA NextInv == Inv /\ [Next]_vars => Inv'
  <1> SUFFICES ASSUME Inv, [Next]_vars PROVE Inv'
    OBVIOUS
  <1>1. ASSUME NEW w \in Workers, Work(w) PROVE Inv'
    BY <1>1, ConnectInv, ReadInv, BodyReadInv, ReplaceInv, SetTimeInv DEF Work
  <1>2. CASE UNCHANGED vars
    BY <1>2 DEF vars, Inv, TypeOK, CallsSound, CallSound, FileSound, ResultSound
  <1> QED
    BY <1>1, <1>2, BeginInv, ChangeInv, CrashInv DEF Next

(* A call is never in two places, and the file has an owner. *)
THEOREM WorkerTypes == Spec => []TypeOK
  <1>1. Inv => TypeOK
    BY DEF Inv
  <1> QED
    BY <1>1, InitInv, NextInv, PTL DEF Spec

(* Whoever reads the file finds a whole copy of one version. *)
THEOREM FilesAreWhole == Spec => []FileIsWhole
  BY InitInv, NextInv, InvImplies, PTL DEF Spec

(* A call that ends well read the whole body. *)
THEOREM SuccessesAreWhole == Spec => []SuccessIsWhole
  BY InitInv, NextInv, InvImplies, PTL DEF Spec

-----------------------------------------------------------------------------
(* Files that a 304 keeps *)

LEMMA KeptNext ==
    ASSUME Inv, [Next]_vars, NEW w \in Workers,
           result[w] = None, result'[w] # None, result'[w].outcome = "kept",
           file.settled, file.mtime = call[w].since
    PROVE  file.version = version
  <1>1. PICK u \in Workers : Work(u)
    <2>1. ~ Change /\ ~ Crash /\ ~ UNCHANGED vars
      BY DEF Change, Crash, vars
    <2>2. ~ \E u \in Workers, op \in {"save", "get", "test"} : Begin(u, op)
      BY DEF Begin, Inv, TypeOK
    <2> QED
      BY <2>1, <2>2 DEF Next
  <1>2. u = w
    <2>1. result' = result \/ \E o \in {"ok", "kept", "failed"} : End(u, o)
      BY <1>1 DEF Work, Connect, Read, BodyRead, Replace, SetTime
    <2> QED
      BY <2>1 DEF End, Inv, TypeOK
  <1>3. Connect(w)
    <2>1. ASSUME NEW o \in {"ok", "failed"} PROVE ~ End(w, o)
      BY <2>1 DEF End, Inv, TypeOK
    <2> QED
      BY <1>1, <1>2, <2>1 DEF Work, Read, BodyRead, Replace, SetTime
  <1>4. call[w] # None /\ call[w].since >= version /\ version \in Versions
    <2>1. At(w, "connect") /\ End(w, "kept")
      <3>1. ~ End(w, "failed") /\ ~ UNCHANGED result
        BY DEF End, Inv, TypeOK
      <3> QED
        BY <1>3, <3>1 DEF Connect
    <2>2. ~ End(w, "failed") /\ ~ UNCHANGED result
      BY DEF End, Inv, TypeOK
    <2> QED
      BY <1>3, <2>1, <2>2, CallType DEF Connect, At
  <1>5. file # None
    BY <1>4, CallType DEF CallSound, Versions
  <1>6. file.mtime = file.version /\ file.version <= version /\ file.version \in Versions
    BY <1>5, Stays DEF FileSound, Inv, TypeOK, Files
  <1> QED
    BY <1>4, <1>6 DEF Versions

(* A 304 keeps no file that is out of date, unless its time is not settled. *)
THEOREM KeptFilesAreCurrent == Spec => KeptFileIsCurrent
  <1>1. Inv /\ [Next]_vars =>
           [\A w \in Workers :
              /\ result[w] = None /\ result'[w] # None /\ result'[w].outcome = "kept"
              /\ file.settled
              /\ file.mtime = call[w].since
              => file.version = version]_vars
    BY KeptNext
  <1> QED
    BY <1>1, InitInv, NextInv, PTL DEF Spec, KeptFileIsCurrent

-----------------------------------------------------------------------------
(* Refinement of AtomicSave *)

LEMMA ContentWhole ==
    Inv => Content = IF file = None THEN None ELSE IF file.framed THEN file.version ELSE Empty
  BY DEF Inv, FileSound, Content

LEMMA InitRefines == Init => SaveIsAtomic!Init
  BY DEF Init, Content, Saving, Outcome, SaveIsAtomic!Init

LEMMA SaveRecord ==
    ASSUME NEW v \in Versions, NEW d \in BOOLEAN
    PROVE  LET s == [from |-> v, done |-> d]
           IN s # None /\ s.done = d
  <1>1. [from |-> v, done |-> d] \in Saves
    BY Zenon DEF Saves
  <1>2. [from |-> v, done |-> d] # None
    BY <1>1, NoneAssumption
  <1>3. [from |-> v, done |-> d].done = d
    OBVIOUS
  <1> QED
    BY <1>2, <1>3

(* What abstract saves see of a step of one worker *)
LEMMA Views ==
    ASSUME NEW w \in Workers,
           \A u \in Workers \ {w} : call'[u] = call[u] /\ result'[u] = result[u]
    PROVE  /\ [u \in Workers |-> Saving(u)]'
                 = [[u \in Workers |-> Saving(u)] EXCEPT ![w] = Saving(w)']
           /\ [u \in Workers |-> Outcome(u)]'
                 = [[u \in Workers |-> Outcome(u)] EXCEPT ![w] = Outcome(w)']
  BY DEF Saving, Outcome

LEMMA EndResult ==
    ASSUME Inv, NEW w \in Workers, call[w] # None,
           NEW outcome \in {"ok", "kept", "failed"}, End(w, outcome)
    PROVE  /\ call'[w] = None
           /\ result'[w] # None
           /\ result'[w].op = call[w].op
           /\ result'[w].outcome = outcome
           /\ \A u \in Workers \ {w} : call'[u] = call[u] /\ result'[u] = result[u]
  <1> DEFINE r == [op |-> call[w].op, outcome |-> outcome,
                   framed |-> outcome = "ok" => call[w].framed,
                   read |-> IF outcome = "ok" THEN call[w].loaded ELSE 0]
  <1>1. call' = [call EXCEPT ![w] = None] /\ result' = [result EXCEPT ![w] = r]
    BY DEF End
  <1>2. r \in Results
    <2>1. /\ call[w].op \in {"save", "get", "test"} /\ call[w].framed \in BOOLEAN
          /\ call[w].loaded \in 0..Length
      BY CallType DEF Calls
    <2>2. r.framed \in BOOLEAN /\ r.read \in 0..Length
      BY <2>1, LengthAssumption
    <2> QED
      BY <2>1, <2>2 DEF Results
  <1>3. r # None
    BY <1>2, NoneAssumption
  <1>4. r.op = call[w].op /\ r.outcome = outcome
    OBVIOUS
  <1> HIDE DEF r
  <1> QED
    BY <1>1, <1>3, <1>4 DEF Inv, TypeOK

LEMMA EndRefines ==
    ASSUME Inv, NEW w \in Workers, call[w] # None,
           NEW outcome \in {"ok", "kept", "failed"}, End(w, outcome),
           call[w].op = "save" /\ outcome = "ok" => call[w].pc = "utime",
           call[w].op = "save" /\ outcome = "kept" => call[w].pc # "utime",
           Content' = Content, version' = version
    PROVE  [SaveIsAtomic!Next]_SaveIsAtomic!vars
  <1> DEFINE sv == [u \in Workers |-> Saving(u)]
             oc == [u \in Workers |-> Outcome(u)]
  <1>1. Saving(w)' = None
    BY EndResult DEF Saving
  <1>2. sv' = [sv EXCEPT ![w] = Saving(w)'] /\ oc' = [oc EXCEPT ![w] = Outcome(w)']
    BY EndResult, Views
  <1>3. CASE call[w].op = "save"
    <2>1. sv[w] = [from |-> call[w].from, done |-> call[w].pc = "utime"]
      BY <1>3 DEF Saving
    <2>2. sv[w] # None
      <3>1. call[w].from \in Versions
        BY CallType DEF Calls
      <3> QED
        BY <2>1, <3>1, SaveRecord, Zenon
    <2>3. Outcome(w)' = outcome
      BY <1>3, EndResult DEF Outcome
    <2>4. outcome \in SaveIsAtomic!Outcomes(sv[w].done)
      <3>1. call[w].from \in Versions
        BY CallType DEF Calls
      <3>2. sv[w].done = (call[w].pc = "utime")
        BY <2>1, <3>1, SaveRecord, Zenon
      <3> QED
        BY <1>3, <3>2 DEF SaveIsAtomic!Outcomes
    <2>5. sv' = [sv EXCEPT ![w] = None] /\ oc' = [oc EXCEPT ![w] = outcome]
      BY <1>1, <1>2, <2>3
    <2>6. SaveIsAtomic!Finish(w)
      <3> HIDE DEF sv, oc
      <3>1. \E o \in SaveIsAtomic!Outcomes(sv[w].done) :
               oc' = [oc EXCEPT ![w] = o]
        BY <2>4, <2>5
      <3> USE DEF sv, oc
      <3> QED
        BY <2>2, <2>5, <3>1 DEF SaveIsAtomic!Finish
    <2> QED
      BY <2>6 DEF SaveIsAtomic!Next
  <1>4. CASE call[w].op # "save"
    <2>1. Saving(w) = None /\ Outcome(w) = None /\ Outcome(w)' = None
      BY <1>4, EndResult, CallType DEF Saving, Outcome
    <2>2. sv' = sv /\ oc' = oc
      BY <1>1, <1>2, <2>1
    <2> QED
      BY <2>2 DEF SaveIsAtomic!vars
  <1> QED
    BY <1>3, <1>4

LEMMA CallRefines ==
    ASSUME Inv, NEW w \in Workers, call[w] # None, NEW c \in Calls,
           call' = [call EXCEPT ![w] = c], UNCHANGED <<version, file, result>>,
           c.op = call[w].op, c.from = call[w].from,
           c.pc # "utime", call[w].pc # "utime"
    PROVE  UNCHANGED SaveIsAtomic!vars
  <1>1. /\ call'[w] = c /\ c # None
        /\ \A u \in Workers \ {w} : call'[u] = call[u] /\ result'[u] = result[u]
    BY NoneAssumption DEF Inv, TypeOK
  <1>2. Saving(w)' = Saving(w) /\ Outcome(w)' = Outcome(w)
    BY <1>1 DEF Saving, Outcome
  <1>3. /\ [u \in Workers |-> Saving(u)]' = [u \in Workers |-> Saving(u)]
        /\ [u \in Workers |-> Outcome(u)]' = [u \in Workers |-> Outcome(u)]
    BY <1>1, <1>2, Views
  <1>4. Content' = Content
    BY DEF Content
  <1> QED
    BY <1>3, <1>4 DEF SaveIsAtomic!vars

LEMMA ReplaceRefines ==
    ASSUME Inv, NEW w \in Workers, Replace(w), ~ (End(w, "failed") /\ UNCHANGED file)
    PROVE  SaveIsAtomic!TakeEffect(w)
  <1> DEFINE sv == [u \in Workers |-> Saving(u)]
             oc == [u \in Workers |-> Outcome(u)]
             c  == [call[w] EXCEPT !.pc = "utime"]
             f  == [version |-> call[w].version, pieces |-> call[w].loaded,
                    framed |-> call[w].framed, mtime |-> version,
                    by |-> w, settled |-> FALSE]
  <1>1. call[w] # None /\ call[w].pc = "rename" /\ version' = version
    BY DEF Replace, At
  <1>2. call' = [call EXCEPT ![w] = c] /\ UNCHANGED result /\ file' = f
    BY DEF Replace, Goto, Inv, TypeOK
  <1>3. call[w] \in Calls /\ call[w].op = "save"
    BY <1>1, CallType DEF CallSound
  <1>4. c \in Calls /\ c.op = "save" /\ c.from = call[w].from /\ c.pc = "utime"
    BY <1>3 DEF Calls
  <1>5. c # None
    BY <1>4, NoneAssumption
  <1>6. sv[w] = [from |-> call[w].from, done |-> FALSE]
    BY <1>1, <1>3 DEF Saving
  <1>7. sv[w] # None
    <2>1. call[w].from \in Versions
      BY <1>3 DEF Calls
    <2> QED
      BY <1>6, <2>1, SaveRecord, Zenon
  <1> HIDE DEF c
  <1>8. /\ call'[w] = c
        /\ \A u \in Workers \ {w} : call'[u] = call[u] /\ result'[u] = result[u]
    BY <1>2 DEF Inv, TypeOK
  <1>9. Saving(w)' = [from |-> call[w].from, done |-> TRUE]
    BY <1>4, <1>5, <1>8 DEF Saving
  <1>10. Outcome(w)' = Outcome(w)
    BY <1>2 DEF Outcome
  <1>11. sv' = [sv EXCEPT ![w] = [from |-> @.from, done |-> TRUE]]
    <2>1. sv[w].from = call[w].from
      BY <1>6
    <2>2. sv' = [sv EXCEPT ![w] = Saving(w)']
      BY <1>8, Views
    <2> QED
      BY <1>9, <2>1, <2>2
  <1>12. oc' = oc
    BY <1>8, <1>10, Views
  <1>13. Content' \in call[w].from .. version \cup {Empty}
    <2>1. /\ call[w].version \in Versions /\ call[w].from <= call[w].version
          /\ call[w].version <= version /\ call[w].loaded = Total(call[w])
          /\ call[w].from \in Versions /\ version \in Versions
      BY <1>1, <1>3, CallType DEF CallSound, Calls
    <2>2. f # None
      <3>1. f \in Files
        BY <1>3, <2>1 DEF Files, Calls
      <3> QED
        BY <3>1, NoneAssumption
    <2>3. Whole(f.pieces, f.framed)
      BY <2>1 DEF Whole, Total
    <2>4. Content' = IF call[w].framed THEN call[w].version ELSE Empty
      <3>1. f.version = call[w].version /\ f.framed = call[w].framed
        OBVIOUS
      <3> HIDE DEF f
      <3> QED
        BY <1>2, <2>2, <2>3, <3>1 DEF Content
    <2> QED
      BY <2>1, <2>4 DEF Versions
  <1> QED
    BY <1>1, <1>6, <1>7, <1>11, <1>12, <1>13 DEF SaveIsAtomic!TakeEffect

LEMMA WorkRefines ==
    ASSUME Inv, NEW w \in Workers, Work(w)
    PROVE  [SaveIsAtomic!Next]_SaveIsAtomic!vars
  <1>1. call[w] # None /\ version' = version /\ call[w] \in Calls
    BY CallType DEF Work, Connect, Read, BodyRead, Replace, SetTime, At
  <1>2. CASE Connect(w)
    <2>1. UNCHANGED file /\ call[w].pc = "connect"
      BY <1>2 DEF Connect, At
    <2>2. CASE End(w, "failed") \/ End(w, "kept")
      BY <1>1, <2>1, <2>2, EndRefines DEF Content
    <2>3. ASSUME NEW framed \in BOOLEAN,
                 call' = [call EXCEPT ![w].pc = "read", ![w].version = version,
                                      ![w].framed = framed],
                 UNCHANGED result
          PROVE  UNCHANGED SaveIsAtomic!vars
      <3> DEFINE c == [call[w] EXCEPT !.pc = "read", !.version = version,
                                      !.framed = framed]
      <3>1. call' = [call EXCEPT ![w] = c]
        BY <2>3 DEF Inv, TypeOK
      <3>2. /\ c \in Calls /\ c.op = call[w].op /\ c.from = call[w].from
            /\ c.pc = "read"
        BY <1>1, CallType DEF Calls
      <3> HIDE DEF c
      <3> QED
        BY <1>1, <2>1, <2>3, <3>1, <3>2, CallRefines
    <2> QED
      BY <1>2, <2>2, <2>3 DEF Connect
  <1>3. CASE Read(w)
    <2>1. /\ UNCHANGED file /\ call[w].pc = "read"
          /\ call[w].loaded < Total(call[w])
      BY <1>3, CallType DEF Read, At
    <2>2. CASE End(w, "failed")
      BY <1>1, <2>1, <2>2, EndRefines DEF Content
    <2>3. CASE call' = [call EXCEPT ![w].loaded = @ + 1] /\ UNCHANGED result
      <3> DEFINE c == [call[w] EXCEPT !.loaded = @ + 1]
      <3>1. call' = [call EXCEPT ![w] = c]
        BY <2>3 DEF Inv, TypeOK
      <3>2. call[w].loaded + 1 \in 0..Length
        BY <1>1, <2>1, CallType, LengthAssumption DEF Calls
      <3>3. /\ c \in Calls /\ c.op = call[w].op /\ c.from = call[w].from
            /\ c.pc = "read"
        BY <1>1, <2>1, <3>2 DEF Calls
      <3> HIDE DEF c
      <3> QED
        BY <1>1, <2>1, <2>3, <3>1, <3>3, CallRefines
    <2> QED
      BY <1>3, <2>2, <2>3 DEF Read
  <1>4. CASE BodyRead(w)
    <2>1. UNCHANGED file /\ call[w].pc = "read"
      BY <1>4 DEF BodyRead, At
    <2>2. CASE call[w].op # "save"
      BY <1>1, <1>4, <2>1, <2>2, EndRefines DEF BodyRead, Content
    <2>3. CASE call[w].op = "save"
      <3> DEFINE c == [call[w] EXCEPT !.pc = "rename"]
      <3>1. call' = [call EXCEPT ![w] = c] /\ UNCHANGED result
        BY <1>4, <2>3 DEF BodyRead, Goto, Inv, TypeOK
      <3>2. /\ c \in Calls /\ c.op = call[w].op /\ c.from = call[w].from
            /\ c.pc = "rename"
        BY <1>1 DEF Calls
      <3> HIDE DEF c
      <3> QED
        BY <1>1, <2>1, <3>1, <3>2, CallRefines
    <2> QED
      BY <2>2, <2>3
  <1>5. CASE Replace(w)
    <2>1. call[w].pc = "rename"
      BY <1>5 DEF Replace, At
    <2>2. CASE End(w, "failed") /\ UNCHANGED file
      BY <1>1, <2>1, <2>2, EndRefines DEF Content
    <2>3. CASE ~ (End(w, "failed") /\ UNCHANGED file)
      BY <1>5, <2>3, ReplaceRefines DEF SaveIsAtomic!Next
    <2> QED
      BY <2>2, <2>3
  <1>6. CASE SetTime(w)
    <2>1. call[w].pc = "utime" /\ (End(w, "ok") \/ End(w, "failed"))
      BY <1>6 DEF SetTime, At
    <2>2. file \in Files /\ file # None
      BY <1>1, <2>1, CallType DEF CallSound, Inv, TypeOK
    <2>3. /\ file' \in Files /\ file'.version = file.version
          /\ file'.pieces = file.pieces /\ file'.framed = file.framed
      BY <1>1, <1>6, <2>1, <2>2, DatedSound DEF SetTime
    <2>4. Content' = Content
      BY <2>2, <2>3, NoneAssumption DEF Content
    <2> QED
      BY <1>1, <2>1, <2>4, EndRefines
  <1> QED
    BY <1>2, <1>3, <1>4, <1>5, <1>6 DEF Work

LEMMA BeginRefines ==
    ASSUME Inv, NEW w \in Workers, NEW op \in {"save", "get", "test"}, Begin(w, op)
    PROVE  SaveIsAtomic!Start(w) \/ SaveIsAtomic!Forget(w)
  <1> DEFINE sv == [u \in Workers |-> Saving(u)]
             oc == [u \in Workers |-> Outcome(u)]
             c  == [op |-> op, pc |-> "connect", from |-> version,
                    since |-> IF op = "save" /\ file # None THEN file.mtime ELSE 0,
                    version |-> 0, framed |-> TRUE, loaded |-> 0]
  <1>1. c \in Calls
    <2>1. version \in Versions
      BY DEF Inv, TypeOK
    <2>2. file # None => file.mtime \in Versions
      BY DEF Inv, TypeOK, Files
    <2> QED
      BY <2>1, <2>2, LengthAssumption DEF Calls
  <1>2. c # None /\ c.op = op /\ c.from = version /\ c.pc = "connect"
    BY <1>1, NoneAssumption
  <1> HIDE DEF c
  <1>3. /\ call[w] = None /\ call'[w] = c /\ result'[w] = None
        /\ \A u \in Workers \ {w} : call'[u] = call[u] /\ result'[u] = result[u]
        /\ UNCHANGED <<version, file>>
    BY DEF Begin, Inv, TypeOK, c
  <1>4. /\ sv[w] = None /\ Outcome(w)' = None
        /\ sv' = [sv EXCEPT ![w] = Saving(w)'] /\ oc' = [oc EXCEPT ![w] = Outcome(w)']
    BY <1>3, Views DEF Saving, Outcome
  <1>5. Content' = Content
    BY <1>3 DEF Content
  <1>6. CASE op = "save"
    <2>1. Saving(w)' = [from |-> version, done |-> FALSE]
      BY <1>2, <1>3, <1>6 DEF Saving
    <2> QED
      BY <1>3, <1>4, <1>5, <2>1 DEF SaveIsAtomic!Start
  <1>7. CASE op # "save"
    <2>1. Saving(w)' = None
      BY <1>2, <1>3, <1>7 DEF Saving
    <2>2. sv' = sv
      BY <1>4, <2>1
    <2> QED
      BY <1>3, <1>4, <1>5, <2>2 DEF SaveIsAtomic!Forget
  <1> QED
    BY <1>6, <1>7

LEMMA NextRefines ==
    Inv /\ [Next]_vars => [SaveIsAtomic!Next]_SaveIsAtomic!vars
  <1> SUFFICES ASSUME Inv, [Next]_vars PROVE [SaveIsAtomic!Next]_SaveIsAtomic!vars
    OBVIOUS
  <1>1. CASE UNCHANGED vars
    BY <1>1 DEF vars, SaveIsAtomic!vars, Content, Saving, Outcome
  <1>2. ASSUME NEW w \in Workers, NEW op \in {"save", "get", "test"}, Begin(w, op)
        PROVE  SaveIsAtomic!Next
    BY <1>2, BeginRefines DEF SaveIsAtomic!Next
  <1>3. ASSUME NEW w \in Workers, Work(w)
        PROVE  [SaveIsAtomic!Next]_SaveIsAtomic!vars
    BY <1>3, WorkRefines
  <1>4. CASE Change
    <2>1. SaveIsAtomic!Change
      BY <1>4 DEF Change, SaveIsAtomic!Change, Content, Saving, Outcome
    <2> QED
      BY <2>1 DEF SaveIsAtomic!Next
  <1>5. CASE Crash
    <2>1. SaveIsAtomic!Crash
      BY <1>5 DEF Crash, SaveIsAtomic!Crash, Content, Saving, Outcome
    <2> QED
      BY <2>1 DEF SaveIsAtomic!Next
  <1> QED
    BY <1>1, <1>2, <1>3, <1>4, <1>5 DEF Next

(* A save takes effect at one moment or not at all: it did if it ended well,
   and did not if it was told to keep the file. *)
THEOREM ImplementsAtomicSave == Spec => AtomicSpec
  BY InitInv, NextInv, InitRefines, NextRefines, PTL DEF Spec, AtomicSpec, SaveIsAtomic!Spec
=============================================================================
