--------------------------- MODULE WebResponseProofs ---------------------------
(***************************************************************************)
(* The properties of the answers for any number of threads and files and   *)
(* any size.                                                               *)
(*                                                                         *)
(* A handler's answer is right because nothing is on the wire when it is   *)
(* written, except the header of a file whose body follows, or a second    *)
(* answer (WireSound); and because the size in that header is the file's,  *)
(* unless somebody changed it (FileSound).                                 *)
(***************************************************************************)
EXTENDS WebResponse, TLAPS

WireSound(j, w) ==
    ~ j.twice =>
        /\ j.pc # "body" => w = FreshWire
        /\ j.pc = "body" =>
              /\ w.state = 3 /\ w.status = 200 /\ w.body = 0
              /\ w.length = IF j.get THEN j.size ELSE None

FileSound(j, files) ==
    j.pc \in {"file", "body"} /\ ~ j.moved => files[j.file] = j.size

OpSound(j) ==
    /\ j.pc \in {"image", "product"} => j.op = j.pc
    /\ j.pc = "mg_send_file" => j.op \in {"image", "product"}

JobSound(j, w, files) == WireSound(j, w) /\ FileSound(j, files) /\ OpSound(j)

(* What is said of the answer w of a handler, if it is the only one *)
Right(w, op, code, end, moved) ==
    /\ ~ moved => w.body = IF w.length = None THEN 0 ELSE w.length
    /\ op \notin {"image", "product"} /\ end # "late" => code = w.status
    /\ end = "failed" => w.status >= 400

ResultSound(r, w) == ~ r.twice => Right(w, r.op, r.code, r.end, r.moved)

Inv ==
    /\ TypeOK
    /\ \A t \in Threads :
          /\ job[t] # None => JobSound(job[t], wire[t], file) /\ result[t] = None
          /\ result[t] # None => ResultSound(result[t], wire[t])

LEMMA InvImplies == Inv => BodyMatchesHeader /\ StatusIsReturned /\ EarlyFailuresReported
  <1> SUFFICES ASSUME Inv, NEW t \in Threads, result[t] # None, ~ result[t].twice
               PROVE  Right(wire[t], result[t].op, result[t].code, result[t].end, result[t].moved)
    BY DEF BodyMatchesHeader, StatusIsReturned, EarlyFailuresReported, Ended, Right
  <1> QED
    BY DEF Inv, ResultSound

LEMMA InitInv == Init => Inv
  <1> SUFFICES ASSUME Init PROVE Inv
    OBVIOUS
  <1>1. FreshWire \in Wires
    BY DEF FreshWire, Wires, Statuses
  <1>2. TypeOK
    BY <1>1 DEF Init, TypeOK
  <1> QED
    BY <1>2 DEF Init, Inv

-----------------------------------------------------------------------------
(* Answers *)

LEMMA HeaderAnswers ==
    ASSUME NEW w \in Wires, NEW s \in Statuses, NEW n \in Nat
    PROVE  /\ HeadOnly(w, s) \in Wires
           /\ Whole(w, s, n) \in Wires
           /\ HeadOnly(FreshWire, s) = [state |-> 3, status |-> s, length |-> None, body |-> 0]
           /\ Whole(FreshWire, s, n) = [state |-> 3, status |-> s, length |-> n, body |-> n]
           /\ HeaderStart(FreshWire, s) = [state |-> 1, status |-> s, length |-> None, body |-> 0]
           /\ HeaderStart(w, s) \in Wires
           /\ HeaderSend(w) \in Wires
           /\ HeaderLength(w, n) \in Wires
           /\ Write(w, n) \in Wires
  <1>1. ASSUME NEW v \in Wires
        PROVE  /\ HeaderStart(v, s) \in Wires
               /\ HeaderSend(v) \in Wires
               /\ HeaderLength(v, n) \in Wires
               /\ Write(v, n) \in Wires
    <2>1. HeaderStart(v, s) \in Wires /\ HeaderSend(v) \in Wires /\ HeaderLength(v, n) \in Wires
      BY DEF HeaderStart, HeaderSend, HeaderLength, Wires
    <2>2. v.body + n \in Nat
      BY DEF Wires
    <2>3. Write(v, n) \in Wires
      BY <2>2 DEF Write, Wires
    <2> QED
      BY <2>1, <2>3
  <1>2. HeadOnly(w, s) \in Wires /\ Whole(w, s, n) \in Wires
    BY <1>1 DEF HeadOnly, Whole
  <1>3. HeaderStart(FreshWire, s) = [state |-> 1, status |-> s, length |-> None, body |-> 0]
    BY DEF HeaderStart, FreshWire
  <1>4. HeadOnly(FreshWire, s) = [state |-> 3, status |-> s, length |-> None, body |-> 0]
    BY <1>3 DEF HeadOnly, HeaderSend
  <1>5. HeaderLength(HeaderStart(FreshWire, s), n)
            = [state |-> 1, status |-> s, length |-> n, body |-> 0]
    BY <1>3 DEF HeaderLength
  <1>6. Whole(FreshWire, s, n) = [state |-> 3, status |-> s, length |-> n, body |-> n]
    <2>1. HeaderSend(HeaderLength(HeaderStart(FreshWire, s), n))
              = [state |-> 3, status |-> s, length |-> n, body |-> 0]
      BY <1>5 DEF HeaderSend
    <2>2. 0 + n = n
      OBVIOUS
    <2> QED
      BY <2>1, <2>2 DEF Whole, Write
  <1> QED
    BY <1>1, <1>2, <1>3, <1>4, <1>6

(* What a handler may write on a wire that is fresh, unless it is the second
   answer: a header alone, or with its body *)
LEMMA HeadRight ==
    ASSUME NEW w \in Wires, NEW s \in Statuses, NEW end \in Ends, NEW op,
           NEW moved \in BOOLEAN,
           end = "failed" => s >= 400
    PROVE  /\ HeadOnly(w, s) \in Wires
           /\ w = FreshWire => Right(HeadOnly(w, s), op, s, end, moved)
  <1>1. HeadOnly(w, s) \in Wires
    BY 0 \in Nat, HeaderAnswers
  <1>2. ASSUME w = FreshWire PROVE Right(HeadOnly(w, s), op, s, end, moved)
    <2>1. HeadOnly(w, s) = [state |-> 3, status |-> s, length |-> None, body |-> 0]
      BY <1>2, 0 \in Nat, HeaderAnswers
    <2> QED
      BY <2>1 DEF Right
  <1> QED
    BY <1>1, <1>2

LEMMA WholeRight ==
    ASSUME NEW w \in Wires, NEW s \in Statuses, NEW n \in Nat, NEW end \in Ends, NEW op,
           NEW code, NEW moved \in BOOLEAN,
           end = "failed" => s >= 400,
           op \notin {"image", "product"} => code = s
    PROVE  /\ Whole(w, s, n) \in Wires
           /\ w = FreshWire => Right(Whole(w, s, n), op, code, end, moved)
  <1>1. Whole(w, s, n) \in Wires
    BY HeaderAnswers
  <1>2. ASSUME w = FreshWire PROVE Right(Whole(w, s, n), op, code, end, moved)
    <2>1. Whole(w, s, n) = [state |-> 3, status |-> s, length |-> n, body |-> n]
      BY <1>2, HeaderAnswers
    <2>2. n # None
      BY NoneAssumption
    <2> QED
      BY <2>1, <2>2 DEF Right
  <1> QED
    BY <1>1, <1>2

Ending(r) == IF Late(r) THEN "late" ELSE IF Failed(r) THEN "failed" ELSE "good"

LEMMA SendRight ==
    ASSUME NEW r \in Responses, NEW w \in Wires, NEW op, NEW moved \in BOOLEAN
    PROVE  /\ SendResponse(w, r) \in Wires
           /\ SentCode(r) \in Statuses
           /\ Ending(r) \in Ends
           /\ w = FreshWire => Right(SendResponse(w, r), op, SentCode(r), Ending(r), moved)
  <1>1. PICK c \in {200, 404, 500}, u \in BOOLEAN, x \in Texts : r = Response(c, u, x)
    BY DEF Responses
  <1>2. r.code = c /\ r.unmodified = u /\ r.text = x
    BY <1>1 DEF Response
  <1>3. FreshWire \in Wires
    BY DEF FreshWire, Wires, Statuses
  <1>4. Ending(r) \in Ends
    BY DEF Ending, Ends
  <1>5. {c, 200, 304, 404, 500} \subseteq Statuses
    BY DEF Statuses
  <1>6. ASSUME NEW s \in Statuses, \A v \in Wires : SendResponse(v, r) = HeadOnly(v, s),
               Ending(r) = "failed" => s >= 400
        PROVE  /\ SendResponse(w, r) \in Wires
               /\ SentCode(r) \in Statuses
               /\ w = FreshWire => Right(SendResponse(w, r), op, SentCode(r), Ending(r), moved)
    <2>1. SentCode(r) = s
      BY <1>3, <1>6, 0 \in Nat, HeaderAnswers DEF SentCode
    <2> QED
      BY <1>4, <1>6, <2>1, HeadRight
  <1>7. ASSUME NEW s \in Statuses, \A v \in Wires : SendResponse(v, r) = Whole(v, s, 1),
               Ending(r) = "failed" => s >= 400
        PROVE  /\ SendResponse(w, r) \in Wires
               /\ SentCode(r) \in Statuses
               /\ w = FreshWire => Right(SendResponse(w, r), op, SentCode(r), Ending(r), moved)
    <2>1. SentCode(r) = s
      BY <1>3, <1>7, 1 \in Nat, HeaderAnswers DEF SentCode
    <2> QED
      BY <1>4, <1>7, <2>1, 1 \in Nat, WholeRight
  <1>8. CASE u
    <2>1. \A v \in Wires : SendResponse(v, r) = HeadOnly(v, 304)
      BY <1>2, <1>8 DEF SendResponse
    <2>2. Ending(r) = "good"
      BY <1>2, <1>8 DEF Ending, Late, Failed
    <2> QED
      BY <1>4, <1>5, <1>6, <2>1, <2>2
  <1>9. CASE ~ u /\ x = "throws"
    <2>1. \A v \in Wires : SendResponse(v, r) = HeadOnly(v, 500)
      BY <1>2, <1>9 DEF SendResponse
    <2> QED
      BY <1>4, <1>5, <1>6, <2>1
  <1>10. CASE ~ u /\ x = "none"
    <2>1. \A v \in Wires : SendResponse(v, r) = HeadOnly(v, c)
      BY <1>2, <1>10 DEF SendResponse
    <2>2. Ending(r) = "failed" => c >= 400
      BY <1>2, <1>10 DEF Ending, Late, Failed
    <2> QED
      BY <1>4, <1>5, <1>6, <2>1, <2>2
  <1>11. CASE ~ u /\ x \in {"some", "error"}
    <2>1. \A v \in Wires : SendResponse(v, r) = Whole(v, c, 1)
      BY <1>2, <1>11 DEF SendResponse
    <2>2. Ending(r) = "failed" => c >= 400
      BY <1>2, <1>11 DEF Ending, Late, Failed
    <2> QED
      BY <1>4, <1>5, <1>7, <2>1, <2>2
  <1> QED
    BY <1>8, <1>9, <1>10, <1>11 DEF Texts

-----------------------------------------------------------------------------
(* Steps of one thread *)

LEMMA StepInv ==
    ASSUME Inv, NEW t \in Threads,
           NEW j \in Jobs \cup {None}, NEW w \in Wires, NEW r \in Results \cup {None},
           file' = file, job' = [job EXCEPT ![t] = j], wire' = [wire EXCEPT ![t] = w],
           result' = [result EXCEPT ![t] = r],
           j # None => JobSound(j, w, file) /\ r = None,
           r # None => ResultSound(r, w)
    PROVE  Inv'
  <1>1. TypeOK'
    BY DEF Inv, TypeOK
  <1>2. ASSUME NEW u \in Threads
        PROVE  /\ (job[u] # None => JobSound(job[u], wire[u], file) /\ result[u] = None)'
               /\ (result[u] # None => ResultSound(result[u], wire[u]))'
    <2>1. CASE u = t
      <3>1. job'[u] = j /\ wire'[u] = w /\ result'[u] = r
        BY <2>1 DEF Inv, TypeOK
      <3> QED
        BY <3>1
    <2>2. CASE u # t
      <3>1. job'[u] = job[u] /\ wire'[u] = wire[u] /\ result'[u] = result[u]
        BY <2>2 DEF Inv, TypeOK
      <3> QED
        BY <3>1 DEF Inv
    <2> QED
      BY <2>1, <2>2
  <1> QED
    BY <1>1, <1>2 DEF Inv

LEMMA JobType ==
    ASSUME Inv, NEW t \in Threads, job[t] # None
    PROVE  /\ job[t] \in Jobs
           /\ wire[t] \in Wires
           /\ result[t] = None
           /\ JobSound(job[t], wire[t], file)
           /\ job[t].op \in Ops /\ job[t].moved \in BOOLEAN /\ job[t].twice \in BOOLEAN
           /\ job[t].file \in Files
           /\ file[job[t].file] \in Sizes \cup {Absent, Directory}
  <1>1. job[t] \in Jobs
    BY DEF Inv, TypeOK
  <1>2. job[t].op \in Ops /\ job[t].moved \in BOOLEAN /\ job[t].twice \in BOOLEAN
        /\ job[t].file \in Files
    BY <1>1 DEF Jobs
  <1> QED
    BY <1>1, <1>2 DEF Inv, TypeOK

(* The handler ends. *)
LEMMA DoneInv ==
    ASSUME Inv, NEW t \in Threads, job[t] # None,
           NEW w \in Wires, NEW code \in Statuses, NEW end \in Ends, Done(t, w, code, end),
           ~ job[t].twice => Right(w, job[t].op, code, end, job[t].moved)
    PROVE  Inv'
  <1> DEFINE r == [op |-> job[t].op, code |-> code, end |-> end,
                   moved |-> job[t].moved, twice |-> job[t].twice]
  <1>1. r \in Results
    BY JobType DEF Results
  <1>2. ResultSound(r, w)
    <2>1. r.op = job[t].op /\ r.code = code /\ r.end = end /\ r.moved = job[t].moved
          /\ r.twice = job[t].twice
      OBVIOUS
    <2> HIDE DEF r
    <2> QED
      BY <2>1 DEF ResultSound
  <1>3. /\ file' = file /\ job' = [job EXCEPT ![t] = None]
        /\ wire' = [wire EXCEPT ![t] = w] /\ result' = [result EXCEPT ![t] = r]
    BY DEF Done
  <1> HIDE DEF r
  <1> QED
    BY <1>1, <1>2, <1>3, StepInv

LEMMA ReplyInv ==
    ASSUME Inv, NEW t \in Threads, job[t] # None, job[t].pc # "body",
           NEW r \in Responses, Reply(t, r)
    PROVE  Inv'
  <1>1. /\ SendResponse(wire[t], r) \in Wires
        /\ SentCode(r) \in Statuses
        /\ Ending(r) \in Ends
        /\ wire[t] = FreshWire =>
              Right(SendResponse(wire[t], r), job[t].op, SentCode(r), Ending(r), job[t].moved)
    BY JobType, SendRight
  <1>2. ~ job[t].twice => wire[t] = FreshWire
    BY JobType DEF JobSound, WireSound
  <1>3. Done(t, SendResponse(wire[t], r), SentCode(r), Ending(r))
    BY DEF Reply, Ending
  <1> QED
    BY <1>1, <1>2, <1>3, DoneInv

LEMMA FailureInv ==
    ASSUME Inv, NEW t \in Threads, job[t] # None, job[t].pc # "body",
           Catch(t) \/ HttpError(t, 404) \/ ConnectionFailed(t)
    PROVE  Inv'
  <1>1. ASSUME NEW c \in {404, 500} PROVE Response(c, FALSE, "some") \in Responses
    <2>1. c \in {200, 404, 500} /\ "some" \in Texts
      BY DEF Texts
    <2>2. \A u \in BOOLEAN : u = FALSE => Response(c, u, "some") \in Responses
      BY <2>1 DEF Responses
    <2> QED
      BY <2>2, Zenon
  <1> QED
    BY <1>1, ReplyInv DEF Catch, Failure, HttpError, ConnectionFailed

LEMMA WholeInv ==
    ASSUME Inv, NEW t \in Threads, job[t] # None, job[t].pc # "body",
           NEW s \in Statuses, NEW n \in Nat, NEW code \in Statuses, NEW end \in Ends,
           end = "failed" => s >= 400,
           job[t].op \notin {"image", "product"} => code = s,
           Done(t, Whole(wire[t], s, n), code, end)
    PROVE  Inv'
  <1>1. ~ job[t].twice => wire[t] = FreshWire
    BY JobType DEF JobSound, WireSound
  <1>2. /\ Whole(wire[t], s, n) \in Wires
        /\ wire[t] = FreshWire =>
              Right(Whole(wire[t], s, n), job[t].op, code, end, job[t].moved)
    <2>1. wire[t] \in Wires /\ job[t].moved \in BOOLEAN
      BY JobType
    <2> QED
      BY <2>1, WholeRight
  <1> QED
    BY <1>1, <1>2, DoneInv

LEMMA HeadInv ==
    ASSUME Inv, NEW t \in Threads, job[t] # None, job[t].pc # "body",
           NEW s \in Statuses, NEW end \in Ends, end = "failed" => s >= 400,
           Done(t, HeadOnly(wire[t], s), s, end)
    PROVE  Inv'
  <1>1. ~ job[t].twice => wire[t] = FreshWire
    BY JobType DEF JobSound, WireSound
  <1>2. /\ HeadOnly(wire[t], s) \in Wires
        /\ wire[t] = FreshWire =>
              Right(HeadOnly(wire[t], s), job[t].op, s, end, job[t].moved)
    <2>1. wire[t] \in Wires /\ job[t].moved \in BOOLEAN
      BY JobType
    <2> QED
      BY <2>1, HeadRight
  <1> QED
    BY <1>1, <1>2, DoneInv

LEMMA SuccessInv ==
    ASSUME Inv, NEW t \in Threads, job[t] # None, job[t].pc # "body", Success(t)
    PROVE  Inv'
  <1>1. Done(t, Whole(wire[t], 200, 1), 200, "good")
    BY DEF Success, Finish
  <1>2. 200 \in Statuses /\ 1 \in Nat /\ "good" \in Ends
    BY DEF Statuses, Ends
  <1> QED
    BY <1>1, <1>2, WholeInv

(* The handler goes on, with nothing written. *)
LEMMA MoveInv ==
    ASSUME Inv, NEW t \in Threads, job[t] # None, job[t].pc # "body",
           NEW j \in Jobs, job' = [job EXCEPT ![t] = j], UNCHANGED <<file, wire, result>>,
           j.op = job[t].op, j.twice = job[t].twice,
           j.pc \in {"mg_send_file", "default", "stat", "file", "index"},
           j.pc = "mg_send_file" => j.op \in {"image", "product"},
           FileSound(j, file)
    PROVE  Inv'
  <1>1. WireSound(job[t], wire[t]) /\ wire[t] \in Wires /\ result[t] = None
    BY JobType DEF JobSound
  <1>2. WireSound(j, wire[t])
    BY <1>1 DEF WireSound
  <1>3. OpSound(j)
    BY DEF OpSound
  <1>4. wire' = [wire EXCEPT ![t] = wire[t]] /\ result' = [result EXCEPT ![t] = None]
    BY <1>1 DEF Inv, TypeOK
  <1> QED
    BY <1>1, <1>2, <1>3, <1>4, StepInv DEF JobSound

LEMMA GotoInv ==
    ASSUME Inv, NEW t \in Threads, job[t] # None, job[t].pc # "body",
           NEW pc \in {"mg_send_file", "default", "stat"}, Goto(t, pc),
           UNCHANGED <<file, wire, result>>,
           pc = "mg_send_file" => job[t].op \in {"image", "product"}
    PROVE  Inv'
  <1> DEFINE j == [job[t] EXCEPT !.pc = pc]
  <1>1. job[t] \in Jobs
    BY JobType
  <1>2. j \in Jobs /\ j.pc = pc /\ j.op = job[t].op /\ j.twice = job[t].twice
    BY <1>1 DEF Jobs
  <1>3. job' = [job EXCEPT ![t] = j]
    BY DEF Goto
  <1> HIDE DEF j
  <1>4. FileSound(j, file)
    BY <1>2 DEF FileSound
  <1> QED
    BY <1>2, <1>3, <1>4, MoveInv

LEMMA BeginInv ==
    ASSUME Inv, NEW t \in Threads, NEW op \in Ops, NEW f \in Files, Begin(t, op, f)
    PROVE  Inv'
  <1> DEFINE j == [op |-> op, pc |-> op, file |-> f, size |-> 0, get |-> TRUE,
                   index |-> FALSE, moved |-> FALSE, twice |-> FALSE, next |-> "end"]
  <1>1. j \in Jobs
    BY SizeAssumption DEF Jobs, Sizes
  <1>2. j.pc = op /\ j.op = op
    OBVIOUS
  <1>3. /\ job' = [job EXCEPT ![t] = j] /\ wire' = [wire EXCEPT ![t] = FreshWire]
        /\ result' = [result EXCEPT ![t] = None] /\ file' = file
    BY DEF Begin
  <1> HIDE DEF j
  <1>4. JobSound(j, FreshWire, file)
    BY <1>2 DEF JobSound, WireSound, FileSound, OpSound, Ops
  <1>5. FreshWire \in Wires
    BY DEF FreshWire, Wires, Statuses
  <1> QED
    BY <1>1, <1>3, <1>4, <1>5, StepInv

LEMMA IconHandlerInv ==
    ASSUME Inv, NEW t \in Threads, IconHandler(t)
    PROVE  Inv'
  <1>1. job[t] # None /\ job[t].pc = "icon"
    BY DEF IconHandler, At
  <1>2. CASE Finish(t, Whole(wire[t], 400, 1), 400, TRUE)
    <2>1. 400 \in Statuses /\ 1 \in Nat /\ "failed" \in Ends /\ 400 >= 400
      BY DEF Statuses, Ends
    <2>2. Done(t, Whole(wire[t], 400, 1), 400, "failed")
      BY <1>2 DEF Finish
    <2> QED
      BY <1>1, <2>1, <2>2, WholeInv
  <1>3. CASE Goto(t, "stat") /\ UNCHANGED <<file, wire, result>>
    BY <1>1, <1>3, GotoInv
  <1> QED
    BY <1>1, <1>2, <1>3, FailureInv DEF IconHandler

LEMMA ImageHandlerInv ==
    ASSUME Inv, NEW t \in Threads, ImageHandler(t)
    PROVE  Inv'
  <1>1. job[t] # None /\ job[t].pc = "image"
    BY DEF ImageHandler, At
  <1>2. ASSUME NEW f \in Files,
               job' = [job EXCEPT ![t].pc = "mg_send_file", ![t].file = f],
               UNCHANGED <<file, wire, result>>
        PROVE  Inv'
    <2> DEFINE j == [job[t] EXCEPT !.pc = "mg_send_file", !.file = f]
    <2>1. job[t] \in Jobs /\ job[t].op = "image"
      BY <1>1, JobType DEF JobSound, OpSound
    <2>2. /\ j \in Jobs /\ j.pc = "mg_send_file" /\ j.op = "image"
          /\ j.op = job[t].op /\ j.twice = job[t].twice
      BY <2>1 DEF Jobs
    <2>3. job' = [job EXCEPT ![t] = j]
      BY <1>2 DEF Inv, TypeOK
    <2> HIDE DEF j
    <2>4. FileSound(j, file)
      BY <2>2 DEF FileSound
    <2> QED
      BY <1>1, <1>2, <2>2, <2>3, <2>4, MoveInv
  <1> QED
    BY <1>1, <1>2, FailureInv DEF ImageHandler, FindImage

LEMMA ProductHandlerInv ==
    ASSUME Inv, NEW t \in Threads, ProductHandler(t)
    PROVE  Inv'
  <1>1. job[t] # None /\ job[t].pc = "product" /\ job[t].op = "product"
    BY JobType DEF ProductHandler, At, JobSound, OpSound
  <1>2. CASE Goto(t, "mg_send_file") /\ UNCHANGED <<file, wire, result>>
    BY <1>1, <1>2, GotoInv
  <1> QED
    BY <1>1, <1>2, FailureInv DEF ProductHandler, SendIfThere

LEMMA MgSendFileInv ==
    ASSUME Inv, NEW t \in Threads, MgSendFile(t)
    PROVE  Inv'
  <1>1. job[t] # None /\ job[t].pc = "mg_send_file" /\ job[t].op \in {"image", "product"}
    BY JobType DEF MgSendFile, At, JobSound, OpSound
  <1>2. /\ {200, 403, 404} \subseteq Statuses /\ {"good", "failed"} \subseteq Ends
        /\ 1 \in Nat /\ 404 >= 400 /\ 403 >= 400
    BY DEF Statuses, Ends
  <1>3. job[t].pc # "body" /\ job[t].op \in {"image", "product"}
    BY <1>1
  <1>4. CASE Finish(t, Whole(wire[t], 200, file[job[t].file]), 200, FALSE)
             /\ Regular(file[job[t].file])
    <2>1. file[job[t].file] \in Nat
      BY <1>1, <1>4, JobType, SizeAssumption DEF Regular, Sizes, Absent, Directory
    <2>2. Done(t, Whole(wire[t], 200, file[job[t].file]), 200, "good")
      BY <1>4 DEF Finish
    <2> QED
      BY <1>1, <1>2, <1>3, <2>1, <2>2, WholeInv
  <1>5. CASE Finish(t, Whole(wire[t], 404, 1), 200, TRUE)
    <2>1. Done(t, Whole(wire[t], 404, 1), 200, "failed")
      BY <1>5 DEF Finish
    <2> QED
      BY <1>1, <1>2, <1>3, <2>1, WholeInv
  <1>6. CASE Finish(t, Whole(wire[t], 403, 1), 200, TRUE)
    <2>1. Done(t, Whole(wire[t], 403, 1), 200, "failed")
      BY <1>6 DEF Finish
    <2> QED
      BY <1>1, <1>2, <1>3, <2>1, WholeInv
  <1> QED
    BY <1>1, <1>4, <1>5, <1>6, SuccessInv DEF MgSendFile

LEMMA FaviconHandlerInv ==
    ASSUME Inv, NEW t \in Threads, FaviconHandler(t)
    PROVE  Inv'
  <1>1. job[t] # None /\ job[t].pc = "favicon"
    BY DEF FaviconHandler, At
  <1>2. CASE Goto(t, "default") /\ UNCHANGED <<file, wire, result>>
    BY <1>1, <1>2, GotoInv
  <1>3. CASE /\ job' = [job EXCEPT ![t].pc = "stat", ![t].next = "default"]
             /\ UNCHANGED <<file, wire, result>>
    <2> DEFINE j == [job[t] EXCEPT !.pc = "stat", !.next = "default"]
    <2>1. job[t] \in Jobs
      BY <1>1, JobType
    <2>2. j \in Jobs /\ j.pc = "stat" /\ j.op = job[t].op /\ j.twice = job[t].twice
      BY <2>1 DEF Jobs
    <2>3. job' = [job EXCEPT ![t] = j]
      BY <1>3 DEF Inv, TypeOK
    <2> HIDE DEF j
    <2>4. FileSound(j, file)
      BY <2>2 DEF FileSound
    <2> QED
      BY <1>1, <1>3, <2>2, <2>3, <2>4, MoveInv
  <1> QED
    BY <1>1, <1>2, <1>3, FailureInv DEF FaviconHandler

LEMMA DefaultFaviconInv ==
    ASSUME Inv, NEW t \in Threads, DefaultFavicon(t)
    PROVE  Inv'
  <1>1. job[t] # None /\ job[t].pc = "default"
    BY DEF DefaultFavicon, At
  <1>2. ASSUME NEW f \in Files,
               job' = [job EXCEPT ![t].pc = "stat", ![t].file = f, ![t].next = "end"],
               UNCHANGED <<file, wire, result>>
        PROVE  Inv'
    <2> DEFINE j == [job[t] EXCEPT !.pc = "stat", !.file = f, !.next = "end"]
    <2>1. job[t] \in Jobs
      BY <1>1, JobType
    <2>2. j \in Jobs /\ j.pc = "stat" /\ j.op = job[t].op /\ j.twice = job[t].twice
      BY <2>1 DEF Jobs
    <2>3. job' = [job EXCEPT ![t] = j]
      BY <1>2 DEF Inv, TypeOK
    <2> HIDE DEF j
    <2>4. FileSound(j, file)
      BY <2>2 DEF FileSound
    <2> QED
      BY <1>1, <1>2, <2>2, <2>3, <2>4, MoveInv
  <1> QED
    BY <1>1, <1>2, FailureInv DEF DefaultFavicon

LEMMA KeyHandlerInv ==
    ASSUME Inv, NEW t \in Threads, KeyHandler(t)
    PROVE  Inv'
  <1>1. job[t] # None /\ job[t].pc = "pubkey"
    BY DEF KeyHandler, At
  <1> QED
    BY <1>1, SuccessInv, FailureInv DEF KeyHandler

LEMMA RootHandlerInv ==
    ASSUME Inv, NEW t \in Threads, RootHandler(t)
    PROVE  Inv'
  <1>1. job[t] # None /\ job[t].pc = "root"
    BY DEF RootHandler, At
  <1> QED
    BY <1>1, ReplyInv, FailureInv DEF RootHandler, Exec

LEMMA CustomHandlerInv ==
    ASSUME Inv, NEW t \in Threads, CustomHandler(t)
    PROVE  Inv'
  <1>1. job[t] # None /\ job[t].pc = "custom"
    BY DEF CustomHandler, At
  <1>2. ASSUME NEW get \in BOOLEAN, NEW index \in BOOLEAN,
               job' = [job EXCEPT ![t].pc = "stat", ![t].get = get, ![t].index = index],
               UNCHANGED <<file, wire, result>>
        PROVE  Inv'
    <2> DEFINE j == [job[t] EXCEPT !.pc = "stat", !.get = get, !.index = index]
    <2>1. job[t] \in Jobs
      BY <1>1, JobType
    <2>2. j \in Jobs /\ j.pc = "stat" /\ j.op = job[t].op /\ j.twice = job[t].twice
      BY <2>1 DEF Jobs
    <2>3. job' = [job EXCEPT ![t] = j]
      BY <1>2 DEF Inv, TypeOK
    <2> HIDE DEF j
    <2>4. FileSound(j, file)
      BY <2>2 DEF FileSound
    <2> QED
      BY <1>1, <1>2, <2>2, <2>3, <2>4, MoveInv
  <1> QED
    BY <1>1, <1>2, ReplyInv, SuccessInv, FailureInv DEF CustomHandler

-----------------------------------------------------------------------------
(* Sending of a file *)

LEMMA StatFileInv ==
    ASSUME Inv, NEW t \in Threads, StatFile(t)
    PROVE  Inv'
  <1> DEFINE s == file[job[t].file]
             n == IF Regular(s) THEN s ELSE 0
             j == [job[t] EXCEPT !.pc = NextPc(s), !.size = n]
  <1>1. job[t] # None /\ job[t].pc = "stat"
    BY DEF StatFile, At
  <1>2. CASE job' = [job EXCEPT ![t].pc = NextPc(s), ![t].size = n]
             /\ UNCHANGED <<file, wire, result>>
    <2>1. job[t] \in Jobs /\ s \in Sizes \cup {Absent, Directory}
      BY <1>1, JobType
    <2>2. n \in Sizes
      BY <2>1, SizeAssumption DEF Regular, Sizes, Absent, Directory
    <2>3. NextPc(s) \in {"file", "index"} /\ (NextPc(s) = "file" => n = s)
      BY DEF NextPc
    <2>4. /\ j \in Jobs /\ j.pc = NextPc(s) /\ j.size = n /\ j.file = job[t].file
          /\ j.op = job[t].op /\ j.twice = job[t].twice
      BY <2>1, <2>2, <2>3 DEF Jobs
    <2>5. job' = [job EXCEPT ![t] = j]
      BY <1>2 DEF Inv, TypeOK
    <2>6. FileSound(j, file)
      BY <2>3, <2>4 DEF FileSound
    <2> HIDE DEF j
    <2> QED
      BY <1>1, <1>2, <2>3, <2>4, <2>5, <2>6, MoveInv
  <1> QED
    BY <1>1, <1>2, FailureInv DEF StatFile

LEMMA FileHeadInv ==
    ASSUME Inv, NEW t \in Threads, FileHead(t)
    PROVE  Inv'
  <1> DEFINE started == HeaderStart(wire[t], 200)
             w == HeaderSend(IF job[t].get THEN HeaderLength(started, job[t].size) ELSE started)
             j == [job[t] EXCEPT !.pc = "body"]
  <1>1. job[t] # None /\ job[t].pc = "file"
    BY DEF FileHead, At
  <1>2. job[t] \in Jobs /\ wire[t] \in Wires /\ result[t] = None
        /\ JobSound(job[t], wire[t], file)
    BY <1>1, JobType
  <1>3. job[t].size \in Nat /\ job[t].get \in BOOLEAN
    BY <1>2, SizeAssumption DEF Jobs, Sizes
  <1>4. /\ j \in Jobs /\ j.pc = "body" /\ j.size = job[t].size /\ j.file = job[t].file
        /\ j.get = job[t].get /\ j.op = job[t].op /\ j.twice = job[t].twice
        /\ j.moved = job[t].moved
    BY <1>2 DEF Jobs
  <1>5. w \in Wires
    <2>1. 200 \in Statuses
      BY DEF Statuses
    <2>2. started \in Wires
      BY <1>2, <1>3, <2>1, HeaderAnswers
    <2>3. HeaderLength(started, job[t].size) \in Wires
      BY <1>3, <2>1, <2>2, HeaderAnswers
    <2> QED
      BY <1>3, <2>1, <2>2, <2>3, HeaderAnswers
  <1>6. ASSUME ~ job[t].twice
        PROVE  /\ w.state = 3 /\ w.status = 200 /\ w.body = 0
               /\ w.length = IF job[t].get THEN job[t].size ELSE None
    <2>1. wire[t] = FreshWire
      BY <1>1, <1>2, <1>6 DEF JobSound, WireSound
    <2>2. started = [state |-> 1, status |-> 200, length |-> None, body |-> 0]
      BY <1>2, <2>1, 200 \in Statuses, 0 \in Nat, HeaderAnswers DEF Statuses
    <2>3. CASE job[t].get
      <3>1. HeaderLength(started, job[t].size)
                = [state |-> 1, status |-> 200, length |-> job[t].size, body |-> 0]
        BY <2>2 DEF HeaderLength
      <3> QED
        BY <2>3, <3>1 DEF HeaderSend
    <2>4. CASE ~ job[t].get
      BY <2>2, <2>4 DEF HeaderSend
    <2> QED
      BY <2>3, <2>4
  <1>7. job' = [job EXCEPT ![t] = j] /\ wire' = [wire EXCEPT ![t] = w]
    BY DEF FileHead, Goto
  <1> HIDE DEF w, j
  <1>8. WireSound(j, w)
    BY <1>4, <1>6 DEF WireSound
  <1>9. FileSound(j, file) /\ OpSound(j)
    BY <1>1, <1>2, <1>4 DEF JobSound, FileSound, OpSound
  <1>10. result' = [result EXCEPT ![t] = None] /\ file' = file
    BY <1>2 DEF FileHead, Inv, TypeOK
  <1> QED
    BY <1>4, <1>5, <1>7, <1>8, <1>9, <1>10, StepInv DEF JobSound

LEMMA FileBodyInv ==
    ASSUME Inv, NEW t \in Threads, FileBody(t)
    PROVE  Inv'
  <1> DEFINE s == file[job[t].file]
             w == IF job[t].get /\ Regular(s) THEN Write(wire[t], s) ELSE wire[t]
             j == [job[t] EXCEPT !.pc = job[t].next, !.twice = TRUE]
  <1>1. job[t] # None /\ job[t].pc = "body"
    BY DEF FileBody, At
  <1>2. job[t] \in Jobs /\ wire[t] \in Wires /\ result[t] = None
        /\ JobSound(job[t], wire[t], file) /\ s \in Sizes \cup {Absent, Directory}
    BY <1>1, JobType
  <1>3. job[t].size \in Sizes /\ job[t].next \in {"end", "default"} /\ job[t].op \in Ops
        /\ job[t].moved \in BOOLEAN /\ job[t].get \in BOOLEAN
    BY <1>2 DEF Jobs
  <1>4. Regular(s) => s \in Nat
    BY <1>2, SizeAssumption DEF Regular, Sizes, Absent, Directory
  <1>5. w \in Wires
    <2>1. 200 \in Statuses
      BY DEF Statuses
    <2>2. Regular(s) => Write(wire[t], s) \in Wires
      BY <1>2, <1>4, <2>1, HeaderAnswers
    <2> QED
      BY <1>2, <2>2
  <1>6. ASSUME ~ job[t].twice
        PROVE  Right(w, job[t].op, 200, "good", job[t].moved)
    <2>1. /\ wire[t].status = 200 /\ wire[t].body = 0
          /\ wire[t].length = IF job[t].get THEN job[t].size ELSE None
      BY <1>1, <1>2, <1>6 DEF JobSound, WireSound
    <2>2. w.status = 200 /\ w.length = wire[t].length
      BY <1>2, <2>1 DEF Write, Wires
    <2>3. ASSUME ~ job[t].moved
          PROVE  w.body = IF w.length = None THEN 0 ELSE w.length
      <3>1. s = job[t].size
        BY <1>1, <1>2, <2>3 DEF JobSound, FileSound
      <3>2. Regular(s) /\ s \in Nat /\ s # None
        BY <1>3, <3>1, SizeAssumption, NoneAssumption DEF Regular, Sizes
      <3>3. CASE job[t].get
        <4>1. w = Write(wire[t], s)
          BY <3>2, <3>3
        <4>2. Write(wire[t], s).body = 0 + s
          BY <1>2, <2>1 DEF Write, Wires
        <4>3. w.body = s
          BY <3>2, <4>1, <4>2
        <4> QED
          BY <2>1, <2>2, <3>1, <3>2, <3>3, <4>3
      <3>4. CASE ~ job[t].get
        BY <2>1, <3>4
      <3> QED
        BY <3>3, <3>4
    <2> HIDE DEF w
    <2> QED
      BY <2>2, <2>3 DEF Right
  <1>7. CASE Finish(t, w, 200, FALSE)
    <2>1. Done(t, w, 200, "good")
      BY <1>7 DEF Finish
    <2>2. 200 \in Statuses /\ "good" \in Ends
      BY DEF Statuses, Ends
    <2> HIDE DEF w
    <2> QED
      BY <1>1, <1>5, <1>6, <2>1, <2>2, DoneInv
  <1>8. CASE /\ job[t].next # "end"
             /\ wire' = [wire EXCEPT ![t] = w]
             /\ job' = [job EXCEPT ![t].pc = job[t].next, ![t].twice = TRUE]
             /\ UNCHANGED <<file, result>>
    <2>1. job[t].next = "default"
      BY <1>3, <1>8
    <2>2. j \in Jobs /\ j.pc = "default" /\ j.twice = TRUE
      BY <1>2, <2>1 DEF Jobs
    <2>3. job' = [job EXCEPT ![t] = j]
      BY <1>8 DEF Inv, TypeOK
    <2>4. result' = [result EXCEPT ![t] = None]
      BY <1>2, <1>8 DEF Inv, TypeOK
    <2> HIDE DEF w, j
    <2>5. JobSound(j, w, file)
      BY <2>2 DEF JobSound, WireSound, FileSound, OpSound
    <2> QED
      BY <1>5, <1>8, <2>2, <2>3, <2>4, <2>5, StepInv
  <1> QED
    BY <1>7, <1>8 DEF FileBody

LEMMA DirectoryIndexInv ==
    ASSUME Inv, NEW t \in Threads, DirectoryIndex(t)
    PROVE  Inv'
  <1>1. job[t] # None /\ job[t].pc = "index"
    BY DEF DirectoryIndex, At
  <1>2. wire[t] \in Wires /\ job[t].moved \in BOOLEAN
    BY <1>1, JobType
  <1>3. ~ job[t].twice => wire[t] = FreshWire
    BY <1>1, JobType DEF JobSound, WireSound
  <1>4. {200, 400, 500} \subseteq Statuses
    BY DEF Statuses
  <1>5. CASE Finish(t, HeadOnly(wire[t], 400), 400, TRUE)
    <2>1. "failed" \in Ends /\ 400 \in Statuses /\ 400 >= 400
      BY DEF Ends, Statuses
    <2>2. Done(t, HeadOnly(wire[t], 400), 400, "failed")
      BY <1>5 DEF Finish
    <2> QED
      BY <1>1, <2>1, <2>2, HeadInv
  <1>6. CASE Finish(t, Whole(wire[t], 200, 1), 200, FALSE)
    <2>1. 200 \in Statuses /\ 1 \in Nat /\ "good" \in Ends
      BY DEF Statuses, Ends
    <2>2. Done(t, Whole(wire[t], 200, 1), 200, "good")
      BY <1>6 DEF Finish
    <2> QED
      BY <1>1, <2>1, <2>2, WholeInv
  <1>7. CASE Done(t, SendResponse(HeaderStart(wire[t], 200), Failure), 500, "late")
    <2> DEFINE v == HeaderStart(wire[t], 200)
    <2>1. SendResponse(v, Failure) = Whole(v, 500, 1)
      BY DEF SendResponse, Failure, Response
    <2>2. v \in Wires /\ Whole(v, 500, 1) \in Wires
      <3>1. v \in Wires
        BY <1>2, <1>4, 1 \in Nat, HeaderAnswers
      <3> QED
        BY <1>4, <3>1, 1 \in Nat, HeaderAnswers
    <2>3. ASSUME wire[t] = FreshWire
          PROVE  Right(Whole(v, 500, 1), job[t].op, 500, "late", job[t].moved)
      <3>1. v = [state |-> 1, status |-> 200, length |-> None, body |-> 0]
        BY <1>2, <1>4, <2>3, 0 \in Nat, HeaderAnswers
      <3>2. HeaderStart(v, 500) = v
        BY <3>1 DEF HeaderStart
      <3>3. HeaderLength(v, 1) = [state |-> 1, status |-> 200, length |-> 1, body |-> 0]
        BY <3>1 DEF HeaderLength
      <3>4. Whole(v, 500, 1) = [state |-> 3, status |-> 200, length |-> 1, body |-> 1]
        BY <3>2, <3>3 DEF Whole, HeaderSend, Write
      <3> QED
        BY <3>4, 1 \in Nat, NoneAssumption DEF Right
    <2>4. "late" \in Ends
      BY DEF Ends
    <2> HIDE DEF v
    <2> QED
      BY <1>1, <1>2, <1>3, <1>4, <1>7, <2>1, <2>2, <2>3, <2>4, DoneInv DEF v
  <1> QED
    BY <1>5, <1>6, <1>7 DEF DirectoryIndex

-----------------------------------------------------------------------------
(* A change of a file marks the handlers that looked at it. *)
LEMMA ChangeInv ==
    ASSUME Inv, NEW f \in Files, Change(f)
    PROVE  Inv'
  <1>1. PICK s \in Sizes \cup {Absent, Directory} : file' = [file EXCEPT ![f] = s]
    BY DEF Change
  <1>2. file' \in [Files -> Sizes \cup {Absent, Directory}] /\ wire' = wire /\ result' = result
    BY <1>1 DEF Change, Inv, TypeOK
  <1>3. ASSUME NEW t \in Threads
        PROVE  /\ job'[t] \in Jobs \cup {None}
               /\ job'[t] # None => JobSound(job'[t], wire[t], file') /\ result[t] = None
    <2>1. CASE job[t] # None /\ job[t].file = f /\ job[t].pc \in {"file", "body"}
      <3> DEFINE j == [job[t] EXCEPT !.moved = TRUE]
      <3>1. job'[t] = j
        BY <2>1 DEF Change
      <3>2. job[t] \in Jobs /\ JobSound(job[t], wire[t], file) /\ result[t] = None
        BY <2>1, JobType
      <3>3. /\ j \in Jobs /\ j.moved = TRUE /\ j.pc = job[t].pc /\ j.op = job[t].op
            /\ j.twice = job[t].twice /\ j.get = job[t].get /\ j.size = job[t].size
        BY <3>2 DEF Jobs
      <3> HIDE DEF j
      <3>4. JobSound(j, wire[t], file')
        BY <3>2, <3>3 DEF JobSound, WireSound, FileSound, OpSound
      <3> QED
        BY <3>1, <3>2, <3>3, <3>4
    <2>2. CASE ~ (job[t] # None /\ job[t].file = f /\ job[t].pc \in {"file", "body"})
      <3>1. job'[t] = job[t]
        BY <2>2 DEF Change
      <3>2. job[t] \in Jobs \cup {None}
        BY DEF Inv, TypeOK
      <3>3. ASSUME job[t] # None
            PROVE  JobSound(job[t], wire[t], file') /\ result[t] = None
        <4>1. JobSound(job[t], wire[t], file) /\ result[t] = None /\ job[t].file \in Files
          BY <3>3, JobType
        <4>2. job[t].pc \in {"file", "body"} => file'[job[t].file] = file[job[t].file]
          BY <1>1, <2>2, <3>3, <4>1 DEF Inv, TypeOK
        <4> QED
          BY <4>1, <4>2 DEF JobSound, FileSound
      <3> QED
        BY <3>1, <3>2, <3>3
    <2> QED
      BY <2>1, <2>2
  <1>4. job' \in [Threads -> Jobs \cup {None}]
    BY <1>3 DEF Change
  <1>5. TypeOK'
    BY <1>2, <1>4 DEF Inv, TypeOK
  <1> QED
    BY <1>2, <1>3, <1>5 DEF Inv

LEMMA NextInv == Inv /\ [Next]_vars => Inv'
  <1> SUFFICES ASSUME Inv, [Next]_vars PROVE Inv'
    OBVIOUS
  <1>1. ASSUME NEW t \in Threads, NEW op \in Ops, NEW f \in Files, Begin(t, op, f) PROVE Inv'
    BY <1>1, BeginInv
  <1>2. ASSUME NEW t \in Threads, Work(t) PROVE Inv'
    BY <1>2, IconHandlerInv, ImageHandlerInv, ProductHandlerInv, MgSendFileInv,
       FaviconHandlerInv, DefaultFaviconInv, KeyHandlerInv, RootHandlerInv, CustomHandlerInv,
       StatFileInv, FileHeadInv, FileBodyInv, DirectoryIndexInv
    DEF Work
  <1>3. ASSUME NEW f \in Files, Change(f) PROVE Inv'
    BY <1>3, ChangeInv
  <1>4. CASE UNCHANGED vars
    BY <1>4 DEF vars, Inv, TypeOK
  <1> QED
    BY <1>1, <1>2, <1>3, <1>4 DEF Next

-----------------------------------------------------------------------------
(* The properties of the runs, of every behaviour *)

LEMMA AlwaysInv == Spec => []Inv
  BY InitInv, NextInv, PTL DEF Spec

(* Files, handlers and answers keep their types: no answer has a length that
   is not one, whatever the handlers find on disk. *)
THEOREM AnswerTypes == Spec => []TypeOK
  <1>1. Inv => TypeOK
    BY DEF Inv
  <1> QED
    BY <1>1, AlwaysInv, PTL

(* What follows the header is as long as the header says. *)
THEOREM AnswersAreFramed == Spec => []BodyMatchesHeader
  BY InvImplies, AlwaysInv, PTL

(* What goes into the log is what the client got. *)
THEOREM StatusesAreTrue == Spec => []StatusIsReturned
  BY InvImplies, AlwaysInv, PTL

(* An exception or a missing file, in good time, is not answered with a
   success. *)
THEOREM FailuresAreSeen == Spec => []EarlyFailuresReported
  BY InvImplies, AlwaysInv, PTL
=============================================================================
