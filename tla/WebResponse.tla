----------------------------- MODULE WebResponse -----------------------------
(***************************************************************************)
(* How a request handler of the web module answers: the reply state kept   *)
(* by the embedded server (civetweb), the two ways an answer is written    *)
(* (`send` of a response, Connection::send of a file), the built-in        *)
(* handlers on top of them, and the files they read, which change under    *)
(* them.                                                                   *)
(*                                                                         *)
(* Only what an HTTP client can tell apart is kept of an answer: its       *)
(* status, its Content-Length and how much body followed it.               *)
(***************************************************************************)
EXTENDS Integers

CONSTANTS
    Threads,        \* worker threads of the embedded server
    Files,          \* icons, images, pages and the default favicon
    MaxSize,        \* bound: sizes of a regular file
    None            \* absent

ASSUME SizeAssumption == MaxSize \in Nat

VARIABLES
    file,       \* file[f]: size of a regular file, Absent or Directory
    job,        \* job[t]: what thread t's handler is doing, or None
    wire,       \* wire[t]: the answer on t's connection
    result      \* result[t]: how t's last handler ended, or None

vars == <<file, job, wire, result>>

Absent    == -1
Directory == -2
Sizes     == 0..MaxSize
Regular(s) == s >= 0

Ops      == {"icon", "image", "product", "favicon", "pubkey", "root", "custom"}
Statuses == {0, 200, 304, 400, 403, 404, 500}
Ends     == {"good", "failed", "late"}

(* An answer, on the wire *)
Wires == [state : {0, 1, 3}, status : Statuses, length : Nat \cup {None}, body : Nat]

(* "moved" and "twice" are history: the file changed after the handler looked
   at it, and this is the second answer of the handler. *)
Jobs == [op : Ops,
         pc : Ops \cup {"mg_send_file", "default", "stat", "file", "body", "index"},
         file : Files, size : Sizes, get : BOOLEAN, index : BOOLEAN,
         moved : BOOLEAN, twice : BOOLEAN, next : {"end", "default"}]

Results == [op : Ops, code : Statuses, end : Ends, moved : BOOLEAN, twice : BOOLEAN]

ASSUME NoneAssumption == None \notin Nat \cup Jobs \cup Results

-----------------------------------------------------------------------------
(* civetweb's reply state: 0 nothing, 1 header being built, 3 header sent.
   Starting, adding to and sending a header do nothing in another state;
   mg_write and mg_send_file_body write whatever the state is. *)

FreshWire == [state |-> 0, status |-> 0, length |-> None, body |-> 0]

HeaderStart(w, status) ==
    IF w.state = 0 THEN [w EXCEPT !.state = 1, !.status = status] ELSE w

HeaderLength(w, n) == IF w.state = 1 THEN [w EXCEPT !.length = n] ELSE w

HeaderSend(w) == IF w.state = 1 THEN [w EXCEPT !.state = 3] ELSE w

Write(w, n) == [w EXCEPT !.body = @ + n]

(* A header without body, and a header with its body *)
HeadOnly(w, status) == HeaderSend(HeaderStart(w, status))

Whole(w, status, n) ==
    Write(HeaderSend(HeaderLength(HeaderStart(w, status), n)), n)

-----------------------------------------------------------------------------
(* `send(conn, response)` *)

(* What a worker or a handler made: its status, whether the client's copy is
   still good, and what its text turns out to be: some, none, the message of
   an exception caught in Response::to_string, or an exception out of it. *)
Response(code, unmodified, text) ==
    [code |-> code, unmodified |-> unmodified, text |-> text]

Texts == {"some", "none", "error", "throws"}

Responses == {Response(c, u, x) : c \in {200, 404, 500}, u \in BOOLEAN, x \in Texts}

Failure == Response(500, FALSE, "some")

CodeIgnored(w, r) == IF r.text = "none" THEN HeadOnly(w, 200) ELSE Whole(w, 200, 1)

(* The status is taken before the text is built. *)
SendResponse(w, r) ==
    CASE r.unmodified       -> HeadOnly(w, 304)
      [] ~ r.unmodified /\ r.text = "throws" -> HeadOnly(w, 500)
      [] ~ r.unmodified /\ r.text = "none"   -> HeadOnly(w, r.code)
      [] OTHER              -> Whole(w, r.code, 1)

(* ... so a text that fails comes too late to change it. *)
Failed(r) == ~ r.unmodified /\ (r.code # 200 \/ r.text \in {"error", "throws"})

Late(r) == ~ r.unmodified /\ r.text = "error"

SentCode(r) == SendResponse(FreshWire, r).status

-----------------------------------------------------------------------------
(* Ends of a handler *)

(* The handler's answer, the code it returns and whether it failed: in good
   time or, "late", when the status had been chosen already. *)
Done(t, w, code, end) ==
    /\ wire' = [wire EXCEPT ![t] = w]
    /\ job' = [job EXCEPT ![t] = None]
    /\ result' = [result EXCEPT ![t] =
          [op |-> job[t].op, code |-> code, end |-> end,
           moved |-> job[t].moved, twice |-> job[t].twice]]
    /\ UNCHANGED file

Finish(t, w, code, failed) == Done(t, w, code, IF failed THEN "failed" ELSE "good")

Reply(t, r) ==
    Done(t, SendResponse(wire[t], r), SentCode(r),
         IF Late(r) THEN "late" ELSE IF Failed(r) THEN "failed" ELSE "good")

(* The catch blocks of the handlers *)
Catch(t) == Reply(t, Failure)

(* http_error: a failed response of the given code *)
HttpError(t, code) == Reply(t, Response(code, FALSE, "some"))

(* HTTP::Connection::success *)
Success(t) == Finish(t, Whole(wire[t], 200, 1), 200, FALSE)

(* HTTP::Connection::failed, with a code that may be a success's *)
ConnectionFailed(t) == HttpError(t, 500)

Goto(t, pc) == job' = [job EXCEPT ![t].pc = pc]

At(t, pc) == job[t] # None /\ job[t].pc = pc

-----------------------------------------------------------------------------
Init ==
    /\ file \in [Files -> Sizes \cup {Absent, Directory}]
    /\ job = [t \in Threads |-> None]
    /\ wire = [t \in Threads |-> FreshWire]
    /\ result = [t \in Threads |-> None]

(* A request for f reaches the handler registered for its path. *)
Begin(t, op, f) ==
    /\ job[t] = None
    /\ job' = [job EXCEPT ![t] =
          [op |-> op, pc |-> op, file |-> f, size |-> 0, get |-> TRUE,
           index |-> FALSE, moved |-> FALSE, twice |-> FALSE, next |-> "end"]]
    /\ wire' = [wire EXCEPT ![t] = FreshWire]
    /\ result' = [result EXCEPT ![t] = None]
    /\ UNCHANGED file

(* "/icon/": no name, no such icon, or a file to send *)
IconHandler(t) ==
    /\ At(t, "icon")
    /\ \/ Finish(t, Whole(wire[t], 400, 1), 400, TRUE)
       \/ HttpError(t, 404)
       \/ Goto(t, "stat") /\ UNCHANGED <<file, wire, result>>
       \/ Catch(t)

(* A file that is there is left to civetweb. *)
SendIfThere(t) ==
    IF file[job[t].file] # Absent
    THEN Goto(t, "mg_send_file") /\ UNCHANGED <<file, wire, result>>
    ELSE HttpError(t, 404)

(* The first of "theme/imgpath" that has the image, else a search below them *)
FindImage(t) ==
    \/ \E f \in Files :
          /\ file[f] # Absent
          /\ job' = [job EXCEPT ![t].pc = "mg_send_file", ![t].file = f]
          /\ UNCHANGED <<file, wire, result>>
    \/ /\ \A f \in Files : file[f] = Absent
       /\ HttpError(t, 404)

(* "/image/": the image is looked for ... *)
ImageHandler(t) ==
    /\ At(t, "image")
    /\ FindImage(t) \/ Catch(t)

(* "/<product>/": the file of that name; another prefix throws. *)
ProductHandler(t) ==
    /\ At(t, "product")
    /\ SendIfThere(t) \/ Catch(t)

(* ... and the answer left to civetweb, which looks at the file again: the
   handlers return 200 whatever that finds. *)
MgSendFile(t) ==
    /\ At(t, "mg_send_file")
    /\ LET s == file[job[t].file] IN
       \/ Regular(s) /\ Finish(t, Whole(wire[t], 200, s), 200, FALSE)
       \/ s = Absent /\ Finish(t, Whole(wire[t], 404, 1), 200, TRUE)
       \/ s = Directory /\ Success(t)      \* civetweb's own listing, or ...
       \/ s = Directory /\ Finish(t, Whole(wire[t], 403, 1), 200, TRUE)

(* "/favicon.ico": a worker's icon or file is sent; then, that or not, the
   handler goes on to the default. *)
FaviconHandler(t) ==
    /\ At(t, "favicon")
    /\ \/ Goto(t, "default") /\ UNCHANGED <<file, wire, result>>
       \/ /\ job' = [job EXCEPT ![t].pc = "stat", ![t].next = "default"]
          /\ UNCHANGED <<file, wire, result>>
       \/ Catch(t)

Default404Forgotten(t) ==
    /\ At(t, "default")
    /\ \E f \in Files :
          IF file[f] # Absent
          THEN /\ job' = [job EXCEPT ![t].pc = "stat", ![t].file = f, ![t].next = "end"]
               /\ UNCHANGED <<file, wire, result>>
          ELSE Finish(t, wire[t], 404, TRUE)

DefaultFavicon(t) ==
    /\ At(t, "default")
    /\ \E f \in Files :
          IF file[f] # Absent
          THEN /\ job' = [job EXCEPT ![t].pc = "stat", ![t].file = f, ![t].next = "end"]
               /\ UNCHANGED <<file, wire, result>>
          ELSE HttpError(t, 404)

(* "/pubkey.pem": the key in PEM form is built before the header. *)
KeyHandler(t) ==
    /\ At(t, "pubkey")
    /\ Success(t) \/ HttpError(t, 404) \/ Catch(t)

(* HTTP::Request::exec: the first worker that wants the request makes a
   value or a report, or says it has none; or nobody wants it. *)
Exec(t) ==
    \/ \E r \in Responses : Reply(t, r)
    \/ HttpError(t, 404)

(* "/" *)
RootHandler(t) ==
    /\ At(t, "root")
    /\ Exec(t) \/ Catch(t)

(* A handler of the application: a response, a text, a file or an exception *)
CustomHandler(t) ==
    /\ At(t, "custom")
    /\ \/ \E r \in Responses : Reply(t, r)
       \/ Success(t)
       \/ ConnectionFailed(t)
       \/ /\ \E get, index \in BOOLEAN :
                job' = [job EXCEPT ![t].pc = "stat", ![t].get = get,
                                   ![t].index = index]
          /\ UNCHANGED <<file, wire, result>>
       \/ Catch(t)

-----------------------------------------------------------------------------
(* Connection::send of a file *)

NextPc(s) == IF Regular(s) THEN "file" ELSE "index"

SizeOfAnything(t) ==
    /\ At(t, "stat")
    /\ LET s == file[job[t].file] IN
       IF Regular(s) \/ (s = Directory /\ job[t].index)
       THEN /\ job' = [job EXCEPT ![t].pc = NextPc(s), ![t].size = s]
            /\ UNCHANGED <<file, wire, result>>
       ELSE Catch(t)

HeaderBeforeStat(t) ==
    /\ At(t, "stat")
    /\ LET s == file[job[t].file] IN
       IF Regular(s) \/ (s = Directory /\ job[t].index)
       THEN /\ job' = [job EXCEPT ![t].pc = NextPc(s),
                                  ![t].size = IF Regular(s) THEN s ELSE 0]
            /\ UNCHANGED <<file, wire, result>>
       ELSE Finish(t, SendResponse(HeaderStart(wire[t], 200), Failure), 500, TRUE)

(* stat(): missing files, and directories nobody asked an index of, throw. *)
StatFile(t) ==
    /\ At(t, "stat")
    /\ LET s == file[job[t].file] IN
       IF Regular(s) \/ (s = Directory /\ job[t].index)
       THEN /\ job' = [job EXCEPT ![t].pc = NextPc(s),
                                  ![t].size = IF Regular(s) THEN s ELSE 0]
            /\ UNCHANGED <<file, wire, result>>
       ELSE Catch(t)

FileHead(t) ==
    /\ At(t, "file")
    /\ LET started == HeaderStart(wire[t], 200) IN
       wire' = [wire EXCEPT ![t] =
          HeaderSend(IF job[t].get THEN HeaderLength(started, job[t].size)
                     ELSE started)]
    /\ Goto(t, "body")
    /\ UNCHANGED <<file, result>>

BodyForHead(t) ==
    /\ At(t, "body")
    /\ LET s == file[job[t].file] IN
       Finish(t, IF Regular(s) THEN Write(wire[t], s) ELSE wire[t], 200, FALSE)

(* The body is the file as it is now. *)
FileBody(t) ==
    /\ At(t, "body")
    /\ LET s    == file[job[t].file]
           sent == IF job[t].get /\ Regular(s) THEN Write(wire[t], s) ELSE wire[t]
       IN IF job[t].next = "end" THEN Finish(t, sent, 200, FALSE)
          ELSE /\ wire' = [wire EXCEPT ![t] = sent]
               /\ job' = [job EXCEPT ![t].pc = job[t].next, ![t].twice = TRUE]
               /\ UNCHANGED <<file, result>>

(* A directory: refused without a trailing '/'; else the header is begun,
   the directory read, and the header completed.  If reading throws, the
   catch block finds a header with status 200 already begun. *)
DirectoryIndex(t) ==
    /\ At(t, "index")
    /\ \/ Finish(t, HeadOnly(wire[t], 400), 400, TRUE)
       \/ Finish(t, Whole(wire[t], 200, 1), 200, FALSE)
       \/ Done(t, SendResponse(HeaderStart(wire[t], 200), Failure), 500, "late")

-----------------------------------------------------------------------------
(* Somebody changes a file.  The handler that has looked at it and not yet
   sent it is marked: its answer may be of neither version. *)
Change(f) ==
    /\ \E s \in Sizes \cup {Absent, Directory} : file' = [file EXCEPT ![f] = s]
    /\ job' = [t \in Threads |->
          IF job[t] # None /\ job[t].file = f /\ job[t].pc \in {"file", "body"}
          THEN [job[t] EXCEPT !.moved = TRUE] ELSE job[t]]
    /\ UNCHANGED <<wire, result>>

Work(t) ==
    \/ IconHandler(t)
    \/ ImageHandler(t)
    \/ ProductHandler(t)
    \/ MgSendFile(t)
    \/ FaviconHandler(t)
    \/ DefaultFavicon(t)
    \/ KeyHandler(t)
    \/ RootHandler(t)
    \/ CustomHandler(t)
    \/ StatFile(t)
    \/ FileHead(t)
    \/ FileBody(t)
    \/ DirectoryIndex(t)

Next ==
    \/ \E t \in Threads, op \in Ops, f \in Files : Begin(t, op, f)
    \/ \E t \in Threads : Work(t)
    \/ \E f \in Files : Change(f)

Spec == Init /\ [][Next]_vars

(* A worker thread finishes the request it has. *)
FairSpec == Spec /\ \A t \in Threads : WF_vars(Work(t))

-----------------------------------------------------------------------------
(* Properties *)

Ended(t) == result[t] # None

TypeOK ==
    /\ file \in [Files -> Sizes \cup {Absent, Directory}]
    /\ job \in [Threads -> Jobs \cup {None}]
    /\ wire \in [Threads -> Wires]
    /\ result \in [Threads -> Results \cup {None}]

(* Framing: what follows the header is as long as the header says, and
   nothing follows a header without a length, also when a handler failed
   half-way and its catch block answered after it.  Excepted are a file that
   changed between its header and its body, and the second answer that
   follows a worker's favicon.  A body that is too long is read as the start
   of the next answer on the connection. *)
BodyMatchesHeader ==
    \A t \in Threads : Ended(t) /\ ~ result[t].moved /\ ~ result[t].twice =>
        wire[t].body = IF wire[t].length = None THEN 0 ELSE wire[t].length

(* The code a handler returns to the server, which logs it, is the status
   the client got.  Excepted are "/image/" and the product's pages, which let
   civetweb choose the status, a second answer, and a listing that fails
   after its header was begun. *)
StatusIsReturned ==
    \A t \in Threads :
        /\ Ended(t)
        /\ result[t].op \notin {"image", "product"}
        /\ ~ result[t].twice
        /\ result[t].end # "late"
        => result[t].code = wire[t].status

(* A request that failed before the status was chosen is not answered with a
   success, whichever of the handler, its catch block and civetweb answers. *)
EarlyFailuresReported ==
    \A t \in Threads : Ended(t) /\ result[t].end = "failed" /\ ~ result[t].twice =>
        wire[t].status >= 400

(* connection.h "@return http error response": a request that failed is not
   answered with a success, whenever it failed. *)
FailuresReported ==
    \A t \in Threads : Ended(t) /\ result[t].end # "good" /\ ~ result[t].twice =>
        wire[t].status >= 400

(* Every request ends with a complete header on the wire. *)
RequestsAnswered ==
    \A t \in Threads : job[t] # None ~> job[t] = None /\ wire[t].state = 3
=============================================================================
