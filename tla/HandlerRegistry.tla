--------------------------- MODULE HandlerRegistry ---------------------------
(***************************************************************************)
(* Who answers for a path: the HTTP server objects and the default one     *)
(* among them (HTTP::Server), the request handlers applications build      *)
(* (HTTP::Handler), and the table of handlers the embedded server keeps,   *)
(* which its worker threads read while the main thread changes it.         *)
(*                                                                         *)
(* Servers and handlers are objects of the main thread: one is built or    *)
(* deleted at a time, in several steps, with requests arriving between.    *)
(***************************************************************************)
EXTENDS FiniteSets

CONSTANTS
    Servers,        \* objects of class Module (an HTTP::Server)
    Handlers,       \* objects of classes derived from HTTP::Handler
    Threads,        \* worker threads of the embedded server
    Uris,           \* keys of the handlers' table
    Builtins,       \* the keys of the module's own handlers, Root among them
    Root,           \* "/", which answers what nothing else does
    Builtin,        \* the module's own handler, in a table
    None            \* absent

ASSUME UrisAssumption    == Root \in Builtins /\ Builtins \subseteq Uris
ASSUME EntriesAssumption == Builtin \notin Handlers /\ None \notin Handlers \cup Servers

VARIABLES
    instance,   \* HTTP::Server::instance
    server,     \* server[s]: "none", "starting", "up" or "stopping"
    ctx,        \* ctx[s]: did mg_start give s a context?
    table,      \* table[s][u]: the handler civetweb has at u, or None
    handler,    \* handler[h]: "none", "base" (only the HTTP::Handler part
                \* is built), "alive" or "dying" (only that part is left)
    uri,        \* uri[h]: h's path, without its last '/'
    home,       \* history: the living server h was handed to, or None
    request,    \* request[t]: what thread t is handling, or None
    terminated  \* an exception left a destructor: the program is gone

vars == <<instance, server, ctx, table, handler, uri, home, request, terminated>>

Requests == [server : Servers, uri : Uris, target : Handlers \cup {Builtin}]

-----------------------------------------------------------------------------
(* civetweb's table.  An entry in use is neither changed nor removed: the
   caller waits.  Without a context, setting a handler does nothing. *)

Inside(s) == {t \in Threads : request[t] # None /\ request[t].server = s}

InUse(s, u) == \E t \in Inside(s) : request[t].uri = u

SetRequestHandler(s, u, entry) ==
    /\ ctx[s] => ~ InUse(s, u)
    /\ table' = IF ctx[s] THEN [table EXCEPT ![s][u] = entry] ELSE table

(* The main thread is between two operations. *)
MainIdle ==
    /\ \A s \in Servers : server[s] \in {"none", "up"}
    /\ \A h \in Handlers : handler[h] \in {"none", "alive"}

-----------------------------------------------------------------------------
Init ==
    /\ instance = None
    /\ server = [s \in Servers |-> "none"]
    /\ ctx = [s \in Servers |-> FALSE]
    /\ table = [s \in Servers |-> [u \in Uris |-> None]]
    /\ handler = [h \in Handlers |-> "none"]
    /\ uri = [h \in Handlers |-> None]
    /\ home = [h \in Handlers |-> None]
    /\ request = [t \in Threads |-> None]
    /\ terminated = FALSE

-----------------------------------------------------------------------------
(* The module *)

InstanceOverwritten(s) ==
    /\ MainIdle
    /\ server[s] = "none"
    /\ server' = [server EXCEPT ![s] = "starting"]
    /\ instance' = s
    /\ UNCHANGED <<ctx, table, handler, uri, home, request, terminated>>

(* HTTP::Server(): the first server is the default one. *)
NewServer(s) ==
    /\ MainIdle
    /\ server[s] = "none"
    /\ server' = [server EXCEPT ![s] = "starting"]
    /\ instance' = IF instance = None THEN s ELSE instance
    /\ UNCHANGED <<ctx, table, handler, uri, home, request, terminated>>

(* initialize(): without a context the module is built all the same. *)
MgStart(s) ==
    /\ server[s] = "starting"
    /\ ~ ctx[s]
    /\ \/ ctx' = [ctx EXCEPT ![s] = TRUE] /\ UNCHANGED server
       \/ server' = [server EXCEPT ![s] = "up"] /\ UNCHANGED ctx
    /\ UNCHANGED <<instance, table, handler, uri, home, request, terminated>>

(* setHandlers(): one handler after the other, the root last, while
   requests are already served. *)
SetHandlers(s, u) ==
    /\ server[s] = "starting"
    /\ ctx[s]
    /\ table[s][u] = None
    /\ u = Root => \A v \in Builtins \ {Root} : table[s][v] # None
    /\ SetRequestHandler(s, u, Builtin)
    /\ server' = IF u = Root THEN [server EXCEPT ![s] = "up"] ELSE server
    /\ UNCHANGED <<instance, ctx, handler, uri, home, request, terminated>>

(* ~Module(): mg_stop stops accepting ... *)
DeleteServer(s) ==
    /\ MainIdle
    /\ server[s] = "up"
    /\ server' = [server EXCEPT ![s] = "stopping"]
    /\ UNCHANGED <<instance, ctx, table, handler, uri, home, request, terminated>>

InstanceForgotten(s) ==
    /\ server[s] = "stopping"
    /\ Inside(s) = {}
    /\ server' = [server EXCEPT ![s] = "none"]
    /\ ctx' = [ctx EXCEPT ![s] = FALSE]
    /\ table' = [table EXCEPT ![s] = [u \in Uris |-> None]]
    /\ instance' = None
    /\ home' = [h \in Handlers |-> IF home[h] = s THEN None ELSE home[h]]
    /\ UNCHANGED <<handler, uri, request, terminated>>

(* ... and waits for the threads; then ~HTTP::Server() leaves no default
   server if s was it, even when another server lives. *)
ServerGone(s) ==
    /\ server[s] = "stopping"
    /\ Inside(s) = {}
    /\ server' = [server EXCEPT ![s] = "none"]
    /\ ctx' = [ctx EXCEPT ![s] = FALSE]
    /\ table' = [table EXCEPT ![s] = [u \in Uris |-> None]]
    /\ instance' = IF instance = s THEN None ELSE instance
    /\ home' = [h \in Handlers |-> IF home[h] = s THEN None ELSE home[h]]
    /\ UNCHANGED <<handler, uri, request, terminated>>

-----------------------------------------------------------------------------
(* Handlers *)

(* HTTP::Handler(path) and push_back: registered before the derived part is
   built, and whoever had the key.  With no default server the constructor
   throws, nothing is built. *)
NewHandler(h, u) ==
    /\ MainIdle
    /\ handler[h] = "none"
    /\ instance # None
    /\ SetRequestHandler(instance, u, h)
    /\ handler' = [handler EXCEPT ![h] = "base"]
    /\ uri' = [uri EXCEPT ![h] = u]
    /\ home' = [home EXCEPT ![h] = instance]
    /\ UNCHANGED <<instance, server, ctx, request, terminated>>

(* The derived constructor ends, or throws; ~Handler() runs if it does. *)
HandlerBuilt(h) ==
    /\ handler[h] = "base"
    /\ \E end \in {"alive", "dying"} : handler' = [handler EXCEPT ![h] = end]
    /\ UNCHANGED <<instance, server, ctx, table, uri, home, request, terminated>>

DeleteHandler(h) ==
    /\ MainIdle
    /\ handler[h] = "alive"
    /\ handler' = [handler EXCEPT ![h] = "dying"]
    /\ UNCHANGED <<instance, server, ctx, table, uri, home, request, terminated>>

RemoveEverything(h) ==
    /\ handler[h] = "dying"
    /\ IF instance = None
       THEN terminated' = TRUE /\ UNCHANGED <<table, handler, uri, home>>
       ELSE /\ \A u \in Uris : ~ InUse(instance, u)
            /\ table' = [table EXCEPT ![instance] =
                  [u \in Uris |-> IF @[u] = Builtin THEN Builtin ELSE None]]
            /\ handler' = [handler EXCEPT ![h] = "none"]
            /\ uri' = [uri EXCEPT ![h] = None]
            /\ home' = [home EXCEPT ![h] = None]
            /\ UNCHANGED terminated
    /\ UNCHANGED <<instance, server, ctx, request>>

(* ~HTTP::Handler() and remove: the default server removes what it has at
   h's key, h or not.  With no default server getInstance() throws, and an
   exception out of a destructor ends the program. *)
RemoveHandler(h) ==
    /\ handler[h] = "dying"
    /\ IF instance = None
       THEN terminated' = TRUE /\ UNCHANGED <<table, handler, uri, home>>
       ELSE /\ SetRequestHandler(instance, uri[h], None)
            /\ handler' = [handler EXCEPT ![h] = "none"]
            /\ uri' = [uri EXCEPT ![h] = None]
            /\ home' = [home EXCEPT ![h] = None]
            /\ UNCHANGED terminated
    /\ UNCHANGED <<instance, server, ctx, request>>

-----------------------------------------------------------------------------
(* Worker threads *)

DispatchAnything(t, s, u) ==
    /\ request[t] = None
    /\ ctx[s]
    /\ server[s] \in {"starting", "up"}
    /\ LET v == IF table[s][u] # None THEN u ELSE Root IN
       request' = [request EXCEPT ![t] =
          [server |-> s, uri |-> v, target |-> table[s][v]]]
    /\ UNCHANGED <<instance, server, ctx, table, handler, uri, home, terminated>>

(* A request for u goes to the handler of u, else to the root; while the
   server is starting there may be neither, and civetweb answers alone. *)
Dispatch(t, s, u) ==
    /\ request[t] = None
    /\ ctx[s]
    /\ server[s] \in {"starting", "up"}
    /\ LET v == IF table[s][u] # None THEN u ELSE Root IN
       /\ table[s][v] # None
       /\ request' = [request EXCEPT ![t] =
             [server |-> s, uri |-> v, target |-> table[s][v]]]
    /\ UNCHANGED <<instance, server, ctx, table, handler, uri, home, terminated>>

Answered(t) ==
    /\ request[t] # None
    /\ request' = [request EXCEPT ![t] = None]
    /\ UNCHANGED <<instance, server, ctx, table, handler, uri, home, terminated>>

Next ==
    /\ ~ terminated
    /\ \/ \E s \in Servers : NewServer(s) \/ MgStart(s) \/ DeleteServer(s) \/ ServerGone(s)
       \/ \E s \in Servers, u \in Builtins : SetHandlers(s, u)
       \/ \E h \in Handlers, u \in Uris : NewHandler(h, u)
       \/ \E h \in Handlers : HandlerBuilt(h) \/ DeleteHandler(h) \/ RemoveHandler(h)
       \/ \E t \in Threads, s \in Servers, u \in Uris : Dispatch(t, s, u)
       \/ \E t \in Threads : Answered(t)

Spec == Init /\ [][Next]_vars

-----------------------------------------------------------------------------
(* Properties *)

TypeOK ==
    /\ instance \in Servers \cup {None}
    /\ server \in [Servers -> {"none", "starting", "up", "stopping"}]
    /\ ctx \in [Servers -> BOOLEAN]
    /\ table \in [Servers -> [Uris -> Handlers \cup {Builtin, None}]]
    /\ handler \in [Handlers -> {"none", "base", "alive", "dying"}]
    /\ uri \in [Handlers -> Uris \cup {None}]
    /\ home \in [Handlers -> Servers \cup {None}]
    /\ request \in [Threads -> Requests \cup {None}]
    /\ terminated \in BOOLEAN

(* No use after free: the tables of all servers, and the threads that are
   inside a handler, name only handlers whose object exists, whatever
   servers came and went and whichever handlers shared a key. *)
NoDanglingHandler ==
    /\ \A s \in Servers, u \in Uris :
          table[s][u] \in Handlers => handler[table[s][u]] # "none"
    /\ \A t \in Threads :
          request[t] # None /\ request[t].target \in Handlers =>
              handler[request[t].target] # "none"

(* A handler loses its key only with its server, or to a handler that took
   the same key or had taken it before: nothing else that is built, deleted
   or started, and no other server, takes it away. *)
HandlersKeepTheirKey ==
    [][\A s \in Servers, u \in Uris, h \in Handlers :
          table[s][u] = h /\ table'[s][u] # h =>
              \/ server'[s] = "none"
              \/ \E g \in Handlers :
                    \/ handler[g] = "none" /\ uri'[g] = u
                    \/ handler[g] = "dying" /\ uri[g] = u]_vars

(* A destructor ends the program only for a handler that outlived the server
   it was handed to. *)
OnlyOrphansTerminate ==
    terminated => \E h \in Handlers : handler[h] = "dying" /\ home[h] = None
=============================================================================
