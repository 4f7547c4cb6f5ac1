------------------------ MODULE HandlerRegistryProofs ------------------------
(***************************************************************************)
(* NoDanglingHandler, OnlyOrphansTerminate and HandlersKeepTheirKey for    *)
(* any number of servers, handlers, threads and keys.                      *)
(*                                                                         *)
(* That no table names a deleted handler is not inductive: a deletion      *)
(* removes the entry at the handler's key in the server that is the        *)
(* default one at that moment.  It is enough because the first server      *)
(* stays the default one: every entry and every request of a handler is in *)
(* the default server, at the handler's key, and a server without a        *)
(* context has neither.                                                    *)
(***************************************************************************)
EXTENDS HandlerRegistry, TLAPS

EntriesOwned ==
    \A s \in Servers, u \in Uris :
        table[s][u] \in Handlers =>
            /\ s = instance
            /\ handler[table[s][u]] # "none"
            /\ uri[table[s][u]] = u

RequestsOwned ==
    \A t \in Threads :
        request[t] # None /\ request[t].target \in Handlers =>
            /\ request[t].server = instance
            /\ handler[request[t].target] # "none"
            /\ uri[request[t].target] = request[t].uri

(* A server without a context has no entries and serves no requests. *)
NothingWithoutContext ==
    \A s \in Servers : ~ ctx[s] =>
        /\ \A u \in Uris : table[s][u] = None
        /\ \A t \in Threads : request[t] # None => request[t].server # s

HomesAreDefault == \A h \in Handlers : home[h] # None => home[h] = instance

Inv ==
    /\ TypeOK
    /\ EntriesOwned
    /\ RequestsOwned
    /\ NothingWithoutContext
    /\ HomesAreDefault
    /\ OnlyOrphansTerminate

LEMMA InitInv == Init => Inv
  <1> SUFFICES ASSUME Init PROVE Inv
    OBVIOUS
  <1>1. TypeOK
    BY DEF Init, TypeOK
  <1>2. EntriesOwned
    BY EntriesAssumption DEF Init, EntriesOwned
  <1>3. RequestsOwned /\ NothingWithoutContext /\ HomesAreDefault
    BY DEF Init, RequestsOwned, NothingWithoutContext, HomesAreDefault
  <1>4. OnlyOrphansTerminate
    BY DEF Init, OnlyOrphansTerminate
  <1> QED
    BY <1>1, <1>2, <1>3, <1>4 DEF Inv

(* What TypeOK says of one request *)
LEMMA RequestType ==
    ASSUME TypeOK, NEW t \in Threads, request[t] # None
    PROVE  /\ request[t].server \in Servers
           /\ request[t].uri \in Uris
           /\ request[t].target \in Handlers \cup {Builtin}
  BY DEF TypeOK, Requests

-----------------------------------------------------------------------------
(* Type correctness, action by action *)

LEMMA ServerType ==
    ASSUME TypeOK, NEW s \in Servers,
           NewServer(s) \/ MgStart(s) \/ DeleteServer(s) \/ ServerGone(s)
    PROVE  TypeOK'
  <1>1. CASE NewServer(s)
    BY <1>1 DEF TypeOK, NewServer
  <1>2. CASE MgStart(s)
    BY <1>2 DEF TypeOK, MgStart
  <1>3. CASE DeleteServer(s)
    BY <1>3 DEF TypeOK, DeleteServer
  <1>4. CASE ServerGone(s)
    BY <1>4 DEF TypeOK, ServerGone
  <1> QED
    BY <1>1, <1>2, <1>3, <1>4

LEMMA SetType ==
    ASSUME TypeOK, NEW s \in Servers, NEW u \in Uris,
           NEW e \in Handlers \cup {Builtin, None},
           SetRequestHandler(s, u, e)
    PROVE  table' \in [Servers -> [Uris -> Handlers \cup {Builtin, None}]]
  BY DEF TypeOK, SetRequestHandler

LEMMA HandlerType ==
    ASSUME TypeOK, NEW h \in Handlers,
           \/ \E u \in Uris : NewHandler(h, u)
           \/ HandlerBuilt(h) \/ DeleteHandler(h) \/ RemoveHandler(h)
    PROVE  TypeOK'
  <1>1. ASSUME NEW u \in Uris, NewHandler(h, u) PROVE TypeOK'
    <2>1. instance \in Servers
      BY <1>1 DEF TypeOK, NewHandler
    <2>2. table' \in [Servers -> [Uris -> Handlers \cup {Builtin, None}]]
      BY <1>1, <2>1, SetType DEF NewHandler
    <2> QED
      BY <1>1, <2>1, <2>2 DEF TypeOK, NewHandler
  <1>2. CASE HandlerBuilt(h)
    BY <1>2 DEF TypeOK, HandlerBuilt
  <1>3. CASE DeleteHandler(h)
    BY <1>3 DEF TypeOK, DeleteHandler
  <1>4. CASE RemoveHandler(h)
    <2>1. CASE instance = None
      BY <1>4, <2>1 DEF TypeOK, RemoveHandler
    <2>2. CASE instance # None
      <3>1. SetRequestHandler(instance, uri[h], None)
        BY <1>4, <2>2 DEF RemoveHandler
      <3>2. instance \in Servers
        BY <2>2 DEF TypeOK
      <3>3. table' \in [Servers -> [Uris -> Handlers \cup {Builtin, None}]]
        <4>1. table \in [Servers -> [Uris -> Handlers \cup {Builtin, None}]]
          BY DEF TypeOK
        <4> QED
          BY <3>1, <3>2, <4>1 DEF SetRequestHandler
      <3> QED
        BY <1>4, <2>2, <3>3 DEF TypeOK, RemoveHandler
    <2> QED
      BY <2>1, <2>2
  <1> QED
    BY <1>1, <1>2, <1>3, <1>4

LEMMA ThreadType ==
    ASSUME TypeOK, NEW t \in Threads,
           \/ \E s \in Servers, u \in Uris : Dispatch(t, s, u)
           \/ Answered(t)
    PROVE  TypeOK'
  <1>1. ASSUME NEW s \in Servers, NEW u \in Uris, Dispatch(t, s, u) PROVE TypeOK'
    <2> DEFINE v == IF table[s][u] # None THEN u ELSE Root
    <2>1. v \in Uris
      BY UrisAssumption
    <2>2. table[s][v] \in Handlers \cup {Builtin}
      BY <1>1, <2>1 DEF Dispatch, TypeOK
    <2>3. [server |-> s, uri |-> v, target |-> table[s][v]] \in Requests
      BY <2>1, <2>2 DEF Requests
    <2>4. request' = [request EXCEPT ![t] =
             [server |-> s, uri |-> v, target |-> table[s][v]]]
      BY <1>1 DEF Dispatch
    <2> HIDE DEF v
    <2>5. request' \in [Threads -> Requests \cup {None}]
      BY <2>3, <2>4 DEF TypeOK
    <2> QED
      BY <1>1, <2>5 DEF Dispatch, TypeOK
  <1>2. CASE Answered(t)
    BY <1>2 DEF TypeOK, Answered
  <1> QED
    BY <1>1, <1>2

LEMMA NextType == TypeOK /\ [Next]_vars => TypeOK'
  <1> SUFFICES ASSUME TypeOK, [Next]_vars PROVE TypeOK'
    OBVIOUS
  <1>1. ASSUME NEW s \in Servers, NEW u \in Builtins, SetHandlers(s, u)
        PROVE  TypeOK'
    <2>1. u \in Uris
      BY UrisAssumption
    <2>2. table' \in [Servers -> [Uris -> Handlers \cup {Builtin, None}]]
      BY <1>1, <2>1, SetType DEF SetHandlers
    <2> QED
      BY <1>1, <2>2 DEF TypeOK, SetHandlers
  <1>2. CASE UNCHANGED vars
    BY <1>2 DEF TypeOK, vars
  <1> QED
    BY <1>1, <1>2, ServerType, HandlerType, ThreadType DEF Next

-----------------------------------------------------------------------------
(* The parts of the invariant, action by action *)

LEMMA NewServerInv ==
    ASSUME Inv, NEW s \in Servers, NewServer(s), ~ terminated
    PROVE  Inv'
  <1>1. TypeOK'
    BY ServerType DEF Inv
  <1>2. EntriesOwned'
    BY EntriesAssumption DEF Inv, TypeOK, EntriesOwned, NewServer
  <1>3. RequestsOwned'
    <2>1. ASSUME instance = None, NEW t \in Threads, request[t] # None
          PROVE  request[t].target \notin Handlers
      BY <2>1, RequestType, EntriesAssumption DEF Inv, RequestsOwned
    <2> QED
      BY <2>1 DEF Inv, RequestsOwned, NewServer
  <1>4. NothingWithoutContext'
    BY DEF Inv, NothingWithoutContext, NewServer
  <1>5. HomesAreDefault'
    BY DEF Inv, HomesAreDefault, NewServer
  <1>6. OnlyOrphansTerminate'
    BY DEF OnlyOrphansTerminate, NewServer
  <1> QED
    BY <1>1, <1>2, <1>3, <1>4, <1>5, <1>6 DEF Inv

LEMMA MgStartInv ==
    ASSUME Inv, NEW s \in Servers, MgStart(s), ~ terminated
    PROVE  Inv'
  <1>1. TypeOK'
    BY ServerType DEF Inv
  <1>2. EntriesOwned' /\ RequestsOwned' /\ HomesAreDefault' /\ OnlyOrphansTerminate'
    BY DEF Inv, EntriesOwned, RequestsOwned, HomesAreDefault, OnlyOrphansTerminate, MgStart
  <1>3. NothingWithoutContext'
    BY DEF Inv, TypeOK, NothingWithoutContext, MgStart
  <1> QED
    BY <1>1, <1>2, <1>3 DEF Inv

LEMMA SetHandlersInv ==
    ASSUME Inv, NEW s \in Servers, NEW u \in Builtins, SetHandlers(s, u), ~ terminated
    PROVE  Inv'
  <1>1. TypeOK'
    BY NextType DEF Inv, Next
  <1>2. u \in Uris /\ ctx[s]
    BY UrisAssumption DEF SetHandlers
  <1>3. table' = [table EXCEPT ![s][u] = Builtin]
    BY <1>2 DEF SetHandlers, SetRequestHandler
  <1>4. EntriesOwned'
    BY <1>2, <1>3, EntriesAssumption DEF Inv, TypeOK, EntriesOwned, SetHandlers
  <1>5. NothingWithoutContext'
    BY <1>2, <1>3 DEF Inv, TypeOK, NothingWithoutContext, SetHandlers
  <1>6. RequestsOwned' /\ HomesAreDefault' /\ OnlyOrphansTerminate'
    BY DEF Inv, RequestsOwned, HomesAreDefault, OnlyOrphansTerminate, SetHandlers
  <1> QED
    BY <1>1, <1>4, <1>5, <1>6 DEF Inv

LEMMA DeleteServerInv ==
    ASSUME Inv, NEW s \in Servers, DeleteServer(s), ~ terminated
    PROVE  Inv'
  <1>1. TypeOK'
    BY ServerType DEF Inv
  <1> QED
    BY <1>1 DEF Inv, EntriesOwned, RequestsOwned, NothingWithoutContext,
                HomesAreDefault, OnlyOrphansTerminate, DeleteServer

LEMMA ServerGoneInv ==
    ASSUME Inv, NEW s \in Servers, ServerGone(s), ~ terminated
    PROVE  Inv'
  <1>1. TypeOK'
    BY ServerType DEF Inv
  <1>2. table' = [table EXCEPT ![s] = [u \in Uris |-> None]]
    BY DEF ServerGone
  <1>3. ASSUME NEW t \in Threads, request[t] # None PROVE request[t].server # s
    BY <1>3 DEF ServerGone, Inside
  <1>4. EntriesOwned'
    <2> SUFFICES ASSUME NEW r \in Servers, NEW u \in Uris, table'[r][u] \in Handlers
                 PROVE  /\ r = instance'
                        /\ handler'[table'[r][u]] # "none"
                        /\ uri'[table'[r][u]] = u
      BY DEF EntriesOwned
    <2>1. r # s /\ table'[r][u] = table[r][u]
      BY <1>2, EntriesAssumption DEF Inv, TypeOK
    <2> QED
      BY <2>1 DEF Inv, EntriesOwned, ServerGone
  <1>5. RequestsOwned'
    BY <1>3 DEF Inv, RequestsOwned, ServerGone
  <1>6. NothingWithoutContext'
    BY <1>2, <1>3 DEF Inv, TypeOK, NothingWithoutContext, ServerGone
  <1>7. HomesAreDefault'
    BY DEF Inv, TypeOK, HomesAreDefault, ServerGone
  <1>8. OnlyOrphansTerminate'
    BY DEF OnlyOrphansTerminate, ServerGone
  <1> QED
    BY <1>1, <1>4, <1>5, <1>6, <1>7, <1>8 DEF Inv

LEMMA NewHandlerInv ==
    ASSUME Inv, NEW h \in Handlers, NEW u \in Uris, NewHandler(h, u), ~ terminated
    PROVE  Inv'
  <1>1. TypeOK'
    BY HandlerType DEF Inv
  <1>2. instance \in Servers /\ handler[h] = "none"
    BY DEF Inv, TypeOK, NewHandler
  <1>3. table' = IF ctx[instance] THEN [table EXCEPT ![instance][u] = h] ELSE table
    BY DEF NewHandler, SetRequestHandler
  <1>4. EntriesOwned'
    <2> SUFFICES ASSUME NEW r \in Servers, NEW v \in Uris, table'[r][v] \in Handlers
                 PROVE  /\ r = instance
                        /\ handler'[table'[r][v]] # "none"
                        /\ uri'[table'[r][v]] = v
      BY DEF EntriesOwned, NewHandler
    <2>1. CASE table'[r][v] = table[r][v]
      <3>1. r = instance /\ handler[table[r][v]] # "none" /\ uri[table[r][v]] = v
        BY <2>1 DEF Inv, EntriesOwned
      <3>2. table[r][v] # h
        BY <1>2, <3>1
      <3> QED
        BY <2>1, <3>1, <3>2 DEF Inv, TypeOK, NewHandler
    <2>2. CASE r = instance /\ v = u /\ table'[r][v] = h
      BY <2>2 DEF Inv, TypeOK, NewHandler
    <2>3. table'[r][v] = table[r][v] \/ (r = instance /\ v = u /\ table'[r][v] = h)
      BY <1>2, <1>3 DEF Inv, TypeOK
    <2> QED
      BY <2>1, <2>2, <2>3
  <1>5. RequestsOwned'
    <2> SUFFICES ASSUME NEW t \in Threads, request[t] # None,
                        request[t].target \in Handlers
                 PROVE  /\ request[t].server = instance
                        /\ handler'[request[t].target] # "none"
                        /\ uri'[request[t].target] = request[t].uri
      BY DEF RequestsOwned, NewHandler
    <2>1. /\ request[t].server = instance
          /\ handler[request[t].target] # "none"
          /\ uri[request[t].target] = request[t].uri
      BY DEF Inv, RequestsOwned
    <2>2. request[t].target # h
      BY <1>2, <2>1
    <2> QED
      BY <2>1, <2>2 DEF Inv, TypeOK, NewHandler
  <1>6. NothingWithoutContext'
    BY <1>2, <1>3 DEF Inv, TypeOK, NothingWithoutContext, NewHandler
  <1>7. HomesAreDefault'
    BY DEF Inv, TypeOK, HomesAreDefault, NewHandler
  <1>8. OnlyOrphansTerminate'
    BY DEF OnlyOrphansTerminate, NewHandler
  <1> QED
    BY <1>1, <1>4, <1>5, <1>6, <1>7, <1>8 DEF Inv

LEMMA HandlerMovesInv ==
    ASSUME Inv, NEW h \in Handlers, HandlerBuilt(h) \/ DeleteHandler(h), ~ terminated
    PROVE  Inv'
  <1>1. TypeOK'
    BY HandlerType DEF Inv
  <1>2. /\ UNCHANGED <<instance, server, ctx, table, uri, home, request, terminated>>
        /\ \A g \in Handlers : handler[g] # "none" => handler'[g] # "none"
    BY DEF Inv, TypeOK, HandlerBuilt, DeleteHandler
  <1>3. EntriesOwned'
    BY <1>2 DEF Inv, EntriesOwned
  <1>4. RequestsOwned'
    BY <1>2 DEF Inv, RequestsOwned
  <1>5. NothingWithoutContext' /\ HomesAreDefault' /\ OnlyOrphansTerminate'
    BY <1>2 DEF Inv, NothingWithoutContext, HomesAreDefault, OnlyOrphansTerminate
  <1> QED
    BY <1>1, <1>3, <1>4, <1>5 DEF Inv

(* A deletion finds the default server: nothing of the handler is elsewhere. *)
LEMMA RemoveHandlerInv ==
    ASSUME Inv, NEW h \in Handlers, RemoveHandler(h), ~ terminated
    PROVE  Inv'
  <1>1. TypeOK'
    BY HandlerType DEF Inv
  <1>2. CASE instance = None
    <2>1. /\ UNCHANGED <<instance, server, ctx, table, handler, uri, home, request>>
          /\ handler[h] = "dying"
      BY <1>2 DEF RemoveHandler
    <2>2. home[h] = None
      BY <1>2 DEF Inv, HomesAreDefault
    <2>3. OnlyOrphansTerminate'
      BY <2>1, <2>2 DEF OnlyOrphansTerminate
    <2> QED
      BY <1>1, <2>1, <2>3 DEF Inv, EntriesOwned, RequestsOwned,
                              NothingWithoutContext, HomesAreDefault
  <1>3. CASE instance # None
    <2>1. instance \in Servers
      BY <1>3 DEF Inv, TypeOK
    <2>2. /\ handler' = [handler EXCEPT ![h] = "none"]
          /\ uri' = [uri EXCEPT ![h] = None]
          /\ home' = [home EXCEPT ![h] = None]
          /\ UNCHANGED <<instance, server, ctx, request, terminated>>
      BY <1>3 DEF RemoveHandler
    <2>3. /\ ctx[instance] => ~ InUse(instance, uri[h])
          /\ table' = IF ctx[instance]
                      THEN [table EXCEPT ![instance][uri[h]] = None] ELSE table
      BY <1>3 DEF RemoveHandler, SetRequestHandler
    <2>4. ASSUME NEW r \in Servers, NEW v \in Uris, table'[r][v] \in Handlers
          PROVE  table'[r][v] = table[r][v] /\ table[r][v] # h
      <3>1. CASE ctx[instance]
        <4>1. table'[r][v] = table[r][v]
          BY <2>1, <2>3, <2>4, <3>1, EntriesAssumption DEF Inv, TypeOK
        <4>2. ASSUME table[r][v] = h PROVE FALSE
          <5>1. r = instance /\ uri[h] = v
            BY <4>2 DEF Inv, EntriesOwned
          <5>2. table'[r][v] = None
            BY <2>3, <3>1, <5>1, <2>1 DEF Inv, TypeOK
          <5> QED
            BY <2>4, <5>2, EntriesAssumption
        <4> QED
          BY <4>1, <4>2
      <3>2. CASE ~ ctx[instance]
        <4>1. table'[r][v] = table[r][v] /\ r = instance
          BY <2>3, <2>4, <3>2 DEF Inv, EntriesOwned
        <4>2. table[r][v] = None
          BY <3>2, <4>1 DEF Inv, NothingWithoutContext
        <4> QED
          BY <2>4, <4>1, <4>2, EntriesAssumption
      <3> QED
        BY <3>1, <3>2
    <2>5. ASSUME NEW t \in Threads, request[t] # None, request[t].target \in Handlers
          PROVE  request[t].target # h
      <3>1. SUFFICES ASSUME request[t].target = h PROVE FALSE
        OBVIOUS
      <3>2. request[t].server = instance /\ request[t].uri = uri[h]
        BY <2>5, <3>1 DEF Inv, RequestsOwned
      <3>3. ctx[instance]
        BY <2>1, <2>5, <3>2 DEF Inv, NothingWithoutContext
      <3> QED
        BY <2>3, <2>5, <3>2, <3>3 DEF InUse, Inside
    <2>6. EntriesOwned'
      <3> SUFFICES ASSUME NEW r \in Servers, NEW v \in Uris, table'[r][v] \in Handlers
                   PROVE  /\ r = instance
                          /\ handler'[table'[r][v]] # "none"
                          /\ uri'[table'[r][v]] = v
        BY <2>2 DEF EntriesOwned
      <3>1. table'[r][v] = table[r][v] /\ table[r][v] # h
        BY <2>4
      <3>2. r = instance /\ handler[table[r][v]] # "none" /\ uri[table[r][v]] = v
        BY <3>1 DEF Inv, EntriesOwned
      <3> QED
        BY <2>2, <3>1, <3>2 DEF Inv, TypeOK
    <2>7. RequestsOwned'
      <3> SUFFICES ASSUME NEW t \in Threads, request[t] # None,
                          request[t].target \in Handlers
                   PROVE  /\ request[t].server = instance
                          /\ handler'[request[t].target] # "none"
                          /\ uri'[request[t].target] = request[t].uri
        BY <2>2 DEF RequestsOwned
      <3>1. /\ request[t].server = instance
            /\ handler[request[t].target] # "none"
            /\ uri[request[t].target] = request[t].uri
        BY DEF Inv, RequestsOwned
      <3> QED
        BY <2>2, <2>5, <3>1 DEF Inv, TypeOK
    <2>8. NothingWithoutContext'
      BY <2>1, <2>2, <2>3 DEF Inv, TypeOK, NothingWithoutContext
    <2>9. HomesAreDefault'
      BY <2>2 DEF Inv, TypeOK, HomesAreDefault
    <2>10. OnlyOrphansTerminate'
      BY <2>2 DEF OnlyOrphansTerminate
    <2> QED
      BY <1>1, <2>6, <2>7, <2>8, <2>9, <2>10 DEF Inv
  <1> QED
    BY <1>2, <1>3

LEMMA DispatchInv ==
    ASSUME Inv, NEW t \in Threads, NEW s \in Servers, NEW u \in Uris,
           Dispatch(t, s, u), ~ terminated
    PROVE  Inv'
  <1> DEFINE v == IF table[s][u] # None THEN u ELSE Root
  <1>1. TypeOK'
    BY ThreadType DEF Inv
  <1>2. v \in Uris
    BY UrisAssumption
  <1>3. /\ request' = [request EXCEPT ![t] =
               [server |-> s, uri |-> v, target |-> table[s][v]]]
        /\ UNCHANGED <<instance, server, ctx, table, handler, uri, home, terminated>>
        /\ ctx[s]
    BY DEF Dispatch
  <1> HIDE DEF v
  <1>4. RequestsOwned'
    <2> SUFFICES ASSUME NEW r \in Threads, request'[r] # None,
                        request'[r].target \in Handlers
                 PROVE  /\ request'[r].server = instance
                        /\ handler[request'[r].target] # "none"
                        /\ uri[request'[r].target] = request'[r].uri
      BY <1>3 DEF RequestsOwned
    <2>1. CASE r = t
      <3>1. request'[r] = [server |-> s, uri |-> v, target |-> table[s][v]]
        BY <1>3, <2>1 DEF Inv, TypeOK
      <3> QED
        BY <1>2, <3>1 DEF Inv, EntriesOwned
    <2>2. CASE r # t
      BY <1>3, <2>2 DEF Inv, TypeOK, RequestsOwned
    <2> QED
      BY <2>1, <2>2
  <1>5. NothingWithoutContext'
    BY <1>3 DEF Inv, TypeOK, NothingWithoutContext
  <1>6. EntriesOwned' /\ HomesAreDefault' /\ OnlyOrphansTerminate'
    BY <1>3 DEF Inv, EntriesOwned, HomesAreDefault, OnlyOrphansTerminate
  <1> QED
    BY <1>1, <1>4, <1>5, <1>6 DEF Inv

LEMMA AnsweredInv ==
    ASSUME Inv, NEW t \in Threads, Answered(t), ~ terminated
    PROVE  Inv'
  <1>1. TypeOK'
    BY ThreadType DEF Inv
  <1>2. \A r \in Threads : request'[r] # None => request'[r] = request[r]
    BY DEF Inv, TypeOK, Answered
  <1> QED
    BY <1>1, <1>2 DEF Inv, EntriesOwned, RequestsOwned, NothingWithoutContext,
                      HomesAreDefault, OnlyOrphansTerminate, Answered

LEMMA NextInv == Inv /\ [Next]_vars => Inv'
  <1> SUFFICES ASSUME Inv, [Next]_vars PROVE Inv'
    OBVIOUS
  <1>1. CASE Next
    <2>1. ~ terminated
      BY <1>1 DEF Next
    <2>2. ASSUME NEW s \in Servers,
                 NewServer(s) \/ MgStart(s) \/ DeleteServer(s) \/ ServerGone(s)
          PROVE  Inv'
      BY <2>1, <2>2, NewServerInv, MgStartInv, DeleteServerInv, ServerGoneInv
    <2>3. ASSUME NEW s \in Servers, NEW u \in Builtins, SetHandlers(s, u)
          PROVE  Inv'
      BY <2>1, <2>3, SetHandlersInv
    <2>4. ASSUME NEW h \in Handlers, NEW u \in Uris, NewHandler(h, u)
          PROVE  Inv'
      BY <2>1, <2>4, NewHandlerInv
    <2>5. ASSUME NEW h \in Handlers,
                 HandlerBuilt(h) \/ DeleteHandler(h) \/ RemoveHandler(h)
          PROVE  Inv'
      BY <2>1, <2>5, HandlerMovesInv, RemoveHandlerInv
    <2>6. ASSUME NEW t \in Threads, NEW s \in Servers, NEW u \in Uris, Dispatch(t, s, u)
          PROVE  Inv'
      BY <2>1, <2>6, DispatchInv
    <2>7. ASSUME NEW t \in Threads, Answered(t) PROVE Inv'
      BY <2>1, <2>7, AnsweredInv
    <2> QED
      BY <1>1, <2>2, <2>3, <2>4, <2>5, <2>6, <2>7 DEF Next
  <1>2. CASE UNCHANGED vars
    BY <1>2 DEF vars, Inv, TypeOK, EntriesOwned, RequestsOwned,
                NothingWithoutContext, HomesAreDefault, OnlyOrphansTerminate
  <1> QED
    BY <1>1, <1>2

LEMMA InvNoDangling == Inv => NoDanglingHandler
  BY DEF Inv, EntriesOwned, RequestsOwned, NoDanglingHandler

-----------------------------------------------------------------------------
(* Whatever servers come and go and whichever handlers share a key, no table
   and no request names a handler that was deleted (~HTTP::Handler, remove). *)
THEOREM NothingDangles == Spec => []NoDanglingHandler
  <1>1. Spec => []Inv
    BY InitInv, NextInv, PTL DEF Spec
  <1> QED
    BY <1>1, InvNoDangling, PTL

(* Only a handler that outlived its server ends the program. *)
THEOREM OrphansTerminate == Spec => []OnlyOrphansTerminate
  <1>1. Spec => []Inv
    BY InitInv, NextInv, PTL DEF Spec
  <1>2. Inv => OnlyOrphansTerminate
    BY DEF Inv
  <1> QED
    BY <1>1, <1>2, PTL

(* Types are kept: above all, no request is given to nobody. *)
THEOREM RegistryTypes == Spec => []TypeOK
  <1>1. Init => TypeOK
    BY InitInv DEF Inv
  <1> QED
    BY <1>1, NextType, PTL DEF Spec

-----------------------------------------------------------------------------
(* What one step may do to the key of a handler *)
KeyKept ==
    \A s \in Servers, u \in Uris, h \in Handlers :
        table[s][u] = h /\ table'[s][u] # h =>
            \/ server'[s] = "none"
            \/ \E g \in Handlers :
                  \/ handler[g] = "none" /\ uri'[g] = u
                  \/ handler[g] = "dying" /\ uri[g] = u

LEMMA KeyKeptByServers ==
    ASSUME TypeOK, NEW s \in Servers,
           \/ NewServer(s) \/ MgStart(s) \/ DeleteServer(s) \/ ServerGone(s)
           \/ \E u \in Builtins : SetHandlers(s, u)
    PROVE  KeyKept
  <1>1. CASE NewServer(s) \/ MgStart(s) \/ DeleteServer(s)
    BY <1>1 DEF NewServer, MgStart, DeleteServer, KeyKept
  <1>2. CASE ServerGone(s)
    BY <1>2 DEF TypeOK, ServerGone, KeyKept
  <1>3. ASSUME NEW v \in Builtins, SetHandlers(s, v) PROVE KeyKept
    BY <1>3, UrisAssumption, EntriesAssumption
       DEF TypeOK, SetHandlers, SetRequestHandler, KeyKept
  <1> QED
    BY <1>1, <1>2, <1>3

LEMMA KeyKeptByHandlers ==
    ASSUME TypeOK, NEW g \in Handlers,
           \/ HandlerBuilt(g) \/ DeleteHandler(g) \/ RemoveHandler(g)
           \/ \E u \in Uris : NewHandler(g, u)
    PROVE  KeyKept
  <1>1. CASE HandlerBuilt(g) \/ DeleteHandler(g)
    BY <1>1 DEF HandlerBuilt, DeleteHandler, KeyKept
  <1>2. CASE RemoveHandler(g)
    <2> SUFFICES ASSUME NEW s \in Servers, NEW u \in Uris, table'[s][u] # table[s][u]
                 PROVE  uri[g] = u
      BY <1>2 DEF RemoveHandler, KeyKept
    <2> QED
      BY <1>2 DEF TypeOK, RemoveHandler, SetRequestHandler
  <1>3. ASSUME NEW v \in Uris, NewHandler(g, v) PROVE KeyKept
    <2>1. handler[g] = "none" /\ uri'[g] = v
      BY <1>3 DEF TypeOK, NewHandler
    <2> SUFFICES ASSUME NEW s \in Servers, NEW u \in Uris, table'[s][u] # table[s][u]
                 PROVE  u = v
      BY <2>1 DEF KeyKept
    <2> QED
      BY <1>3 DEF TypeOK, NewHandler, SetRequestHandler
  <1> QED
    BY <1>1, <1>2, <1>3

LEMMA NextKeyKept == TypeOK /\ [Next]_vars => KeyKept
  <1> SUFFICES ASSUME TypeOK, [Next]_vars PROVE KeyKept
    OBVIOUS
  <1>1. ASSUME NEW t \in Threads,
               \/ Answered(t)
               \/ \E s \in Servers, u \in Uris : Dispatch(t, s, u)
        PROVE  KeyKept
    BY <1>1 DEF Answered, Dispatch, KeyKept
  <1>2. CASE UNCHANGED vars
    BY <1>2 DEF vars, KeyKept
  <1> QED
    BY <1>1, <1>2, KeyKeptByServers, KeyKeptByHandlers DEF Next

(* A handler loses its key only with its server or to one that took the same
   key: what push_back and remove do for one handler, whatever the order, they
   do to that key only. *)
THEOREM KeysAreKept == Spec => HandlersKeepTheirKey
  <1>1. Spec => []TypeOK
    BY RegistryTypes
  <1>2. TypeOK /\ [Next]_vars => [KeyKept]_vars
    BY NextKeyKept
  <1>3. [][KeyKept]_vars => HandlersKeepTheirKey
    BY DEF KeyKept, HandlersKeepTheirKey
  <1> QED
    BY <1>1, <1>2, <1>3, PTL DEF Spec
=============================================================================
