---------------------------- MODULE OAuth2Proofs ----------------------------
(***************************************************************************)
(* Proofs about OAuth2, for any sets of agents, threads, users and         *)
(* addresses and any bounds.                                               *)
(***************************************************************************)
EXTENDS OAuth2, TLAPS

-----------------------------------------------------------------------------
(* The operators the handlers are built from *)

LEMMA NewUserType ==
    ASSUME NEW x \in Addresses, now \in Nat
    PROVE  NewUser(x) \in UserData
  <1>1. Family[x] \in {0, 4, 6}
    BY FamilyAssumption
  <1>2. 32 + Family[x] \in {32, 36, 38}
    BY <1>1, SMT
  <1>3. now + Lifetime \in Nat
    BY BoundsAssumption, SMT
  <1>4. IpOf(x) \in Addresses \cup {None}
    BY DEF IpOf
  <1> QED
    BY <1>2, <1>3, <1>4 DEF NewUser, UserData, Data, Uids

(* A block that opens as a user is a user block. *)
LEMMA AcceptedIsUserBlock ==
    ASSUME NEW b \in Bearers, NEW d, Accepts(d, b)
    PROVE  b \in UserBlock /\ b.key = key /\ b.data.exp >= now
  <1>a. b # None /\ b.kind = "user" /\ b.key = key /\ b.data.exp >= now
    BY DEF Accepts, Opens
  <1>1. b \in UserBlock \cup RequestBlock
    BY <1>a DEF Bearers
  <1>2. b \notin RequestBlock
    BY <1>a DEF RequestBlock
  <1> QED
    BY <1>a, <1>1, <1>2

LEMMA AuthenticIsRequestBlock ==
    ASSUME NEW b \in Bearers, NEW x, Authentic(b, x)
    PROVE  b \in RequestBlock /\ b.key = key /\ b.data.exp >= now
  <1>a. b # None /\ b.kind = "request" /\ b.key = key /\ b.data.exp >= now
    BY DEF Authentic, OpensAsBearer, Opens
  <1>1. b \in UserBlock \cup RequestBlock
    BY <1>a DEF Bearers
  <1>2. b \notin UserBlock
    BY <1>a DEF UserBlock
  <1> QED
    BY <1>a, <1>1, <1>2

(* UserFrom returns a fresh user or the data of a live block of this key. *)
LEMMA UserFromCases ==
    ASSUME NEW x \in Addresses, NEW b1 \in Bearers,
           NEW b2 \in Bearers, now \in Nat
    PROVE  \/ UserFrom(x, b1, b2) = NewUser(x)
           \/ \E b \in {b1, b2} : /\ b \in UserBlock
                                  /\ b.key = key
                                  /\ UserFrom(x, b1, b2) = b.data
  BY AcceptedIsUserBlock DEF UserFrom

LEMMA UserFromType ==
    ASSUME NEW x \in Addresses, NEW b1 \in Bearers,
           NEW b2 \in Bearers, now \in Nat
    PROVE  UserFrom(x, b1, b2) \in UserData
  BY UserFromCases, NewUserType DEF UserBlock

LEMMA SealUserType ==
    ASSUME NEW d \in UserData, key \in Nat
    PROVE  Seal("user", d) \in UserBlock
  BY DEF Seal, UserBlock

LEMMA RequestTokenType ==
    ASSUME NEW d \in UserData, key \in Nat
    PROVE  Seal("request", RequestToken(d)) \in RequestBlock
  <1>1. d.type - 16 \in {16, 20, 22}
    <2>1. d.type \in {32, 36, 38}
      BY DEF UserData, Data
    <2> QED
      BY <2>1, SMT
  <1>2. RequestToken(d) \in RequestData
    BY <1>1 DEF RequestToken, UserData, RequestData, Data
  <1> QED
    BY <1>2 DEF Seal, RequestBlock

LEMMA RefusedType ==
    ASSUME NEW d \in UserData, NEW name \in Uids
    PROVE  Refused(d, name) \in UserData
  BY DEF Refused, UserData, Data, Uids

LEMMA AcceptedType ==
    ASSUME NEW d \in UserData, NEW u \in Users, NEW uid \in Uids
    PROVE  Accepted(d, u, uid) \in UserData
  BY DEF Accepted, UserData, Data, Uids

LEMMA AcceptedUidsType ==
    ASSUME NEW u \in Users
    PROVE  AcceptedUids(u) \subseteq Uids
  BY DEF AcceptedUids, Uids

LEMMA BlockSets ==
    /\ None \in Codes /\ None \in Bearers /\ None \in SetCookies
    /\ Keep \in SetCookies
    /\ \A b \in UserBlock : b \in Codes /\ b \in Bearers /\ b \in SetCookies
    /\ \A b \in RequestBlock : b \in Bearers
    /\ \A b \in Codes : b \in Bearers
    /\ {200, 303, 400, 401, 404, 500, 503} = Status
  BY DEF Codes, Bearers, SetCookies, Status

(* What an answer leaves behind *)
LEMMA AnswerType ==
    ASSUME TypeOK, NEW t \in Threads, call[t] # None,
           NEW status \in Status,
           NEW ck \in SetCookies,
           NEW cd \in Codes,
           NEW br \in Bearers,
           Answer(t, status, ck, cd, br)
    PROVE  /\ call' \in [Threads -> Call \cup {None}]
           /\ reply' \in [Threads -> Reply \cup {None}]
  <1>1. call[t] \in Call
    BY DEF TypeOK
  <1>2. call[t].op \in UserOps \cup OtherOps /\ call[t].agent \in Agents
    BY <1>1 DEF Call
  <1>3. [op |-> call[t].op, agent |-> call[t].agent, status |-> status,
         cookie |-> ck, code |-> cd, bearer |-> br] \in Reply
    BY <1>2 DEF Reply
  <1> QED
    BY <1>3 DEF Answer, TypeOK

-----------------------------------------------------------------------------
(* Type correctness *)

LEMMA InitType == Init => TypeOK
  BY BlockSets DEF Init, TypeOK, Uids, Never

LEMMA ArriveType ==
    ASSUME TypeOK, NEW t \in Threads, NEW a \in Agents,
           ArriveUser(t, a) \/ ArriveOther(t, a)
    PROVE  TypeOK'
  <1> USE DEF TypeOK
  <1>1. CASE ArriveUser(t, a)
    <2>1. PICK op \in UserOps \ {"issue"}, auth \in {None, bearer[a]} :
          \E arg \in IF op = "access_token" THEN {code[a], cookie[a]} ELSE {None} :
             call' = [call EXCEPT ![t] =
                [op |-> op, agent |-> a, from |-> addr[a],
                 user |-> UserFrom(addr[a], auth, cookie[a]), arg |-> arg]]
      BY <1>1 DEF ArriveUser
    <2>2. PICK arg \in IF op = "access_token" THEN {code[a], cookie[a]} ELSE {None} :
             call' = [call EXCEPT ![t] =
                [op |-> op, agent |-> a, from |-> addr[a],
                 user |-> UserFrom(addr[a], auth, cookie[a]), arg |-> arg]]
      BY <2>1
    <2>3. arg \in Codes
      BY <2>2, BlockSets
    <2>4. UserFrom(addr[a], auth, cookie[a]) \in UserData
      <3>1. auth \in Bearers /\ cookie[a] \in Bearers
        BY <2>1, BlockSets
      <3> QED
        BY <3>1, UserFromType
    <2>5. call' \in [Threads -> Call \cup {None}]
      BY <2>2, <2>3, <2>4 DEF Call
    <2> QED
      BY <1>1, <2>5 DEF ArriveUser, World, session
  <1>2. CASE ArriveOther(t, a)
    <2>1. PICK op \in OtherOps :
             call' = [call EXCEPT ![t] =
                [op |-> op, agent |-> a, from |-> addr[a], user |-> None,
                 arg |-> IF op = "userinfo" THEN bearer[a] ELSE None]]
      BY <1>2 DEF ArriveOther
    <2>2. call' \in [Threads -> Call \cup {None}]
      BY <2>1, BlockSets DEF Call
    <2> QED
      BY <1>2, <2>2 DEF ArriveOther, World, session
  <1> QED
    BY <1>1, <1>2

(* A request with a user keeps user data and a user block in its hands. *)
LEMMA UserCall ==
    ASSUME TypeOK, NEW t \in Threads, call[t] # None, call[t].op \in UserOps
    PROVE  call[t].user \in UserData /\ call[t].arg \in Codes
  <1>1. call[t] \in Call
    BY DEF TypeOK
  <1>2. call[t].op \notin OtherOps
    BY DEF UserOps, OtherOps
  <1> QED
    BY <1>1, <1>2 DEF Call

LEMMA AnyCall ==
    ASSUME TypeOK, NEW t \in Threads, call[t] # None
    PROVE  call[t].arg \in Bearers /\ call[t].from \in Addresses
  BY DEF TypeOK, Call, Bearers, Codes

LEMMA FailType ==
    ASSUME TypeOK, NEW t \in Threads, call[t] # None,
           NEW status \in Status, Fail(t, status)
    PROVE  /\ call' \in [Threads -> Call \cup {None}]
           /\ reply' \in [Threads -> Reply \cup {None}]
  BY AnswerType, BlockSets DEF Fail

LEMMA HandleType ==
    ASSUME TypeOK, NEW t \in Threads, Handle(t)
    PROVE  TypeOK'
  <1> DEFINE Typed == /\ call' \in [Threads -> Call \cup {None}]
                      /\ reply' \in [Threads -> Reply \cup {None}]
  <1>0. call[t] # None
    BY DEF Handle, Work, ShowLogin, Authorize, AuthorizeClient, SigninRefused,
           SigninAccepted, AcceptCode, IssueToken, Userinfo, UnknownOperation, Throw
  <1>k. key \in Nat
    BY DEF TypeOK
  <1>1. CASE ShowLogin(t)
    <2>1. call[t].user \in UserData
      BY <1>0, <1>1, UserCall DEF ShowLogin, UserOps
    <2>2. Typed
      BY <1>0, <1>1, <1>k, <2>1, SealUserType, AnswerType, BlockSets DEF ShowLogin, LoginPage
    <2> QED
      BY <1>1, <2>2 DEF ShowLogin, World, session, TypeOK
  <1>2. CASE Authorize(t)
    <2>1. call[t].user \in UserData
      BY <1>0, <1>2, UserCall DEF Authorize, UserOps
    <2>2. Seal("user", call[t].user) \in UserBlock
      BY <1>k, <2>1, SealUserType
    <2>3. Redirect(t, Seal("user", call[t].user), None, None) => Typed
      <3>1. 303 \in Status /\ Seal("user", call[t].user) \in SetCookies
        BY <2>2, BlockSets
      <3> QED
        BY <1>0, <3>1, AnswerType, BlockSets DEF Redirect
    <2>4. Fail(t, 500) => Typed
      BY <1>0, FailType, BlockSets
    <2>5. Typed
      BY <1>2, <2>3, <2>4 DEF Authorize
    <2> QED
      BY <1>2, <2>5 DEF Authorize, World, session, TypeOK
  <1>3. CASE AuthorizeClient(t)
    <2>1. Typed
      BY <1>0, <1>3, FailType, BlockSets DEF AuthorizeClient
    <2> QED
      BY <1>3, <2>1 DEF AuthorizeClient, World, session, TypeOK
  <1>4. CASE SigninRefused(t)
    <2>1. call[t].user \in UserData
      BY <1>0, <1>4, UserCall DEF SigninRefused, UserOps
    <2>2. PICK name \in {call[t].user.name} \cup Users :
             LoginPage(t, Refused(call[t].user, name))
      BY <1>4 DEF SigninRefused
    <2>3. name \in Uids
      BY <2>1 DEF UserData, Data, Uids
    <2>4. Seal("user", Refused(call[t].user, name)) \in UserBlock
      BY <1>k, <2>1, <2>3, RefusedType, SealUserType
    <2>5. Typed
      BY <1>0, <2>2, <2>4, AnswerType, BlockSets DEF LoginPage
    <2> QED
      BY <1>4, <2>5 DEF SigninRefused, World, session, TypeOK
  <1>5. CASE SigninAccepted(t)
    <2>1. call[t].user \in UserData
      BY <1>0, <1>5, UserCall DEF SigninAccepted, UserOps
    <2>2. PICK u \in Users, type \in ResponseTypes : \E uid \in AcceptedUids(u) :
             LET b == Seal("user", Accepted(call[t].user, u, uid)) IN
             /\ login' = [login EXCEPT ![u] = now]
             /\ \/ type = "code" /\ Redirect(t, b, b, None)
                \/ type = "token" /\ \E got \in {b, None} : Redirect(t, b, None, got)
                \/ type \notin {"code", "token"} /\ Fail(t, 500)
      BY <1>5 DEF SigninAccepted
    <2>3. PICK uid \in AcceptedUids(u) :
             LET b == Seal("user", Accepted(call[t].user, u, uid)) IN
             /\ login' = [login EXCEPT ![u] = now]
             /\ \/ type = "code" /\ Redirect(t, b, b, None)
                \/ type = "token" /\ \E got \in {b, None} : Redirect(t, b, None, got)
                \/ type \notin {"code", "token"} /\ Fail(t, 500)
      BY <2>2
    <2>4. Seal("user", Accepted(call[t].user, u, uid)) \in UserBlock
      BY <1>k, <2>1, AcceptedUidsType, AcceptedType, SealUserType
    <2>5. Typed
      BY <1>0, <2>3, <2>4, AnswerType, FailType, BlockSets DEF Redirect
    <2>6. login' \in [Users -> Nat \cup {Never}]
      <3>1. login' = [login EXCEPT ![u] = now]
        BY <2>3
      <3> QED
        BY <3>1 DEF TypeOK
    <2> QED
      BY <1>5, <2>5, <2>6 DEF SigninAccepted, World, session, TypeOK
  <1>6. CASE AcceptCode(t)
    <2>1. call[t].user \in UserData /\ call[t].arg \in Codes
      BY <1>0, <1>6, UserCall DEF AcceptCode, UserOps
    <2>2. CASE Accepts(call[t].user, call[t].arg)
      <3>1. call[t].arg.data \in UserData
        BY <2>1, <2>2, AcceptedIsUserBlock DEF Bearers, Codes, UserBlock
      <3>2. [call[t] EXCEPT !.op = "issue", !.user = call[t].arg.data] \in Call
        <4>1. call[t] \in Call /\ call[t].op \in UserOps /\ call[t].op \notin OtherOps
          BY <1>0, <1>6 DEF TypeOK, AcceptCode, UserOps, OtherOps
        <4> QED
          BY <3>1, <4>1 DEF Call, UserOps
      <3> QED
        BY <1>6, <2>2, <3>2 DEF AcceptCode, World, session, TypeOK
    <2>3. CASE ~ Accepts(call[t].user, call[t].arg)
      <3>1. Typed
        BY <1>0, <1>6, <2>3, FailType, BlockSets DEF AcceptCode
      <3> QED
        BY <1>6, <3>1 DEF AcceptCode, World, session, TypeOK
    <2> QED
      BY <2>2, <2>3
  <1>7. CASE IssueToken(t)
    <2>1. call[t].user \in UserData
      BY <1>0, <1>7, UserCall DEF IssueToken, UserOps
    <2>b. /\ Seal("user", call[t].user) \in UserBlock
          /\ Seal("request", RequestToken(call[t].user)) \in RequestBlock
      BY <1>k, <2>1, SealUserType, RequestTokenType
    <2>c. Fail(t, 400) \/ Fail(t, 500) => Typed
      BY <1>0, FailType, BlockSets
    <2>d. Answer(t, 200, Seal("user", call[t].user), Seal("user", call[t].user),
                 Seal("request", RequestToken(call[t].user))) => Typed
      <3>1. /\ 200 \in Status
            /\ Seal("user", call[t].user) \in SetCookies
            /\ Seal("user", call[t].user) \in Codes
            /\ Seal("request", RequestToken(call[t].user)) \in Bearers
        BY <2>b, BlockSets
      <3> QED
        BY <1>0, <3>1, AnswerType
    <2>2. Typed
      BY <1>7, <2>c, <2>d DEF IssueToken
    <2> QED
      BY <1>7, <2>2 DEF IssueToken, World, session, TypeOK
  <1>8. CASE Userinfo(t)
    <2>1. Typed
      BY <1>0, <1>8, AnswerType, FailType, BlockSets DEF Userinfo
    <2>2. served' \in [user : Uids, at : Nat \cup {Never}]
      BY <1>8, AccountsAssumption DEF Userinfo, TypeOK, Uids, Known
    <2> QED
      BY <1>8, <2>1, <2>2 DEF Userinfo, World, session, TypeOK
  <1>9. CASE UnknownOperation(t)
    <2>1. Typed
      BY <1>0, <1>9, FailType, BlockSets DEF UnknownOperation
    <2> QED
      BY <1>9, <2>1 DEF UnknownOperation, World, session, TypeOK
  <1>10. CASE Throw(t)
    <2>1. Typed
      BY <1>0, <1>10, FailType, BlockSets DEF Throw
    <2> QED
      BY <1>10, <2>1 DEF Throw, World, session, TypeOK
  <1> QED
    BY <1>1, <1>2, <1>3, <1>4, <1>5, <1>6, <1>7, <1>8, <1>9, <1>10 DEF Handle, Work

LEMMA DeliverType ==
    ASSUME TypeOK, NEW t \in Threads, Deliver(t)
    PROVE  TypeOK'
  <1>1. reply[t] \in Reply
    BY DEF Deliver, TypeOK
  <1>2. /\ reply[t].agent \in Agents
        /\ reply[t].cookie # Keep => reply[t].cookie \in Codes
        /\ reply[t].code \in Codes
        /\ reply[t].bearer \in Bearers
    BY <1>1 DEF Reply, SetCookies, Codes
  <1>3. cookie' \in [Agents -> Codes]
    BY <1>2 DEF Deliver, TypeOK
  <1>4. PICK c \in IF reply[t].op = "signin" THEN Agents ELSE {reply[t].agent} :
          /\ code'   = IF reply[t].code = None THEN code
                       ELSE [code EXCEPT ![c] = reply[t].code]
          /\ bearer' = IF reply[t].bearer = None THEN bearer
                       ELSE [bearer EXCEPT ![c] = reply[t].bearer]
    BY DEF Deliver
  <1>5. code' \in [Agents -> Codes] /\ bearer' \in [Agents -> Bearers]
    BY <1>2, <1>4 DEF TypeOK
  <1>6. reply' \in [Threads -> Reply \cup {None}]
    BY DEF Deliver, TypeOK
  <1> QED
    BY <1>3, <1>5, <1>6 DEF Deliver, TypeOK

LEMMA OutsideType ==
    ASSUME TypeOK,
           \/ \E t \in Threads : Lose(t)
           \/ \E a \in Agents, x \in Addresses : Move(a, x)
           \/ \E a \in Agents : Forget(a)
           \/ Tick
           \/ Restart
    PROVE  TypeOK'
  <1>1. ASSUME NEW t \in Threads, Lose(t) PROVE TypeOK'
    BY <1>1 DEF Lose, World, session, TypeOK
  <1>2. ASSUME NEW a \in Agents, NEW x \in Addresses, Move(a, x) PROVE TypeOK'
    BY <1>2 DEF Move, session, TypeOK
  <1>3. ASSUME NEW a \in Agents, Forget(a) PROVE TypeOK'
    BY <1>3, BlockSets DEF Forget, TypeOK
  <1>4. CASE Tick
    BY <1>4 DEF Tick, session, TypeOK
  <1>5. CASE Restart
    BY <1>5 DEF Restart, session, TypeOK, Uids, Never
  <1> QED
    BY <1>1, <1>2, <1>3, <1>4, <1>5

LEMMA NextType == TypeOK /\ [Next]_vars => TypeOK'
  <1> SUFFICES ASSUME TypeOK, [Next]_vars PROVE TypeOK'
    OBVIOUS
  <1>1. CASE UNCHANGED vars
    BY <1>1 DEF vars, session, TypeOK
  <1>2. CASE Next
    BY <1>2, ArriveType, HandleType, DeliverType, OutsideType DEF Next
  <1> QED
    BY <1>1, <1>2

(* Type correctness: whatever requests arrive and answers get lost, cookies,
   codes and bearer tokens hold blocks of the layout their readers expect. *)
THEOREM TypeCorrect == Spec => []TypeOK
  BY InitType, NextType, PTL DEF Spec

-----------------------------------------------------------------------------
(***************************************************************************)
(* BearersHonoured for every instance whose PAM users all have a passwd    *)
(* entry.                                                                  *)
(*                                                                         *)
(* userinfo rejects a token whose type does not name the family of the     *)
(* address it comes from.  That never happens to a token at the address    *)
(* it names, because type and address are made together, by NewUser, and   *)
(* every later operation copies both or shifts the type: authenticate(),   *)
(* the exchange of a code and the making of the bearer token.  And no      *)
(* token is made for nobody.  Both hold of every block wherever it is,     *)
(* whatever key sealed it.                                                 *)
(***************************************************************************)

FamilyOf(ip) == IF ip = None THEN 0 ELSE Family[ip]

UserFits(d)  == d.type = 32 + FamilyOf(d.ip)
TokenFits(d) == d.type = 16 + FamilyOf(d.ip) /\ d.uid # Nobody

Fits(b) ==
    /\ b \in UserBlock => UserFits(b.data)
    /\ b \in RequestBlock => TokenFits(b.data)

CallFits(c) ==
    c # None =>
        /\ c.user # None => UserFits(c.user)
        /\ Fits(c.arg)

ReplyFits(r) == r # None => Fits(r.cookie) /\ Fits(r.code) /\ Fits(r.bearer)

AllFit ==
    /\ TypeOK
    /\ \A a \in Agents : Fits(cookie[a]) /\ Fits(code[a]) /\ Fits(bearer[a])
    /\ \A t \in Threads : CallFits(call[t]) /\ ReplyFits(reply[t])

-----------------------------------------------------------------------------
(* What the operators of the handlers hand on *)

LEMMA NoneFits == Fits(None) /\ Fits(Keep)
  BY SentinelsAssumption DEF Fits

(* A block has one layout. *)
LEMMA OneLayout == UserBlock \cap RequestBlock = {}
  <1> SUFFICES ASSUME NEW b \in UserBlock, b \in RequestBlock PROVE FALSE
    OBVIOUS
  <1>1. b.kind = "user"
    BY DEF UserBlock
  <1>2. b.kind = "request"
    BY DEF RequestBlock
  <1> QED
    BY <1>1, <1>2

LEMMA NewUserFits ==
    ASSUME NEW x \in Addresses
    PROVE  UserFits(NewUser(x))
  <1>1. FamilyOf(IpOf(x)) = Family[x]
    BY SentinelsAssumption DEF FamilyOf, IpOf
  <1>2. NewUser(x).type = 32 + Family[x] /\ NewUser(x).ip = IpOf(x)
    BY DEF NewUser
  <1> QED
    BY <1>1, <1>2 DEF UserFits

LEMMA UserFromFits ==
    ASSUME NEW x \in Addresses, NEW b1 \in Bearers, NEW b2 \in Bearers, now \in Nat,
           Fits(b1), Fits(b2)
    PROVE  UserFits(UserFrom(x, b1, b2))
  <1>1. CASE UserFrom(x, b1, b2) = NewUser(x)
    BY <1>1, NewUserFits
  <1>2. CASE \E b \in {b1, b2} : b \in UserBlock /\ UserFrom(x, b1, b2) = b.data
    BY <1>2 DEF Fits
  <1> QED
    BY <1>1, <1>2, UserFromCases

LEMMA SealUserFits ==
    ASSUME NEW d \in UserData, UserFits(d), key \in Nat
    PROVE  Fits(Seal("user", d))
  <1>1. Seal("user", d) \in UserBlock /\ Seal("user", d) \notin RequestBlock
    BY SealUserType, OneLayout
  <1>2. Seal("user", d).data = d
    BY DEF Seal
  <1> QED
    BY <1>1, <1>2 DEF Fits

LEMMA SealTokenFits ==
    ASSUME NEW d \in UserData, UserFits(d), d.uid # Nobody, key \in Nat
    PROVE  Fits(Seal("request", RequestToken(d)))
  <1> DEFINE b == Seal("request", RequestToken(d))
  <1>1. b \in RequestBlock /\ b \notin UserBlock
    BY RequestTokenType, OneLayout
  <1>2. b.data = RequestToken(d)
    BY DEF Seal
  <1>3. /\ RequestToken(d).type = d.type - 16
        /\ RequestToken(d).ip = d.ip
        /\ RequestToken(d).uid = d.uid
    BY DEF RequestToken, UserData, Data
  <1>4. d.type - 16 = 16 + FamilyOf(d.ip)
    <2>1. FamilyOf(d.ip) \in {0, 4, 6}
      BY FamilyAssumption DEF FamilyOf, UserData, Data
    <2> QED
      BY <2>1 DEF UserFits
  <1>5. TokenFits(b.data)
    BY <1>2, <1>3, <1>4 DEF TokenFits
  <1> QED
    BY <1>1, <1>5 DEF Fits

(* authenticate() writes uid and name only. *)
LEMMA AuthenticateFits ==
    ASSUME NEW d \in UserData, UserFits(d), NEW name, NEW u, NEW uid
    PROVE  UserFits(Refused(d, name)) /\ UserFits(Accepted(d, u, uid))
  <1>1. /\ Refused(d, name).type = d.type /\ Refused(d, name).ip = d.ip
        /\ Accepted(d, u, uid).type = d.type /\ Accepted(d, u, uid).ip = d.ip
    BY DEF Refused, Accepted, UserData, Data
  <1> QED
    BY <1>1 DEF UserFits

-----------------------------------------------------------------------------
(* The invariant *)

LEMMA InitFits == Init => AllFit
  BY InitType, NoneFits DEF Init, AllFit, CallFits, ReplyFits

LEMMA CallUserFits ==
    ASSUME AllFit, NEW t \in Threads, call[t] # None, call[t].op \in UserOps
    PROVE  /\ call[t].user \in UserData /\ UserFits(call[t].user)
           /\ call[t].arg \in Codes /\ Fits(call[t].arg)
  BY UserCall, SentinelsAssumption DEF AllFit, CallFits

(* A step of the handlers that leaves calls and replies right *)
LEMMA QuietFits ==
    ASSUME AllFit, TypeOK', UNCHANGED session,
           \A p \in Threads : CallFits(call'[p]) /\ ReplyFits(reply'[p])
    PROVE  AllFit'
  BY DEF AllFit, session

LEMMA AnswerFits ==
    ASSUME AllFit, TypeOK', NEW t \in Threads, NEW status, NEW ck, NEW cd, NEW br,
           Answer(t, status, ck, cd, br), UNCHANGED session,
           Fits(ck), Fits(cd), Fits(br)
    PROVE  AllFit'
  <1>1. CallFits(call'[t]) /\ ReplyFits(reply'[t])
    BY DEF Answer, AllFit, TypeOK, CallFits, ReplyFits
  <1>2. \A p \in Threads \ {t} : call'[p] = call[p] /\ reply'[p] = reply[p]
    BY DEF Answer, AllFit, TypeOK
  <1>3. \A p \in Threads : CallFits(call'[p]) /\ ReplyFits(reply'[p])
    BY <1>1, <1>2 DEF AllFit
  <1> QED
    BY <1>3, QuietFits

LEMMA FailFits ==
    ASSUME AllFit, TypeOK', NEW t \in Threads, NEW status, Fail(t, status), UNCHANGED session
    PROVE  AllFit'
  BY NoneFits, AnswerFits DEF Fail

(* The answer may carry the block of a user with nothing else ... *)
LEMMA UserAnswerFits ==
    ASSUME AllFit, TypeOK', NEW t \in Threads, NEW status, NEW d \in UserData, UserFits(d),
           Answer(t, status, Seal("user", d), None, None), UNCHANGED session
    PROVE  AllFit'
  <1>1. Fits(Seal("user", d))
    BY SealUserFits DEF AllFit, TypeOK
  <1> QED
    BY <1>1, NoneFits, AnswerFits

LEMMA ArriveFits ==
    ASSUME AllFit, TypeOK', NEW t \in Threads, NEW a \in Agents,
           ArriveUser(t, a) \/ ArriveOther(t, a)
    PROVE  AllFit'
  <1>1. /\ Fits(cookie[a]) /\ Fits(code[a]) /\ Fits(bearer[a]) /\ Fits(None)
        /\ addr[a] \in Addresses /\ now \in Nat
        /\ cookie[a] \in Bearers /\ bearer[a] \in Bearers /\ None \in Bearers
    BY NoneFits, BlockSets DEF AllFit, TypeOK
  <1>2. ASSUME NEW c, call' = [call EXCEPT ![t] = c], CallFits(c), UNCHANGED <<session, reply>>
        PROVE  AllFit'
    <2>1. \A p \in Threads : CallFits(call'[p]) /\ ReplyFits(reply'[p])
      BY <1>2 DEF AllFit, TypeOK
    <2> QED
      BY <1>2, <2>1, QuietFits
  <1>3. CASE ArriveUser(t, a)
    <2>1. PICK op \in UserOps \ {"issue"}, auth \in {None, bearer[a]} :
          \E arg \in IF op = "access_token" THEN {code[a], cookie[a]} ELSE {None} :
             call' = [call EXCEPT ![t] =
                [op |-> op, agent |-> a, from |-> addr[a],
                 user |-> UserFrom(addr[a], auth, cookie[a]), arg |-> arg]]
      BY <1>3 DEF ArriveUser
    <2>2. PICK arg \in IF op = "access_token" THEN {code[a], cookie[a]} ELSE {None} :
             call' = [call EXCEPT ![t] =
                [op |-> op, agent |-> a, from |-> addr[a],
                 user |-> UserFrom(addr[a], auth, cookie[a]), arg |-> arg]]
      BY <2>1
    <2>3. Fits(arg)
      BY <1>1, <2>2
    <2>4. UserFits(UserFrom(addr[a], auth, cookie[a]))
      <3>1. auth \in Bearers /\ Fits(auth)
        BY <1>1, <2>1
      <3> QED
        BY <1>1, <3>1, UserFromFits
    <2>5. CallFits([op |-> op, agent |-> a, from |-> addr[a],
                    user |-> UserFrom(addr[a], auth, cookie[a]), arg |-> arg])
      BY <2>3, <2>4 DEF CallFits
    <2> QED
      BY <1>2, <1>3, <2>2, <2>5 DEF ArriveUser, World
  <1>4. CASE ArriveOther(t, a)
    <2>1. PICK op \in OtherOps :
             call' = [call EXCEPT ![t] =
                [op |-> op, agent |-> a, from |-> addr[a], user |-> None,
                 arg |-> IF op = "userinfo" THEN bearer[a] ELSE None]]
      BY <1>4 DEF ArriveOther
    <2>2. CallFits([op |-> op, agent |-> a, from |-> addr[a], user |-> None,
                    arg |-> IF op = "userinfo" THEN bearer[a] ELSE None])
      BY <1>1 DEF CallFits
    <2> QED
      BY <1>2, <1>4, <2>1, <2>2 DEF ArriveOther, World
  <1> QED
    BY <1>3, <1>4

LEMMA SigninAcceptedFits ==
    ASSUME AllFit, TypeOK', NEW t \in Threads, SigninAccepted(t)
    PROVE  AllFit'
  <1>1. /\ call[t].user \in UserData /\ UserFits(call[t].user)
        /\ key \in Nat /\ UNCHANGED session
    BY CallUserFits DEF SigninAccepted, UserOps, World, AllFit, TypeOK
  <1>2. PICK u \in Users, type \in ResponseTypes : \E uid \in AcceptedUids(u) :
           LET b == Seal("user", Accepted(call[t].user, u, uid)) IN
           /\ login' = [login EXCEPT ![u] = now]
           /\ \/ type = "code" /\ Redirect(t, b, b, None)
              \/ type = "token" /\ \E got \in {b, None} : Redirect(t, b, None, got)
              \/ type \notin {"code", "token"} /\ Fail(t, 500)
    BY DEF SigninAccepted
  <1>3. PICK uid \in AcceptedUids(u) :
           LET b == Seal("user", Accepted(call[t].user, u, uid)) IN
           \/ Redirect(t, b, b, None)
           \/ \E got \in {b, None} : Redirect(t, b, None, got)
           \/ Fail(t, 500)
    BY <1>2
  <1> DEFINE b == Seal("user", Accepted(call[t].user, u, uid))
  <1>4. Accepted(call[t].user, u, uid) \in UserData
    BY <1>1, AcceptedUidsType, AcceptedType
  <1>5. Fits(b)
    BY <1>1, <1>4, AuthenticateFits, SealUserFits
  <1> HIDE DEF b
  <1>6. CASE Redirect(t, b, b, None)
    BY <1>1, <1>5, <1>6, NoneFits, AnswerFits DEF Redirect
  <1>7. CASE \E got \in {b, None} : Redirect(t, b, None, got)
    BY <1>1, <1>5, <1>7, NoneFits, AnswerFits DEF Redirect
  <1>8. CASE Fail(t, 500)
    BY <1>1, <1>8, FailFits
  <1> QED
    BY <1>3, <1>6, <1>7, <1>8 DEF b

LEMMA AcceptCodeFits ==
    ASSUME AllFit, TypeOK', NEW t \in Threads, AcceptCode(t)
    PROVE  AllFit'
  <1>1. /\ call[t].arg \in Bearers /\ Fits(call[t].arg)
        /\ call[t] # None /\ UNCHANGED session
    BY CallUserFits, BlockSets DEF AcceptCode, UserOps, World
  <1>2. CASE ~ Accepts(call[t].user, call[t].arg)
    BY <1>1, <1>2, FailFits DEF AcceptCode
  <1>3. CASE Accepts(call[t].user, call[t].arg)
    <2>1. UserFits(call[t].arg.data)
      BY <1>1, <1>3, AcceptedIsUserBlock DEF Fits
    <2>2. /\ call' = [call EXCEPT ![t] =
                         [@ EXCEPT !.op = "issue", !.user = call[t].arg.data]]
          /\ UNCHANGED reply
      BY <1>3 DEF AcceptCode
    <2>3. call'[t].user = call[t].arg.data /\ call'[t].arg = call[t].arg
      BY <1>1, <2>2 DEF AllFit, TypeOK, Call
    <2>4. CallFits(call'[t])
      BY <1>1, <2>1, <2>3 DEF CallFits
    <2>5. \A p \in Threads \ {t} : call'[p] = call[p]
      BY <2>2 DEF AllFit, TypeOK
    <2>6. \A p \in Threads : CallFits(call'[p]) /\ ReplyFits(reply'[p])
      BY <2>2, <2>4, <2>5 DEF AllFit
    <2> QED
      BY <1>1, <2>6, QuietFits
  <1> QED
    BY <1>2, <1>3

(* The token goes to somebody, and fits because its user does. *)
LEMMA IssueTokenFits ==
    ASSUME AllFit, TypeOK', NEW t \in Threads, IssueToken(t)
    PROVE  AllFit'
  <1>1. /\ call[t].user \in UserData /\ UserFits(call[t].user)
        /\ key \in Nat /\ UNCHANGED session
    BY CallUserFits DEF IssueToken, UserOps, World, AllFit, TypeOK
  <1>2. CASE Fail(t, 400) \/ Fail(t, 500)
    BY <1>1, <1>2, FailFits
  <1>3. CASE /\ call[t].user.uid # Nobody
             /\ Answer(t, 200, Seal("user", call[t].user), Seal("user", call[t].user),
                       Seal("request", RequestToken(call[t].user)))
    <2>1. /\ Fits(Seal("user", call[t].user))
          /\ Fits(Seal("request", RequestToken(call[t].user)))
      BY <1>1, <1>3, SealUserFits, SealTokenFits
    <2> QED
      BY <1>1, <1>3, <2>1, AnswerFits
  <1> QED
    BY <1>2, <1>3 DEF IssueToken

LEMMA HandleFits ==
    ASSUME AllFit, TypeOK', NEW t \in Threads, Handle(t)
    PROVE  AllFit'
  <1>1. CASE ShowLogin(t)
    <2>1. call[t].user \in UserData /\ UserFits(call[t].user)
      BY <1>1, CallUserFits DEF ShowLogin, UserOps
    <2> QED
      BY <1>1, <2>1, UserAnswerFits DEF ShowLogin, LoginPage, World
  <1>2. CASE Authorize(t)
    <2>1. call[t].user \in UserData /\ UserFits(call[t].user)
      BY <1>2, CallUserFits DEF Authorize, UserOps
    <2>2. /\ Redirect(t, Seal("user", call[t].user), None, None) \/ Fail(t, 500)
          /\ UNCHANGED session
      BY <1>2 DEF Authorize, World
    <2> QED
      BY <2>1, <2>2, UserAnswerFits, FailFits DEF Redirect
  <1>3. CASE AuthorizeClient(t)
    BY <1>3, FailFits DEF AuthorizeClient, World
  <1>4. CASE SigninRefused(t)
    <2>1. call[t].user \in UserData /\ UserFits(call[t].user)
      BY <1>4, CallUserFits DEF SigninRefused, UserOps
    <2>2. PICK name \in {call[t].user.name} \cup Users :
             LoginPage(t, Refused(call[t].user, name))
      BY <1>4 DEF SigninRefused
    <2>3. name \in Uids
      BY <2>1 DEF UserData, Data, Uids
    <2>4. /\ Refused(call[t].user, name) \in UserData
          /\ UserFits(Refused(call[t].user, name))
      BY <2>1, <2>3, RefusedType, AuthenticateFits
    <2> QED
      BY <1>4, <2>2, <2>4, UserAnswerFits DEF LoginPage, SigninRefused, World
  <1>5. CASE SigninAccepted(t)
    BY <1>5, SigninAcceptedFits
  <1>6. CASE AcceptCode(t)
    BY <1>6, AcceptCodeFits
  <1>7. CASE IssueToken(t)
    BY <1>7, IssueTokenFits
  <1>8. CASE Userinfo(t)
    <2>1. /\ Fail(t, 401) \/ Fail(t, 503) \/ Answer(t, 200, None, None, None)
          /\ UNCHANGED session
      BY <1>8 DEF Userinfo, World
    <2> QED
      BY <2>1, NoneFits, FailFits, AnswerFits
  <1>9. CASE UnknownOperation(t)
    BY <1>9, FailFits DEF UnknownOperation, World
  <1>10. CASE Throw(t)
    BY <1>10, FailFits DEF Throw, World
  <1> QED
    BY <1>1, <1>2, <1>3, <1>4, <1>5, <1>6, <1>7, <1>8, <1>9, <1>10 DEF Handle, Work

LEMMA DeliverFits ==
    ASSUME AllFit, TypeOK', NEW t \in Threads, Deliver(t)
    PROVE  AllFit'
  <1>1. Fits(reply[t].cookie) /\ Fits(reply[t].code) /\ Fits(reply[t].bearer)
    BY DEF AllFit, ReplyFits, Deliver
  <1>2. PICK c \in IF reply[t].op = "signin" THEN Agents ELSE {reply[t].agent} :
          /\ code'   = IF reply[t].code = None THEN code
                       ELSE [code EXCEPT ![c] = reply[t].code]
          /\ bearer' = IF reply[t].bearer = None THEN bearer
                       ELSE [bearer EXCEPT ![c] = reply[t].bearer]
    BY DEF Deliver
  <1>3. \A a \in Agents : /\ code'[a] \in {code[a], reply[t].code}
                          /\ bearer'[a] \in {bearer[a], reply[t].bearer}
    BY <1>2 DEF AllFit, TypeOK
  <1>4. \A a \in Agents : cookie'[a] \in {cookie[a], reply[t].cookie}
    BY DEF Deliver, AllFit, TypeOK
  <1>5. \A a \in Agents : Fits(cookie'[a]) /\ Fits(code'[a]) /\ Fits(bearer'[a])
    BY <1>1, <1>3, <1>4 DEF AllFit
  <1>6. \A p \in Threads : CallFits(call'[p]) /\ ReplyFits(reply'[p])
    BY DEF Deliver, AllFit, TypeOK, ReplyFits
  <1> QED
    BY <1>5, <1>6 DEF AllFit

LEMMA OutsideFits ==
    ASSUME AllFit, TypeOK',
           \/ \E t \in Threads : Lose(t)
           \/ \E a \in Agents, x \in Addresses : Move(a, x)
           \/ \E a \in Agents : Forget(a)
           \/ Tick
           \/ Restart
    PROVE  AllFit'
  <1>1. ASSUME NEW t \in Threads, Lose(t) PROVE AllFit'
    <2>1. \A p \in Threads : CallFits(call'[p]) /\ ReplyFits(reply'[p])
      BY <1>1 DEF Lose, AllFit, TypeOK, ReplyFits
    <2> QED
      BY <1>1, <2>1, QuietFits DEF Lose, World
  <1>2. ASSUME NEW a \in Agents, NEW x \in Addresses, Move(a, x) PROVE AllFit'
    BY <1>2, QuietFits DEF Move, AllFit
  <1>3. ASSUME NEW a \in Agents, Forget(a) PROVE AllFit'
    BY <1>3, NoneFits DEF Forget, AllFit, TypeOK
  <1>4. CASE Tick
    BY <1>4, QuietFits DEF Tick, AllFit
  <1>5. CASE Restart
    BY <1>5, QuietFits DEF Restart, AllFit, CallFits
  <1> QED
    BY <1>1, <1>2, <1>3, <1>4, <1>5

LEMMA NextFits == AllFit /\ [Next]_vars => AllFit'
  <1> SUFFICES ASSUME AllFit, [Next]_vars PROVE AllFit'
    OBVIOUS
  <1>0. TypeOK'
    BY NextType DEF AllFit
  <1>1. CASE UNCHANGED vars
    BY <1>0, <1>1, QuietFits DEF vars, AllFit
  <1>2. CASE Next
    BY <1>0, <1>2, ArriveFits, HandleFits, DeliverFits, OutsideFits DEF Next
  <1> QED
    BY <1>1, <1>2

-----------------------------------------------------------------------------
(* What fits is honoured. *)

LEMMA FittingIsHonoured ==
    ASSUME Accounts = Users
    PROVE  AllFit => BearersHonoured
  <1> SUFFICES ASSUME AllFit, NEW a \in Agents, NEW b, b = bearer[a],
                      b # None, b.key = key, b.kind = "request", b.data.exp >= now,
                      b.data.ip = IpOf(addr[a])
               PROVE  Authentic(b, addr[a]) /\ Known(b.data.uid)
    BY DEF BearersHonoured
  <1>1. b \in RequestBlock
    <2>1. b \in UserBlock \cup RequestBlock
      BY DEF AllFit, TypeOK, Bearers
    <2> QED
      BY <2>1 DEF UserBlock
  <1>2. TokenFits(b.data) /\ addr[a] \in Addresses
    BY <1>1 DEF AllFit, TypeOK, Fits
  <1>3. FamilyOf(IpOf(addr[a])) = Family[addr[a]]
    BY <1>2, SentinelsAssumption DEF FamilyOf, IpOf
  <1>4. b.data.type = 16 + Family[addr[a]]
    BY <1>2, <1>3 DEF TokenFits
  <1>5. b.data.uid \in Users
    BY <1>1, <1>2 DEF TokenFits, RequestBlock, RequestData, Data, Uids
  <1> QED
    BY <1>4, <1>5 DEF Authentic, OpensAsBearer, Opens, Known

(* When every PAM user has a passwd entry, an unexpired access token of this
   run, sent from the address it was made for, gets its user's data, whatever
   requests, answers and restarts came between issue and use. *)
THEOREM BearersAreHonoured ==
    ASSUME Accounts = Users
    PROVE  Spec => []BearersHonoured
  <1>1. AllFit => BearersHonoured
    BY FittingIsHonoured
  <1> QED
    BY <1>1, InitFits, NextFits, PTL DEF Spec
=============================================================================
