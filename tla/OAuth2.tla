------------------------------- MODULE OAuth2 -------------------------------
(***************************************************************************)
(* The OAuth2 service of the web module: oauthWebHandler and the           *)
(* authorize, login, signin, access_token and userinfo operations behind   *)
(* it, run by the worker threads of the embedded server, together with     *)
(* the browsers and client applications that hold what it hands out.       *)
(*                                                                         *)
(* The server keeps no session table.  Everything it knows of a session is *)
(* in the blocks it sealed with its key pair and gave away: the            *)
(* "oauth2-session" cookie and the authorization code (both the same       *)
(* "user" block), and the bearer token (a "request" block).  A block is a  *)
(* record: the key generation that sealed it, its layout, and the data.    *)
(***************************************************************************)
EXTENDS Integers

CONSTANTS
    Agents,         \* browsers and client applications
    Threads,        \* worker threads of the embedded server
    Users,          \* people PAM may accept
    Accounts,       \* those of them found in the passwd database
    Addresses,      \* network addresses requests come from
    Family,         \* Family[x]: 4, 6, or 0 when x cannot be parsed
    ResponseTypes,  \* values of "response_type" the agents use
    Lifetime,       \* "oauth2/expiration-time", in ticks
    MaxTime,        \* bound: the clock stops here
    MaxKey,         \* bound: restarts of the server
    Nobody,         \* uid -1, and the empty user name
    None,           \* absent
    Keep            \* a reply without a Set-Cookie header

ASSUME AccountsAssumption == Accounts \subseteq Users
ASSUME FamilyAssumption   == Family \in [Addresses -> {0, 4, 6}]
ASSUME BoundsAssumption   ==
    /\ Lifetime \in Nat
    /\ MaxTime \in Nat
    /\ MaxKey \in Nat

VARIABLES
    now,        \* time(0)
    key,        \* generation of the process's key pair
    addr,       \* addr[a]: where agent a's requests come from
    cookie,     \* cookie[a]: its "oauth2-session" cookie
    code,       \* code[a]: an authorization code (or refresh token) it got
    bearer,     \* bearer[a]: the access token it was given
    call,       \* call[t]: the request thread t is serving
    reply,      \* reply[t]: the answer of thread t still in the network
    login,      \* history: last sign-in PAM and passwd accepted
    served      \* history: the last user data handed out

session == <<cookie, code, bearer>>
vars == <<now, key, addr, session, call, reply, login, served>>

Never == -1
Uids  == Users \cup {Nobody}

-----------------------------------------------------------------------------
(* Blocks *)

(* type, expiration_time, uid, username and ip of User::Token (0x2X) and of
   Request::Token (0x1X); the low nibble of the type names the family of ip. *)
Data(types) == [type : types, exp : Nat, uid : Uids, name : Uids,
                ip : Addresses \cup {None}]

UserData    == Data({32, 36, 38})
RequestData == Data({16, 20, 22})

(* The two packed structures differ in size, which decrypt() tells apart. *)
UserBlock    == [key : Nat, kind : {"user"}, data : UserData]
RequestBlock == [key : Nat, kind : {"request"}, data : RequestData]

Codes   == UserBlock \cup {None}
Bearers == UserBlock \cup RequestBlock \cup {None}

Seal(kind, d) == [key |-> key, kind |-> kind, data |-> d]

(* KeyPair::decrypt succeeds: our key, and exactly the expected length. *)
Opens(b, kind) ==
    /\ b # None
    /\ b.key = key
    /\ b.kind = kind

IpOf(x) == IF Family[x] = 0 THEN None ELSE x

NewUser(x) ==
    [type |-> 32 + Family[x], exp |-> now + Lifetime, uid |-> Nobody,
     name |-> Nobody, ip |-> IpOf(x)]

(* User::decrypt(b) on a user whose data is d; success replaces all of d. *)
Accepts(d, b) ==
    /\ Opens(b, "user")
    /\ b.data.type = d.type
    /\ ~ (b.data.type = 20 /\ b.data.ip # d.ip)
    /\ ~ (b.data.type = 22 /\ b.data.ip # d.ip)
    /\ b.data.exp >= now

SlidingUserFrom(x, authorization, ck) ==  \* each request renews the session
    IF Accepts(NewUser(x), ck) THEN [ck.data EXCEPT !.exp = now + Lifetime]
    ELSE NewUser(x)

(* User{request}: from the Authorization property, else from the cookie,
   else a fresh, unauthenticated one. *)
UserFrom(x, authorization, ck) ==
    IF Accepts(NewUser(x), authorization) THEN authorization.data
    ELSE IF Accepts(NewUser(x), ck) THEN ck.data
    ELSE NewUser(x)

TypeNotRewritten(d) == d
FamilyForgotten(d)  == [d EXCEPT !.type = 16]

(* User::encrypt(Token &): the bearer token made from a user's data *)
RequestToken(d) == [d EXCEPT !.type = d.type - 16]

(* HTTP::Request::decrypt: the Authorization header or the "-session" cookie *)
OpensAsBearer(b) == Opens(b, "request")

ExpiryUnchecked(b, x) ==
    /\ OpensAsBearer(b)
    /\ b.data.type = 16 + Family[x]
    /\ b.data.ip = IpOf(x)

(* HTTP::Request::get(Token &): is b, sent from x, a valid bearer token? *)
Authentic(b, x) ==
    /\ OpensAsBearer(b)
    /\ b.data.exp >= now
    /\ b.data.type = 16 + Family[x]
    /\ b.data.ip = IpOf(x)

-----------------------------------------------------------------------------
(* Requests and answers *)

UserOps  == {"login", "authorize", "signin", "access_token", "issue"}
OtherOps == {"client", "userinfo", "other"}

Call ==
    [op : UserOps, agent : Agents, from : Addresses, user : UserData,
     arg : Codes]
        \cup
    [op : OtherOps, agent : Agents, from : Addresses, user : {None},
     arg : Bearers]

Status     == {200, 303, 400, 401, 404, 500, 503}
SetCookies == UserBlock \cup {None, Keep}

Reply == [op : UserOps \cup OtherOps, agent : Agents, status : Status,
          cookie : SetCookies, code : Codes, bearer : Bearers]

(* Nobody, None and Keep are none of the things they stand in for. *)
ASSUME SentinelsAssumption ==
    /\ Nobody \notin Users
    /\ None \notin Addresses
    /\ None \notin UserData
    /\ None \notin UserBlock \cup RequestBlock
    /\ None \notin Call \cup Reply
    /\ Keep \notin UserBlock \cup RequestBlock \cup {None}

(* The thread writes its answer and is free again. *)
Answer(t, status, ck, cd, br) ==
    /\ reply' = [reply EXCEPT ![t] =
          [op |-> call[t].op, agent |-> call[t].agent, status |-> status,
           cookie |-> ck, code |-> cd, bearer |-> br]]
    /\ call' = [call EXCEPT ![t] = None]

(* The final `send(...failed(...))` of the handler: no cookie is set. *)
Fail(t, status) == Answer(t, status, Keep, None, None)

LoginPage(t, d) == Answer(t, 200, Seal("user", d), None, None)

Redirect(t, b, cd, br) == Answer(t, 303, b, cd, br)

(* OAuth::User::get: the uid has a passwd entry. *)
Known(uid) == uid \in Accounts

(* What a handler step never touches *)
World == <<now, key, addr, session>>

-----------------------------------------------------------------------------
Init ==
    /\ now = 0
    /\ key = 0
    /\ addr \in [Agents -> Addresses]
    /\ cookie = [a \in Agents |-> None]
    /\ code   = [a \in Agents |-> None]
    /\ bearer = [a \in Agents |-> None]
    /\ call   = [t \in Threads |-> None]
    /\ reply  = [t \in Threads |-> None]
    /\ login  = [u \in Users |-> Never]
    /\ served = [user |-> Nobody, at |-> Never]

(* A request reaches a worker.  Every operation that needs a user builds it
   first, from the address, the cookie and the Authorization property. *)
ArriveUser(t, a) ==
    /\ call[t] = None
    /\ reply[t] = None
    /\ \E op \in UserOps \ {"issue"}, auth \in {None, bearer[a]} :
       \E arg \in IF op = "access_token" THEN {code[a], cookie[a]} ELSE {None} :
          call' = [call EXCEPT ![t] =
             [op |-> op, agent |-> a, from |-> addr[a],
              user |-> UserFrom(addr[a], auth, cookie[a]), arg |-> arg]]
    /\ UNCHANGED <<World, reply, login, served>>

(* grant_type=client_credentials, userinfo and unknown operations do not. *)
ArriveOther(t, a) ==
    /\ call[t] = None
    /\ reply[t] = None
    /\ \E op \in OtherOps :
          call' = [call EXCEPT ![t] =
             [op |-> op, agent |-> a, from |-> addr[a], user |-> None,
              arg |-> IF op = "userinfo" THEN bearer[a] ELSE None]]
    /\ UNCHANGED <<World, reply, login, served>>

(* "/oauth2" and "/oauth2/login": the login page, with the user's cookie *)
ShowLogin(t) ==
    /\ call[t] # None
    /\ call[t].op = "login"
    /\ LoginPage(t, call[t].user)
    /\ UNCHANGED <<World, login, served>>

(* "/oauth2/authorize" with a response_type: on to the login page for the
   two known flows, refused for any other. *)
Authorize(t) ==
    /\ call[t] # None
    /\ call[t].op = "authorize"
    /\ \E type \in ResponseTypes :
          IF type \in {"code", "token"}
          THEN Redirect(t, Seal("user", call[t].user), None, None)
          ELSE Fail(t, 500)
    /\ UNCHANGED <<World, login, served>>

(* "/oauth2/authorize" with grant_type=client_credentials.  OAuth::authorize
   puts a client block in the context and returns 200; the handler only
   acts on 303, so it goes on to the failure answer. *)
AuthorizeClient(t) ==
    /\ call[t] # None
    /\ call[t].op = "client"
    /\ Fail(t, 500)
    /\ UNCHANGED <<World, login, served>>

UidKept(d, name) == [d EXCEPT !.name = name]

(* The user after User::authenticate refused: the uid is cleared before
   anything is read, the name copied before the password is looked at. *)
Refused(d, name) == [d EXCEPT !.uid = Nobody, !.name = name]

(* ... and after it accepted u.  A user without a passwd entry leaves the
   local structure, whose uid is then read, unset. *)
AcceptedUids(u) == IF u \in Accounts THEN {u} ELSE Uids

Accepted(d, u, uid) == [d EXCEPT !.uid = uid, !.name = u]

(* No user name, no password, PAM or the passwd lookup refuses: the login
   page again, carrying the user authenticate() left. *)
SigninRefused(t) ==
    /\ call[t] # None
    /\ call[t].op = "signin"
    /\ \E name \in {call[t].user.name} \cup Users :
          LoginPage(t, Refused(call[t].user, name))
    /\ UNCHANGED <<World, login, served>>

(* PAM accepts u: back to the client application with a code or, in the
   implicit flow, with the user block itself as the access token.  That one
   runs into the text "token_type" that follows without a separator, so the
   application may not get it whole.  An unknown response_type throws after
   the user was authenticated: no cookie goes out. *)
SigninAccepted(t) ==
    /\ call[t] # None
    /\ call[t].op = "signin"
    /\ \E u \in Users, type \in ResponseTypes : \E uid \in AcceptedUids(u) :
          LET b == Seal("user", Accepted(call[t].user, u, uid)) IN
          /\ login' = [login EXCEPT ![u] = now]
          /\ \/ type = "code" /\ Redirect(t, b, b, None)
             \/ type = "token" /\ \E got \in {b, None} : Redirect(t, b, None, got)
             \/ type \notin {"code", "token"} /\ Fail(t, 500)
    /\ UNCHANGED <<World, served>>

RefusalUnanswered(t) ==
    /\ call[t] # None
    /\ call[t].op = "access_token"
    /\ Accepts(call[t].user, call[t].arg)
    /\ call' = [call EXCEPT ![t] =
          [@ EXCEPT !.op = "issue", !.user = call[t].arg.data]]
    /\ UNCHANGED <<World, reply, login, served>>

(* "/oauth2/access_token": the code must be a live user block ... *)
AcceptCode(t) ==
    /\ call[t] # None
    /\ call[t].op = "access_token"
    /\ IF Accepts(call[t].user, call[t].arg)
       THEN /\ call' = [call EXCEPT ![t] =
                    [@ EXCEPT !.op = "issue", !.user = call[t].arg.data]]
            /\ UNCHANGED reply
       ELSE Fail(t, 400)
    /\ UNCHANGED <<World, login, served>>

(* ... still live when the clock is read again, and authenticated: then the
   answer carries a bearer token, and the block as refresh token and cookie. *)
IssueToken(t) ==
    /\ call[t] # None
    /\ call[t].op = "issue"
    /\ LET d == call[t].user IN
       IF d.exp - now < 0 THEN Fail(t, 400)
       ELSE IF d.uid = Nobody THEN Fail(t, 500)
       ELSE Answer(t, 200, Seal("user", d), Seal("user", d),
                   Seal("request", RequestToken(d)))
    /\ UNCHANGED <<World, login, served>>

(* "/oauth2/userinfo": the passwd data of the bearer's user.  The answer
   sets an empty session cookie, since the context's token was never set. *)
Userinfo(t) ==
    /\ call[t] # None
    /\ call[t].op = "userinfo"
    /\ IF ~ Authentic(call[t].arg, call[t].from)
       THEN Fail(t, 401) /\ UNCHANGED served
       ELSE LET uid == call[t].arg.data.uid IN
            IF ~ Known(uid)
            THEN Fail(t, 503) /\ UNCHANGED served
            ELSE /\ Answer(t, 200, None, None, None)
                 /\ served' = [user |-> uid, at |-> now]
    /\ UNCHANGED <<World, login>>

UnknownOperation(t) ==
    /\ call[t] # None
    /\ call[t].op = "other"
    /\ Fail(t, 404)
    /\ UNCHANGED <<World, login, served>>

(* Any exception (an argument, PAM, the key pair, the page's template) *)
Throw(t) ==
    /\ call[t] # None
    /\ Fail(t, 500)
    /\ UNCHANGED <<World, login, served>>

-----------------------------------------------------------------------------
(* Outside the server *)

(* The answer reaches its agent.  A redirect from signin is followed to the
   client application, which is where the code or token ends. *)
Deliver(t) ==
    /\ reply[t] # None
    /\ LET r == reply[t] IN
       /\ cookie' = IF r.cookie = Keep THEN cookie
                    ELSE [cookie EXCEPT ![r.agent] = r.cookie]
       /\ \E c \in IF r.op = "signin" THEN Agents ELSE {r.agent} :
             /\ code'   = IF r.code = None THEN code
                          ELSE [code EXCEPT ![c] = r.code]
             /\ bearer' = IF r.bearer = None THEN bearer
                          ELSE [bearer EXCEPT ![c] = r.bearer]
    /\ reply' = [reply EXCEPT ![t] = None]
    /\ UNCHANGED <<now, key, addr, call, login, served>>

(* The connection broke before the answer arrived. *)
Lose(t) ==
    /\ reply[t] # None
    /\ reply' = [reply EXCEPT ![t] = None]
    /\ UNCHANGED <<World, call, login, served>>

(* The agent is somewhere else on the network. *)
Move(a, x) ==
    /\ addr' = [addr EXCEPT ![a] = x]
    /\ UNCHANGED <<now, key, session, call, reply, login, served>>

(* The browser drops its cookie: closed, cleared or past "Expires". *)
Forget(a) ==
    /\ cookie[a] # None
    /\ cookie' = [cookie EXCEPT ![a] = None]
    /\ UNCHANGED <<now, key, addr, code, bearer, call, reply, login, served>>

Tick ==
    /\ now < MaxTime
    /\ now' = now + 1
    /\ UNCHANGED <<key, addr, session, call, reply, login, served>>

(* The process stops and starts again: a new key pair, no request in hand;
   answers already on the wire may still arrive. *)
Restart ==
    /\ key < MaxKey
    /\ key' = key + 1
    /\ call' = [t \in Threads |-> None]
    /\ login' = [u \in Users |-> Never]
    /\ served' = [user |-> Nobody, at |-> Never]
    /\ UNCHANGED <<now, addr, session, reply>>

-----------------------------------------------------------------------------
Work(t) ==
    \/ ShowLogin(t)
    \/ Authorize(t)
    \/ AuthorizeClient(t)
    \/ SigninRefused(t)
    \/ SigninAccepted(t)
    \/ AcceptCode(t)
    \/ IssueToken(t)
    \/ Userinfo(t)
    \/ UnknownOperation(t)

Handle(t) == Work(t) \/ Throw(t)

Next ==
    \/ \E t \in Threads, a \in Agents : ArriveUser(t, a) \/ ArriveOther(t, a)
    \/ \E t \in Threads : Handle(t)
    \/ \E t \in Threads : Deliver(t) \/ Lose(t)
    \/ \E a \in Agents, x \in Addresses : Move(a, x)
    \/ \E a \in Agents : Forget(a)
    \/ Tick
    \/ Restart

Spec == Init /\ [][Next]_vars

(* A worker thread that has a request goes on with it (PAM and the passwd
   lookup return); nothing relies on an exception being thrown. *)
FairSpec == Spec /\ \A t \in Threads : WF_vars(Work(t))
-----------------------------------------------------------------------------
(* Properties *)

(* Every variable keeps its type: above all, user blocks and bearer tokens
   never change places in the cookie and code slots. *)
TypeOK ==
    /\ now \in Nat
    /\ key \in Nat
    /\ addr \in [Agents -> Addresses]
    /\ cookie \in [Agents -> Codes]
    /\ code \in [Agents -> Codes]
    /\ bearer \in [Agents -> Bearers]
    /\ call \in [Threads -> Call \cup {None}]
    /\ reply \in [Threads -> Reply \cup {None}]
    /\ login \in [Users -> Nat \cup {Never}]
    /\ served \in [user : Uids, at : Nat \cup {Never}]

(* Data that names a person goes back to a sign-in of that person... *)
Grounded(d) ==
    d.uid # Nobody =>
        /\ d.name = d.uid
        /\ login[d.uid] # Never
        /\ d.exp <= login[d.uid] + Lifetime

GroundedBlock(b) == b \notin {None, Keep} /\ b.key = key => Grounded(b.data)

(* ... made since the server started, and expires within a lifetime of it.
   It holds wherever the data is: in an agent's hands, in a request being
   served or in an answer on its way, although every operation may extend,
   copy or re-seal what an earlier one handed out. *)
SessionsGrounded ==
    /\ \A a \in Agents :
          /\ GroundedBlock(cookie[a])
          /\ GroundedBlock(code[a])
          /\ GroundedBlock(bearer[a])
    /\ \A t \in Threads : call[t] # None =>
          /\ call[t].user # None => Grounded(call[t].user)
          /\ GroundedBlock(call[t].arg)
    /\ \A t \in Threads : reply[t] # None =>
          /\ GroundedBlock(reply[t].cookie)
          /\ GroundedBlock(reply[t].code)
          /\ GroundedBlock(reply[t].bearer)

(* A refused sign-in ends the session the browser had: the cookie sent with
   the login page names nobody, whoever the request's cookie named. *)
RefusedSigninSignsOut ==
    \A t \in Threads :
        reply[t] # None /\ reply[t].op = "signin" /\ reply[t].status = 200 =>
            /\ reply[t].cookie \in UserBlock
            /\ reply[t].cookie.data.uid = Nobody

(* An unexpired access token of this server's run, sent from the address in
   it, gets the user's data: access_token and userinfo agree on type, family
   and address, and no token is issued to nobody.  (The implicit flow's token
   is a user block, and never gets anything.) *)
BearersHonoured ==
    \A a \in Agents :
        LET b == bearer[a] IN
        /\ b # None
        /\ b.key = key
        /\ b.kind = "request"
        /\ b.data.exp >= now
        /\ b.data.ip = IpOf(addr[a])
        => Authentic(b, addr[a]) /\ Known(b.data.uid)

(* The service implements SessionAuthority: keys, blocks, threads and network
   are forgotten, and what PAM accepted and userinfo handed out remain. *)
Authority == INSTANCE SessionAuthority WITH
                 Users <- Users, Lifetime <- Lifetime, Nobody <- Nobody,
                 now <- now, login <- login, served <- served
AuthoritySpec == Authority!Spec

(* Every request gets an answer (or dies with the server). *)
CallsAnswered == \A t \in Threads : call[t] # None ~> call[t] = None

-----------------------------------------------------------------------------
(* What comments and messages of the repository say of the service *)

(* user.cc "Rejecting user token by IPV4 mismatch": a user taken from a
   token is only accepted at the address the token was made for. *)
UserBoundToAddress ==
    \A t \in Threads : call[t] # None /\ call[t].op \in UserOps =>
        call[t].user.ip = IpOf(call[t].from)

(* oauth.h "The authentication code for the user": a code names the account
   of the user name that signed in. *)
CodeNamesItsUser ==
    \A a \in Agents : code[a] # None => code[a].data.uid = code[a].data.name
=============================================================================
