------------------------- MODULE OAuth2SessionProofs -------------------------
(***************************************************************************)
(* SessionsGrounded for every instance whose PAM users all have a passwd   *)
(* entry, and with it the refinement of SessionAuthority.                  *)
(*                                                                         *)
(* SessionsGrounded alone is not inductive: a sign-in keeps the expiration *)
(* of the cookie it came with, whoever that cookie named, so every block   *)
(* of this key, not only those that name a person, must be known to expire *)
(* within a lifetime from now; and a restart must find no block of the key *)
(* it is about to generate.                                                *)
(***************************************************************************)
EXTENDS OAuth2Proofs

(* With the clock at n and the sign-ins l *)
DataSound(d, n, l) ==
    /\ d.exp <= n + Lifetime
    /\ d.uid # Nobody =>
          /\ d.name = d.uid
          /\ l[d.uid] # Never
          /\ d.exp <= l[d.uid] + Lifetime

BlockSound(b, k, n, l) ==
    b \in UserBlock \cup RequestBlock =>
        /\ b.key <= k
        /\ b.key = k => DataSound(b.data, n, l)

CallSound(c, k, n, l) ==
    c # None =>
        /\ c.user # None => DataSound(c.user, n, l)
        /\ BlockSound(c.arg, k, n, l)

ReplySound(r, k, n, l) ==
    r # None =>
        /\ BlockSound(r.cookie, k, n, l)
        /\ BlockSound(r.code, k, n, l)
        /\ BlockSound(r.bearer, k, n, l)

LoginsPast(n, l) == \A u \in Users : l[u] <= n

AgentSound(a, k, n, l) ==
    /\ BlockSound(cookie[a], k, n, l)
    /\ BlockSound(code[a], k, n, l)
    /\ BlockSound(bearer[a], k, n, l)

Inv ==
    /\ TypeOK
    /\ LoginsPast(now, login)
    /\ \A a \in Agents : AgentSound(a, key, now, login)
    /\ \A t \in Threads : CallSound(call[t], key, now, login)
    /\ \A t \in Threads : ReplySound(reply[t], key, now, login)

-----------------------------------------------------------------------------
(* How soundness survives the steps that move its reference points *)

LEMMA DataSoundLater ==
    ASSUME NEW d, d \in UserData \/ d \in RequestData,
           NEW n \in Nat, NEW m \in Nat, n <= m,
           NEW l \in [Users -> Nat \cup {Never}],
           NEW k \in [Users -> Nat \cup {Never}],
           \A u \in Users : l[u] # Never => k[u] # Never /\ l[u] <= k[u],
           DataSound(d, n, l)
    PROVE  DataSound(d, m, k)
  <1>1. d.exp \in Nat /\ d.uid \in Uids
    BY DEF UserData, RequestData, Data
  <1>2. d.exp <= m + Lifetime
    BY <1>1, BoundsAssumption DEF DataSound
  <1>3. ASSUME d.uid # Nobody
        PROVE  d.name = d.uid /\ k[d.uid] # Never /\ d.exp <= k[d.uid] + Lifetime
    <2>1. d.uid \in Users
      BY <1>1, <1>3 DEF Uids
    <2>2. d.name = d.uid /\ l[d.uid] # Never /\ d.exp <= l[d.uid] + Lifetime
      BY <1>3 DEF DataSound
    <2>3. k[d.uid] # Never /\ l[d.uid] <= k[d.uid]
      BY <2>1, <2>2
    <2>4. l[d.uid] \in Nat /\ k[d.uid] \in Nat
      BY <2>1, <2>2, <2>3
    <2> QED
      BY <1>1, <2>2, <2>3, <2>4, BoundsAssumption
  <1> QED
    BY <1>2, <1>3 DEF DataSound

LEMMA BlockSoundLater ==
    ASSUME NEW b, NEW key0 \in Nat, NEW n \in Nat, NEW m \in Nat, n <= m,
           NEW l \in [Users -> Nat \cup {Never}],
           NEW k \in [Users -> Nat \cup {Never}],
           \A u \in Users : l[u] # Never => k[u] # Never /\ l[u] <= k[u],
           BlockSound(b, key0, n, l)
    PROVE  BlockSound(b, key0, m, k)
  <1> SUFFICES ASSUME b \in UserBlock \cup RequestBlock
               PROVE  b.key <= key0 /\ (b.key = key0 => DataSound(b.data, m, k))
    BY DEF BlockSound
  <1>1. b.data \in UserData \/ b.data \in RequestData
    BY DEF UserBlock, RequestBlock
  <1>2. b.key <= key0 /\ (b.key = key0 => DataSound(b.data, n, l))
    BY DEF BlockSound
  <1> QED
    BY <1>1, <1>2, DataSoundLater

(* A new key pair opens nothing that is around. *)
LEMMA BlockSoundRestart ==
    ASSUME NEW b, NEW key0 \in Nat, NEW n, NEW l, NEW m, NEW k,
           BlockSound(b, key0, n, l)
    PROVE  BlockSound(b, key0 + 1, m, k)
  <1> SUFFICES ASSUME b \in UserBlock \cup RequestBlock
               PROVE  b.key <= key0 + 1 /\ b.key # key0 + 1
    BY DEF BlockSound
  <1>1. b.key \in Nat
    BY DEF UserBlock, RequestBlock
  <1> QED
    BY <1>1 DEF BlockSound

(* Everything that is held, asked and answered, from one state to the next *)
LEMMA AllSoundLater ==
    ASSUME Inv, TypeOK', key' = key, now <= now',
           \A u \in Users : login[u] # Never =>
               login'[u] # Never /\ login[u] <= login'[u]
    PROVE  /\ \A a \in Agents : AgentSound(a, key', now', login')
           /\ \A t \in Threads : CallSound(call[t], key', now', login')
           /\ \A t \in Threads : ReplySound(reply[t], key', now', login')
  <1>1. /\ key \in Nat /\ now \in Nat /\ now' \in Nat
        /\ login \in [Users -> Nat \cup {Never}]
        /\ login' \in [Users -> Nat \cup {Never}]
    BY DEF Inv, TypeOK
  <1>2. \A b : BlockSound(b, key, now, login) => BlockSound(b, key', now', login')
    BY <1>1, BlockSoundLater
  <1>3. \A d \in UserData :
           DataSound(d, now, login) => DataSound(d, now', login')
    BY <1>1, DataSoundLater
  <1>4. \A a \in Agents : AgentSound(a, key', now', login')
    BY <1>2 DEF Inv, AgentSound
  <1>5. \A t \in Threads : CallSound(call[t], key', now', login')
    <2> SUFFICES ASSUME NEW t \in Threads, call[t] # None
                 PROVE  /\ call[t].user # None => DataSound(call[t].user, now', login')
                        /\ BlockSound(call[t].arg, key', now', login')
      BY DEF CallSound
    <2>1. call[t].user = None \/ call[t].user \in UserData
      BY DEF Inv, TypeOK, Call
    <2> QED
      BY <1>2, <1>3, <2>1 DEF Inv, CallSound
  <1>6. \A t \in Threads : ReplySound(reply[t], key', now', login')
    BY <1>2 DEF Inv, ReplySound
  <1> QED
    BY <1>4, <1>5, <1>6

-----------------------------------------------------------------------------
(* What the operators of the handlers hand on *)

LEMMA NoneSound ==
    ASSUME NEW k, NEW n, NEW l
    PROVE  BlockSound(None, k, n, l) /\ BlockSound(Keep, k, n, l)
  BY SentinelsAssumption DEF BlockSound

LEMMA UserFromSound ==
    ASSUME TypeOK, NEW x \in Addresses, NEW b1 \in Bearers, NEW b2 \in Bearers,
           BlockSound(b1, key, now, login), BlockSound(b2, key, now, login)
    PROVE  DataSound(UserFrom(x, b1, b2), now, login)
  <1>n. now \in Nat
    BY DEF TypeOK
  <1>1. CASE UserFrom(x, b1, b2) = NewUser(x)
    BY <1>1, <1>n, BoundsAssumption DEF NewUser, DataSound
  <1>2. CASE \E b \in {b1, b2} : /\ b \in UserBlock
                                 /\ b.key = key
                                 /\ UserFrom(x, b1, b2) = b.data
    BY <1>2 DEF BlockSound
  <1> QED
    BY <1>1, <1>2, <1>n, UserFromCases

LEMMA SealSound ==
    ASSUME NEW d, NEW kind, key \in Nat, NEW n, NEW l, DataSound(d, n, l)
    PROVE  BlockSound(Seal(kind, d), key, n, l)
  BY DEF Seal, BlockSound

LEMMA RequestTokenSound ==
    ASSUME NEW d \in UserData, NEW n, NEW l, DataSound(d, n, l)
    PROVE  DataSound(RequestToken(d), n, l)
  <1>1. /\ RequestToken(d).exp = d.exp
        /\ RequestToken(d).uid = d.uid
        /\ RequestToken(d).name = d.name
    BY DEF RequestToken, UserData, Data
  <1> QED
    BY <1>1 DEF DataSound

(* An answer whose parts are sound leaves calls and replies sound. *)
LEMMA AnswerSound ==
    ASSUME TypeOK, NEW t \in Threads, NEW status, NEW ck, NEW cd, NEW br,
           NEW k, NEW n, NEW l,
           Answer(t, status, ck, cd, br),
           \A p \in Threads : CallSound(call[p], k, n, l),
           \A p \in Threads : ReplySound(reply[p], k, n, l),
           BlockSound(ck, k, n, l), BlockSound(cd, k, n, l), BlockSound(br, k, n, l)
    PROVE  /\ \A p \in Threads : CallSound(call'[p], k, n, l)
           /\ \A p \in Threads : ReplySound(reply'[p], k, n, l)
  <1>1. CallSound(call'[t], k, n, l) /\ ReplySound(reply'[t], k, n, l)
    BY DEF Answer, TypeOK, CallSound, ReplySound
  <1>2. \A p \in Threads \ {t} : call'[p] = call[p] /\ reply'[p] = reply[p]
    BY DEF Answer, TypeOK
  <1> QED
    BY <1>1, <1>2

LEMMA FailSound ==
    ASSUME TypeOK, NEW t \in Threads, NEW status, NEW k, NEW n, NEW l,
           Fail(t, status),
           \A p \in Threads : CallSound(call[p], k, n, l),
           \A p \in Threads : ReplySound(reply[p], k, n, l)
    PROVE  /\ \A p \in Threads : CallSound(call'[p], k, n, l)
           /\ \A p \in Threads : ReplySound(reply'[p], k, n, l)
  BY NoneSound, AnswerSound DEF Fail

-----------------------------------------------------------------------------
(* The invariant *)

LEMMA InitInv == Init => Inv
  <1> SUFFICES ASSUME Init PROVE Inv
    OBVIOUS
  <1>1. TypeOK
    BY InitType
  <1>2. LoginsPast(now, login)
    BY DEF Init, LoginsPast, Never
  <1>3. \A a \in Agents : AgentSound(a, key, now, login)
    BY NoneSound DEF Init, AgentSound
  <1>4. \A t \in Threads : CallSound(call[t], key, now, login) /\ ReplySound(reply[t], key, now, login)
    BY DEF Init, CallSound, ReplySound
  <1> QED
    BY <1>1, <1>2, <1>3, <1>4 DEF Inv

(* A step that changes neither the key, the clock nor the sign-ins, and
   whose requests and answers are sound when the agents' blocks stay *)
LEMMA QuietStep ==
    ASSUME Inv, TypeOK', UNCHANGED <<key, now, login>>, UNCHANGED session,
           \A p \in Threads : CallSound(call'[p], key, now, login),
           \A p \in Threads : ReplySound(reply'[p], key, now, login)
    PROVE  Inv'
  <1>1. \A a \in Agents : AgentSound(a, key, now, login)'
    BY DEF Inv, AgentSound, session
  <1> QED
    BY <1>1 DEF Inv, LoginsPast

LEMMA ArriveInv ==
    ASSUME Inv, TypeOK', NEW t \in Threads, NEW a \in Agents,
           ArriveUser(t, a) \/ ArriveOther(t, a)
    PROVE  Inv'
  <1>0. /\ BlockSound(cookie[a], key, now, login)
        /\ BlockSound(code[a], key, now, login)
        /\ BlockSound(bearer[a], key, now, login)
        /\ BlockSound(None, key, now, login)
    BY NoneSound DEF Inv, AgentSound
  <1>1. CASE ArriveUser(t, a)
    <2>1. PICK op \in UserOps \ {"issue"}, auth \in {None, bearer[a]} :
          \E arg \in IF op = "access_token" THEN {code[a], cookie[a]} ELSE {None} :
             call' = [call EXCEPT ![t] =
                [op |-> op, agent |-> a, from |-> addr[a],
                 user |-> UserFrom(addr[a], auth, cookie[a]), arg |-> arg]]
      BY <1>1 DEF ArriveUser
    <2>2. PICK arg \in IF op = "access_token" THEN {code[a], cookie[a]} ELSE {None} :
             call' = [call EXCEPT ![t] =
                [op |-> op, agent |-> a, from |-> addr[a],
                 user |-> UserFrom(addr[a], auth, cookie[a]), arg |-> arg]]
      BY <2>1
    <2>3. BlockSound(arg, key, now, login)
      BY <1>0, <2>2
    <2>4. DataSound(UserFrom(addr[a], auth, cookie[a]), now, login)
      <3>1. /\ auth \in Bearers /\ cookie[a] \in Bearers /\ addr[a] \in Addresses
            /\ BlockSound(auth, key, now, login)
        BY <1>0, <2>1, BlockSets DEF Inv, TypeOK
      <3> QED
        BY <1>0, <3>1, UserFromSound DEF Inv
    <2>5. CallSound(call'[t], key, now, login)
      BY <2>2, <2>3, <2>4 DEF CallSound, Inv, TypeOK
    <2>6. \A p \in Threads \ {t} : call'[p] = call[p]
      BY <2>2 DEF Inv, TypeOK
    <2> QED
      BY <1>1, <2>5, <2>6, QuietStep DEF ArriveUser, World, Inv
  <1>2. CASE ArriveOther(t, a)
    <2>1. PICK op \in OtherOps :
             call' = [call EXCEPT ![t] =
                [op |-> op, agent |-> a, from |-> addr[a], user |-> None,
                 arg |-> IF op = "userinfo" THEN bearer[a] ELSE None]]
      BY <1>2 DEF ArriveOther
    <2>2. CallSound(call'[t], key, now, login)
      BY <1>0, <2>1 DEF CallSound, Inv, TypeOK
    <2>3. \A p \in Threads \ {t} : call'[p] = call[p]
      BY <2>1 DEF Inv, TypeOK
    <2> QED
      BY <1>2, <2>2, <2>3, QuietStep DEF ArriveOther, World, Inv
  <1> QED
    BY <1>1, <1>2

(* The user a request was built for *)
LEMMA CallUserSound ==
    ASSUME Inv, NEW t \in Threads, call[t] # None, call[t].op \in UserOps
    PROVE  /\ call[t].user \in UserData
           /\ DataSound(call[t].user, now, login)
           /\ BlockSound(call[t].arg, key, now, login)
  BY UserCall, SentinelsAssumption DEF Inv, CallSound

(* A sign-in of u makes data of any live user that names u sound. *)
LEMMA AcceptedSound ==
    ASSUME Inv, NEW d \in UserData, DataSound(d, now, login), NEW u \in Users
    PROVE  DataSound(Accepted(d, u, u), now, [login EXCEPT ![u] = now])
  <1>1. /\ Accepted(d, u, u).exp = d.exp
        /\ Accepted(d, u, u).uid = u
        /\ Accepted(d, u, u).name = u
    BY DEF Accepted, UserData, Data
  <1>2. [login EXCEPT ![u] = now][u] = now /\ now \in Nat
    BY DEF Inv, TypeOK
  <1> QED
    BY <1>1, <1>2 DEF DataSound, Never

LEMMA RefusedSound ==
    ASSUME NEW d \in UserData, NEW name, NEW n, NEW l, DataSound(d, n, l)
    PROVE  DataSound(Refused(d, name), n, l)
  <1>1. Refused(d, name).exp = d.exp /\ Refused(d, name).uid = Nobody
    BY DEF Refused, UserData, Data
  <1> QED
    BY <1>1 DEF DataSound

LEMMA SigninAcceptedInv ==
    ASSUME Accounts = Users, Inv, TypeOK', NEW t \in Threads, SigninAccepted(t)
    PROVE  Inv'
  <1>1. /\ call[t].user \in UserData
        /\ DataSound(call[t].user, now, login)
        /\ key \in Nat
    BY CallUserSound DEF SigninAccepted, UserOps, Inv, TypeOK
  <1>2. PICK u \in Users, type \in ResponseTypes : \E uid \in AcceptedUids(u) :
           LET b == Seal("user", Accepted(call[t].user, u, uid)) IN
           /\ login' = [login EXCEPT ![u] = now]
           /\ \/ type = "code" /\ Redirect(t, b, b, None)
              \/ type = "token" /\ \E got \in {b, None} : Redirect(t, b, None, got)
              \/ type \notin {"code", "token"} /\ Fail(t, 500)
    BY DEF SigninAccepted
  <1> DEFINE b == Seal("user", Accepted(call[t].user, u, u))
  <1>3. /\ login' = [login EXCEPT ![u] = now]
        /\ \/ Redirect(t, b, b, None)
           \/ \E got \in {b, None} : Redirect(t, b, None, got)
           \/ Fail(t, 500)
    <2>1. AcceptedUids(u) = {u}
      BY DEF AcceptedUids
    <2> QED
      BY <1>2, <2>1
  <1>4. UNCHANGED <<key, now, session>>
    BY DEF SigninAccepted, World
  <1>5. \A v \in Users : login[v] # Never => login'[v] # Never /\ login[v] <= login'[v]
    <2>1. \A v \in Users : login[v] \in Nat \cup {Never} /\ login[v] <= now
      BY DEF Inv, TypeOK, LoginsPast
    <2>2. \A v \in Users : login'[v] = IF v = u THEN now ELSE login[v]
      BY <1>3 DEF Inv, TypeOK
    <2> QED
      BY <2>1, <2>2 DEF Never, Inv, TypeOK
  <1>6. /\ \A a \in Agents : AgentSound(a, key, now, login')
        /\ \A p \in Threads : CallSound(call[p], key, now, login')
        /\ \A p \in Threads : ReplySound(reply[p], key, now, login')
    <2>1. now <= now' /\ key' = key
      BY <1>4 DEF Inv, TypeOK
    <2> QED
      BY <1>4, <1>5, <2>1, AllSoundLater
  <1>7. BlockSound(b, key, now, login')
    BY <1>1, <1>3, AcceptedSound, SealSound
  <1> HIDE DEF b
  <1>8. /\ \A p \in Threads : CallSound(call'[p], key, now, login')
        /\ \A p \in Threads : ReplySound(reply'[p], key, now, login')
    <2>1. CASE Redirect(t, b, b, None)
      BY <1>6, <1>7, <2>1, AnswerSound, NoneSound DEF Inv, Redirect
    <2>2. CASE \E got \in {b, None} : Redirect(t, b, None, got)
      BY <1>6, <1>7, <2>2, AnswerSound, NoneSound DEF Inv, Redirect
    <2>3. CASE Fail(t, 500)
      BY <1>6, <2>3, FailSound DEF Inv
    <2> QED
      BY <1>3, <2>1, <2>2, <2>3
  <1>9. LoginsPast(now, login')
    BY <1>3 DEF Inv, TypeOK, LoginsPast
  <1>10. \A a \in Agents : AgentSound(a, key, now, login)'
    BY <1>4, <1>6 DEF AgentSound, session
  <1> QED
    BY <1>4, <1>8, <1>9, <1>10 DEF Inv

LEMMA HandleInv ==
    ASSUME Accounts = Users, Inv, TypeOK', NEW t \in Threads, Handle(t)
    PROVE  Inv'
  <1> DEFINE Kept == /\ \A p \in Threads : CallSound(call'[p], key, now, login)
                     /\ \A p \in Threads : ReplySound(reply'[p], key, now, login)
  <1>0. /\ \A p \in Threads : CallSound(call[p], key, now, login)
        /\ \A p \in Threads : ReplySound(reply[p], key, now, login)
        /\ TypeOK /\ key \in Nat
        /\ BlockSound(None, key, now, login)
    BY NoneSound DEF Inv, TypeOK
  <1>f. \A status : Fail(t, status) => Kept
    BY <1>0, FailSound
  <1>a. \A status, ck, cd, br :
           /\ Answer(t, status, ck, cd, br)
           /\ BlockSound(ck, key, now, login)
           /\ BlockSound(cd, key, now, login)
           /\ BlockSound(br, key, now, login)
           => Kept
    BY <1>0, AnswerSound
  <1>q. UNCHANGED <<World, login>> /\ Kept => Inv'
    BY QuietStep DEF World
  <1>1. CASE ShowLogin(t)
    <2>1. DataSound(call[t].user, now, login)
      BY <1>1, CallUserSound DEF ShowLogin, UserOps
    <2>2. BlockSound(Seal("user", call[t].user), key, now, login)
      BY <1>0, <2>1, SealSound
    <2> QED
      BY <1>0, <1>1, <1>a, <1>q, <2>2 DEF ShowLogin, LoginPage
  <1>2. CASE Authorize(t)
    <2>1. DataSound(call[t].user, now, login)
      BY <1>2, CallUserSound DEF Authorize, UserOps
    <2>2. BlockSound(Seal("user", call[t].user), key, now, login)
      BY <1>0, <2>1, SealSound
    <2>3. \/ Redirect(t, Seal("user", call[t].user), None, None)
          \/ Fail(t, 500)
      BY <1>2 DEF Authorize
    <2>4. Kept
      BY <1>0, <1>a, <1>f, <2>2, <2>3 DEF Redirect
    <2> QED
      BY <1>2, <1>q, <2>4 DEF Authorize
  <1>3. CASE AuthorizeClient(t)
    BY <1>3, <1>f, <1>q DEF AuthorizeClient
  <1>4. CASE SigninRefused(t)
    <2>1. call[t].user \in UserData /\ DataSound(call[t].user, now, login)
      BY <1>4, CallUserSound DEF SigninRefused, UserOps
    <2>2. PICK name \in {call[t].user.name} \cup Users :
             LoginPage(t, Refused(call[t].user, name))
      BY <1>4 DEF SigninRefused
    <2>3. BlockSound(Seal("user", Refused(call[t].user, name)), key, now, login)
      BY <1>0, <2>1, RefusedSound, SealSound
    <2>4. Kept
      BY <1>0, <1>a, <2>2, <2>3 DEF LoginPage
    <2> QED
      BY <1>4, <1>q, <2>4 DEF SigninRefused
  <1>5. CASE SigninAccepted(t)
    BY <1>5, SigninAcceptedInv
  <1>6. CASE AcceptCode(t)
    <2>1. CASE Accepts(call[t].user, call[t].arg)
      <3>1. BlockSound(call[t].arg, key, now, login) /\ call[t].arg \in Bearers
        BY <1>0, <1>6, AnyCall, CallUserSound DEF AcceptCode, UserOps
      <3>2. DataSound(call[t].arg.data, now, login)
        BY <2>1, <3>1, AcceptedIsUserBlock DEF BlockSound
      <3>3. call' = [call EXCEPT ![t] =
                        [@ EXCEPT !.op = "issue", !.user = call[t].arg.data]]
            /\ UNCHANGED reply
        BY <1>6, <2>1 DEF AcceptCode
      <3>4. call[t] \in Call
        BY <1>0, <1>6 DEF AcceptCode, TypeOK
      <3>5. call'[t].user = call[t].arg.data /\ call'[t].arg = call[t].arg
        BY <1>0, <3>3, <3>4 DEF TypeOK, Call
      <3>6. CallSound(call'[t], key, now, login)
        BY <3>1, <3>2, <3>5 DEF CallSound
      <3>7. \A p \in Threads \ {t} : call'[p] = call[p]
        BY <1>0, <3>3 DEF TypeOK
      <3>8. Kept
        BY <1>0, <3>3, <3>6, <3>7
      <3> QED
        BY <1>6, <1>q, <3>8 DEF AcceptCode
    <2>2. CASE ~ Accepts(call[t].user, call[t].arg)
      BY <1>6, <1>f, <1>q, <2>2 DEF AcceptCode
    <2> QED
      BY <2>1, <2>2
  <1>7. CASE IssueToken(t)
    <2>1. call[t].user \in UserData /\ DataSound(call[t].user, now, login)
      BY <1>7, CallUserSound DEF IssueToken, UserOps
    <2>2. /\ BlockSound(Seal("user", call[t].user), key, now, login)
          /\ BlockSound(Seal("request", RequestToken(call[t].user)), key, now, login)
      BY <1>0, <2>1, RequestTokenSound, SealSound
    <2>3. \/ Fail(t, 400) \/ Fail(t, 500)
          \/ Answer(t, 200, Seal("user", call[t].user), Seal("user", call[t].user),
                    Seal("request", RequestToken(call[t].user)))
      BY <1>7 DEF IssueToken
    <2>4. Kept
      BY <1>a, <1>f, <2>2, <2>3
    <2> QED
      BY <1>7, <1>q, <2>4 DEF IssueToken
  <1>8. CASE Userinfo(t)
    <2>1. Fail(t, 401) \/ Fail(t, 503) \/ Answer(t, 200, None, None, None)
      BY <1>8 DEF Userinfo
    <2>2. Kept
      BY <1>0, <1>a, <1>f, <2>1
    <2> QED
      BY <1>8, <1>q, <2>2 DEF Userinfo
  <1>9. CASE UnknownOperation(t)
    BY <1>9, <1>f, <1>q DEF UnknownOperation
  <1>10. CASE Throw(t)
    BY <1>10, <1>f, <1>q DEF Throw
  <1> QED
    BY <1>1, <1>2, <1>3, <1>4, <1>5, <1>6, <1>7, <1>8, <1>9, <1>10 DEF Handle, Work

LEMMA DeliverInv ==
    ASSUME Inv, TypeOK', NEW t \in Threads, Deliver(t)
    PROVE  Inv'
  <1>1. UNCHANGED <<key, now, login, call>> /\ reply' = [reply EXCEPT ![t] = None]
    BY DEF Deliver
  <1>2. /\ BlockSound(reply[t].cookie, key, now, login)
        /\ BlockSound(reply[t].code, key, now, login)
        /\ BlockSound(reply[t].bearer, key, now, login)
    BY DEF Inv, ReplySound, Deliver
  <1>3. \A a \in Agents : /\ cookie'[a] \in {cookie[a], reply[t].cookie}
                          /\ code'[a] \in {code[a], reply[t].code}
                          /\ bearer'[a] \in {bearer[a], reply[t].bearer}
    <2>1. PICK c \in IF reply[t].op = "signin" THEN Agents ELSE {reply[t].agent} :
            /\ code'   = IF reply[t].code = None THEN code
                         ELSE [code EXCEPT ![c] = reply[t].code]
            /\ bearer' = IF reply[t].bearer = None THEN bearer
                         ELSE [bearer EXCEPT ![c] = reply[t].bearer]
      BY DEF Deliver
    <2>2. \A a \in Agents : cookie'[a] \in {cookie[a], reply[t].cookie}
      BY DEF Deliver, Inv, TypeOK
    <2> QED
      BY <2>1, <2>2 DEF Inv, TypeOK
  <1>4. \A a \in Agents : AgentSound(a, key, now, login)'
    BY <1>1, <1>2, <1>3 DEF Inv, AgentSound
  <1>5. \A p \in Threads : reply'[p] \in {reply[p], None}
    BY <1>1 DEF Inv, TypeOK
  <1>6. \A p \in Threads : ReplySound(reply'[p], key, now, login)
    BY <1>5 DEF Inv, ReplySound
  <1> QED
    BY <1>1, <1>4, <1>6 DEF Inv, LoginsPast

LEMMA OutsideInv ==
    ASSUME Inv, TypeOK',
           \/ \E t \in Threads : Lose(t)
           \/ \E a \in Agents, x \in Addresses : Move(a, x)
           \/ \E a \in Agents : Forget(a)
           \/ Tick
           \/ Restart
    PROVE  Inv'
  <1>1. ASSUME NEW t \in Threads, Lose(t) PROVE Inv'
    <2>1. \A p \in Threads : reply'[p] \in {reply[p], None}
      BY <1>1 DEF Lose, Inv, TypeOK
    <2>2. \A p \in Threads : ReplySound(reply'[p], key, now, login)
      BY <2>1 DEF Inv, ReplySound
    <2> QED
      BY <1>1, <2>2, QuietStep DEF Lose, World, Inv
  <1>2. ASSUME NEW a \in Agents, NEW x \in Addresses, Move(a, x) PROVE Inv'
    BY <1>2, QuietStep DEF Move, Inv
  <1>3. ASSUME NEW a \in Agents, Forget(a) PROVE Inv'
    <2>1. \A c \in Agents : cookie'[c] \in {cookie[c], None}
      BY <1>3 DEF Forget, Inv, TypeOK
    <2>2. \A c \in Agents : AgentSound(c, key, now, login)'
      BY <1>3, <2>1, NoneSound DEF Forget, Inv, AgentSound
    <2> QED
      BY <1>3, <2>2 DEF Forget, Inv, LoginsPast
  <1>4. CASE Tick
    <2>1. UNCHANGED <<key, session, call, reply, login>> /\ now' = now + 1
      BY <1>4 DEF Tick
    <2>2. now <= now' /\ now \in Nat
      BY <2>1 DEF Inv, TypeOK
    <2>3. \A u \in Users : login[u] # Never => login[u] <= login[u]
      BY DEF Inv, TypeOK
    <2>4. /\ \A a \in Agents : AgentSound(a, key', now', login')
          /\ \A t \in Threads : CallSound(call[t], key', now', login')
          /\ \A t \in Threads : ReplySound(reply[t], key', now', login')
      BY <2>1, <2>2, <2>3, AllSoundLater
    <2>5. LoginsPast(now', login')
      BY <2>1, <2>2 DEF Inv, LoginsPast, TypeOK, Never
    <2> QED
      BY <2>1, <2>4, <2>5 DEF Inv, AgentSound, session
  <1>5. CASE Restart
    <2>1. UNCHANGED <<now, session, reply>> /\ key' = key + 1
          /\ call' = [t \in Threads |-> None]
          /\ login' = [u \in Users |-> Never]
          /\ key \in Nat /\ now \in Nat
      BY <1>5 DEF Restart, Inv, TypeOK
    <2>2. \A b : BlockSound(b, key, now, login) => BlockSound(b, key', now', login')
      BY <2>1, BlockSoundRestart
    <2>3. \A a \in Agents : AgentSound(a, key, now, login)'
      BY <2>1, <2>2 DEF Inv, AgentSound, session
    <2>4. \A t \in Threads : ReplySound(reply[t], key', now', login')
      BY <2>2 DEF Inv, ReplySound
    <2>5. \A t \in Threads : CallSound(call'[t], key', now', login')
      BY <2>1 DEF CallSound
    <2>6. LoginsPast(now', login')
      BY <2>1 DEF LoginsPast, Never
    <2> QED
      BY <2>1, <2>3, <2>4, <2>5, <2>6 DEF Inv
  <1> QED
    BY <1>1, <1>2, <1>3, <1>4, <1>5

LEMMA NextInv ==
    ASSUME Accounts = Users, Inv, [Next]_vars
    PROVE  Inv'
  <1>0. TypeOK'
    BY NextType DEF Inv
  <1>1. CASE UNCHANGED vars
    BY <1>0, <1>1, QuietStep DEF vars, Inv
  <1>2. CASE Next
    BY <1>0, <1>2, ArriveInv, HandleInv, DeliverInv, OutsideInv DEF Next
  <1> QED
    BY <1>1, <1>2

LEMMA InvGrounds == Inv => SessionsGrounded
  <1> SUFFICES ASSUME Inv PROVE SessionsGrounded
    OBVIOUS
  <1>1. \A b \in Bearers \cup SetCookies :
           BlockSound(b, key, now, login) => GroundedBlock(b)
    BY DEF BlockSound, DataSound, GroundedBlock, Grounded, Bearers, SetCookies
  <1>2. \A a \in Agents : /\ GroundedBlock(cookie[a])
                          /\ GroundedBlock(code[a])
                          /\ GroundedBlock(bearer[a])
    <2>1. \A a \in Agents : /\ cookie[a] \in Bearers /\ code[a] \in Bearers
                            /\ bearer[a] \in Bearers
      BY BlockSets DEF Inv, TypeOK
    <2> QED
      BY <1>1, <2>1 DEF Inv, AgentSound
  <1>3. \A t \in Threads : call[t] # None =>
           /\ call[t].user # None => Grounded(call[t].user)
           /\ GroundedBlock(call[t].arg)
    BY <1>1, AnyCall DEF Inv, CallSound, DataSound, Grounded
  <1>4. \A t \in Threads : reply[t] # None =>
           /\ GroundedBlock(reply[t].cookie)
           /\ GroundedBlock(reply[t].code)
           /\ GroundedBlock(reply[t].bearer)
    <2>1. \A t \in Threads : reply[t] # None =>
             /\ reply[t].cookie \in SetCookies
             /\ reply[t].code \in Bearers
             /\ reply[t].bearer \in Bearers
      BY BlockSets DEF Inv, TypeOK, Reply
    <2> QED
      BY <1>1, <2>1 DEF Inv, ReplySound
  <1> QED
    BY <1>2, <1>3, <1>4 DEF SessionsGrounded

(* Wherever data that names a person is, it goes back to a sign-in of that
   person since the last start, and expires within a lifetime of it. *)
THEOREM SessionsAreGrounded ==
    ASSUME Accounts = Users
    PROVE  Spec => []SessionsGrounded
  <1>1. Inv /\ [Next]_vars => Inv'
    BY NextInv
  <1> QED
    BY <1>1, InitInv, InvGrounds, PTL DEF Spec

-----------------------------------------------------------------------------
(***************************************************************************)
(* OAuth2 implements SessionAuthority: a sign-in PAM accepts is a Login,   *)
(* an answer of userinfo with data in it is a Serve, and every other step  *)
(* of the handlers, the agents and the network is invisible.               *)
(***************************************************************************)

LEMMA InitRefines == Init => Authority!Init
  BY DEF Init, Authority!Init, Authority!Start, Never, Authority!Never

(* userinfo answers inside the session of the user it names. *)
LEMMA UserinfoRefines ==
    ASSUME Accounts = Users, Inv, NEW t \in Threads, Userinfo(t)
    PROVE  [Authority!Next]_Authority!vars
  <1>1. UNCHANGED <<now, login>>
    BY DEF Userinfo, World
  <1>2. CASE UNCHANGED served
    BY <1>1, <1>2 DEF Authority!vars
  <1>3. CASE ~ UNCHANGED served
    <2>1. /\ Authentic(call[t].arg, call[t].from)
          /\ call[t].arg.data.uid \in Users
          /\ served' = [user |-> call[t].arg.data.uid, at |-> now]
      BY <1>3 DEF Userinfo, Known
    <2>2. /\ call[t] # None
          /\ call[t].arg \in Bearers
          /\ call[t].from \in Addresses
      BY AnyCall DEF Userinfo, Inv
    <2>3. /\ call[t].arg \in RequestBlock
          /\ call[t].arg.key = key
          /\ call[t].arg.data.exp >= now
      BY <2>1, <2>2, AuthenticIsRequestBlock
    <2>4. DataSound(call[t].arg.data, now, login)
      BY <2>2, <2>3 DEF Inv, CallSound, BlockSound
    <2> DEFINE u == call[t].arg.data.uid
    <2>5. u \in Users /\ u # Nobody
      BY <2>1, SentinelsAssumption
    <2>6. login[u] # Never /\ call[t].arg.data.exp <= login[u] + Lifetime
      BY <2>4, <2>5 DEF DataSound
    <2>7. now <= login[u] + Lifetime
      <3>1. /\ now \in Nat /\ Lifetime \in Nat
            /\ login[u] \in Nat
            /\ call[t].arg.data.exp \in Nat
        BY <2>3, <2>5, <2>6, BoundsAssumption
           DEF Inv, TypeOK, RequestBlock, RequestData, Data
      <3> QED
        BY <2>3, <2>6, <3>1
    <2>8. Authority!Serve(u)
      BY <1>1, <2>1, <2>6, <2>7 DEF Authority!Serve, Never, Authority!Never
    <2> QED
      BY <2>5, <2>8 DEF Authority!Next
  <1> QED
    BY <1>2, <1>3

LEMMA HandleRefines ==
    ASSUME Accounts = Users, Inv, NEW t \in Threads, Handle(t)
    PROVE  [Authority!Next]_Authority!vars
  <1>1. CASE SigninAccepted(t)
    <2>1. PICK u \in Users : login' = [login EXCEPT ![u] = now]
      BY <1>1 DEF SigninAccepted
    <2>2. Authority!Login(u)
      BY <1>1, <2>1 DEF SigninAccepted, World, Authority!Login
    <2> QED
      BY <2>2 DEF Authority!Next
  <1>2. CASE Userinfo(t)
    BY <1>2, UserinfoRefines
  <1>3. CASE \/ ShowLogin(t) \/ Authorize(t) \/ AuthorizeClient(t)
             \/ SigninRefused(t) \/ AcceptCode(t) \/ IssueToken(t)
             \/ UnknownOperation(t) \/ Throw(t)
    <2>1. UNCHANGED <<now, login, served>>
      BY <1>3 DEF ShowLogin, Authorize, AuthorizeClient, SigninRefused, AcceptCode,
                  IssueToken, UnknownOperation, Throw, World
    <2> QED
      BY <2>1 DEF Authority!vars
  <1> QED
    BY <1>1, <1>2, <1>3 DEF Handle, Work

LEMMA NextRefines ==
    ASSUME Accounts = Users, Inv, [Next]_vars
    PROVE  [Authority!Next]_Authority!vars
  <1>1. CASE UNCHANGED vars
    BY <1>1 DEF vars, Authority!vars
  <1>2. ASSUME NEW t \in Threads, Handle(t)
        PROVE  [Authority!Next]_Authority!vars
    BY <1>2, HandleRefines
  <1>3. CASE Tick
    BY <1>3 DEF Tick, Authority!Tick, Authority!Next
  <1>4. CASE Restart
    <2>1. Authority!Restart
      BY <1>4 DEF Restart, Authority!Restart, Authority!Start, Never, Authority!Never
    <2> QED
      BY <2>1 DEF Authority!Next
  <1>5. ASSUME \/ \E t \in Threads, a \in Agents : ArriveUser(t, a) \/ ArriveOther(t, a)
               \/ \E t \in Threads : Deliver(t) \/ Lose(t)
               \/ \E a \in Agents, x \in Addresses : Move(a, x)
               \/ \E a \in Agents : Forget(a)
        PROVE  [Authority!Next]_Authority!vars
    <2>1. UNCHANGED <<now, login, served>>
      BY <1>5 DEF ArriveUser, ArriveOther, Deliver, Lose, Move, Forget, World
    <2> QED
      BY <2>1 DEF Authority!vars
  <1> QED
    BY <1>1, <1>2, <1>3, <1>4, <1>5 DEF Next

(* The service hands personal data out only inside the session of a sign-in
   made since the server's last start. *)
THEOREM ImplementsAuthority ==
    ASSUME Accounts = Users
    PROVE  Spec => AuthoritySpec
  <1>1. Inv /\ [Next]_vars => Inv'
    BY NextInv
  <1>2. Inv /\ [Next]_vars => [Authority!Next]_Authority!vars
    BY NextRefines
  <1> QED
    BY <1>1, <1>2, InitInv, InitRefines, PTL DEF Spec, AuthoritySpec, Authority!Spec

-----------------------------------------------------------------------------
(* Refused sign-ins *)

LEMMA RefusedNext ==
    ASSUME TypeOK, RefusedSigninSignsOut, [Next]_vars
    PROVE  RefusedSigninSignsOut'
  <1> DEFINE Out(r) == r # None /\ r.op = "signin" /\ r.status = 200 =>
                          r.cookie \in UserBlock /\ r.cookie.data.uid = Nobody
  <1>1. SUFFICES \A t \in Threads : Out(reply'[t])
    BY DEF RefusedSigninSignsOut
  <1>2. \A t \in Threads : Out(reply[t])
    BY DEF RefusedSigninSignsOut
  <1>3. ASSUME NEW t \in Threads, NEW status, NEW ck, NEW cd, NEW br,
               Answer(t, status, ck, cd, br),
               call[t].op = "signin" /\ status = 200 =>
                   ck \in UserBlock /\ ck.data.uid = Nobody
        PROVE  \A p \in Threads : Out(reply'[p])
    <2>1. Out(reply'[t])
      BY <1>3 DEF Answer, TypeOK
    <2>2. \A p \in Threads \ {t} : reply'[p] = reply[p]
      BY <1>3 DEF Answer, TypeOK
    <2> QED
      BY <1>2, <2>1, <2>2
  <1>4. ASSUME NEW t \in Threads, NEW status \in Status \ {200}, Fail(t, status)
        PROVE  \A p \in Threads : Out(reply'[p])
    BY <1>3, <1>4 DEF Fail
  <1>5. ASSUME NEW t \in Threads, SigninRefused(t)
        PROVE  \A p \in Threads : Out(reply'[p])
    <2>1. PICK name \in {call[t].user.name} \cup Users :
             LoginPage(t, Refused(call[t].user, name))
      BY <1>5 DEF SigninRefused
    <2>2. call[t].user \in UserData
      BY <1>5, UserCall DEF SigninRefused, UserOps
    <2>3. name \in Uids
      BY <2>1, <2>2 DEF UserData, Data, Uids
    <2>4. Seal("user", Refused(call[t].user, name)) \in UserBlock
      BY <2>2, <2>3, RefusedType, SealUserType DEF TypeOK
    <2>5. Seal("user", Refused(call[t].user, name)).data.uid = Nobody
      BY <2>2 DEF Seal, Refused, UserData, Data
    <2> QED
      BY <1>3, <2>1, <2>4, <2>5 DEF LoginPage
  <1>6. ASSUME NEW t \in Threads, Handle(t), ~ SigninRefused(t)
        PROVE  \A p \in Threads : Out(reply'[p])
    <2>1. CASE ShowLogin(t)
      BY <2>1, <1>3 DEF ShowLogin, LoginPage
    <2>2. CASE Authorize(t)
      BY <2>2, <1>3, <1>4 DEF Authorize, Status, Redirect
    <2>3. CASE AuthorizeClient(t) \/ UnknownOperation(t) \/ Throw(t)
      BY <2>3, <1>4 DEF AuthorizeClient, UnknownOperation, Throw, Status
    <2>4. CASE SigninAccepted(t)
      <3>1. \/ \E b, got : Redirect(t, b, b, None) \/ Redirect(t, b, None, got)
            \/ Fail(t, 500)
        BY <2>4 DEF SigninAccepted
      <3> QED
        BY <1>3, <1>4, <3>1 DEF Status, Redirect
    <2>5. CASE AcceptCode(t)
      BY <2>5, <1>2, <1>4 DEF AcceptCode, Status
    <2>6. CASE IssueToken(t)
      <3>1. \/ Fail(t, 400) \/ Fail(t, 500)
            \/ \E b, br : Answer(t, 200, b, b, br) /\ call[t].op = "issue"
        BY <2>6 DEF IssueToken
      <3> QED
        BY <1>3, <1>4, <3>1 DEF Status
    <2>7. CASE Userinfo(t)
      <3>1. \/ Fail(t, 401) \/ Fail(t, 503)
            \/ Answer(t, 200, None, None, None) /\ call[t].op = "userinfo"
        BY <2>7 DEF Userinfo
      <3> QED
        BY <1>3, <1>4, <3>1 DEF Status
    <2> QED
      BY <1>6, <2>1, <2>2, <2>3, <2>4, <2>5, <2>6, <2>7 DEF Handle, Work
  <1>7. ASSUME \A p \in Threads : reply'[p] \in {reply[p], None}
        PROVE  \A p \in Threads : Out(reply'[p])
    BY <1>2, <1>7
  <1>8. CASE \E t \in Threads : Handle(t)
    BY <1>5, <1>6, <1>8
  <1>9. CASE \/ \E t \in Threads : Deliver(t) \/ Lose(t)
             \/ \E t \in Threads, a \in Agents : ArriveUser(t, a) \/ ArriveOther(t, a)
             \/ \E a \in Agents, x \in Addresses : Move(a, x)
             \/ \E a \in Agents : Forget(a)
             \/ Tick
             \/ Restart
             \/ UNCHANGED vars
    <2>1. \A p \in Threads : reply'[p] \in {reply[p], None}
      BY <1>9 DEF Deliver, Lose, ArriveUser, ArriveOther, Move, Forget, Tick, Restart,
                  vars, TypeOK
    <2> QED
      BY <1>7, <2>1
  <1> QED
    BY <1>8, <1>9 DEF Next

(* A refused sign-in always sends a cookie that names nobody. *)
THEOREM RefusedSigninsSignOut == Spec => []RefusedSigninSignsOut
  <1>1. Init => RefusedSigninSignsOut
    BY DEF Init, RefusedSigninSignsOut
  <1>2. TypeOK /\ RefusedSigninSignsOut /\ [Next]_vars => RefusedSigninSignsOut'
    BY RefusedNext
  <1> QED
    BY <1>1, <1>2, TypeCorrect, PTL DEF Spec
=============================================================================
