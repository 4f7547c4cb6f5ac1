-------------------------- MODULE SessionAuthority --------------------------
(***************************************************************************)
(* What the OAuth2 service of the web module promises, with no token, no   *)
(* cookie, no browser and no thread in it: a person's data is handed out   *)
(* only after that person signed in, for at most a session's lifetime, and *)
(* never across a restart of the server (the key pair that seals every     *)
(* token lives in memory).  OAuth2.tla is the detailed specification.      *)
(***************************************************************************)
EXTENDS Integers

CONSTANTS
    Users,      \* people the operating system can authenticate
    Lifetime,   \* seconds a session lasts ("oauth2/expiration-time")
    Nobody      \* no user at all

VARIABLES
    now,        \* the server's clock
    login,      \* login[u]: last sign-in of u since the server started
    served      \* the last personal data handed out: [user, at]

vars == <<now, login, served>>

Never == -1

Start ==
    /\ login  = [u \in Users |-> Never]
    /\ served = [user |-> Nobody, at |-> Never]

Init ==
    /\ now = 0
    /\ Start

Login(u) ==
    /\ login' = [login EXCEPT ![u] = now]
    /\ UNCHANGED <<now, served>>

(* Personal data may leave the server only inside the session of a sign-in. *)
Serve(u) ==
    /\ login[u] # Never
    /\ now <= login[u] + Lifetime
    /\ served' = [user |-> u, at |-> now]
    /\ UNCHANGED <<now, login>>

Tick ==
    /\ now' = now + 1
    /\ UNCHANGED <<login, served>>

Restart ==
    /\ Start'
    /\ UNCHANGED now

Next ==
    \/ \E u \in Users : Login(u) \/ Serve(u)
    \/ Tick
    \/ Restart

Spec == Init /\ [][Next]_vars
=============================================================================
