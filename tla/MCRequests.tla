------------------------------ MODULE MCRequests ------------------------------
(* Instances of Requests for TLC. *)
EXTENDS Requests, TLC

Words(S, n) == UNION {[1..m -> S] : m \in 0..n}

MCSymbols == {Api, "/", "0", "1", ".", "c", "%", "h", "d", "q", "r", "a", "b", ",", "remote"}

(* Paths with and without a version, with a version of several digits or
   none, with something after it or not, and outside "/api/" *)
MCPaths ==
    {<<Api>> \o w : w \in Words({"1", "/"}, 3)}
        \cup {<<Api, "1", ".", "0">>, <<Api, "1", ".", "0", "/", "1">>, <<Api, ".", "/">>}
        \cup {<<>>, <<"/">>, <<"/", "1">>}

MCDigit == "0" :> 0 @@ "1" :> 1

MCNameOrder == <<"Client-Address", "X-Forwarded-For", "client-address", "n">>

MCSpellings == {"Client-Address", "client-address"}

(* Plain characters, escapes, and both halves of an escape *)
MCPieces == {<<>>, <<"c">>, <<"%">>, <<"h">>, <<"%", "h">>}

Arg(n, v) == [name |-> n, value |-> v]

MCArguments == {<<>>, <<Arg("n", <<"q">>)>>, <<Arg("n", <<"q">>), Arg("n", <<"r">>)>>,
                <<Arg("client-address", <<"q">>)>>}

(* None, a proxy or two, and headers named like arguments *)
MCHeaders == {<<>>,
              <<Arg("n", <<"b">>), Arg("X-Forwarded-For", <<"a", ",", "b">>)>>,
              <<Arg("X-Forwarded-For", <<"a">>), Arg("X-Forwarded-For", <<"b">>)>>,
              <<Arg("client-address", <<"b">>)>>}

MCProxied == {"X-Forwarded-For"}

MCRemote == <<"remote">>
=============================================================================
