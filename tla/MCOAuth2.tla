------------------------------ MODULE MCOAuth2 ------------------------------
(* Instances of OAuth2 for TLC. *)
EXTENDS OAuth2, TLC

CONSTANTS u1, u2, x4, y4, x6, x0

(* One address per branch of inet_pton: IPv4, IPv6 and neither *)
MCFamily == [x \in Addresses |-> CASE x \in {x4, y4} -> 4 [] x = x6 -> 6 [] OTHER -> 0]

(* Worker threads are interchangeable, and so are agents. *)
Symmetry == Permutations(Threads) \cup Permutations(Agents)
=============================================================================
