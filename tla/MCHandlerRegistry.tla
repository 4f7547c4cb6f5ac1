-------------------------- MODULE MCHandlerRegistry --------------------------
(* Instances of HandlerRegistry for TLC: keys are the root, a built-in one
   (like "/oauth2") and those of applications. *)
EXTENDS HandlerRegistry, TLC

CONSTANTS oauth2, x, y

MCBuiltins == {Root, oauth2}
MCUris     == MCBuiltins \cup {x, y}

Symmetry == Permutations(Servers) \cup Permutations(Handlers)
                \cup Permutations(Threads) \cup Permutations({x, y})
=============================================================================
