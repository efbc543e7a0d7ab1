---------------------------- MODULE ResourceAccessMC ----------------------------
(* A small instance of ResourceAccess for TLC: a bound token that outlives    *)
(* the window of its proof, and a plain token that expires early.             *)
EXTENDS ResourceAccess, TLC

CONSTANTS bound, plain, good, alien, k1, k2

MCExp == (bound :> 4) @@ (plain :> 2)
MCBoundKey == (bound :> k1) @@ (plain :> NoKey)
MCAth == (good :> bound) @@ (alien :> bound)
MCJkt == (good :> k1) @@ (alien :> k2)
MCIat == (good :> 1) @@ (alien :> 1)

Symmetry == Permutations(Calls)
================================================================================
