-------------------------- MODULE MCMTalkConnection --------------------------
(***************************************************************************)
(* Model checking of MTalkConnection: the use README.md shows, any use,    *)
(* and the two uses in which a comment of the code is not kept.            *)
(***************************************************************************)
EXTENDS MTalkConnection, TLC

CallerSymmetry == Permutations(Callers)
==============================================================================
