---------------------------- MODULE MCMTalkSession ----------------------------
(***************************************************************************)
(* Model checking of MTalkSession.                                         *)
(***************************************************************************)
EXTENDS MTalkSession

\* An OnError that panics is one more way to crash; it is looked at where crashes
\* are harmless, with an application that stores its device carefully.
MCInit == Init /\ (fragile => careful)
MCSpec == MCInit /\ [][Next]_vars /\ Fairness
================================================================================
