---------------------------- MODULE MCRegistration ----------------------------
(***************************************************************************)
(* Model checking of Registration.  The claims of the package's comments   *)
(* and README that its code does not keep are here.                        *)
(***************************************************************************)
EXTENDS Registration, TLC

CallerSymmetry == Permutations(Callers)

\* FireBaseClient "is safe for concurrent use": two calls on one client never
\* make the runtime end the process.
ConcurrentUseIsSafe == ~crashed

\* C2DMRegisterAndroid reports ErrNoInstallationAuth when the token of the
\* installation has expired, it does not send it: no expired token is put in a
\* request.
ExpiredTokenNotSent ==
  [][\A c \in Callers :
       pc[c] = "find" /\ pc'[c] = "auth" => ~expired[job[c].app]]_vars
===============================================================================
