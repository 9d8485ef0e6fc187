---------------------------- MODULE MTalkContract ----------------------------
(***************************************************************************)
(* What MTalkCon promises to an application that follows README.md: a      *)
(* sequence of connections, at most one up at a time, each of which ends   *)
(* only for a reason the application knows, because it asked for the end   *)
(* or because Err() holds the loop's error, and then ends for good.        *)
(***************************************************************************)
CONSTANT Connections

VARIABLES
  life,    \* "none", then "up" once its loop runs, then "ended" once announced
  excused  \* the connections that are up and have a reason to end

cvars == <<life, excused>>

CInit ==
  /\ life = [g \in Connections |-> "none"]
  /\ excused = {}

Begin(g) ==
  /\ \A h \in Connections : life[h] # "up"
  /\ life[g] = "none"
  /\ life' = [life EXCEPT ![g] = "up"]
  /\ UNCHANGED excused

Excuse(g) ==
  /\ life[g] = "up"
  /\ excused' = excused \cup {g}
  /\ UNCHANGED life

End(g) ==
  /\ g \in excused
  /\ life' = [life EXCEPT ![g] = "ended"]
  /\ excused' = excused \ {g}

CNext == \E g \in Connections : Begin(g) \/ Excuse(g) \/ End(g)

CSafe == CInit /\ [][CNext]_cvars

\* A connection with a reason to end does end.
CFair == \A g \in Connections : WF_cvars(End(g))

CSpec == CSafe /\ CFair
=============================================================================
