---------------------------- MODULE MailboxContract ----------------------------
(***************************************************************************)
(* What listening on mtalk promises for a message the server keeps (one    *)
(* with a persistent id): once it has arrived it is handled, which means   *)
(* that OnNotification got it or OnError was told why not, or it is lost;  *)
(* messages are lost one at a time, and never with a reliable listener,    *)
(* and neither fate is ever undone.                                        *)
(***************************************************************************)
CONSTANT Kept   \* the messages the server keeps until they are acknowledged

VARIABLES
  status,   \* what has become of each message
  reliable  \* whether the listener may lose none

MInit ==
  /\ reliable \in BOOLEAN
  /\ status = [m \in Kept |-> "absent"]

Turn(m, from, to) ==
  /\ status[m] = from
  /\ status' = [status EXCEPT ![m] = to]
  /\ UNCHANGED reliable

Arrives(m) == Turn(m, "absent", "pending")
Handled(m) == Turn(m, "pending", "handled")
Lost(m)    == ~reliable /\ Turn(m, "pending", "lost")

MNext == \E m \in Kept : Arrives(m) \/ Handled(m) \/ Lost(m)

MSpec == MInit /\ [][MNext]_<<status, reliable>>
================================================================================
