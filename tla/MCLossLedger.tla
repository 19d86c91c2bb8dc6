---------------------------- MODULE MCLossLedger ----------------------------
(* Instances of LossLedger for TLC.                                        *)
EXTENDS LossLedger

\* From day 2 to day 3 the week ends and the month does not.
Lengths == [day |-> 1, week |-> 2, month |-> 4]
Caps == [day |-> 2, week |-> 2, month |-> 3]
=============================================================================
