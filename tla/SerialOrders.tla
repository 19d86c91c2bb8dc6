----------------------------- MODULE SerialOrders -----------------------------
(***************************************************************************)
(* What the entry authority promises the account, with no engine, file or  *)
(* memory in it: orders go to the broker one after the other.  The next    *)
(* one is sent only when the opening of every earlier one is verified, an  *)
(* order is sent once, and nothing is verified that was not sent.  At the  *)
(* start at most one order, of an earlier version, has an unknown fate.    *)
(***************************************************************************)
CONSTANT Orders

VARIABLES
  sent,      \* orders that reached the broker
  verified   \* orders whose opening is known for certain

Init ==
  /\ sent \in {{}} \cup {{o} : o \in Orders}
  /\ verified = {}

SendOrder ==
  /\ sent \subseteq verified
  /\ \E o \in Orders \ sent : sent' = sent \cup {o}
  /\ UNCHANGED verified

VerifyOrder ==
  /\ \E o \in sent \ verified : verified' = verified \cup {o}
  /\ UNCHANGED sent

Next == SendOrder \/ VerifyOrder

Spec == Init /\ [][Next]_<<sent, verified>>
=============================================================================
