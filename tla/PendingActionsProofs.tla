------------------------ MODULE PendingActionsProofs ------------------------
(***************************************************************************)
(* AtMostOneCall, OnlyFreshConfirmedSent and PendingBounded, for every     *)
(* number of actions, cap, time to live and retention.  The invariant ties *)
(* the handler of an action to its status and to the audit rows: a row     *)
(* that may still be confirmed has had no handler, and a row that was      *)
(* rejected or expired never gets one.                                     *)
(***************************************************************************)
EXTENDS PendingActions, Integers, FiniteSetTheorems, WellFoundedInduction, TLAPS

\* Rows exist from their proposal on.
Numbered == \A i \in Ids : i >= next => status[i] = "none"

\* A row that can still be confirmed has no handler, and a handler makes at
\* most one call.
OneHandler ==
  \A i \in Ids :
    /\ status[i] \in {"none", "pending"} => handler[i] = "none"
    /\ handler[i] \in {"none", "dispatching"} => calls[i] = 0
    /\ calls[i] <= 1

\* A handler exists only for a click inside the time to live.
HandlerIsFresh ==
  \A i \in Ids : handler[i] # "none" =>
    confirmed[i] <= proposed[i] + TTL /\ <<i, "confirmed">> \in journal

\* Rejected and expired rows are over and were never handled.
RefusedUnhandled ==
  \A i \in Ids : <<i, "rejected">> \in journal \/ <<i, "expired">> \in journal =>
    handler[i] = "none" /\ status[i] \notin {"none", "pending"}

DispatchInv == TypeOK /\ Numbered /\ OneHandler /\ HandlerIsFresh /\ RefusedUnhandled

\* The invariant holds in an empty queue.
LEMMA InitDispatch == Init => DispatchInv
  BY PendingAssumption
  DEF Init, DispatchInv, TypeOK, Numbered, OneHandler, HandlerIsFresh, RefusedUnhandled,
      Ids, Statuses

\* What sweep_expired does to one row: it never makes one pending again.
LEMMA SweptKeeps ==
  ASSUME TypeOK, NEW i \in Ids
  PROVE  /\ SweptStatus(i) \in Statuses \cup {"none", "gone"}
         /\ SweptStatus(i) = "pending" => status[i] = "pending" /\ ~IsExpired(i)
         /\ SweptStatus(i) = "none" <=> status[i] = "none"
         /\ status[i] \notin {"none", "pending"} => SweptStatus(i) \notin {"none", "pending"}
  BY DEF TypeOK, SweptStatus, Statuses, IsExpired

\* What marking one row changes in the queue and in the journal.
LEMMA MarkEffect ==
  ASSUME TypeOK, NEW i \in Ids, NEW s \in Statuses, Mark(i, s)
  PROVE  /\ status' \in [Ids -> Statuses \cup {"none", "gone"}]
         /\ \A j \in Ids : status'[j] = IF j = i THEN s ELSE status[j]
         /\ journal' \subseteq Ids \X Statuses
         /\ \A j \in Ids : \A r \in Statuses :
              <<j, r>> \in journal' <=> <<j, r>> \in journal \/ (j = i /\ r = s)
<1>1. /\ status' \in [Ids -> Statuses \cup {"none", "gone"}]
      /\ \A j \in Ids : status'[j] = IF j = i THEN s ELSE status[j]
  BY DEF Mark, TypeOK
<1>2. journal' = journal \cup {<<i, s>>} /\ <<i, s>> \in Ids \X Statuses
  BY DEF Mark
<1>3. journal' \subseteq Ids \X Statuses
  BY <1>2 DEF TypeOK
<1> QED BY <1>1, <1>2, <1>3

\* A pending row that is rejected, or expires under a late click, was never
\* handled.
LEMMA MarkRefused ==
  ASSUME DispatchInv, NEW i \in Ids, status[i] = "pending",
         Mark(i, "rejected") \/ Mark(i, "expired"),
         UNCHANGED <<clock, next, proposed, handler, call, confirmed, calls>>
  PROVE  DispatchInv'
<1> PICK s \in {"rejected", "expired"} : Mark(i, s)
  OBVIOUS
<1> USE DEF DispatchInv
<1>1. /\ status' \in [Ids -> Statuses \cup {"none", "gone"}]
      /\ \A j \in Ids : status'[j] = IF j = i THEN s ELSE status[j]
      /\ journal' \subseteq Ids \X Statuses
      /\ \A j \in Ids : \A r \in Statuses :
           <<j, r>> \in journal' <=> <<j, r>> \in journal \/ (j = i /\ r = s)
  <2>1. s \in Statuses
    BY DEF Statuses
  <2> QED BY <2>1, MarkEffect
<1>2. TypeOK'
  BY <1>1 DEF TypeOK
<1>3. Numbered' /\ OneHandler'
  BY <1>1 DEF Numbered, OneHandler
<1>4. HandlerIsFresh'
  BY <1>1 DEF HandlerIsFresh, Statuses
<1>5. RefusedUnhandled'
  BY <1>1 DEF RefusedUnhandled, OneHandler, Statuses
<1> QED BY <1>2, <1>3, <1>4, <1>5

\* A handler that ends, with or without an outcome for its row, leaves no way
\* back to a confirmable row.
LEMMA HandlerEnds ==
  ASSUME DispatchInv, NEW i \in Ids, NEW s \in {"executed", "failed"},
         handler[i] \in {"dispatching", "awaiting"},
         handler' = [handler EXCEPT ![i] = "left"],
         (Mark(i, s) /\ status[i] \in Statuses) \/ UNCHANGED <<status, journal>>,
         UNCHANGED <<clock, next, proposed, call, confirmed, calls>>
  PROVE  DispatchInv'
<1> USE DEF DispatchInv
<1>1. /\ status' \in [Ids -> Statuses \cup {"none", "gone"}]
      /\ \A j \in Ids : status'[j] = status[j]
                        \/ (j = i /\ status'[j] = s /\ status[j] \in Statuses)
      /\ journal' \subseteq Ids \X Statuses
      /\ \A j \in Ids : \A r \in Statuses \ {s} :
           <<j, r>> \in journal' <=> <<j, r>> \in journal
  <2>1. CASE Mark(i, s) /\ status[i] \in Statuses
    <3>1. s \in Statuses
      BY DEF Statuses
    <3>2. /\ status' \in [Ids -> Statuses \cup {"none", "gone"}]
          /\ \A j \in Ids : status'[j] = IF j = i THEN s ELSE status[j]
          /\ journal' \subseteq Ids \X Statuses
          /\ \A j \in Ids : \A r \in Statuses :
               <<j, r>> \in journal' <=> <<j, r>> \in journal \/ (j = i /\ r = s)
      BY <2>1, <3>1, MarkEffect
    <3> QED BY <2>1, <3>2
  <2>2. CASE UNCHANGED <<status, journal>>
    BY <2>2 DEF TypeOK
  <2> QED BY <2>1, <2>2
<1>2. TypeOK'
  BY <1>1 DEF TypeOK
<1>3. Numbered'
  BY <1>1 DEF Numbered, Statuses
<1>4. OneHandler'
  BY <1>1 DEF OneHandler, TypeOK
<1>5. HandlerIsFresh'
  BY <1>1 DEF HandlerIsFresh, TypeOK, Statuses
<1>6. RefusedUnhandled'
  BY <1>1 DEF RefusedUnhandled, TypeOK, Statuses
<1> QED BY <1>2, <1>3, <1>4, <1>5, <1>6

\* Every step of the queue and of the handlers preserves the invariant.
LEMMA StepDispatch == DispatchInv /\ [Next]_vars => DispatchInv'
<1> SUFFICES ASSUME DispatchInv, [Next]_vars PROVE DispatchInv'
  OBVIOUS
<1> USE PendingAssumption DEF DispatchInv, Ids
<1>1. CASE Propose
  <2>1. next \in Ids /\ status[next] = "none"
    BY <1>1 DEF Propose, TypeOK, Numbered
  <2>2. /\ handler' = handler /\ calls' = calls /\ confirmed' = confirmed /\ call' = call
        /\ clock' = clock /\ next' = next + 1
        /\ proposed' = [proposed EXCEPT ![next] = clock]
        /\ status' = [i \in Ids |-> IF i = next THEN "pending"
                                    ELSE IF i \in ToEvict THEN "gone" ELSE SweptStatus(i)]
        /\ journal' = journal \cup SweptRows \cup {<<i, "expired">> : i \in ToEvict}
                              \cup {<<next, "pending">>}
    BY <1>1 DEF Propose, Swept
  <2>3. \A i \in ToEvict : i \in Ids /\ status[i] = "pending"
    <3>1. ToEvict \subseteq {i \in Ids : Swept[i] = "pending"}
      BY DEF ToEvict, Oldest, Pending
    <3> QED BY <3>1, SweptKeeps DEF Swept
  <2>4. TypeOK'
    <3>1. status' \in [Ids -> Statuses \cup {"none", "gone"}]
      BY <2>2, SweptKeeps DEF Statuses
    <3>2. /\ SweptRows \subseteq Ids \X Statuses
          /\ {<<i, "expired">> : i \in ToEvict} \subseteq Ids \X Statuses
          /\ {<<next, "pending">>} \subseteq Ids \X Statuses
      BY <2>1, <2>3 DEF SweptRows, Statuses
    <3>3. journal' \subseteq Ids \X Statuses
      BY <2>2, <3>2 DEF TypeOK
    <3> QED BY <2>1, <2>2, <3>1, <3>3 DEF TypeOK
  <2>5. Numbered'
    <3> SUFFICES ASSUME NEW i \in Ids, i >= next' PROVE status'[i] = "none"
      BY DEF Numbered
    <3>1. i >= next /\ i # next
      BY <2>2 DEF TypeOK
    <3>2. status[i] = "none"
      BY <3>1 DEF Numbered
    <3>3. i \notin ToEvict
      BY <3>2, <2>3
    <3> QED BY <2>2, <3>1, <3>2, <3>3, SweptKeeps
  <2>6. OneHandler'
    <3> SUFFICES ASSUME NEW i \in Ids, status'[i] \in {"none", "pending"}
                 PROVE  handler[i] = "none"
      BY <2>2 DEF OneHandler
    <3>1. status[i] \in {"none", "pending"}
      BY <2>1, <2>2, SweptKeeps
    <3> QED BY <3>1 DEF OneHandler
  <2>7. HandlerIsFresh'
    <3> SUFFICES ASSUME NEW i \in Ids, handler[i] # "none"
                 PROVE  proposed'[i] = proposed[i]
      BY <2>2 DEF HandlerIsFresh
    <3>1. i # next
      BY <2>1 DEF OneHandler
    <3> QED BY <2>2, <3>1 DEF TypeOK
  <2>8. RefusedUnhandled'
    <3> SUFFICES ASSUME NEW i \in Ids,
                        <<i, "rejected">> \in journal' \/ <<i, "expired">> \in journal'
                 PROVE  handler[i] = "none" /\ status'[i] \notin {"none", "pending"}
      BY <2>2 DEF RefusedUnhandled
    <3>1. CASE <<i, "rejected">> \in journal \/ <<i, "expired">> \in journal
      <4>1. handler[i] = "none" /\ status[i] \notin {"none", "pending"}
        BY <3>1 DEF RefusedUnhandled
      <4>2. i # next
        BY <4>1, <2>1
      <4> QED BY <4>1, <4>2, <2>2, SweptKeeps
    <3>2. CASE i \in ToEvict
      BY <3>2, <2>1, <2>2, <2>3 DEF OneHandler
    <3>3. CASE status[i] = "pending" /\ IsExpired(i)
      <4>1. SweptStatus(i) \notin {"none", "pending"}
        BY <3>3, SweptKeeps
      <4> QED BY <3>3, <4>1, <2>1, <2>2 DEF OneHandler
    <3> QED BY <2>2, <3>1, <3>2, <3>3 DEF SweptRows
  <2> QED BY <2>4, <2>5, <2>6, <2>7, <2>8
<1>2. CASE List
  <2>1. /\ status' = [i \in Ids |-> SweptStatus(i)]
        /\ journal' = journal \cup SweptRows
        /\ UNCHANGED <<clock, next, proposed, handler, call, confirmed, calls>>
    BY <1>2 DEF List, Swept
  <2>2. TypeOK'
    <3>1. status' \in [Ids -> Statuses \cup {"none", "gone"}]
      BY <2>1, SweptKeeps
    <3>2. journal' \subseteq Ids \X Statuses
      BY <2>1 DEF TypeOK, SweptRows, Statuses
    <3> QED BY <2>1, <3>1, <3>2 DEF TypeOK
  <2>3. Numbered' /\ OneHandler' /\ HandlerIsFresh'
    BY <2>1, SweptKeeps DEF Numbered, OneHandler, HandlerIsFresh
  <2>4. RefusedUnhandled'
    <3> SUFFICES ASSUME NEW i \in Ids,
                        <<i, "rejected">> \in journal' \/ <<i, "expired">> \in journal'
                 PROVE  handler[i] = "none" /\ status'[i] \notin {"none", "pending"}
      BY <2>1 DEF RefusedUnhandled
    <3>1. CASE <<i, "rejected">> \in journal \/ <<i, "expired">> \in journal
      BY <3>1, <2>1, SweptKeeps DEF RefusedUnhandled
    <3>2. CASE status[i] = "pending" /\ IsExpired(i)
      BY <3>2, <2>1, SweptKeeps DEF OneHandler
    <3> QED BY <2>1, <3>1, <3>2 DEF SweptRows
  <2> QED BY <2>2, <2>3, <2>4
<1>3. CASE Tick
  <2>1. TypeOK'
    BY <1>3 DEF Tick, TypeOK
  <2>2. Numbered' /\ OneHandler'
    BY <1>3 DEF Tick, Numbered, OneHandler
  <2>3. HandlerIsFresh' /\ RefusedUnhandled'
    BY <1>3 DEF Tick, HandlerIsFresh, RefusedUnhandled
  <2> QED BY <2>1, <2>2, <2>3
<1>4. ASSUME NEW i \in Ids, Confirm(i) PROVE DispatchInv'
  <2>1. CASE IsExpired(i)
    <3>1. Mark(i, "expired") /\ status[i] = "pending"
          /\ UNCHANGED <<clock, next, proposed, handler, call, confirmed, calls>>
      BY <1>4, <2>1 DEF Confirm
    <3> QED BY <3>1, MarkRefused
  <2>2. CASE ~IsExpired(i)
    <3>1. /\ Mark(i, "confirmed") /\ status[i] = "pending"
          /\ handler' = [handler EXCEPT ![i] = "dispatching"]
          /\ confirmed' = [confirmed EXCEPT ![i] = clock]
          /\ UNCHANGED <<clock, next, proposed, call, calls>>
          /\ clock <= proposed[i] + TTL
      <4>1. clock \in Nat /\ proposed[i] \in Nat /\ TTL \in Nat
        BY PendingAssumption DEF TypeOK
      <4>2. clock <= proposed[i] + TTL
        BY <2>2, <4>1 DEF IsExpired
      <4> QED BY <1>4, <2>2, <4>2 DEF Confirm
    <3>2. /\ status' \in [Ids -> Statuses \cup {"none", "gone"}]
          /\ \A j \in Ids : status'[j] = IF j = i THEN "confirmed" ELSE status[j]
          /\ journal' \subseteq Ids \X Statuses
          /\ \A j \in Ids : \A r \in Statuses :
               <<j, r>> \in journal' <=> <<j, r>> \in journal \/ (j = i /\ r = "confirmed")
      <4>1. "confirmed" \in Statuses
        BY DEF Statuses
      <4> QED BY <3>1, <4>1, MarkEffect
    <3>3. TypeOK'
      BY <3>1, <3>2 DEF TypeOK
    <3>4. Numbered' /\ OneHandler'
      BY <3>1, <3>2 DEF TypeOK, Numbered, OneHandler
    <3>5. HandlerIsFresh'
      BY <3>1, <3>2 DEF TypeOK, HandlerIsFresh, Statuses
    <3>6. RefusedUnhandled'
      BY <3>1, <3>2 DEF TypeOK, RefusedUnhandled, Statuses
    <3> QED BY <3>3, <3>4, <3>5, <3>6
  <2> QED BY <2>1, <2>2
<1>5. ASSUME NEW i \in Ids, Reject(i) PROVE DispatchInv'
  BY <1>5, MarkRefused DEF Reject
<1>6. ASSUME NEW i \in Ids, RefuseVolume(i) PROVE DispatchInv'
  <2>1. /\ handler[i] = "dispatching"
        /\ handler' = [handler EXCEPT ![i] = "left"]
        /\ UNCHANGED <<clock, next, proposed, call, confirmed, calls>>
    BY <1>6 DEF RefuseVolume
  <2>2. \/ Mark(i, "failed") /\ status[i] \in Statuses
        \/ UNCHANGED <<status, journal>>
    BY <1>6 DEF RefuseVolume, MarkCompleted
  <2> QED BY <2>1, <2>2, HandlerEnds DEF Statuses
<1>7. ASSUME NEW i \in Ids, StartCall(i) PROVE DispatchInv'
  <2>1. TypeOK'
    <3>1. calls' \in [Ids -> Nat]
      <4>1. calls \in [Ids -> Nat] /\ calls' = [calls EXCEPT ![i] = calls[i] + 1]
        BY <1>7 DEF StartCall, TypeOK
      <4>2. calls[i] + 1 \in Nat
        BY <4>1
      <4> QED BY <4>1, <4>2
    <3>2. /\ handler' \in [Ids -> {"none", "dispatching", "awaiting", "left"}]
          /\ call' \in [Ids -> {"none", "running", "ok", "error"}]
      BY <1>7 DEF StartCall, TypeOK
    <3> QED BY <1>7, <3>1, <3>2 DEF StartCall, TypeOK
  <2>2. Numbered' /\ OneHandler'
    BY <1>7 DEF StartCall, TypeOK, Numbered, OneHandler
  <2>3. \A j \in Ids : handler'[j] = IF j = i THEN "awaiting" ELSE handler[j]
    BY <1>7 DEF StartCall, TypeOK
  <2>4. HandlerIsFresh'
    BY <1>7, <2>3 DEF StartCall, HandlerIsFresh
  <2>5. RefusedUnhandled'
    BY <1>7, <2>3 DEF StartCall, RefusedUnhandled
  <2> QED BY <2>1, <2>2, <2>4, <2>5
<1>8. ASSUME NEW i \in Ids, CallEnds(i) PROVE DispatchInv'
  BY <1>8 DEF CallEnds, TypeOK, Numbered, OneHandler, HandlerIsFresh, RefusedUnhandled
<1>9. ASSUME NEW i \in Ids, Complete(i) PROVE DispatchInv'
  <2>1. /\ handler[i] = "awaiting"
        /\ handler' = [handler EXCEPT ![i] = "left"]
        /\ UNCHANGED <<clock, next, proposed, call, confirmed, calls>>
    BY <1>9 DEF Complete
  <2>2. \/ (Mark(i, "executed") \/ Mark(i, "failed")) /\ status[i] \in Statuses
        \/ UNCHANGED <<status, journal>>
    BY <1>9 DEF Complete, MarkCompleted
  <2> QED BY <2>1, <2>2, HandlerEnds DEF Statuses
<1>10. ASSUME NEW i \in Ids, Disconnect(i) PROVE DispatchInv'
  BY <1>10 DEF Disconnect, TypeOK, Numbered, OneHandler, HandlerIsFresh, RefusedUnhandled
<1>11. CASE UNCHANGED vars
  BY <1>11 DEF vars, TypeOK, Numbered, OneHandler, HandlerIsFresh, RefusedUnhandled
<1> QED
  BY <1>1, <1>2, <1>3, <1>4, <1>5, <1>6, <1>7, <1>8, <1>9, <1>10, <1>11 DEF Next

\* The invariant holds in every reachable state.
LEMMA Dispatch == Spec => []DispatchInv
  BY InitDispatch, StepDispatch, PTL DEF Spec

\* Racing confirmations, rejections, sweeps and evictions never send an action
\* to the broker twice (mark_confirmed's status check under the queue's mutex).
THEOREM SentAtMostOnce == Spec => []AtMostOneCall
<1>1. DispatchInv => AtMostOneCall
  BY DEF DispatchInv, OneHandler, AtMostOneCall
<1> QED BY <1>1, Dispatch, PTL

\* An action that was sent was confirmed inside its time to live and was never
\* rejected, expired or evicted before.
THEOREM SentOnlyFresh == Spec => []OnlyFreshConfirmedSent
<1>1. DispatchInv => OnlyFreshConfirmedSent
  BY DEF DispatchInv, TypeOK, OneHandler, HandlerIsFresh, RefusedUnhandled,
         OnlyFreshConfirmedSent, Ids
<1> QED BY <1>1, Dispatch, PTL
-----------------------------------------------------------------------------
(* The cap: a proposal into a full queue pushes out at least one row.      *)

\* A set of naturals that is not empty has a smallest element.
LEMMA Smallest ==
  ASSUME NEW T \in SUBSET Nat, T # {}
  PROVE  \E x \in T : \A y \in T : x <= y
<1> DEFINE R == OpToRel(<, Nat)
<1>1. IsWellFoundedOn(R, Nat)
  BY NatLessThanWellFounded
<1>2. \A x, y \in Nat : y < x => <<y, x>> \in R
  BY DEF OpToRel
<1> HIDE DEF R
<1>3. PICK x \in T : \A y \in T : ~ (<<y, x>> \in R)
  BY <1>1, WFMin
<1>4. \A y \in T : x \in Nat /\ y \in Nat /\ ~(y < x)
  BY <1>2, <1>3
<1> QED BY <1>4

\* The pending rows are finitely many, and fewer of them keep the cap.
LEMMA PendingFinite ==
  ASSUME NEW st
  PROVE  /\ IsFiniteSet(Pending(st)) /\ Cardinality(Pending(st)) \in Nat
         /\ Pending(st) \subseteq Ids /\ Ids \subseteq Nat
<1>1. IsFiniteSet(Ids) /\ Ids \subseteq Nat
  BY PendingAssumption, FS_Interval DEF Ids
<1>2. Pending(st) \in SUBSET Ids
  BY DEF Pending
<1>3. IsFiniteSet(Pending(st))
  BY <1>1, <1>2, FS_Subset
<1> QED BY <1>1, <1>2, <1>3, FS_CardinalityType

\* A step that makes no row pending keeps the cap.
LEMMA FewerPending ==
  ASSUME PendingBounded, Pending(status') \subseteq Pending(status)
  PROVE  PendingBounded'
<1>1. IsFiniteSet(Pending(status)) /\ Cardinality(Pending(status)) \in Nat
      /\ Cardinality(Pending(status')) \in Nat
  BY PendingFinite
<1>2. Cardinality(Pending(status')) <= Cardinality(Pending(status))
  BY <1>1, FS_Subset
<1> QED BY <1>1, <1>2, PendingAssumption DEF PendingBounded, Pending, Ids

\* The queue starts empty.
LEMMA InitCap == Init => PendingBounded
<1> SUFFICES ASSUME Init PROVE PendingBounded
  OBVIOUS
<1>1. Pending(status) = {}
  BY DEF Init, Pending
<1> QED BY <1>1, FS_EmptySet, PendingAssumption DEF PendingBounded

\* Every step keeps the cap.
LEMMA StepCap == DispatchInv /\ PendingBounded /\ [Next]_vars => PendingBounded'
<1> SUFFICES ASSUME DispatchInv, PendingBounded, [Next]_vars PROVE PendingBounded'
  OBVIOUS
<1>0. TypeOK
  BY DEF DispatchInv
<1>1. Pending(Swept) \subseteq Pending(status)
  BY <1>0, SweptKeeps DEF Pending, Swept
<1>2. CASE Propose
  <2> DEFINE P == Pending(Swept)
  <2>1. /\ P \subseteq Pending(status) /\ IsFiniteSet(P) /\ Cardinality(P) \in Nat
        /\ P \subseteq Nat
    BY <1>1, PendingFinite
  <2>2. IsFiniteSet(Pending(status)) /\ Cardinality(Pending(status)) \in Nat
    BY PendingFinite
  <2>3. Cardinality(P) <= Cardinality(Pending(status)) /\ Cardinality(Pending(status)) <= MaxPending
    BY <2>1, <2>2, FS_Subset DEF PendingBounded
  <2>4. \E E \in SUBSET P :
          /\ E \cap ToEvict = {} /\ IsFiniteSet(E) /\ Cardinality(E) \in Nat
          /\ Cardinality(E) < MaxPending
          /\ P \ ToEvict \subseteq E
    <3>1. CASE Cardinality(P) >= MaxPending
      <4>1. ToEvict = Oldest(Swept)
        BY <3>1 DEF ToEvict
      <4>2. P # {}
        BY <3>1, FS_EmptySet, PendingAssumption
      <4>3. PICK x \in P : \A y \in P : x <= y
        BY <2>1, <4>2, Smallest
      <4>4. x \in ToEvict
        BY <4>1, <4>3 DEF Oldest
      <4>5. IsFiniteSet(P \ {x}) /\ Cardinality(P \ {x}) = Cardinality(P) - 1
        BY <2>1, FS_RemoveElement
      <4>6. P \ ToEvict \in SUBSET (P \ {x})
        BY <4>4
      <4>7. /\ IsFiniteSet(P \ ToEvict) /\ Cardinality(P \ ToEvict) \in Nat
            /\ Cardinality(P \ ToEvict) <= Cardinality(P \ {x})
        BY <4>5, <4>6, FS_Subset, FS_CardinalityType
      <4>8. Cardinality(P \ ToEvict) < MaxPending
        BY <2>1, <2>2, <2>3, <4>5, <4>7, PendingAssumption
      <4> QED BY <4>7, <4>8
    <3>2. CASE ~(Cardinality(P) >= MaxPending)
      <4>1. ToEvict = {}
        BY <3>2 DEF ToEvict
      <4>2. Cardinality(P) < MaxPending
        BY <2>1, <3>2, PendingAssumption
      <4> QED BY <2>1, <4>1, <4>2
    <3> QED BY <3>1, <3>2
  <2>5. PICK E \in SUBSET P :
          /\ IsFiniteSet(E) /\ Cardinality(E) \in Nat /\ Cardinality(E) < MaxPending
          /\ P \ ToEvict \subseteq E
    BY <2>4
  <2>6. Pending(status') \subseteq E \cup {next}
    <3> SUFFICES ASSUME NEW i \in Pending(status'), i # next PROVE i \in E
      OBVIOUS
    <3>1. i \in Ids /\ status'[i] = "pending"
      BY DEF Pending
    <3>2. i \notin ToEvict /\ Swept[i] = "pending"
      BY <1>2, <3>1 DEF Propose
    <3> QED BY <2>5, <3>1, <3>2 DEF Pending
  <2> HIDE DEF P
  <2>7. IsFiniteSet(E \cup {next}) /\ Cardinality(E \cup {next}) <= Cardinality(E) + 1
    <3>1. IsFiniteSet(E) /\ Cardinality(E) \in Nat
      BY <2>5
    <3>2. /\ IsFiniteSet(E \cup {next})
          /\ Cardinality(E \cup {next})
               = IF next \in E THEN Cardinality(E) ELSE Cardinality(E) + 1
      BY <3>1, FS_AddElement
    <3> QED BY <3>1, <3>2
  <2>8. /\ Cardinality(Pending(status')) <= Cardinality(E \cup {next})
        /\ Cardinality(Pending(status')) \in Nat /\ Cardinality(E \cup {next}) \in Nat
    BY <2>6, <2>7, FS_Subset, FS_CardinalityType, PendingFinite
  <2>9. Cardinality(Pending(status')) <= MaxPending
    BY <2>5, <2>7, <2>8, PendingAssumption
  <2> QED BY <2>9 DEF PendingBounded, Pending, Ids
<1>3. CASE List
  BY <1>1, <1>3, FewerPending DEF List
<1>4. ASSUME NEW i \in Ids,
             Confirm(i) \/ Reject(i) \/ RefuseVolume(i) \/ Complete(i)
      PROVE  PendingBounded'
  <2>1. \/ status' = status
        \/ \E s \in Statuses \ {"pending"} : status' = [status EXCEPT ![i] = s]
    BY <1>4 DEF Confirm, Reject, RefuseVolume, Complete, MarkCompleted, Mark, Statuses
  <2>2. Pending(status') \subseteq Pending(status)
    BY <1>0, <2>1 DEF Pending, TypeOK
  <2> QED BY <2>2, FewerPending
<1>5. CASE \/ Tick \/ UNCHANGED vars
           \/ \E i \in Ids : StartCall(i) \/ CallEnds(i) \/ Disconnect(i)
  <2>1. status' = status
    BY <1>5 DEF Tick, vars, StartCall, CallEnds, Disconnect
  <2> QED BY <2>1, FewerPending
<1> QED BY <1>2, <1>3, <1>4, <1>5 DEF Next

\* propose keeps the queue within MAX_PENDING_ACTIONS: sweep, eviction and append
\* are one critical section.
THEOREM PendingStaysBounded == Spec => []PendingBounded
  BY InitCap, StepCap, Dispatch, PTL DEF Spec
=============================================================================
