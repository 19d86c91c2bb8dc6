------------------------ MODULE EntryAuthorityProofs ------------------------
(***************************************************************************)
(* Proofs about EntryAuthority, for any number of engines, orders and      *)
(* days, with failing checkpoint writes and crashes:                       *)
(*   - type correctness;                                                   *)
(*   - every order that may have reached the broker is durable;            *)
(*   - no two orders of the account are unresolved at once;                *)
(*   - an uncertain intent is never dropped;                               *)
(*   - the refinement of SerialOrders;                                     *)
(*   - the durable count covers every order sent, and no day exceeds its   *)
(*     cap, as long as no day went back;                                   *)
(*   - the positions open at once exceed the budget by at most one for     *)
(*     every further engine.                                               *)
(* The inductive invariants are DurabilityInv, RefinementInv, CountInv and *)
(* BudgetInv; one step per action shows that each is preserved.            *)
(***************************************************************************)
EXTENDS EntryAuthority, FiniteSetTheorems, TLAPS

\* What a worker reads as the number of open positions is a natural number.
LEMMA OpenCountIsNat == Cardinality(OpenPositions) \in Nat
<1>1. IsFiniteSet(OrderIds)
  BY ConstantsAssumption
<1>2. OpenPositions \subseteq OrderIds
  BY DEF OpenPositions
<1> QED
  BY <1>1, <1>2, FS_Subset, FS_CardinalityType

\* The checkpoint a restart may read, and every rewrite of it, is well formed.
LEMMA CheckpointTypes ==
  /\ EmptyCheckpoint \in Checkpoint
  /\ \A m \in Checkpoint :
       /\ \A d \in Days : [m EXCEPT !.day = d, !.count = 0] \in Checkpoint
       /\ \A n \in Nat : [m EXCEPT !.count = n] \in Checkpoint
       /\ \A o \in OrderIds, d \in Days :
            [m EXCEPT !.intent = [id |-> o, day |-> d, accepted |-> FALSE]] \in Checkpoint
       /\ \A n \in Nat : [m EXCEPT !.intent = NoIntent, !.count = n] \in Checkpoint
       /\ \A o \in OrderIds : [m EXCEPT !.intent = NoIntent, !.last = o] \in Checkpoint
       /\ m.intent.id \in OrderIds => [m EXCEPT !.intent.accepted = TRUE] \in Checkpoint
<1>1. EmptyCheckpoint \in Checkpoint
  BY ConstantsAssumption DEF EmptyCheckpoint, Checkpoint
<1>2. ASSUME NEW m \in Checkpoint, NEW d \in Days PROVE [m EXCEPT !.day = d, !.count = 0] \in Checkpoint
  <2>1. d \in 0..MaxDay
    BY ConstantsAssumption DEF Days
  <2> QED
    BY <2>1 DEF Checkpoint
<1>3. ASSUME NEW m \in Checkpoint, NEW n \in Nat PROVE [m EXCEPT !.count = n] \in Checkpoint
  BY DEF Checkpoint
<1>4. ASSUME NEW m \in Checkpoint, NEW o \in OrderIds, NEW d \in Days
      PROVE  [m EXCEPT !.intent = [id |-> o, day |-> d, accepted |-> FALSE]] \in Checkpoint
  <2>1. [id |-> o, day |-> d, accepted |-> FALSE] \in Intent
    BY DEF Intent
  <2> QED
    BY <2>1 DEF Checkpoint
<1>5. ASSUME NEW m \in Checkpoint, NEW n \in Nat PROVE [m EXCEPT !.intent = NoIntent, !.count = n] \in Checkpoint
  BY DEF Checkpoint
<1>6. ASSUME NEW m \in Checkpoint, NEW o \in OrderIds PROVE [m EXCEPT !.intent = NoIntent, !.last = o] \in Checkpoint
  BY DEF Checkpoint
<1>7. ASSUME NEW m \in Checkpoint, m.intent.id \in OrderIds
      PROVE [m EXCEPT !.intent.accepted = TRUE] \in Checkpoint
  <2>1. m.intent \in Intent
    BY <1>7, ConstantsAssumption DEF Checkpoint, NoIntent
  <2>2. [m.intent EXCEPT !.accepted = TRUE] \in Intent
    BY <2>1 DEF Intent
  <2> QED
    BY <2>2 DEF Checkpoint
<1> QED
  BY <1>1, <1>2, <1>3, <1>4, <1>5, <1>6, <1>7

\* An intent is absent exactly when its clientOrderId is.
LEMMA AbsentIntent ==
  \A m \in Checkpoint : m.intent = NoIntent <=> m.intent.id = NoOrder
  BY ConstantsAssumption DEF Checkpoint, Intent, NoIntent

\* prepare_day changes the day and the count, never the intent.
LEMMA PrepareDayEffect ==
  ASSUME mem \in Checkpoint, disk \in Checkpoint, NEW d \in Days, NEW ok \in BOOLEAN,
         PrepareDay(d, ok)
  PROVE  /\ mem' \in Checkpoint /\ disk' \in Checkpoint
         /\ mem'.intent = mem.intent
         /\ disk'.intent \in {disk.intent, mem.intent}
         /\ file' \in {file, "entryV2"}
<1>1. CASE UNCHANGED <<mem, disk, file>>
  BY <1>1
<1>2. CASE Persist([mem EXCEPT !.day = d, !.count = 0])
  <2>1. [mem EXCEPT !.day = d, !.count = 0] \in Checkpoint
    BY CheckpointTypes
  <2> QED
    BY <1>2, <2>1 DEF Persist, Checkpoint
<1> QED
  BY <1>1, <1>2 DEF PrepareDay, Untouched, RolledBack

\* A step of running engines that sends and confirms nothing, keeps the intent
\* in memory and writes at most that intent to disk, preserves the invariant;
\* an attempt may only end, not begin to own an intent.
LEMMA KeepsIntent ==
  ASSUME DurabilityInv, TypeOK', loaded, loaded', file = "entryV2", file' = "entryV2",
         mem'.intent.id = mem.intent.id,
         disk'.intent.id \in {disk.intent.id, mem.intent.id},
         UNCHANGED <<sentDay, verified>>,
         \A v \in Workers :
           /\ order'[v] \in {order[v], NoOrder}
           /\ pc'[v] \in {"intent", "sent"} => pc'[v] = pc[v] /\ order'[v] = order[v]
           /\ pc[v] = "sent" => pc'[v] = "sent" \/ order'[v] = NoOrder
           /\ pc'[v] # "down" => wday'[v] \in Days
  PROVE  DurabilityInv'
<1>1. Sent' = Sent
  BY DEF Sent
<1>2. disk'.intent.id \in {NoOrder, mem.intent.id}
  BY DEF DurabilityInv, DiskIntentInMemory
<1>3. \A o \in Sent \ verified : disk'.intent.id = o
  <2>1. \A o \in Sent \ verified : disk.intent.id = o /\ o # NoOrder
    BY ConstantsAssumption DEF DurabilityInv, SentIsDurable, Sent
  <2> QED
    BY <2>1 DEF DurabilityInv, DiskIntentInMemory
<1>4. AttemptOwnsIntent'
  <2> SUFFICES ASSUME NEW v \in Workers
               PROVE  /\ pc'[v] \in {"intent", "sent"} =>
                           /\ order'[v] \in OrderIds
                           /\ disk'.intent.id = order'[v]
                           /\ mem'.intent.id = order'[v]
                      /\ pc'[v] # "down" => wday'[v] \in Days
                      /\ pc'[v] # "sent" => order'[v] \notin Sent'
    BY DEF AttemptOwnsIntent
  <2>1. NoOrder \notin Sent
    BY ConstantsAssumption DEF Sent
  <2> QED
    BY <1>1, <2>1 DEF DurabilityInv, AttemptOwnsIntent
<1>5. OrdersDistinct'
  BY DEF DurabilityInv, OrdersDistinct
<1> QED
  BY <1>1, <1>2, <1>3, <1>4, <1>5
     DEF DurabilityInv, LegacyQuiet, LoadedWhenRunning, DiskIntentInMemory, SentIsDurable

\* The invariant holds before any engine starts, legacy checkpoints included.
LEMMA InitDurable == Init => DurabilityInv
<1> SUFFICES ASSUME Init PROVE DurabilityInv
  OBVIOUS
<1>a. PICK n \in 0..1 : \E old \in LegacyOrders(file, n) :
           /\ disk = IF file \in {"entryV1", "riskV1"}
                     THEN [EmptyCheckpoint EXCEPT !.day = 1, !.count = n]
                     ELSE EmptyCheckpoint
           /\ sentDay = [o \in OrderIds |-> IF o \in old THEN 1 ELSE 0]
           /\ broker = [o \in OrderIds |-> IF o \in old THEN "sent" ELSE "none"]
  BY DEF Init
<1>b. PICK old \in LegacyOrders(file, n) :
           /\ sentDay = [o \in OrderIds |-> IF o \in old THEN 1 ELSE 0]
           /\ broker = [o \in OrderIds |-> IF o \in old THEN "sent" ELSE "none"]
  BY <1>a
<1>1. disk \in Checkpoint /\ disk.intent = NoIntent
  <2>1. 1 \in Days /\ n \in Nat
    BY ConstantsAssumption DEF Days
  <2>2. [EmptyCheckpoint EXCEPT !.day = 1, !.count = 0] \in Checkpoint
    BY <2>1, CheckpointTypes
  <2>3. [EmptyCheckpoint EXCEPT !.day = 1, !.count = n] \in Checkpoint
    BY <2>1, <2>2 DEF Checkpoint, EmptyCheckpoint
  <2>4. disk \in Checkpoint
    BY <1>a, <2>3, CheckpointTypes
  <2> QED
    BY <1>a, <2>4 DEF EmptyCheckpoint
<1>2. TypeOK
  <2>1. 1 \in Days /\ 1 \in 0..MaxDay /\ 0 \in 0..MaxDay
    BY ConstantsAssumption DEF Days
  <2> QED
    BY <1>1, <1>b, <2>1, CheckpointTypes DEF Init, TypeOK
<1>3. LegacyQuiet
  <2>1. ASSUME Restorable PROVE Sent = {}
    <3>1. n = 0 \/ file \notin {"entryV1", "riskV1"}
      BY <1>a, <2>1 DEF Init, Restorable, EmptyCheckpoint
    <3>2. old = {}
      BY <3>1 DEF LegacyOrders
    <3> QED
      BY <1>b, <3>2 DEF Sent
  <2> QED
    BY <1>1, <2>1 DEF Init, LegacyQuiet
<1>4. AttemptOwnsIntent
  BY ConstantsAssumption DEF Init, AttemptOwnsIntent, Sent
<1> QED
  BY <1>2, <1>3, <1>4 DEF Init, DurabilityInv, LoadedWhenRunning, DiskIntentInMemory,
                          OrdersDistinct, SentIsDurable

\* Every step of the engines, the broker, the clock and a crash preserves it.
LEMMA StepDurable == DurabilityInv /\ [Next]_vars => DurabilityInv'
<1> SUFFICES ASSUME DurabilityInv, [Next]_vars PROVE DurabilityInv'
  OBVIOUS
<1> USE ConstantsAssumption DEF DurabilityInv, authVars, workerVars, brokerVars
<1>1. ASSUME NEW w \in Workers, Start(w) PROVE DurabilityInv'
  <2>1. TypeOK'
    <3>1. mem' \in Checkpoint /\ disk' \in Checkpoint /\ file' \in {file, "entryV2"}
      BY <1>1 DEF Start, AcquireEntry, TypeOK, Persist
    <3>2. unresolved' \in [Workers -> BOOLEAN]
      BY <1>1 DEF Start, TypeOK
    <3>3. wday' \in [Workers -> 0..MaxDay]
      BY <1>1 DEF Start, TypeOK, Days
    <3> QED
      BY <1>1, <3>1, <3>2, <3>3 DEF Start, AcquireEntry, TypeOK, Goto
  <2>2. CASE loaded
    BY <1>1, <2>1, <2>2 DEF Start, AcquireEntry, TypeOK, Goto, LegacyQuiet, LoadedWhenRunning,
       DiskIntentInMemory, AttemptOwnsIntent, OrdersDistinct, SentIsDurable, Sent, Restorable, Days
  <2>3. CASE ~loaded
    <3>1. loaded' /\ mem' = disk /\ disk' = disk /\ file' = "entryV2"
      BY <1>1, <2>3 DEF Start, AcquireEntry, Persist
    <3>2. \A o \in Sent \ verified : disk.intent.id = o
      BY <1>1, <2>3 DEF Start, AcquireEntry, LegacyQuiet, SentIsDurable
    <3>3. UNCHANGED <<sentDay, verified, order>>
      BY <1>1 DEF Start
    <3>4. \A v \in Workers : pc'[v] \in {"down", "starting"} /\ order[v] \notin Sent
                             /\ (pc'[v] # "down" => wday'[v] \in Days)
      BY <1>1, <2>3 DEF Start, Goto, LoadedWhenRunning, AttemptOwnsIntent, TypeOK
    <3>5. LegacyQuiet' /\ LoadedWhenRunning' /\ DiskIntentInMemory'
      BY <3>1 DEF LegacyQuiet, LoadedWhenRunning, DiskIntentInMemory
    <3>6. AttemptOwnsIntent'
      BY <3>3, <3>4 DEF AttemptOwnsIntent, Sent
    <3>7. OrdersDistinct' /\ SentIsDurable'
      BY <3>1, <3>2, <3>3 DEF OrdersDistinct, SentIsDurable, Sent
    <3> QED
      BY <2>1, <3>5, <3>6, <3>7
  <2> QED
    BY <2>2, <2>3
<1>2. ASSUME NEW w \in Workers, StartupPrepare(w) PROVE DurabilityInv'
  <2>1. loaded /\ file = "entryV2" /\ wday[w] \in Days
    BY <1>2 DEF StartupPrepare, Goto, LoadedWhenRunning, LegacyQuiet, AttemptOwnsIntent
  <2>2. PICK ok \in BOOLEAN : PrepareDay(IF Risky THEN today ELSE wday[w], ok)
    BY <1>2 DEF StartupPrepare
  <2>3. /\ mem' \in Checkpoint /\ disk' \in Checkpoint
        /\ mem'.intent = mem.intent
        /\ disk'.intent \in {disk.intent, mem.intent}
        /\ file' = "entryV2"
    BY <2>1, <2>2, PrepareDayEffect DEF TypeOK
  <2>4. TypeOK'
    BY <1>2, <2>3 DEF StartupPrepare, NoteDay, Goto, TypeOK
  <2> QED
    BY <1>2, <2>1, <2>3, <2>4, KeepsIntent DEF StartupPrepare, NoteDay, Goto, TypeOK, AttemptOwnsIntent
<1>3. ASSUME NEW w \in Workers, Stop(w) PROVE DurabilityInv'
  BY <1>3 DEF Stop, Goto, Persist, RolledBack, Untouched, TypeOK, Checkpoint, Intent,
       NoIntent, Days, LegacyQuiet, LoadedWhenRunning, DiskIntentInMemory,
       AttemptOwnsIntent, OrdersDistinct, SentIsDurable, Sent, Restorable
<1>4. ASSUME NEW w \in Workers, SampleDay(w) PROVE DurabilityInv'
  <2>1. loaded /\ file = "entryV2" /\ wday[w] \in Days
    BY <1>4 DEF SampleDay, Goto, LoadedWhenRunning, LegacyQuiet, AttemptOwnsIntent
  <2>2. TypeOK'
    BY <1>4, <2>1, OpenCountIsNat DEF SampleDay, Goto, Persist, RolledBack, Untouched, TypeOK, Days
  <2>3. LegacyQuiet' /\ LoadedWhenRunning' /\ DiskIntentInMemory'
    BY <1>4, <2>1, AbsentIntent DEF SampleDay, Goto, Persist, RolledBack, Untouched, TypeOK, Checkpoint,
       LegacyQuiet, LoadedWhenRunning, DiskIntentInMemory, NoIntent
  <2>4. AttemptOwnsIntent' /\ OrdersDistinct'
    BY <1>4, <2>1, AbsentIntent DEF SampleDay, Goto, Persist, RolledBack, Untouched, TypeOK, Checkpoint,
       AttemptOwnsIntent, DiskIntentInMemory, OrdersDistinct, Sent, NoIntent
  <2>5. SentIsDurable'
    BY <1>4, <2>1, AbsentIntent DEF SampleDay, Goto, Persist, RolledBack, Untouched, TypeOK, Checkpoint,
       AttemptOwnsIntent, DiskIntentInMemory, SentIsDurable, Sent, NoIntent
  <2> QED
    BY <2>2, <2>3, <2>4, <2>5
<1>5. ASSUME NEW w \in Workers, Abstain(w) PROVE DurabilityInv'
  BY <1>5 DEF Abstain, Goto, Persist, RolledBack, Untouched, TypeOK, Checkpoint, Intent,
       NoIntent, Days, LegacyQuiet, LoadedWhenRunning, DiskIntentInMemory,
       AttemptOwnsIntent, OrdersDistinct, SentIsDurable, Sent, Restorable
<1>6. ASSUME NEW w \in Workers, PrepareEntryDay(w) PROVE DurabilityInv'
  <2>1. loaded /\ file = "entryV2" /\ wday[w] \in Days
    BY <1>6 DEF PrepareEntryDay, Goto, LoadedWhenRunning, LegacyQuiet, AttemptOwnsIntent
  <2>2. PICK ok \in BOOLEAN : PrepareDay(wday[w], ok)
    BY <1>6 DEF PrepareEntryDay
  <2>3. /\ mem' \in Checkpoint /\ disk' \in Checkpoint
        /\ mem'.intent = mem.intent
        /\ disk'.intent \in {disk.intent, mem.intent}
        /\ file' = "entryV2"
    BY <2>1, <2>2, PrepareDayEffect DEF TypeOK
  <2>4. TypeOK'
    BY <1>6, <2>3 DEF PrepareEntryDay, NoteDay, Goto, TypeOK
  <2> QED
    BY <1>6, <2>1, <2>3, <2>4, KeepsIntent DEF PrepareEntryDay, NoteDay, Goto, TypeOK, AttemptOwnsIntent
<1>7. ASSUME NEW w \in Workers, TryReserveEntry(w) PROVE DurabilityInv'
  BY <1>7 DEF TryReserveEntry, MayReserve, Goto, Persist, RolledBack, Untouched, TypeOK, Checkpoint, Intent,
       NoIntent, Days, LegacyQuiet, LoadedWhenRunning, DiskIntentInMemory,
       AttemptOwnsIntent, OrdersDistinct, SentIsDurable, Sent, Restorable
<1>8. ASSUME NEW w \in Workers, RefuseReserved(w) PROVE DurabilityInv'
  BY <1>8 DEF RefuseReserved, ReleaseEntry, Goto, Persist, RolledBack, Untouched, TypeOK, Checkpoint, Intent,
       NoIntent, Days, LegacyQuiet, LoadedWhenRunning, DiskIntentInMemory,
       AttemptOwnsIntent, OrdersDistinct, SentIsDurable, Sent, Restorable
<1>9. ASSUME NEW w \in Workers, BeginSubmit(w) PROVE DurabilityInv'
  BY <1>9 DEF BeginSubmit, Goto, Persist, RolledBack, Untouched, TypeOK, Checkpoint, Intent,
       NoIntent, Days, LegacyQuiet, LoadedWhenRunning, DiskIntentInMemory,
       AttemptOwnsIntent, OrdersDistinct, SentIsDurable, Sent, Restorable
<1>10. ASSUME NEW w \in Workers, FinalCheck(w) PROVE DurabilityInv'
  BY <1>10 DEF FinalCheck, Goto, Persist, RolledBack, Untouched, TypeOK, Checkpoint, Intent,
       NoIntent, Days, LegacyQuiet, LoadedWhenRunning, DiskIntentInMemory,
       AttemptOwnsIntent, OrdersDistinct, SentIsDurable, Sent, Restorable
<1>11. ASSUME NEW w \in Workers, BeginSubmission(w) PROVE DurabilityInv'
  <2>1. loaded /\ file = "entryV2" /\ wday[w] \in Days
    BY <1>11 DEF BeginSubmission, Goto, LoadedWhenRunning, LegacyQuiet, AttemptOwnsIntent
  <2>2. TypeOK'
    <3>1. PICK o \in OrderIds :
            /\ order' = [order EXCEPT ![w] = o]
            /\ \/ Persist([mem EXCEPT !.intent = [id |-> o, day |-> wday[w], accepted |-> FALSE]])
               \/ /\ mem' = [mem EXCEPT !.intent = [id |-> o, day |-> wday[w], accepted |-> FALSE]]
                  /\ UNCHANGED <<disk, file>>
               \/ UNCHANGED <<mem, disk, file>>
            /\ marker' \in {o, marker}
      BY <1>11 DEF BeginSubmission, Untouched
    <3>2. [mem EXCEPT !.intent = [id |-> o, day |-> wday[w], accepted |-> FALSE]] \in Checkpoint
      BY <2>1, CheckpointTypes DEF TypeOK
    <3>3. mem' \in Checkpoint /\ disk' \in Checkpoint /\ file' = "entryV2"
      BY <2>1, <3>1, <3>2 DEF Persist, TypeOK
    <3> QED
      BY <1>11, <3>1, <3>3 DEF BeginSubmission, Goto, TypeOK
  <2>3. LegacyQuiet' /\ LoadedWhenRunning' /\ DiskIntentInMemory'
    BY <1>11, <2>1, AbsentIntent DEF BeginSubmission, Fresh, Goto, Persist, RolledBack, Untouched, TypeOK, Checkpoint,
       LegacyQuiet, LoadedWhenRunning, DiskIntentInMemory, NoIntent
  <2>4. AttemptOwnsIntent' /\ OrdersDistinct'
    BY <1>11, <2>1, AbsentIntent DEF BeginSubmission, Fresh, Goto, Persist, RolledBack, Untouched, TypeOK, Checkpoint,
       AttemptOwnsIntent, DiskIntentInMemory, OrdersDistinct, Sent, NoIntent
  <2>5. SentIsDurable'
    BY <1>11, <2>1, AbsentIntent DEF BeginSubmission, Fresh, Goto, Persist, RolledBack, Untouched, TypeOK, Checkpoint,
       AttemptOwnsIntent, DiskIntentInMemory, SentIsDurable, Sent, NoIntent
  <2> QED
    BY <2>2, <2>3, <2>4, <2>5
<1>12. ASSUME NEW w \in Workers, RefuseUnsent(w) PROVE DurabilityInv'
  BY <1>12 DEF RefuseUnsent, Goto, Persist, RolledBack, Untouched, TypeOK, Checkpoint, Intent,
       NoIntent, Days, LegacyQuiet, LoadedWhenRunning, DiskIntentInMemory,
       AttemptOwnsIntent, OrdersDistinct, SentIsDurable, Sent, Restorable
<1>13. ASSUME NEW w \in Workers, Send(w) PROVE DurabilityInv'
  BY <1>13 DEF Send, Goto, Persist, RolledBack, Untouched, TypeOK, Checkpoint, Intent,
       NoIntent, Days, LegacyQuiet, LoadedWhenRunning, DiskIntentInMemory,
       AttemptOwnsIntent, OrdersDistinct, SentIsDurable, Sent, Restorable
<1>14. ASSUME NEW w \in Workers, FinishUnsent(w) PROVE DurabilityInv'
  <2>1. loaded /\ file = "entryV2" /\ wday[w] \in Days
    BY <1>14 DEF FinishUnsent, Goto, LoadedWhenRunning, LegacyQuiet, AttemptOwnsIntent
  <2>2. TypeOK'
    <3>1. \/ UNCHANGED <<mem, disk, file>>
          \/ mem.count > 0 /\ Persist([mem EXCEPT !.count = @ - 1])
          \/ /\ mem.day = wday[w] => mem.count > 0
             /\ Persist([mem EXCEPT !.intent = NoIntent,
                                    !.count = IF mem.day = wday[w] THEN @ - 1 ELSE @])
      BY <1>14 DEF FinishUnsent, ReleaseUnsentEntry, ReleaseEntry, RolledBack, Untouched
    <3>2. mem.count \in Nat
      BY DEF TypeOK, Checkpoint
    <3>3. mem.count > 0 => [mem EXCEPT !.count = @ - 1] \in Checkpoint
      BY <3>2 DEF TypeOK, Checkpoint
    <3>4. (mem.day = wday[w] => mem.count > 0) =>
            [mem EXCEPT !.intent = NoIntent,
                        !.count = IF mem.day = wday[w] THEN @ - 1 ELSE @] \in Checkpoint
      <4>1. ASSUME mem.day = wday[w], mem.count > 0
            PROVE  [mem EXCEPT !.intent = NoIntent, !.count = @ - 1] \in Checkpoint
        <5>1. mem.count - 1 \in Nat
          BY <3>2, <4>1
        <5> QED
          BY <5>1 DEF TypeOK, Checkpoint
      <4>2. CASE mem.day # wday[w]
        BY <3>2, <4>2, CheckpointTypes DEF TypeOK
      <4> QED
        BY <4>1, <4>2
    <3>5. mem' \in Checkpoint /\ disk' \in Checkpoint /\ file' = "entryV2"
      BY <2>1, <3>1, <3>3, <3>4 DEF Persist, TypeOK
    <3> QED
      BY <1>14, <3>5 DEF FinishUnsent, ReleaseUnsentEntry, Goto, TypeOK
  <2>3. LegacyQuiet' /\ LoadedWhenRunning' /\ DiskIntentInMemory'
    BY <1>14, <2>1, AbsentIntent DEF FinishUnsent, ReleaseUnsentEntry, ReleaseEntry, Goto, Persist, RolledBack, Untouched, TypeOK, Checkpoint,
       LegacyQuiet, LoadedWhenRunning, DiskIntentInMemory, NoIntent
  <2>4. AttemptOwnsIntent' /\ OrdersDistinct'
    BY <1>14, <2>1, AbsentIntent DEF FinishUnsent, ReleaseUnsentEntry, ReleaseEntry, Goto, Persist, RolledBack, Untouched, TypeOK, Checkpoint,
       AttemptOwnsIntent, DiskIntentInMemory, OrdersDistinct, Sent, NoIntent
  <2>5. SentIsDurable'
    BY <1>14, <2>1, AbsentIntent DEF FinishUnsent, ReleaseUnsentEntry, ReleaseEntry, Goto, Persist, RolledBack, Untouched, TypeOK, Checkpoint,
       AttemptOwnsIntent, DiskIntentInMemory, SentIsDurable, Sent, NoIntent
  <2> QED
    BY <2>2, <2>3, <2>4, <2>5
<1>15. ASSUME NEW w \in Workers, ReplyVerified(w) PROVE DurabilityInv'
  <2>1. loaded /\ file = "entryV2" /\ wday[w] \in Days
    BY <1>15 DEF ReplyVerified, Goto, LoadedWhenRunning, LegacyQuiet, AttemptOwnsIntent
  <2>2. TypeOK'
    <3>1. order[w] \in OrderIds
      BY <1>15 DEF ReplyVerified, Goto, AttemptOwnsIntent
    <3>2. [mem EXCEPT !.intent = NoIntent, !.last = order[w]] \in Checkpoint
      BY <3>1, CheckpointTypes DEF TypeOK
    <3>3. mem' \in Checkpoint /\ disk' \in Checkpoint /\ file' = "entryV2"
      BY <1>15, <2>1, <3>2 DEF ReplyVerified, Confirm, ConfirmFailed, Persist, Untouched, TypeOK
    <3> QED
      BY <1>15, <3>1, <3>3 DEF ReplyVerified, Confirm, ConfirmFailed, Goto, TypeOK
  <2>3. LegacyQuiet' /\ LoadedWhenRunning' /\ DiskIntentInMemory'
    BY <1>15, <2>1, AbsentIntent DEF ReplyVerified, Confirm, ConfirmFailed, Goto, Persist, RolledBack, Untouched, TypeOK, Checkpoint,
       LegacyQuiet, LoadedWhenRunning, DiskIntentInMemory, NoIntent
  <2>4. AttemptOwnsIntent' /\ OrdersDistinct'
    BY <1>15, <2>1, AbsentIntent DEF ReplyVerified, Confirm, ConfirmFailed, Goto, Persist, RolledBack, Untouched, TypeOK, Checkpoint,
       AttemptOwnsIntent, DiskIntentInMemory, OrdersDistinct, Sent, NoIntent
  <2>5. SentIsDurable'
    BY <1>15, <2>1, AbsentIntent DEF ReplyVerified, Confirm, ConfirmFailed, Goto, Persist, RolledBack, Untouched, TypeOK, Checkpoint,
       AttemptOwnsIntent, DiskIntentInMemory, SentIsDurable, Sent, NoIntent
  <2> QED
    BY <2>2, <2>3, <2>4, <2>5
<1>16. ASSUME NEW w \in Workers, ReplyUnresolved(w) PROVE DurabilityInv'
  <2>1. loaded /\ file = "entryV2" /\ wday[w] \in Days
    BY <1>16 DEF ReplyUnresolved, Goto, LoadedWhenRunning, LegacyQuiet, AttemptOwnsIntent
  <2>2. order[w] \in OrderIds /\ mem.intent.id = order[w]
    BY <1>16 DEF ReplyUnresolved, Goto, AttemptOwnsIntent
  <2>3. /\ mem' \in Checkpoint /\ disk' \in Checkpoint
        /\ mem'.intent.id = mem.intent.id
        /\ disk'.intent.id \in {disk.intent.id, mem.intent.id}
        /\ file' = "entryV2"
    <3>1. CASE Untouched
      BY <2>1, <3>1 DEF Untouched, TypeOK
    <3>2. CASE RecordUnresolved(w)
      <4>1. [mem EXCEPT !.intent.accepted = TRUE] \in Checkpoint
        BY <2>2, CheckpointTypes DEF TypeOK
      <4>2. [mem EXCEPT !.intent.accepted = TRUE].intent.id = mem.intent.id
        BY ConstantsAssumption DEF TypeOK, Checkpoint, Intent, NoIntent
      <4> QED
        BY <2>1, <3>2, <4>1, <4>2 DEF RecordUnresolved, Persist, TypeOK
    <3> QED
      BY <1>16, <3>1, <3>2 DEF ReplyUnresolved
  <2>4. TypeOK'
    BY <1>16, <2>3 DEF ReplyUnresolved, Goto, TypeOK
  <2> QED
    BY <1>16, <2>1, <2>3, <2>4, KeepsIntent DEF ReplyUnresolved, Goto, TypeOK, AttemptOwnsIntent
<1>17. ASSUME NEW w \in Workers, FinalizeClose(w) PROVE DurabilityInv'
  BY <1>17 DEF FinalizeClose, Goto, Persist, RolledBack, Untouched, TypeOK, Checkpoint, Intent,
       NoIntent, Days, LegacyQuiet, LoadedWhenRunning, DiskIntentInMemory,
       AttemptOwnsIntent, OrdersDistinct, SentIsDurable, Sent, Restorable
<1>18. CASE BrokerStep
  BY <1>18 DEF BrokerStep, TypeOK, LegacyQuiet, LoadedWhenRunning, DiskIntentInMemory,
       AttemptOwnsIntent, OrdersDistinct, SentIsDurable, Sent, Restorable
<1>19. CASE NextDay
  BY <1>19 DEF NextDay, TypeOK, Days, LegacyQuiet, LoadedWhenRunning, DiskIntentInMemory,
       AttemptOwnsIntent, OrdersDistinct, SentIsDurable, Sent, Restorable
<1>20. CASE Crash
  <2>1. TypeOK'
    <3>1. EmptyCheckpoint \in Checkpoint
      BY CheckpointTypes
    <3>2. 0 \in 0..MaxDay
      BY ConstantsAssumption
    <3> QED
      BY <1>20, <3>1, <3>2 DEF Crash, TypeOK
  <2>2. LegacyQuiet' /\ LoadedWhenRunning' /\ DiskIntentInMemory' /\ SentIsDurable'
    BY <1>20 DEF Crash, LegacyQuiet, LoadedWhenRunning, DiskIntentInMemory, SentIsDurable,
       Sent, Restorable
  <2>3. AttemptOwnsIntent' /\ OrdersDistinct'
    BY <1>20 DEF Crash, AttemptOwnsIntent, OrdersDistinct, Sent
  <2> QED
    BY <2>1, <2>2, <2>3
<1>21. CASE UNCHANGED vars
  BY <1>21 DEF vars, TypeOK, LegacyQuiet, LoadedWhenRunning, DiskIntentInMemory,
       AttemptOwnsIntent, OrdersDistinct, SentIsDurable, Sent, Restorable
<1> QED
  BY <1>1, <1>2, <1>3, <1>4, <1>5, <1>6, <1>7, <1>8, <1>9, <1>10, <1>11, <1>12, <1>13, <1>14, <1>15, <1>16, <1>17, <1>18, <1>19, <1>20, <1>21 DEF Next, WorkerStep

\* The invariant holds in every reachable state.
THEOREM Durability == Spec => []DurabilityInv
  BY InitDurable, StepDurable, PTL DEF Spec

\* Type correctness: the checkpoint, the workers and the broker stay well formed.
THEOREM TypeCorrect == Spec => []TypeOK
<1>1. DurabilityInv => TypeOK
  BY DEF DurabilityInv
<1> QED
  BY <1>1, Durability, PTL

\* Every order that reached the broker and is not durably confirmed is the
\* unresolved intent on disk, whatever crashed or failed to be written.
THEOREM SentOrdersAreDurable == Spec => []SentIsDurable
<1>1. DurabilityInv => SentIsDurable
  BY DEF DurabilityInv
<1> QED
  BY <1>1, Durability, PTL

\* At most one order of the account has an unknown fate, across all engines
\* and restarts.
THEOREM AtMostOneUnresolved == Spec => []OneUnresolvedOrder
<1>1. DurabilityInv => OneUnresolvedOrder
  BY DEF DurabilityInv, SentIsDurable, OneUnresolvedOrder
<1> QED
  BY <1>1, Durability, PTL

\* No engine drops or replaces an intent it restored from disk, or one whose
\* executor may have started, except by confirming its exact opening.
THEOREM UncertaintyIsKept == Spec => UncertaintyKept
<1> DEFINE Uncertain == /\ loaded /\ loaded' /\ mem.intent # NoIntent
                        /\ marker = NoOrder \/ mem.intent.id \in Sent
           Kept == mem'.intent.id = mem.intent.id \/ mem.intent.id \in verified'
<1>1. DurabilityInv /\ [Next]_vars => [Uncertain => Kept]_vars
  <2> SUFFICES ASSUME DurabilityInv, Next, Uncertain PROVE Kept
    OBVIOUS
  <2>1. mem.intent.id # NoOrder /\ mem.intent.id \in OrderIds
    BY ConstantsAssumption DEF DurabilityInv, TypeOK, Checkpoint, Intent, NoIntent
  <2>2. ASSUME NEW w \in Workers, FinishUnsent(w) PROVE Kept
    <3>1. order[w] \notin Sent
      BY <2>2 DEF FinishUnsent, Goto, DurabilityInv, AttemptOwnsIntent
    <3> QED
      BY <2>1, <2>2, <3>1 DEF FinishUnsent, ReleaseUnsentEntry, RolledBack, Untouched
  <2>3. ASSUME NEW w \in Workers, ReplyVerified(w) PROVE Kept
    BY <2>3 DEF ReplyVerified, Confirm, ConfirmFailed, Untouched
  <2>4. ASSUME NEW w \in Workers, ReplyUnresolved(w) PROVE Kept
    BY <2>4 DEF ReplyUnresolved, RecordUnresolved, Persist, Untouched, DurabilityInv, TypeOK,
                Checkpoint, Intent, NoIntent
  <2>5. ASSUME NEW w \in Workers, BeginSubmission(w) PROVE Kept
    BY <2>5 DEF BeginSubmission, Untouched
  <2>6. ASSUME NEW w \in Workers,
               PrepareEntryDay(w) \/ StartupPrepare(w) \/ TryReserveEntry(w) \/ RefuseReserved(w)
        PROVE  Kept
    BY <2>6 DEF PrepareEntryDay, StartupPrepare, PrepareDay, TryReserveEntry, RefuseReserved,
                ReleaseEntry, Persist, RolledBack, Untouched, DurabilityInv, TypeOK, Checkpoint
  <2>7. ASSUME NEW w \in Workers,
               \/ Start(w) \/ Stop(w) \/ SampleDay(w) \/ Abstain(w) \/ BeginSubmit(w)
               \/ FinalCheck(w) \/ RefuseUnsent(w) \/ Send(w) \/ FinalizeClose(w)
        PROVE  Kept
    BY <2>7 DEF Start, AcquireEntry, Stop, SampleDay, Abstain, BeginSubmit, FinalCheck,
                RefuseUnsent, Send, FinalizeClose, authVars
  <2>8. CASE BrokerStep \/ NextDay \/ Crash
    BY <2>8 DEF BrokerStep, NextDay, Crash, authVars
  <2> QED
    BY <2>2, <2>3, <2>4, <2>5, <2>6, <2>7, <2>8 DEF Next, WorkerStep
<1> QED
  BY <1>1, Durability, PTL DEF Spec, UncertaintyKept
-----------------------------------------------------------------------------
(* The refinement of SerialOrders.                                         *)

\* An attempt that awaits the broker's answer was sent.
AwaitedWasSent == \A w \in Workers : pc[w] = "sent" => order[w] \in Sent

\* Confirmed orders were sent.
VerifiedWasSent == verified \subseteq Sent

RefinementInv == DurabilityInv /\ AwaitedWasSent /\ VerifiedWasSent

\* Where an order goes out, and what it leaves alone.
LEMMA SendEffect ==
  ASSUME RefinementInv, NEW w \in Workers, Send(w)
  PROVE  /\ order[w] \in OrderIds \ Sent
         /\ Sent' = Sent \cup {order[w]}
         /\ Sent \subseteq verified
         /\ UNCHANGED <<order, verified>>
<1>1. pc[w] = "intent"
  BY DEF Send, Goto
<1>2. /\ order[w] \in OrderIds \ Sent /\ disk.intent.id = order[w]
      /\ wday[w] \in Days
  BY <1>1 DEF RefinementInv, DurabilityInv, AttemptOwnsIntent
<1>3. wday[w] # 0
  BY <1>2, ConstantsAssumption DEF Days
<1>4. sentDay' = [sentDay EXCEPT ![order[w]] = wday[w]] /\ sentDay \in [OrderIds -> 0..MaxDay]
  BY DEF Send, RefinementInv, DurabilityInv, TypeOK
<1>5. Sent' = Sent \cup {order[w]}
  BY <1>2, <1>3, <1>4 DEF Sent
<1>6. file = "entryV2"
  BY <1>1 DEF RefinementInv, DurabilityInv, LegacyQuiet, LoadedWhenRunning
<1>7. Sent \subseteq verified
  BY <1>2, <1>6 DEF RefinementInv, DurabilityInv, SentIsDurable
<1> QED
  BY <1>2, <1>5, <1>7 DEF Send

\* A confirmed order is one that was sent and is not confirmed yet, or it was
\* confirmed before.
LEMMA ReplyEffect ==
  ASSUME RefinementInv, NEW w \in Workers, ReplyVerified(w)
  PROVE  /\ order[w] \in Sent
         /\ verified' \in {verified, verified \cup {order[w]}}
         /\ UNCHANGED sentDay
  BY DEF RefinementInv, AwaitedWasSent, ReplyVerified, Goto, Confirm, ConfirmFailed

\* Every other step sends and confirms nothing and starts no wait for an answer.
LEMMA QuietSteps ==
  ASSUME TypeOK, Next, \A w \in Workers : ~Send(w) /\ ~ReplyVerified(w)
  PROVE  /\ UNCHANGED <<sentDay, verified>>
         /\ \A v \in Workers : pc'[v] = "sent" => pc[v] = "sent" /\ order'[v] = order[v]
<1> DEFINE Quiet == /\ UNCHANGED <<sentDay, verified>>
                    /\ \A v \in Workers : pc'[v] = "sent" => pc[v] = "sent" /\ order'[v] = order[v]
<1>1. ASSUME NEW w \in Workers,
             \/ Start(w) \/ StartupPrepare(w) \/ Stop(w) \/ SampleDay(w) \/ Abstain(w)
             \/ PrepareEntryDay(w) \/ TryReserveEntry(w) \/ RefuseReserved(w)
             \/ BeginSubmit(w) \/ FinalCheck(w) \/ RefuseUnsent(w) \/ FinalizeClose(w)
      PROVE  Quiet
  BY <1>1 DEF Start, StartupPrepare, Stop, SampleDay, Abstain, PrepareEntryDay,
              TryReserveEntry, RefuseReserved, BeginSubmit, FinalCheck, RefuseUnsent,
              FinalizeClose, NoteDay, Goto, brokerVars, TypeOK
<1>2. ASSUME NEW w \in Workers, BeginSubmission(w) \/ FinishUnsent(w) \/ ReplyUnresolved(w)
      PROVE  Quiet
  BY <1>2 DEF BeginSubmission, FinishUnsent, ReplyUnresolved, Goto, brokerVars, TypeOK
<1>3. CASE BrokerStep \/ NextDay \/ Crash
  BY <1>3 DEF BrokerStep, NextDay, Crash, workerVars, brokerVars, TypeOK
<1> QED
  BY <1>1, <1>2, <1>3 DEF Next, WorkerStep

\* The invariant of the refinement is inductive.
LEMMA StepRefinementInv == RefinementInv /\ [Next]_vars => RefinementInv'
<1> SUFFICES ASSUME RefinementInv, [Next]_vars PROVE AwaitedWasSent' /\ VerifiedWasSent'
  BY StepDurable DEF RefinementInv
<1>1. ASSUME NEW w \in Workers, Send(w) PROVE AwaitedWasSent' /\ VerifiedWasSent'
  <2>1. pc' = [pc EXCEPT ![w] = "sent"] /\ pc \in [Workers -> {"down", "starting", "idle",
          "sampled", "prepared", "reserved", "submitting", "checked", "intent", "sent", "refused"}]
    BY <1>1 DEF Send, Goto, RefinementInv, DurabilityInv, TypeOK
  <2> QED
    BY <1>1, <2>1, SendEffect DEF RefinementInv, AwaitedWasSent, VerifiedWasSent
<1>2. ASSUME NEW w \in Workers, ReplyVerified(w) PROVE AwaitedWasSent' /\ VerifiedWasSent'
  <2>1. Sent' = Sent /\ order[w] \in Sent /\ verified' \in {verified, verified \cup {order[w]}}
    BY <1>2, ReplyEffect DEF Sent
  <2>2. \A v \in Workers : pc'[v] = "sent" => pc[v] = "sent" /\ order'[v] = order[v]
    BY <1>2 DEF ReplyVerified, Goto, RefinementInv, DurabilityInv, TypeOK
  <2> QED
    BY <2>1, <2>2 DEF RefinementInv, AwaitedWasSent, VerifiedWasSent
<1>3. CASE Next /\ \A w \in Workers : ~Send(w) /\ ~ReplyVerified(w)
  <2>1. /\ UNCHANGED <<sentDay, verified>>
        /\ \A v \in Workers : pc'[v] = "sent" => pc[v] = "sent" /\ order'[v] = order[v]
    BY <1>3, QuietSteps DEF RefinementInv, DurabilityInv
  <2> QED
    BY <2>1 DEF RefinementInv, AwaitedWasSent, VerifiedWasSent, Sent
<1>4. CASE UNCHANGED vars
  BY <1>4 DEF vars, workerVars, brokerVars, RefinementInv, AwaitedWasSent, VerifiedWasSent, Sent
<1> QED
  BY <1>1, <1>2, <1>3, <1>4

\* The initial states map to initial states: at most one legacy order is out.
LEMMA InitSerial == Init => Serial!Init /\ RefinementInv
<1> SUFFICES ASSUME Init PROVE Serial!Init /\ AwaitedWasSent /\ VerifiedWasSent
  BY InitDurable DEF RefinementInv
<1>0. PICK n \in 0..1 : \E old \in LegacyOrders(file, n) :
        sentDay = [o \in OrderIds |-> IF o \in old THEN 1 ELSE 0]
  BY DEF Init
<1>1. PICK old \in LegacyOrders(file, n) :
        sentDay = [o \in OrderIds |-> IF o \in old THEN 1 ELSE 0]
  BY <1>0
<1>2. Sent = {o \in OrderIds : o \in old}
  BY <1>1 DEF Sent
<1>3. old \in {{}} \cup {{o} : o \in OrderIds}
  BY <1>1 DEF LegacyOrders
<1>4. Sent = old
  BY <1>2, <1>3
<1> QED
  BY <1>3, <1>4 DEF Init, Serial!Init, AwaitedWasSent, VerifiedWasSent

\* Every step maps to a step of SerialOrders or to a stutter.
LEMMA StepSerial ==
  RefinementInv /\ [Next]_vars => [Serial!Next]_<<Sent, verified>>
<1> SUFFICES ASSUME RefinementInv, [Next]_vars
             PROVE  Serial!Next \/ UNCHANGED <<Sent, verified>>
  OBVIOUS
<1>1. ASSUME NEW w \in Workers, Send(w) PROVE Serial!SendOrder
  BY <1>1, SendEffect DEF Serial!SendOrder
<1>2. ASSUME NEW w \in Workers, ReplyVerified(w)
      PROVE  Serial!VerifyOrder \/ UNCHANGED <<Sent, verified>>
  <2>1. Sent' = Sent /\ order[w] \in Sent /\ verified' \in {verified, verified \cup {order[w]}}
    BY <1>2, ReplyEffect DEF Sent
  <2>2. CASE order[w] \in verified
    BY <2>1, <2>2
  <2>3. CASE order[w] \notin verified
    BY <2>1, <2>3 DEF Serial!VerifyOrder
  <2> QED
    BY <2>2, <2>3
<1>3. CASE Next /\ \A w \in Workers : ~Send(w) /\ ~ReplyVerified(w)
  BY <1>3, QuietSteps DEF RefinementInv, DurabilityInv, Sent
<1>4. CASE UNCHANGED vars
  BY <1>4 DEF vars, brokerVars, Sent
<1> QED
  BY <1>1, <1>2, <1>3, <1>4 DEF Serial!Next

\* The engines and their durable checkpoint implement SerialOrders: for any
\* number of engines, orders and days, and whatever crashes or is not written,
\* the account sends one order after the other.
THEOREM ImplementsSerial == Spec => ImplementsSerialOrders
<1>1. Spec => []RefinementInv
  BY InitSerial, StepRefinementInv, PTL DEF Spec
<1> QED
  BY <1>1, InitSerial, StepSerial, PTL DEF Spec, ImplementsSerialOrders, Serial!Spec
-----------------------------------------------------------------------------
(***************************************************************************)
(* The daily count.  A worker between try_reserve_entry and the send, or   *)
(* the release, holds one entry of the day it sampled.  As long as no day  *)
(* went back, the durable count covers the orders sent on its day and the  *)
(* entries held on it, and on no day do the two together exceed the cap.   *)
(***************************************************************************)
Reserving == {"reserved", "submitting", "checked", "intent", "refused"}

Reserved(d) == {w \in Workers : pc[w] \in Reserving /\ wday[w] = d}

\* Memory and disk agree on day and count, whatever write failed.
BooksAgree == loaded => mem.day = disk.day /\ mem.count = disk.count

\* Nothing was sent and nothing is held on a day that is not prepared yet.
NothingAhead ==
  ~wentBack =>
    /\ \A o \in OrderIds : sentDay[o] <= disk.day
    /\ \A w \in Workers : pc[w] \in Reserving => wday[w] <= disk.day

CountCoversHeld ==
  ~wentBack /\ disk.day # 0 =>
    Cardinality(SentOn(disk.day)) + Cardinality(Reserved(disk.day)) <= disk.count

CountWithinCap == Cap # 0 => disk.count <= Cap

HeldWithinCap ==
  ~wentBack /\ Cap # 0 =>
    \A d \in Days : Cardinality(SentOn(d)) + Cardinality(Reserved(d)) <= Cap

Counted == BooksAgree /\ NothingAhead /\ CountCoversHeld /\ CountWithinCap /\ HeldWithinCap

CountInv == DurabilityInv /\ Counted

\* Orders and workers are finitely many, so every set of them can be counted.
LEMMA CountableSets ==
  /\ \A S \in SUBSET OrderIds : IsFiniteSet(S) /\ Cardinality(S) \in Nat
  /\ \A S \in SUBSET Workers : IsFiniteSet(S) /\ Cardinality(S) \in Nat
<1>1. IsFiniteSet(OrderIds) /\ IsFiniteSet(Workers)
  BY ConstantsAssumption
<1>2. ASSUME NEW S \in SUBSET OrderIds PROVE IsFiniteSet(S) /\ Cardinality(S) \in Nat
  BY <1>1, FS_Subset, FS_CardinalityType
<1>3. ASSUME NEW S \in SUBSET Workers PROVE IsFiniteSet(S) /\ Cardinality(S) \in Nat
  BY <1>1, FS_Subset, FS_CardinalityType
<1> QED
  BY <1>2, <1>3

\* What was sent and what is held on a day, now and after a step, can be counted.
LEMMA DayCounts ==
  ASSUME NEW d
  PROVE  /\ IsFiniteSet(SentOn(d)) /\ Cardinality(SentOn(d)) \in Nat
         /\ IsFiniteSet(SentOn(d)') /\ Cardinality(SentOn(d)') \in Nat
         /\ IsFiniteSet(Reserved(d)) /\ Cardinality(Reserved(d)) \in Nat
         /\ IsFiniteSet(Reserved(d)') /\ Cardinality(Reserved(d)') \in Nat
<1>1. SentOn(d) \in SUBSET OrderIds /\ SentOn(d)' \in SUBSET OrderIds
  BY DEF SentOn
<1>2. Reserved(d) \in SUBSET Workers /\ Reserved(d)' \in SUBSET Workers
  BY DEF Reserved
<1> QED
  BY <1>1, <1>2, CountableSets

\* A smaller set counts no more.
LEMMA FewerCount ==
  ASSUME NEW S, NEW T, IsFiniteSet(S), T \subseteq S
  PROVE  Cardinality(T) <= Cardinality(S)
  BY FS_Subset

\* A step that writes neither day nor count, sends nothing and begins no
\* reservation keeps the count right; a reservation may only end.
LEMMA KeepsCount ==
  ASSUME CountInv, BooksAgree',
         disk'.day = disk.day, disk'.count = disk.count,
         UNCHANGED <<sentDay, wentBack>>,
         \A v \in Workers :
           pc'[v] \in Reserving => pc[v] \in Reserving /\ wday'[v] = wday[v]
  PROVE  Counted'
<1> USE DEF CountInv, Counted
<1>1. \A d : SentOn(d)' = SentOn(d)
  BY DEF SentOn
<1>2. \A d : Reserved(d)' \subseteq Reserved(d)
  BY DEF Reserved
<1>3. ASSUME NEW d
      PROVE  /\ Cardinality(SentOn(d)') + Cardinality(Reserved(d)')
                  <= Cardinality(SentOn(d)) + Cardinality(Reserved(d))
             /\ Cardinality(SentOn(d)') + Cardinality(Reserved(d)') \in Nat
             /\ Cardinality(SentOn(d)) + Cardinality(Reserved(d)) \in Nat
  <2>1. Cardinality(Reserved(d)') <= Cardinality(Reserved(d))
    BY <1>2, DayCounts, FewerCount
  <2> QED
    BY <1>1, <2>1, DayCounts
<1>4. NothingAhead'
  BY DEF NothingAhead
<1>5. disk.count \in Nat /\ Cap \in Nat
  BY ConstantsAssumption DEF DurabilityInv, TypeOK, Checkpoint
<1>6. CountCoversHeld'
  <2> SUFFICES ASSUME ~wentBack', disk'.day # 0
               PROVE  Cardinality(SentOn(disk.day)') + Cardinality(Reserved(disk.day)') <= disk.count
    BY DEF CountCoversHeld, SentOn, Reserved
  <2>1. Cardinality(SentOn(disk.day)) + Cardinality(Reserved(disk.day)) <= disk.count
    BY DEF CountCoversHeld
  <2> QED
    BY <2>1, <1>3, <1>5
<1>7. CountWithinCap'
  BY DEF CountWithinCap
<1>8. HeldWithinCap'
  <2> SUFFICES ASSUME ~wentBack', Cap # 0, NEW d \in Days
               PROVE  Cardinality(SentOn(d)') + Cardinality(Reserved(d)') <= Cap
    BY DEF HeldWithinCap
  <2>1. Cardinality(SentOn(d)) + Cardinality(Reserved(d)) <= Cap
    BY DEF HeldWithinCap
  <2> QED
    BY <2>1, <1>3, <1>5
<1> QED
  BY <1>4, <1>6, <1>7, <1>8

\* prepare_day with a later day starts from nothing sent and nothing held; an
\* earlier day is noted as wentBack.
LEMMA PrepareCounts ==
  ASSUME CountInv, loaded, loaded', NEW d \in Days, NEW ok \in BOOLEAN,
         PrepareDay(d, ok), NoteDay, wday' = wday,
         \A v \in Workers : pc'[v] \in Reserving => pc[v] \in Reserving
  PROVE  Counted'
<1> USE DEF CountInv, Counted
<1>1. CASE UNCHANGED <<mem, disk>>
  <2>1. wentBack' = wentBack /\ sentDay' = sentDay
    <3>1. ~(mem'.day < mem.day)
      BY <1>1, ConstantsAssumption DEF DurabilityInv, TypeOK, Checkpoint
    <3> QED
      BY <3>1 DEF NoteDay
  <2>2. BooksAgree'
    BY <1>1 DEF BooksAgree
  <2> QED
    BY <1>1, <2>1, <2>2, KeepsCount
<1>2. CASE mem.day # d /\ Persist([mem EXCEPT !.day = d, !.count = 0])
  <2>1. /\ mem'.day = d /\ mem'.count = 0 /\ disk'.day = d /\ disk'.count = 0
        /\ mem.day = disk.day /\ d # disk.day
    BY <1>2 DEF Persist, BooksAgree, DurabilityInv, TypeOK, Checkpoint
  <2>2. d \in Nat /\ disk.day \in Nat /\ d # 0
    BY ConstantsAssumption DEF Days, DurabilityInv, TypeOK, Checkpoint
  <2>3. ~wentBack' => ~wentBack /\ disk.day < d
    BY <2>1, <2>2 DEF NoteDay
  <2>4. sentDay' = sentDay /\ sentDay \in [OrderIds -> 0..MaxDay] /\ wday \in [Workers -> 0..MaxDay]
    BY DEF NoteDay, DurabilityInv, TypeOK
  <2>5. NothingAhead'
    <3> SUFFICES ASSUME ~wentBack'
                 PROVE  /\ \A o \in OrderIds : sentDay[o] <= d
                        /\ \A w \in Workers : pc'[w] \in Reserving => wday[w] <= d
      BY <2>1, <2>4 DEF NothingAhead
    <3>1. ASSUME NEW o \in OrderIds PROVE sentDay[o] <= d
      BY <2>2, <2>3, <2>4, ConstantsAssumption DEF NothingAhead
    <3>2. ASSUME NEW w \in Workers, pc'[w] \in Reserving PROVE wday[w] <= d
      BY <3>2, <2>2, <2>3, <2>4, ConstantsAssumption DEF NothingAhead
    <3> QED
      BY <3>1, <3>2
  <2>6. ~wentBack' => SentOn(d)' = {} /\ Reserved(d)' = {}
    <3> SUFFICES ASSUME ~wentBack' PROVE SentOn(d)' = {} /\ Reserved(d)' = {}
      OBVIOUS
    <3>1. \A o \in OrderIds : sentDay[o] # d
      BY <2>2, <2>3, <2>4, ConstantsAssumption DEF NothingAhead
    <3>2. \A w \in Workers : pc[w] \in Reserving => wday[w] # d
      BY <2>2, <2>3, <2>4, ConstantsAssumption DEF NothingAhead
    <3> QED
      BY <2>4, <3>1, <3>2 DEF SentOn, Reserved
  <2>7. CountCoversHeld'
    <3> SUFFICES ASSUME ~wentBack' PROVE Cardinality(SentOn(d)') + Cardinality(Reserved(d)') <= 0
      BY <2>1 DEF CountCoversHeld, SentOn, Reserved
    <3> QED
      BY <2>6, FS_EmptySet
  <2>8. CountWithinCap' /\ BooksAgree'
    BY <2>1, ConstantsAssumption DEF CountWithinCap, BooksAgree
  <2>9. HeldWithinCap'
    <3> SUFFICES ASSUME ~wentBack', Cap # 0, NEW e \in Days
                 PROVE  Cardinality(SentOn(e)') + Cardinality(Reserved(e)') <= Cap
      BY DEF HeldWithinCap
    <3>1. SentOn(e)' = SentOn(e) /\ Reserved(e)' \subseteq Reserved(e)
      BY <2>4 DEF SentOn, Reserved
    <3>2. Cardinality(Reserved(e)') <= Cardinality(Reserved(e))
      BY <3>1, DayCounts, FewerCount
    <3>3. Cardinality(SentOn(e)) + Cardinality(Reserved(e)) <= Cap
      BY <2>3 DEF HeldWithinCap
    <3> QED
      BY <3>1, <3>2, <3>3, DayCounts, ConstantsAssumption
  <2> QED
    BY <2>5, <2>7, <2>8, <2>9
<1> QED
  BY <1>1, <1>2 DEF PrepareDay, Untouched, RolledBack

\* A reservation adds one to the count and one to what is held on its day.
LEMMA ReserveCounts ==
  ASSUME CountInv, loaded, NEW w \in Workers, wday[w] \in Days, wday[w] = mem.day,
         Cap = 0 \/ mem.count < Cap,
         Persist([mem EXCEPT !.count = @ + 1]), Goto(w, "prepared", "reserved"),
         UNCHANGED <<wday, sentDay, wentBack>>
  PROVE  Counted'
<1> USE DEF CountInv, Counted
<1>0. PICK d : d = wday[w]
  OBVIOUS
<1> USE <1>0
<1>1. /\ mem'.day = d /\ mem'.count = disk.count + 1 /\ disk'.day = d
      /\ disk'.count = disk.count + 1 /\ disk.day = d
      /\ Cap = 0 \/ disk.count < Cap
  BY DEF Persist, BooksAgree, DurabilityInv, TypeOK, Checkpoint
<1>2. d \in Nat /\ d # 0 /\ disk.count \in Nat /\ Cap \in Nat
  BY ConstantsAssumption DEF Days, DurabilityInv, TypeOK, Checkpoint
<1>3. \A v \in Workers : pc'[v] = IF v = w THEN "reserved" ELSE pc[v]
  BY DEF Goto, DurabilityInv, TypeOK
<1>4. pc[w] = "prepared"
  BY DEF Goto
<1>5. \A e : SentOn(e)' = SentOn(e)
  BY DEF SentOn
<1>6. Reserved(d)' = Reserved(d) \cup {w} /\ w \notin Reserved(d)
  BY <1>3, <1>4 DEF Reserved, Reserving
<1>7. \A e : e # d => Reserved(e)' = Reserved(e)
  BY <1>3, <1>4 DEF Reserved, Reserving
<1>8. Cardinality(Reserved(d)') = Cardinality(Reserved(d)) + 1
  BY <1>6, DayCounts, FS_AddElement
<1>9. ~wentBack => Cardinality(SentOn(d)') + Cardinality(Reserved(d)') <= disk.count + 1
  <2> SUFFICES ASSUME ~wentBack
               PROVE  Cardinality(SentOn(d)') + Cardinality(Reserved(d)') <= disk.count + 1
    OBVIOUS
  <2>1. Cardinality(SentOn(d)) + Cardinality(Reserved(d)) <= disk.count
    BY <1>1, <1>2 DEF CountCoversHeld
  <2> QED
    BY <1>2, <1>5, <1>8, <2>1, DayCounts
<1>10. NothingAhead'
  BY <1>1, <1>2, <1>3 DEF NothingAhead
<1>11. BooksAgree' /\ CountWithinCap'
  BY <1>1, <1>2 DEF BooksAgree, CountWithinCap
<1>12. CountCoversHeld'
  <2> SUFFICES ASSUME ~wentBack' PROVE Cardinality(SentOn(d)') + Cardinality(Reserved(d)') <= disk.count + 1
    BY <1>1 DEF CountCoversHeld, SentOn, Reserved
  <2> QED
    BY <1>9
<1>13. HeldWithinCap'
  <2> SUFFICES ASSUME ~wentBack', Cap # 0, NEW e \in Days
               PROVE  Cardinality(SentOn(e)') + Cardinality(Reserved(e)') <= Cap
    BY DEF HeldWithinCap
  <2>1. CASE e = d
    BY <1>1, <1>2, <1>9, <2>1, DayCounts
  <2>2. CASE e # d
    BY <1>5, <1>7, <2>2 DEF HeldWithinCap
  <2> QED
    BY <2>1, <2>2
<1> QED
  BY <1>10, <1>11, <1>12, <1>13

\* A release takes one off the count and one off what is held on its day.
LEMMA ReleaseCounts ==
  ASSUME CountInv, loaded, NEW w \in Workers, pc[w] \in Reserving, wday[w] = mem.day,
         mem.count > 0,
         mem'.day = mem.day, mem'.count = mem.count - 1, disk' = mem',
         \A v \in Workers : v # w => pc'[v] = pc[v],
         pc'[w] \notin Reserving,
         UNCHANGED <<wday, sentDay, wentBack>>
  PROVE  Counted'
<1> USE DEF CountInv, Counted
<1>0. PICK d : d = wday[w]
  OBVIOUS
<1> USE <1>0
<1>1. disk.day = d /\ disk'.day = d /\ disk.count = mem.count /\ disk'.count = disk.count - 1
  BY DEF BooksAgree
<1>2. disk.count \in Nat /\ disk.count - 1 \in Nat /\ Cap \in Nat
  BY <1>1, ConstantsAssumption DEF DurabilityInv, TypeOK, Checkpoint
<1>3. \A e : SentOn(e)' = SentOn(e)
  BY DEF SentOn
<1>4. Reserved(d)' = Reserved(d) \ {w} /\ w \in Reserved(d)
  BY DEF Reserved
<1>5. \A e : Reserved(e)' \subseteq Reserved(e)
  BY DEF Reserved
<1>6. Cardinality(Reserved(d)') = Cardinality(Reserved(d)) - 1
  BY <1>4, DayCounts, FS_RemoveElement
<1>7. CountCoversHeld'
  <2> SUFFICES ASSUME ~wentBack', disk'.day # 0
               PROVE  Cardinality(SentOn(d)') + Cardinality(Reserved(d)') <= disk.count - 1
    BY <1>1 DEF CountCoversHeld, SentOn, Reserved
  <2>1. Cardinality(SentOn(d)) + Cardinality(Reserved(d)) <= disk.count
    BY <1>1 DEF CountCoversHeld
  <2> QED
    BY <1>2, <1>3, <1>6, <2>1, DayCounts
<1>8. HeldWithinCap'
  <2> SUFFICES ASSUME ~wentBack', Cap # 0, NEW e \in Days
               PROVE  Cardinality(SentOn(e)') + Cardinality(Reserved(e)') <= Cap
    BY DEF HeldWithinCap
  <2>1. Cardinality(Reserved(e)') <= Cardinality(Reserved(e))
    BY <1>5, DayCounts, FewerCount
  <2>2. Cardinality(SentOn(e)) + Cardinality(Reserved(e)) <= Cap
    BY DEF HeldWithinCap
  <2> QED
    BY <1>2, <1>3, <2>1, <2>2, DayCounts
<1>9. NothingAhead'
  BY <1>1 DEF NothingAhead
<1>10. BooksAgree' /\ CountWithinCap'
  BY <1>1, <1>2 DEF BooksAgree, CountWithinCap
<1> QED
  BY <1>7, <1>8, <1>9, <1>10

\* The send turns what is held into what was sent, on the day it was reserved.
LEMMA SendCounts ==
  ASSUME CountInv, NEW w \in Workers, Send(w)
  PROVE  Counted'
<1> USE DEF CountInv, Counted
<1>0. PICK d, o : d = wday[w] /\ o = order[w]
  OBVIOUS
<1> USE <1>0
<1>1. pc[w] = "intent" /\ pc' = [pc EXCEPT ![w] = "sent"]
  BY DEF Send, Goto
<1>2. o \in OrderIds /\ o \notin Sent /\ d \in Days
  BY <1>1 DEF DurabilityInv, AttemptOwnsIntent
<1>3. sentDay[o] = 0 /\ d \in Nat /\ d # 0
  BY <1>2, ConstantsAssumption DEF Sent, Days
<1>4. \A p \in OrderIds : sentDay'[p] = IF p = o THEN d ELSE sentDay[p]
  BY <1>2 DEF Send, DurabilityInv, TypeOK
<1>5. \A v \in Workers : pc'[v] = IF v = w THEN "sent" ELSE pc[v]
  BY <1>1 DEF DurabilityInv, TypeOK
<1>6. UNCHANGED <<wday, mem, disk, loaded, wentBack>>
  BY DEF Send, authVars
<1>7. SentOn(d)' = SentOn(d) \cup {o} /\ o \notin SentOn(d)
  <2>1. SentOn(d)' = SentOn(d) \cup {o}
    BY <1>2, <1>4, <1>6 DEF SentOn
  <2> QED
    BY <1>3, <2>1 DEF SentOn
<1>8. Reserved(d)' = Reserved(d) \ {w} /\ w \in Reserved(d)
  BY <1>1, <1>5, <1>6 DEF Reserved, Reserving
<1>9. \A e : e # d /\ e # 0 => SentOn(e)' = SentOn(e) /\ Reserved(e)' = Reserved(e)
  BY <1>3, <1>4, <1>5, <1>6 DEF SentOn, Reserved
<1>10. Cardinality(SentOn(d)') + Cardinality(Reserved(d)')
         = Cardinality(SentOn(d)) + Cardinality(Reserved(d))
  <2>1. Cardinality(SentOn(d)') = Cardinality(SentOn(d)) + 1
    BY <1>7, DayCounts, FS_AddElement
  <2>2. Cardinality(Reserved(d)') = Cardinality(Reserved(d)) - 1
    BY <1>8, DayCounts, FS_RemoveElement
  <2> QED
    BY <2>1, <2>2, DayCounts
<1>11. ASSUME NEW e, e # 0
       PROVE  Cardinality(SentOn(e)') + Cardinality(Reserved(e)')
                = Cardinality(SentOn(e)) + Cardinality(Reserved(e))
  BY <1>9, <1>10, <1>11
<1>12. NothingAhead'
  <2> SUFFICES ASSUME ~wentBack
               PROVE  /\ \A p \in OrderIds : sentDay'[p] <= disk.day
                      /\ \A v \in Workers : pc'[v] \in Reserving => wday[v] <= disk.day
    BY <1>6 DEF NothingAhead
  <2>1. d <= disk.day
    BY <1>1 DEF NothingAhead, Reserving
  <2> QED
    BY <1>4, <1>5, <2>1 DEF NothingAhead, Reserving
<1>13. CountCoversHeld'
  <2> SUFFICES ASSUME ~wentBack, disk.day # 0
               PROVE  Cardinality(SentOn(disk.day)') + Cardinality(Reserved(disk.day)') <= disk.count
    BY <1>6 DEF CountCoversHeld
  <2>0. PICK e : e = disk.day
    OBVIOUS
  <2> USE <2>0
  <2>1. Cardinality(SentOn(e)) + Cardinality(Reserved(e)) <= disk.count
    BY DEF CountCoversHeld
  <2>2. SentOn(disk.day)' = SentOn(e)' /\ Reserved(disk.day)' = Reserved(e)'
    BY <1>6 DEF SentOn, Reserved
  <2>3. e # 0
    OBVIOUS
  <2>4. Cardinality(SentOn(e)') + Cardinality(Reserved(e)') <= disk.count
    BY <1>11, <2>1, <2>3
  <2> QED
    BY <2>2, <2>4
<1>14. HeldWithinCap'
  <2> SUFFICES ASSUME ~wentBack, Cap # 0, NEW e \in Days
               PROVE  Cardinality(SentOn(e)') + Cardinality(Reserved(e)') <= Cap
    BY <1>6 DEF HeldWithinCap
  <2>1. e # 0
    BY ConstantsAssumption DEF Days
  <2> QED
    BY <1>11, <2>1 DEF HeldWithinCap
<1>15. BooksAgree' /\ CountWithinCap'
  BY <1>6 DEF BooksAgree, CountWithinCap
<1> QED
  BY <1>12, <1>13, <1>14, <1>15

\* The invariant holds before any engine starts: a legacy count of one covers
\* its order.
LEMMA InitCount == Init => CountInv
<1> SUFFICES ASSUME Init PROVE Counted
  BY InitDurable DEF CountInv
<1> USE DEF Counted
<1>1. PICK n \in 0..1 : \E old \in LegacyOrders(file, n) :
           /\ disk = IF file \in {"entryV1", "riskV1"}
                     THEN [EmptyCheckpoint EXCEPT !.day = 1, !.count = n]
                     ELSE EmptyCheckpoint
           /\ sentDay = [o \in OrderIds |-> IF o \in old THEN 1 ELSE 0]
  BY DEF Init
<1>2. PICK old \in LegacyOrders(file, n) :
           sentDay = [o \in OrderIds |-> IF o \in old THEN 1 ELSE 0]
  BY <1>1
<1>3. \A d : Reserved(d) = {}
  BY DEF Init, Reserved, Reserving
<1>4. \A d \in Days : SentOn(d) = IF d = 1 THEN old ELSE {}
  <2>1. old \subseteq OrderIds
    BY DEF LegacyOrders
  <2>2. \A d \in Days : d # 0
    BY ConstantsAssumption DEF Days
  <2> QED
    BY <1>2, <2>1, <2>2 DEF SentOn
<1>5. /\ disk.day \in {0, 1} /\ disk.count \in {0, 1}
      /\ Cardinality(old) <= disk.count
      /\ disk.day = 0 => old = {}
  <2>1. CASE file \in {"entryV1", "riskV1"} /\ n = 1
    <3>1. disk.day = 1 /\ disk.count = 1
      BY <1>1, <2>1 DEF EmptyCheckpoint
    <3>2. \E o \in OrderIds : old = {o}
      BY <2>1 DEF LegacyOrders
    <3>3. Cardinality(old) = 1
      BY <3>2, FS_Singleton
    <3> QED
      BY <3>1, <3>3
  <2>2. CASE ~(file \in {"entryV1", "riskV1"} /\ n = 1)
    <3>1. old = {}
      BY <2>2 DEF LegacyOrders
    <3>2. disk.day \in {0, 1} /\ disk.count = 0
      BY <1>1, <2>2 DEF EmptyCheckpoint
    <3> QED
      BY <3>1, <3>2, FS_EmptySet
  <2> QED
    BY <2>1, <2>2
<1>6. Cardinality(old) \in Nat /\ Cardinality({}) = 0 /\ Cap \in Nat
  <2>1. old \in SUBSET OrderIds
    BY DEF LegacyOrders
  <2> QED
    BY <2>1, CountableSets, FS_EmptySet, ConstantsAssumption
<1>7. BooksAgree /\ CountWithinCap
  BY <1>5, <1>6 DEF Init, BooksAgree, CountWithinCap
<1>8. NothingAhead
  BY <1>2, <1>5 DEF Init, NothingAhead, Reserving
<1>9. CountCoversHeld
  <2> SUFFICES ASSUME disk.day # 0
               PROVE  Cardinality(SentOn(disk.day)) + Cardinality(Reserved(disk.day)) <= disk.count
    BY DEF CountCoversHeld
  <2>1. disk.day = 1 /\ 1 \in Days
    BY <1>5, ConstantsAssumption DEF Days
  <2>2. SentOn(disk.day) = old /\ Reserved(disk.day) = {}
    BY <1>3, <1>4, <2>1
  <2> QED
    BY <1>5, <1>6, <2>2
<1>10. HeldWithinCap
  <2> SUFFICES ASSUME Cap # 0, NEW d \in Days
               PROVE  Cardinality(SentOn(d)) + Cardinality(Reserved(d)) <= Cap
    BY DEF HeldWithinCap
  <2>1. Cardinality(old) <= Cap
    BY <1>5, <1>6
  <2> QED
    BY <1>3, <1>4, <1>6, <2>1
<1> QED
  BY <1>7, <1>8, <1>9, <1>10

\* Every step of the engines, the broker, the clock and a crash keeps the count.
LEMMA StepCount == CountInv /\ [Next]_vars => CountInv'
<1> SUFFICES ASSUME CountInv, [Next]_vars PROVE Counted'
  BY StepDurable DEF CountInv
<1> USE DEF authVars, workerVars, brokerVars
<1>t. TypeOK /\ BooksAgree /\ DurabilityInv /\ LoadedWhenRunning /\ AttemptOwnsIntent
  BY DEF CountInv, Counted, DurabilityInv
<1>1. ASSUME NEW w \in Workers, Start(w) PROVE Counted'
  <2>1. BooksAgree' /\ disk' = disk
    BY <1>1, <1>t DEF Start, AcquireEntry, Persist, BooksAgree
  <2>2. \A v \in Workers : pc'[v] \in Reserving => pc[v] \in Reserving /\ wday'[v] = wday[v]
    BY <1>1, <1>t DEF Start, Goto, TypeOK, Reserving
  <2> QED
    BY <1>1, <2>1, <2>2, KeepsCount DEF Start
<1>2. ASSUME NEW w \in Workers, StartupPrepare(w) PROVE Counted'
  <2>1. loaded /\ loaded' /\ wday[w] \in Days /\ today \in Days
    BY <1>2, <1>t DEF StartupPrepare, Goto, LoadedWhenRunning, AttemptOwnsIntent, TypeOK
  <2>2. PICK ok \in BOOLEAN : PrepareDay(IF Risky THEN today ELSE wday[w], ok)
    BY <1>2 DEF StartupPrepare
  <2>3. wday' = wday /\ NoteDay
        /\ \A v \in Workers : pc'[v] \in Reserving => pc[v] \in Reserving
    BY <1>2, <1>t DEF StartupPrepare, Goto, TypeOK, Reserving
  <2>4. CASE Risky
    BY <2>1, <2>2, <2>3, <2>4, PrepareCounts
  <2>5. CASE ~Risky
    BY <2>1, <2>2, <2>3, <2>5, PrepareCounts
  <2> QED
    BY <2>4, <2>5
<1>3. ASSUME NEW w \in Workers,
             Stop(w) \/ SampleDay(w) \/ Abstain(w) \/ BeginSubmit(w) \/ FinalCheck(w)
               \/ RefuseUnsent(w) \/ FinalizeClose(w)
      PROVE  Counted'
  <2>1. UNCHANGED <<mem, disk, loaded, sentDay, wentBack>>
    BY <1>3 DEF Stop, SampleDay, Abstain, BeginSubmit, FinalCheck, RefuseUnsent, FinalizeClose
  <2>2. BooksAgree'
    BY <1>t, <2>1 DEF BooksAgree
  <2>3. \A v \in Workers : pc'[v] \in Reserving => pc[v] \in Reserving /\ wday'[v] = wday[v]
    BY <1>3, <1>t DEF Stop, SampleDay, Abstain, BeginSubmit, FinalCheck, RefuseUnsent,
                      FinalizeClose, Goto, TypeOK, Reserving
  <2> QED
    BY <2>1, <2>2, <2>3, KeepsCount
<1>4. ASSUME NEW w \in Workers, PrepareEntryDay(w) PROVE Counted'
  <2>1. loaded /\ loaded' /\ wday[w] \in Days
    BY <1>4, <1>t DEF PrepareEntryDay, Goto, LoadedWhenRunning, AttemptOwnsIntent
  <2>2. PICK ok \in BOOLEAN : PrepareDay(wday[w], ok)
    BY <1>4 DEF PrepareEntryDay
  <2>3. wday' = wday /\ NoteDay
        /\ \A v \in Workers : pc'[v] \in Reserving => pc[v] \in Reserving
    BY <1>4, <1>t DEF PrepareEntryDay, Goto, TypeOK, Reserving
  <2> QED
    BY <2>1, <2>2, <2>3, PrepareCounts
<1>5. ASSUME NEW w \in Workers, TryReserveEntry(w) PROVE Counted'
  <2>1. loaded /\ loaded' /\ wday[w] \in Days
    BY <1>5, <1>t DEF TryReserveEntry, Goto, LoadedWhenRunning, AttemptOwnsIntent
  <2>2. CASE /\ MayReserve(wday[w]) /\ Persist([mem EXCEPT !.count = @ + 1])
             /\ Goto(w, "prepared", "reserved")
    BY <1>5, <2>1, <2>2, ReserveCounts DEF TryReserveEntry, MayReserve
  <2>3. CASE UNCHANGED <<mem, disk>> /\ Goto(w, "prepared", "idle")
    <3>1. BooksAgree'
      BY <1>t, <2>1, <2>3 DEF BooksAgree
    <3>2. \A v \in Workers : pc'[v] \in Reserving => pc[v] \in Reserving
      BY <2>3, <1>t DEF Goto, TypeOK, Reserving
    <3> QED
      BY <1>5, <2>3, <3>1, <3>2, KeepsCount DEF TryReserveEntry
  <2> QED
    BY <1>5, <2>2, <2>3 DEF TryReserveEntry, RolledBack, Untouched
<1>6. ASSUME NEW w \in Workers, RefuseReserved(w) PROVE Counted'
  <2>1. loaded /\ loaded' /\ pc[w] = "reserved"
    BY <1>6, <1>t DEF RefuseReserved, Goto, LoadedWhenRunning
  <2>2. /\ UNCHANGED <<wday, sentDay, wentBack>>
        /\ \A v \in Workers : v # w => pc'[v] = pc[v]
        /\ pc'[w] = "idle"
    BY <1>6, <1>t DEF RefuseReserved, Goto, TypeOK
  <2>3. CASE mem.day = wday[w] /\ mem.count > 0 /\ Persist([mem EXCEPT !.count = @ - 1])
    <3>1. mem'.day = mem.day /\ mem'.count = mem.count - 1 /\ disk' = mem'
      BY <1>t, <2>3 DEF Persist, TypeOK, Checkpoint
    <3>2. pc[w] \in Reserving /\ pc'[w] \notin Reserving
      BY <2>1, <2>2 DEF Reserving
    <3> QED
      BY <2>1, <2>2, <2>3, <3>1, <3>2, ReleaseCounts
  <2>4. CASE UNCHANGED <<mem, disk>>
    <3>1. BooksAgree'
      BY <1>t, <2>1, <2>4 DEF BooksAgree
    <3>2. \A v \in Workers : pc'[v] \in Reserving => pc[v] \in Reserving
      BY <2>2 DEF Reserving
    <3> QED
      BY <2>2, <2>4, <3>1, <3>2, KeepsCount
  <2> QED
    BY <1>6, <2>3, <2>4 DEF RefuseReserved, ReleaseEntry, RolledBack, Untouched
<1>7. ASSUME NEW w \in Workers, BeginSubmission(w) PROVE Counted'
  <2>1. /\ UNCHANGED <<wday, sentDay, wentBack, loaded>>
        /\ pc[w] = "checked" /\ loaded
        /\ \A v \in Workers : v # w => pc'[v] = pc[v]
    BY <1>7, <1>t DEF BeginSubmission, Goto, TypeOK, LoadedWhenRunning
  <2>2. /\ mem'.day = mem.day /\ mem'.count = mem.count
        /\ disk'.day = disk.day /\ disk'.count = disk.count
    <3>1. PICK o \in OrderIds :
            \/ Persist([mem EXCEPT !.intent = [id |-> o, day |-> wday[w], accepted |-> FALSE]])
            \/ /\ mem' = [mem EXCEPT !.intent = [id |-> o, day |-> wday[w], accepted |-> FALSE]]
               /\ UNCHANGED <<disk, file>>
            \/ UNCHANGED <<mem, disk, file>>
      BY <1>7 DEF BeginSubmission, Untouched
    <3> QED
      BY <1>t, <2>1, <3>1 DEF Persist, BooksAgree, TypeOK, Checkpoint
  <2>3. BooksAgree'
    BY <1>t, <2>1, <2>2 DEF BooksAgree
  <2> QED
    BY <2>1, <2>2, <2>3, KeepsCount DEF Reserving
<1>8. ASSUME NEW w \in Workers, Send(w) PROVE Counted'
  BY <1>8, SendCounts
<1>9. ASSUME NEW w \in Workers, FinishUnsent(w) PROVE Counted'
  <2>1. loaded /\ loaded' /\ pc[w] = "refused"
    BY <1>9, <1>t DEF FinishUnsent, Goto, LoadedWhenRunning
  <2>2. /\ UNCHANGED <<wday, sentDay, wentBack>>
        /\ \A v \in Workers : v # w => pc'[v] = pc[v]
        /\ pc'[w] \in {"idle", "down"}
    BY <1>9, <1>t DEF FinishUnsent, Goto, TypeOK
  <2>3. CASE /\ mem.day = wday[w] /\ mem.count > 0
             /\ mem'.day = mem.day /\ mem'.count = mem.count - 1 /\ disk' = mem'
    <3>1. pc[w] \in Reserving /\ pc'[w] \notin Reserving
      BY <2>1, <2>2 DEF Reserving
    <3> QED
      BY <2>1, <2>2, <2>3, <3>1, ReleaseCounts
  <2>4. CASE /\ mem'.day = mem.day /\ mem'.count = mem.count
             /\ disk'.day = disk.day /\ disk'.count = disk.count
    <3>1. BooksAgree'
      BY <1>t, <2>1, <2>4 DEF BooksAgree
    <3>2. \A v \in Workers : pc'[v] \in Reserving => pc[v] \in Reserving
      BY <2>2 DEF Reserving
    <3> QED
      BY <2>2, <2>4, <3>1, <3>2, KeepsCount
  <2>5. \/ /\ mem.day = wday[w] /\ mem.count > 0
           /\ mem'.day = mem.day /\ mem'.count = mem.count - 1 /\ disk' = mem'
        \/ /\ mem'.day = mem.day /\ mem'.count = mem.count
           /\ disk'.day = disk.day /\ disk'.count = disk.count
    <3> DEFINE released == [mem EXCEPT !.intent = NoIntent,
                                       !.count = IF mem.day = wday[w] THEN @ - 1 ELSE @]
    <3>1. CASE UNCHANGED <<mem, disk>>
      BY <3>1
    <3>2. CASE mem.day = wday[w] /\ mem.count > 0 /\ Persist([mem EXCEPT !.count = @ - 1])
      BY <1>t, <3>2 DEF Persist, TypeOK, Checkpoint
    <3>3. CASE (mem.day = wday[w] => mem.count > 0) /\ Persist(released)
      <4>1. released.day = mem.day
            /\ released.count = IF mem.day = wday[w] THEN mem.count - 1 ELSE mem.count
        BY <1>t DEF TypeOK, Checkpoint
      <4>2. mem' = released /\ disk' = released
        BY <3>3 DEF Persist
      <4> QED
        BY <1>t, <2>1, <3>3, <4>1, <4>2 DEF BooksAgree
    <3> QED
      BY <1>9, <3>1, <3>2, <3>3 DEF FinishUnsent, ReleaseUnsentEntry, ReleaseEntry, RolledBack, Untouched
  <2> QED
    BY <2>3, <2>4, <2>5
<1>10. ASSUME NEW w \in Workers, ReplyVerified(w) \/ ReplyUnresolved(w) PROVE Counted'
  <2>1. /\ UNCHANGED <<wday, sentDay, wentBack, loaded>>
        /\ pc[w] = "sent" /\ pc'[w] = "idle" /\ loaded
        /\ \A v \in Workers : v # w => pc'[v] = pc[v]
    BY <1>10, <1>t DEF ReplyVerified, ReplyUnresolved, Goto, TypeOK, LoadedWhenRunning
  <2>2. /\ mem'.day = mem.day /\ mem'.count = mem.count
        /\ disk'.day = disk.day /\ disk'.count = disk.count
    BY <1>10, <1>t, <2>1 DEF ReplyVerified, ReplyUnresolved, Confirm, ConfirmFailed,
         RecordUnresolved, Persist, Untouched, BooksAgree, TypeOK, Checkpoint
  <2>3. BooksAgree'
    BY <1>t, <2>1, <2>2 DEF BooksAgree
  <2> QED
    BY <2>1, <2>2, <2>3, KeepsCount DEF Reserving
<1>11. CASE BrokerStep \/ NextDay \/ UNCHANGED vars
  <2>1. UNCHANGED <<mem, disk, loaded, sentDay, wentBack, pc, wday>>
    BY <1>11 DEF BrokerStep, NextDay, vars
  <2>2. BooksAgree'
    BY <1>t, <2>1 DEF BooksAgree
  <2> QED
    BY <2>1, <2>2, KeepsCount
<1>12. CASE Crash
  <2>1. UNCHANGED <<disk, sentDay, wentBack>> /\ ~loaded' /\ \A v \in Workers : pc'[v] = "down"
    BY <1>12 DEF Crash
  <2>2. BooksAgree'
    BY <2>1 DEF BooksAgree
  <2> QED
    BY <2>1, <2>2, KeepsCount DEF Reserving
<1> QED
  BY <1>1, <1>2, <1>3, <1>4, <1>5, <1>6, <1>7, <1>8, <1>9, <1>10, <1>11, <1>12 DEF Next, WorkerStep

\* The count covers what was sent and what is held, in every reachable state.
THEOREM Counting == Spec => []CountInv
  BY InitCount, StepCount, PTL DEF Spec

\* The durable count of the prepared day covers every order sent on it, as long
\* as no engine prepared an earlier day.
THEOREM CountCoversEverySend == Spec => []CountCoversSent
<1>1. CountInv => CountCoversSent
  <2> SUFFICES ASSUME CountInv, ~wentBack, disk.day # 0
               PROVE  disk.count >= Cardinality(SentOn(disk.day))
    BY DEF CountCoversSent
  <2>1. Cardinality(SentOn(disk.day)) + Cardinality(Reserved(disk.day)) <= disk.count
    BY DEF CountInv, Counted, CountCoversHeld
  <2>2. disk.count \in Nat
    BY DEF CountInv, DurabilityInv, TypeOK, Checkpoint
  <2>3. Cardinality(SentOn(disk.day)) \in Nat /\ Cardinality(Reserved(disk.day)) \in Nat
    BY DayCounts
  <2> QED
    BY <2>1, <2>2, <2>3
<1> QED
  BY <1>1, Counting, PTL

\* No day sees more orders than risk.max_trades_per_day, over any number of
\* engines, crashes, restarts and failed writes, under the same proviso.
THEOREM CapIsRespected == Spec => []DailyCapRespected
<1>1. CountInv => DailyCapRespected
  <2> SUFFICES ASSUME CountInv, ~wentBack, Cap # 0, NEW d \in Days
               PROVE  Cardinality(SentOn(d)) <= Cap
    BY DEF DailyCapRespected
  <2>1. Cardinality(SentOn(d)) + Cardinality(Reserved(d)) <= Cap
    BY DEF CountInv, Counted, HeldWithinCap
  <2> QED
    BY <2>1, DayCounts, ConstantsAssumption
<1> QED
  BY <1>1, Counting, PTL
-----------------------------------------------------------------------------
(***************************************************************************)
(* The portfolio budget.  A poised worker read fewer open positions than   *)
(* the budget allows and has not sent yet.  As long as no order is stuck   *)
(* with an unknown fate (which ends all sending), the live orders and the  *)
(* poised workers together stay below the bound: whoever samples sees all  *)
(* live orders but the one whose sender still waits, and that sender is    *)
(* not poised.                                                             *)
(***************************************************************************)
Live == {o \in OrderIds : broker[o] \in {"sent", "open"}}

Poising == {"sampled", "prepared", "reserved", "submitting", "checked", "intent"}

Poised == {w \in Workers : pc[w] \in Poising /\ seen[w] < RiskCap}

\* An order of unknown fate that no worker awaits any more.
Stuck == \E o \in Sent \ verified : \A w \in Workers : pc[w] = "sent" => order[w] # o

\* The broker knows only orders that were sent, and a verified one is filled.
BrokerKnows ==
  \A o \in OrderIds :
    /\ broker[o] # "none" => o \in Sent
    /\ o \in verified => broker[o] \in {"open", "closed"}

\* Past the budget gate the reading was below the budget.
GatePassed ==
  \A w \in Workers : pc[w] \in {"submitting", "checked", "intent"} => seen[w] < RiskCap

Ceiling == RiskCap + Cardinality(Workers) - 1

WithinCeiling ==
  /\ Cardinality(Live) <= Ceiling
  /\ ~Stuck => Cardinality(Live) + Cardinality(Poised) <= Ceiling

BudgetInv == RefinementInv /\ BrokerKnows /\ GatePassed /\ WithinCeiling

\* The sets of the budget can be counted, now and after a step.
LEMMA BudgetCounts ==
  /\ IsFiniteSet(Live) /\ Cardinality(Live) \in Nat
  /\ IsFiniteSet(Live') /\ Cardinality(Live') \in Nat
  /\ IsFiniteSet(Poised) /\ Cardinality(Poised) \in Nat
  /\ IsFiniteSet(Poised') /\ Cardinality(Poised') \in Nat
  /\ IsFiniteSet(OpenPositions) /\ Cardinality(OpenPositions) \in Nat
  /\ IsFiniteSet(Workers) /\ Cardinality(Workers) \in Nat \ {0}
  /\ Ceiling \in Int
<1>1. Live \in SUBSET OrderIds /\ Live' \in SUBSET OrderIds /\ OpenPositions \in SUBSET OrderIds
  BY DEF Live, OpenPositions
<1>2. Poised \in SUBSET Workers /\ Poised' \in SUBSET Workers /\ Workers \in SUBSET Workers
  BY DEF Poised
<1>3. Cardinality(Workers) # 0
  BY ConstantsAssumption, FS_EmptySet
<1>4. Cardinality(Workers) \in Nat
  BY <1>2, CountableSets
<1>5. Ceiling \in Int
  BY <1>4, ConstantsAssumption DEF Ceiling
<1> QED
  BY <1>1, <1>2, <1>3, <1>4, <1>5, CountableSets

\* An order of unknown fate that nobody awaits stays so: it is the intent on
\* disk and in memory, so no attempt owns the intent, none can begin to, and
\* only the sender of an order can confirm it.
LEMMA StuckStays ==
  ASSUME RefinementInv, [Next]_vars, Stuck
  PROVE  Stuck'
<1>1. PICK o \in Sent \ verified : \A w \in Workers : pc[w] = "sent" => order[w] # o
  BY DEF Stuck
<1>2. ASSUME NEW w \in Workers, pc[w] \in {"intent", "sent"} PROVE FALSE
  <2>1. file = "entryV2" /\ order[w] = disk.intent.id
    BY <1>2 DEF RefinementInv, DurabilityInv, LegacyQuiet, LoadedWhenRunning, AttemptOwnsIntent
  <2>2. order[w] = o
    BY <2>1, <1>1 DEF RefinementInv, DurabilityInv, SentIsDurable
  <2>3. pc[w] # "sent" => order[w] \notin Sent
    BY DEF RefinementInv, DurabilityInv, AttemptOwnsIntent
  <2> QED
    BY <1>1, <1>2, <2>2, <2>3
<1>3. \A w \in Workers : ~Send(w) /\ ~ReplyVerified(w)
  BY <1>2 DEF Send, ReplyVerified, Goto
<1>4. CASE Next
  <2>1. /\ UNCHANGED <<sentDay, verified>>
        /\ \A v \in Workers : pc'[v] = "sent" => pc[v] = "sent"
    BY <1>3, <1>4, QuietSteps DEF RefinementInv, DurabilityInv
  <2> QED
    BY <1>1, <1>2, <2>1 DEF Stuck, Sent
<1>5. CASE UNCHANGED vars
  BY <1>1, <1>5 DEF vars, workerVars, brokerVars, Stuck, Sent
<1> QED
  BY <1>4, <1>5

\* A step after which no more orders are live and no more workers are poised
\* keeps the ceiling.
LEMMA KeepsCeiling ==
  ASSUME BudgetInv, [Next]_vars, Live' \subseteq Live, Poised' \subseteq Poised
  PROVE  WithinCeiling'
<1>1. Cardinality(Live') <= Cardinality(Live) /\ Cardinality(Poised') <= Cardinality(Poised)
  BY BudgetCounts, FewerCount
<1>2. ~Stuck' => ~Stuck
  BY StuckStays DEF BudgetInv
<1>3. Cardinality(Live) <= Ceiling /\ (~Stuck => Cardinality(Live) + Cardinality(Poised) <= Ceiling)
  BY DEF BudgetInv, WithinCeiling
<1>4. Ceiling' = Ceiling
  BY DEF Ceiling
<1>5. Cardinality(Live') <= Ceiling
  BY <1>1, <1>3, BudgetCounts
<1>6. ASSUME ~Stuck' PROVE Cardinality(Live') + Cardinality(Poised') <= Ceiling
  <2>1. Cardinality(Live) + Cardinality(Poised) <= Ceiling
    BY <1>2, <1>3, <1>6
  <2> QED
    BY <1>1, <2>1, BudgetCounts
<1> QED
  BY <1>4, <1>5, <1>6 DEF WithinCeiling

\* The sender leaves the poised workers as its order joins the live ones.
LEMMA SendKeepsCeiling ==
  ASSUME BudgetInv, NEW w \in Workers, Send(w)
  PROVE  WithinCeiling'
<1>1. pc[w] = "intent" /\ seen[w] < RiskCap
  BY DEF Send, Goto, BudgetInv, GatePassed
<1>2. order[w] \in OrderIds \ Sent /\ Sent \subseteq verified
  BY SendEffect DEF BudgetInv
<1>3. broker[order[w]] = "none"
  BY <1>2 DEF BudgetInv, BrokerKnows
<1>4. broker' = [broker EXCEPT ![order[w]] = "sent"]
      /\ pc' = [pc EXCEPT ![w] = "sent"] /\ seen' = seen
  BY DEF Send, Goto
<1>5. \A o \in OrderIds : broker'[o] = IF o = order[w] THEN "sent" ELSE broker[o]
  BY <1>4 DEF BudgetInv, RefinementInv, DurabilityInv, TypeOK
<1>6. \A v \in Workers : pc'[v] = IF v = w THEN "sent" ELSE pc[v]
  BY <1>4 DEF BudgetInv, RefinementInv, DurabilityInv, TypeOK
<1>7. PICK o : o = order[w]
  OBVIOUS
<1>8. Live' = Live \cup {o} /\ o \notin Live
  BY <1>2, <1>3, <1>5, <1>7 DEF Live
<1>9. Poised' = Poised \ {w} /\ w \in Poised
  BY <1>1, <1>4, <1>6 DEF Poised, Poising
<1>10. Cardinality(Live') = Cardinality(Live) + 1 /\ Cardinality(Poised') = Cardinality(Poised) - 1
  BY <1>8, <1>9, BudgetCounts, FS_AddElement, FS_RemoveElement
<1>11. ~Stuck
  BY <1>2 DEF Stuck
<1>12. Cardinality(Live) + Cardinality(Poised) <= Ceiling
  BY <1>11 DEF BudgetInv, WithinCeiling
<1>13. Ceiling' = Ceiling
  BY DEF Ceiling
<1>14. Cardinality(Live') <= Ceiling /\ Cardinality(Live') + Cardinality(Poised') <= Ceiling
  BY <1>10, <1>12, BudgetCounts
<1> QED
  BY <1>13, <1>14 DEF WithinCeiling

\* Whoever samples has read every live order but at most one, and the sender of
\* that one is not poised.
LEMMA SampleKeepsCeiling ==
  ASSUME BudgetInv, NEW w \in Workers, SampleDay(w)
  PROVE  WithinCeiling'
<1> USE DEF authVars, brokerVars
<1>1. /\ pc[w] = "idle" /\ pc' = [pc EXCEPT ![w] = "sampled"]
      /\ seen' = [seen EXCEPT ![w] = Cardinality(OpenPositions)]
      /\ UNCHANGED <<broker, sentDay, verified, order>>
  BY DEF SampleDay, Goto
<1>2. \A v \in Workers : pc'[v] = IF v = w THEN "sampled" ELSE pc[v]
  BY <1>1 DEF BudgetInv, RefinementInv, DurabilityInv, TypeOK
<1>3. \A v \in Workers : seen'[v] = IF v = w THEN Cardinality(OpenPositions) ELSE seen[v]
  BY <1>1 DEF BudgetInv, RefinementInv, DurabilityInv, TypeOK
<1>4. Live' = Live /\ Ceiling' = Ceiling /\ (Stuck' <=> Stuck)
  <2>1. Live' = Live /\ Ceiling' = Ceiling
    BY <1>1 DEF Live, Ceiling
  <2>2. Stuck' <=> Stuck
    BY <1>1, <1>2 DEF Stuck, Sent
  <2> QED
    BY <2>1, <2>2
<1>5. Cardinality(Live) <= Ceiling
  BY DEF BudgetInv, WithinCeiling
<1>6. ASSUME ~Stuck PROVE Cardinality(Live) + Cardinality(Poised') <= Ceiling
  <2>1. CASE Cardinality(OpenPositions) >= RiskCap
    <3>1. ~(Cardinality(OpenPositions) < RiskCap)
      BY <2>1, BudgetCounts, ConstantsAssumption
    <3>2. Poised' \subseteq Poised
      BY <3>1, <1>2, <1>3 DEF Poised
    <3>3. Cardinality(Poised') <= Cardinality(Poised)
      BY <3>2, BudgetCounts, FewerCount
    <3>4. Cardinality(Live) + Cardinality(Poised) <= Ceiling
      BY <1>6 DEF BudgetInv, WithinCeiling
    <3> QED
      BY <3>3, <3>4, BudgetCounts
  <2>2. CASE Cardinality(OpenPositions) < RiskCap
    <3>1. file = "entryV2"
      BY <1>1 DEF BudgetInv, RefinementInv, DurabilityInv, LegacyQuiet, LoadedWhenRunning
    <3>2. CASE Live \subseteq OpenPositions
      <4>1. Cardinality(Live) <= Cardinality(OpenPositions)
        BY <3>2, BudgetCounts, FewerCount
      <4>2. Cardinality(Poised') <= Cardinality(Workers)
        BY BudgetCounts, FewerCount DEF Poised
      <4> QED
        BY <2>2, <4>1, <4>2, BudgetCounts, ConstantsAssumption DEF Ceiling
    <3>3. CASE ~(Live \subseteq OpenPositions)
      <4>1. PICK o \in Live : o \notin OpenPositions
        BY <3>3
      <4>2. o \in OrderIds /\ broker[o] = "sent"
        BY <4>1 DEF Live, OpenPositions
      <4>3. o \in Sent \ verified
        BY <4>2 DEF BudgetInv, BrokerKnows
      <4>4. PICK v \in Workers : pc[v] = "sent" /\ order[v] = o
        BY <1>6, <4>3 DEF Stuck
      <4>5. v \notin Poised' /\ v \in Workers
        BY <1>1, <1>2, <4>4 DEF Poised, Poising
      <4>6. Poised' \subseteq Workers \ {v}
        BY <4>5 DEF Poised
      <4>7. IsFiniteSet(Workers \ {v}) /\ Cardinality(Workers \ {v}) = Cardinality(Workers) - 1
        BY BudgetCounts, FS_RemoveElement
      <4>8. Cardinality(Poised') <= Cardinality(Workers) - 1
        BY <4>6, <4>7, FewerCount
      <4>9. \A p \in Live : p \in OpenPositions \cup {o}
        <5> SUFFICES ASSUME NEW p \in Live, p \notin OpenPositions PROVE p = o
          OBVIOUS
        <5>1. p \in OrderIds /\ broker[p] = "sent"
          BY DEF Live, OpenPositions
        <5>2. p \in Sent \ verified
          BY <5>1 DEF BudgetInv, BrokerKnows
        <5> QED
          BY <3>1, <4>3, <5>2 DEF BudgetInv, RefinementInv, DurabilityInv, SentIsDurable
      <4>10. IsFiniteSet(OpenPositions \cup {o})
             /\ Cardinality(OpenPositions \cup {o}) = Cardinality(OpenPositions) + 1
        BY <4>1, BudgetCounts, FS_AddElement
      <4>11. Cardinality(Live) <= Cardinality(OpenPositions) + 1
        <5>1. Live \subseteq OpenPositions \cup {o}
          BY <4>9
        <5> QED
          BY <4>10, <5>1, FewerCount
      <4> QED
        BY <2>2, <4>8, <4>11, BudgetCounts, ConstantsAssumption DEF Ceiling
    <3> QED
      BY <3>2, <3>3
  <2> QED
    BY <2>1, <2>2, BudgetCounts, ConstantsAssumption
<1>7. WithinCeiling' <=> /\ Cardinality(Live) <= Ceiling
                         /\ ~Stuck => Cardinality(Live) + Cardinality(Poised') <= Ceiling
  BY <1>4 DEF WithinCeiling
<1> QED
  BY <1>5, <1>6, <1>7

\* The budget's invariant holds initially: at most one legacy order is live.
LEMMA InitBudget ==
  ASSUME RiskCap # 0, Init
  PROVE  BudgetInv
<1>1. PICK n \in 0..1 : \E old \in LegacyOrders(file, n) :
           /\ sentDay = [o \in OrderIds |-> IF o \in old THEN 1 ELSE 0]
           /\ broker = [o \in OrderIds |-> IF o \in old THEN "sent" ELSE "none"]
  BY DEF Init
<1>2. PICK old \in LegacyOrders(file, n) :
           /\ sentDay = [o \in OrderIds |-> IF o \in old THEN 1 ELSE 0]
           /\ broker = [o \in OrderIds |-> IF o \in old THEN "sent" ELSE "none"]
  BY <1>1
<1>3. BrokerKnows /\ GatePassed
  BY <1>2 DEF Init, BrokerKnows, GatePassed, Sent
<1>4. Poised = {}
  BY DEF Init, Poised, Poising
<1>5. Live = old
  <2>1. old \subseteq OrderIds
    BY DEF LegacyOrders
  <2> QED
    BY <1>2, <2>1 DEF Live
<1>6. Cardinality(old) \in {0, 1}
  <2>1. old = {} \/ \E o \in OrderIds : old = {o}
    BY DEF LegacyOrders
  <2> QED
    BY <2>1, FS_EmptySet, FS_Singleton
<1>7. WithinCeiling
  BY <1>4, <1>5, <1>6, FS_EmptySet, BudgetCounts, ConstantsAssumption DEF WithinCeiling, Ceiling
<1> QED
  BY <1>3, <1>7, InitSerial DEF BudgetInv

\* Every step keeps it.
LEMMA StepBudget == BudgetInv /\ [Next]_vars => BudgetInv'
<1> SUFFICES ASSUME BudgetInv, [Next]_vars
             PROVE  BrokerKnows' /\ GatePassed' /\ WithinCeiling'
  BY StepRefinementInv DEF BudgetInv
<1> USE DEF authVars, workerVars, brokerVars
<1>t. TypeOK /\ RefinementInv
  BY DEF BudgetInv, RefinementInv, DurabilityInv
<1>1. ASSUME NEW w \in Workers, Send(w) PROVE BrokerKnows' /\ GatePassed' /\ WithinCeiling'
  <2>1. order[w] \in OrderIds \ Sent /\ Sent' = Sent \cup {order[w]} /\ verified' = verified
    BY <1>1, <1>t, SendEffect
  <2>2. order[w] \notin verified
    BY <2>1, <1>t DEF RefinementInv, VerifiedWasSent
  <2>3. BrokerKnows'
    BY <1>1, <1>t, <2>1, <2>2 DEF Send, BudgetInv, BrokerKnows, TypeOK
  <2>4. GatePassed'
    BY <1>1, <1>t DEF Send, Goto, BudgetInv, GatePassed, TypeOK
  <2> QED
    BY <1>1, <2>3, <2>4, SendKeepsCeiling
<1>2. ASSUME NEW w \in Workers, SampleDay(w) PROVE BrokerKnows' /\ GatePassed' /\ WithinCeiling'
  <2>1. BrokerKnows'
    BY <1>2 DEF SampleDay, BudgetInv, BrokerKnows, Sent
  <2>2. GatePassed'
    BY <1>2, <1>t DEF SampleDay, Goto, BudgetInv, GatePassed, TypeOK
  <2> QED
    BY <1>2, <2>1, <2>2, SampleKeepsCeiling
<1>3. ASSUME NEW w \in Workers, ReplyVerified(w) PROVE BrokerKnows' /\ GatePassed' /\ WithinCeiling'
  <2>1. /\ broker[order[w]] \in {"open", "closed"}
        /\ UNCHANGED <<broker, sentDay, seen>>
        /\ verified' \in {verified, verified \cup {order[w]}}
    BY <1>3 DEF ReplyVerified, Confirm, ConfirmFailed
  <2>2. \A v \in Workers : pc'[v] = IF v = w THEN "idle" ELSE pc[v]
    BY <1>3, <1>t DEF ReplyVerified, Goto, TypeOK
  <2>3. BrokerKnows'
    BY <2>1 DEF BudgetInv, BrokerKnows, Sent
  <2>4. GatePassed'
    BY <2>1, <2>2 DEF BudgetInv, GatePassed
  <2>5. Live' \subseteq Live /\ Poised' \subseteq Poised
    BY <2>1, <2>2 DEF Live, Poised, Poising
  <2> QED
    BY <2>3, <2>4, <2>5, KeepsCeiling
<1>4. ASSUME NEW w \in Workers,
             \/ Start(w) \/ StartupPrepare(w) \/ Stop(w) \/ Abstain(w) \/ PrepareEntryDay(w)
             \/ TryReserveEntry(w) \/ RefuseReserved(w) \/ BeginSubmit(w) \/ FinalCheck(w)
             \/ BeginSubmission(w) \/ RefuseUnsent(w) \/ FinishUnsent(w)
             \/ ReplyUnresolved(w) \/ FinalizeClose(w)
      PROVE  BrokerKnows' /\ GatePassed' /\ WithinCeiling'
  <2>1. UNCHANGED <<broker, sentDay, verified, seen>>
    BY <1>4 DEF Start, StartupPrepare, Stop, Abstain, PrepareEntryDay, TryReserveEntry,
         RefuseReserved, BeginSubmit, FinalCheck, BeginSubmission, RefuseUnsent, FinishUnsent,
         ReplyUnresolved, FinalizeClose, NoteDay
  <2>2. \A v \in Workers : pc'[v] = pc[v] \/ v = w
    BY <1>4, <1>t DEF Start, StartupPrepare, Stop, Abstain, PrepareEntryDay, TryReserveEntry,
         RefuseReserved, BeginSubmit, FinalCheck, BeginSubmission, RefuseUnsent, FinishUnsent,
         ReplyUnresolved, FinalizeClose, Goto, TypeOK
  <2>3. /\ pc'[w] \in Poising => pc[w] \in Poising
        /\ pc'[w] \in {"submitting", "checked", "intent"} =>
             pc[w] \in {"submitting", "checked", "intent"} \/ seen[w] < RiskCap
    BY <1>4, <1>t DEF Start, StartupPrepare, Stop, Abstain, PrepareEntryDay, TryReserveEntry,
         RefuseReserved, BeginSubmit, FinalCheck, BeginSubmission, RefuseUnsent, FinishUnsent,
         ReplyUnresolved, FinalizeClose, Goto, TypeOK, Poising
  <2>4. BrokerKnows'
    BY <2>1 DEF BudgetInv, BrokerKnows, Sent
  <2>5. GatePassed'
    BY <2>1, <2>2, <2>3 DEF BudgetInv, GatePassed
  <2>6. Live' \subseteq Live /\ Poised' \subseteq Poised
    BY <2>1, <2>2, <2>3 DEF Live, Poised
  <2> QED
    BY <2>4, <2>5, <2>6, KeepsCeiling
<1>5. CASE BrokerStep
  <2>1. UNCHANGED <<sentDay, verified, seen, pc>>
    BY <1>5 DEF BrokerStep
  <2>2. PICK o \in OrderIds :
          \/ broker[o] = "sent" /\ broker' = [broker EXCEPT ![o] = "open"]
          \/ broker[o] = "sent" /\ broker' = [broker EXCEPT ![o] = "rejected"]
          \/ broker[o] = "open" /\ broker' = [broker EXCEPT ![o] = "closed"]
    BY <1>5 DEF BrokerStep
  <2>3. /\ \A p \in OrderIds : p # o => broker'[p] = broker[p]
        /\ \/ broker[o] = "sent" /\ broker'[o] \in {"open", "rejected"}
           \/ broker[o] = "open" /\ broker'[o] = "closed"
    BY <2>2, <1>t DEF TypeOK
  <2>4. BrokerKnows'
    BY <2>1, <2>3 DEF BudgetInv, BrokerKnows, Sent
  <2>5. GatePassed'
    BY <2>1 DEF BudgetInv, GatePassed
  <2>6. Live' \subseteq Live /\ Poised' \subseteq Poised
    BY <2>1, <2>3 DEF Live, Poised
  <2> QED
    BY <2>4, <2>5, <2>6, KeepsCeiling
<1>6. CASE NextDay \/ UNCHANGED vars
  <2>1. UNCHANGED <<broker, sentDay, verified, seen, pc>>
    BY <1>6 DEF NextDay, vars
  <2>2. BrokerKnows' /\ GatePassed'
    BY <2>1 DEF BudgetInv, BrokerKnows, GatePassed, Sent
  <2>3. Live' \subseteq Live /\ Poised' \subseteq Poised
    BY <2>1 DEF Live, Poised
  <2> QED
    BY <2>2, <2>3, KeepsCeiling
<1>7. CASE Crash
  <2>1. UNCHANGED <<broker, sentDay, verified>> /\ \A v \in Workers : pc'[v] = "down"
    BY <1>7 DEF Crash
  <2>2. BrokerKnows' /\ GatePassed'
    BY <2>1 DEF BudgetInv, BrokerKnows, GatePassed, Sent
  <2>3. Live' \subseteq Live /\ Poised' \subseteq Poised
    BY <2>1 DEF Live, Poised, Poising
  <2> QED
    BY <2>2, <2>3, KeepsCeiling
<1> QED
  BY <1>1, <1>2, <1>3, <1>4, <1>5, <1>6, <1>7 DEF Next, WorkerStep

\* With a budget of at least one entry, the positions open at once exceed
\* max_portfolio_risk by at most one for every engine but the first, for any
\* number of engines.  (A budget of zero admits no entry at all, but an order of
\* an earlier configuration may still be open.)
THEOREM OvershootIsBounded ==
  ASSUME RiskCap # 0
  PROVE  Spec => []PortfolioOvershootBounded
<1>1. Init => BudgetInv
  BY InitBudget
<1>2. BudgetInv => PortfolioOvershootBounded
  <2> SUFFICES ASSUME BudgetInv PROVE Cardinality(OpenPositions) <= Ceiling
    BY DEF PortfolioOvershootBounded, Ceiling
  <2>1. Cardinality(Live) <= Ceiling
    BY DEF BudgetInv, WithinCeiling
  <2>2. OpenPositions \subseteq Live
    BY DEF OpenPositions, Live
  <2>3. Cardinality(OpenPositions) <= Cardinality(Live)
    BY <2>2, BudgetCounts, FewerCount
  <2> QED
    BY <2>1, <2>3, BudgetCounts
<1> QED
  BY <1>1, <1>2, StepBudget, PTL DEF Spec
=============================================================================
