------------------------- MODULE PermitBrokerProofs -------------------------
(***************************************************************************)
(* The properties of PermitBroker but its liveness, for every number of    *)
(* threads, slots, tokens and cancel calls and every limit.  Three         *)
(* invariants, one after the other: the queue and the slots, the permits,  *)
(* and the cancellation.  Each adds to the safety properties only the      *)
(* types the proof needs and that a thread which owns a slot or a CPU      *)
(* lease is past its acquisition.                                          *)
(***************************************************************************)
EXTENDS PermitBroker, FiniteSetTheorems, TLAPS

\* The types of the queue and the slots; the bounds of the other fields follow
\* with the permits and the cancellation.
QueueTypes ==
  /\ available \in Int
  /\ free \subseteq Slots
  /\ pc \in [Threads -> {"idle", "registered", "entering", "awake", "asleep", "holding"}]
  /\ id \in [Threads -> Nat]
  /\ nextId \in Nat
  /\ req \in [Threads -> Requests]
  /\ cpu \in [Threads -> Nat]
  /\ part \in [Threads -> Nat]
  /\ slot \in [Threads -> Slots \cup {NoSlot}]

\* A slot is owned only by a thread that acquired it and still holds something.
OwnersHold == \A t \in Threads : slot[t] # NoSlot => pc[t] = "holding"

BrokerInv == QueueTypes /\ OwnersHold /\ SlotsPartitioned /\ NoLostWakeup

\* The initial state: nobody waits and every slot is free.
LEMMA InitBroker == Init => BrokerInv
  BY BrokerAssumption
  DEF Init, BrokerInv, QueueTypes, OwnersHold, SlotsPartitioned, NoLostWakeup, NoRequest,
      Requests

\* After notify_all nobody is asleep, and nobody else moved.
LEMMA NotifyWakes ==
  ASSUME QueueTypes, NEW t \in Threads,
         NEW next \in {"idle", "holding"}, NotifyAll(t, next)
  PROVE  /\ pc' \in [Threads -> {"idle", "registered", "entering", "awake", "asleep",
                                 "holding"}]
         /\ \A u \in Threads : pc'[u] # "asleep"
         /\ pc'[t] = next
         /\ \A u \in Threads \ {t} : (pc[u] = "holding") <=> (pc'[u] = "holding")
  BY DEF NotifyAll, Notified, QueueTypes

\* With nobody asleep there is no lost wakeup.
LEMMA NobodyAsleep ==
  ASSUME \A u \in Threads : pc'[u] # "asleep"
  PROVE  NoLostWakeup'
  BY DEF NoLostWakeup

\* Reserving resources for a thread without a slot keeps the slots partitioned.
LEMMA ReserveEffect ==
  ASSUME QueueTypes, SlotsPartitioned, NEW t \in Threads, NEW r \in Requests,
         slot[t] = NoSlot, Reserve(t, r)
  PROVE  /\ available' \in Int /\ available' < available
         /\ free' \subseteq Slots
         /\ cpu' \in [Threads -> Nat] /\ part' = part
         /\ slot' \in [Threads -> Slots \cup {NoSlot}]
         /\ \A u \in Threads \ {t} : slot'[u] = slot[u]
         /\ SlotsPartitioned'
<1>1. /\ available' = available - r.width /\ r.width \in Nat /\ r.width > 0
      /\ cpu' = [cpu EXCEPT ![t] = r.width] /\ part' = part
  BY BrokerAssumption DEF Reserve, Requests
<1>2. CASE r.aux
  <2>1. PICK s \in free : free' = free \ {s} /\ slot' = [slot EXCEPT ![t] = s]
    BY <1>2 DEF Reserve
  <2>2. s \in Slots /\ s # NoSlot
    BY <2>1, BrokerAssumption DEF QueueTypes
  <2>3. \A u \in Threads : slot'[u] = IF u = t THEN s ELSE slot[u]
    BY <2>1 DEF QueueTypes
  <2>4. \A u \in Threads : slot[u] # s
    BY <2>1, <2>2 DEF SlotsPartitioned
  <2>5. \A x \in Slots : x \in free' <=> \A u \in Threads : slot'[u] # x
    <3> SUFFICES ASSUME NEW x \in Slots
                 PROVE  x \in free' <=> \A u \in Threads : slot'[u] # x
      OBVIOUS
    <3>1. x \in free <=> \A u \in Threads : slot[u] # x
      BY DEF SlotsPartitioned
    <3>2. CASE x = s
      BY <2>1, <2>3, <3>2
    <3>3. CASE x # s
      BY <2>1, <2>3, <3>1, <3>3, BrokerAssumption
    <3> QED BY <3>2, <3>3
  <2>6. \A u, v \in Threads : u # v /\ slot'[u] = slot'[v] => slot'[u] = NoSlot
    BY <2>3, <2>4 DEF SlotsPartitioned
  <2>7. SlotsPartitioned'
    BY <2>5, <2>6 DEF SlotsPartitioned
  <2> QED BY <1>1, <2>1, <2>2, <2>7 DEF QueueTypes
<1>3. CASE ~r.aux
  BY <1>1, <1>3 DEF Reserve, QueueTypes, SlotsPartitioned
<1> QED BY <1>2, <1>3

\* Removing a waiter keeps the types of the queue.
LEMMA LeaveEffect ==
  ASSUME QueueTypes, NEW t \in Threads, Leave(t)
  PROVE  /\ id' \in [Threads -> Nat] /\ req' \in [Threads -> Requests]
         /\ \A u \in Threads \ {t} : id'[u] = id[u] /\ req'[u] = req[u]
<1>1. NoRequest \in Requests
  BY BrokerAssumption DEF NoRequest, Requests
<1> QED BY <1>1 DEF Leave, QueueTypes

\* One pass of the loop by a thread that is not holding, queued with id k.
LEMMA PassKeeps ==
  ASSUME BrokerInv, NEW t \in Threads, pc[t] \in {"entering", "awake"}, NEW k \in Nat,
         pc[t] = "awake" => k = id[t], Pass(t, k), nextId' \in Nat
  PROVE  BrokerInv'
<1> USE DEF BrokerInv
<1>0. slot[t] = NoSlot /\ req[t] \in Requests
  BY DEF OwnersHold, QueueTypes
<1>1. CASE Cancelled(t) /\ NotifyAll(t, "idle") /\ Leave(t) /\ UNCHANGED leaseVars
  <2>1. QueueTypes'
    BY <1>1, NotifyWakes, LeaveEffect DEF QueueTypes, leaseVars
  <2>2. OwnersHold' /\ SlotsPartitioned'
    BY <1>0, <1>1, NotifyWakes DEF OwnersHold, SlotsPartitioned, leaseVars
  <2>3. NoLostWakeup'
    BY <1>1, NotifyWakes, NobodyAsleep
  <2> QED BY <2>1, <2>2, <2>3
<1>2. CASE Reserve(t, req[t]) /\ NotifyAll(t, "holding") /\ Leave(t)
  <2>1. /\ available' \in Int /\ free' \subseteq Slots
        /\ cpu' \in [Threads -> Nat] /\ part' = part
        /\ slot' \in [Threads -> Slots \cup {NoSlot}]
        /\ \A u \in Threads \ {t} : slot'[u] = slot[u]
        /\ SlotsPartitioned'
    BY <1>0, <1>2, ReserveEffect
  <2>2. QueueTypes'
    BY <1>2, <2>1, NotifyWakes, LeaveEffect DEF QueueTypes
  <2>3. OwnersHold'
    BY <1>2, <2>1, NotifyWakes DEF OwnersHold
  <2>4. NoLostWakeup'
    BY <1>2, NotifyWakes, NobodyAsleep
  <2> QED BY <2>1, <2>2, <2>3, <2>4
<1>3. CASE /\ ~(Eligible(t, k) /\ Fits(req[t]))
           /\ pc' = [pc EXCEPT ![t] = "asleep"] /\ id' = [id EXCEPT ![t] = k]
           /\ UNCHANGED <<req, leaseVars>>
  <2>1. QueueTypes' /\ OwnersHold' /\ SlotsPartitioned'
    BY <1>0, <1>3 DEF QueueTypes, OwnersHold, SlotsPartitioned, leaseVars
  <2>2. Waiting \ {t} = Waiting' \ {t} /\ Waiting \subseteq Waiting'
    BY <1>3 DEF Waiting, QueueTypes
  <2>3. \A u \in Threads \ {t} : id'[u] = id[u] /\ pc'[u] = pc[u]
    BY <1>3 DEF QueueTypes
  <2>4. id'[t] = k /\ (t \in Waiting => id[t] = k)
    BY <1>3 DEF QueueTypes, Waiting
  <2>5. req' = req /\ available' = available /\ free' = free
    BY <1>3 DEF leaseVars
  <2>6. ASSUME NEW u \in Threads, pc'[u] = "asleep", Eligible(u, id[u])'
        PROVE  ~Fits(req[u])'
    <3>1. CASE u = t
      <4>1. Eligible(t, k)
        <5> SUFFICES ASSUME NEW v \in Waiting \ {t} PROVE ~Before(v, req[t], k)
          BY DEF Eligible
        <5>1. v \in Waiting' \ {u} /\ v \in Threads \ {t}
          BY <2>2, <3>1 DEF Waiting
        <5>2. ~Before(v, req[u], id[u])'
          BY <2>6, <5>1 DEF Eligible
        <5> QED BY <2>3, <2>4, <2>5, <3>1, <5>1, <5>2 DEF Before
      <4> QED BY <1>3, <2>5, <3>1, <4>1 DEF Fits
    <3>2. CASE u # t
      <4>1. pc[u] = "asleep"
        BY <2>3, <2>6, <3>2
      <4>2. Eligible(u, id[u])
        <5> SUFFICES ASSUME NEW v \in Waiting \ {u} PROVE ~Before(v, req[u], id[u])
          BY DEF Eligible
        <5>1. v \in Waiting' \ {u} /\ v \in Threads
          BY <2>2 DEF Waiting
        <5>2. ~Before(v, req[u], id[u])'
          BY <2>6, <5>1 DEF Eligible
        <5>3. id'[v] = id[v] /\ id'[u] = id[u]
          BY <2>3, <2>4, <3>2, <5>1
        <5> QED BY <2>5, <5>2, <5>3 DEF Before
      <4> QED BY <2>5, <4>1, <4>2 DEF NoLostWakeup, Fits
    <3> QED BY <3>1, <3>2
  <2>7. NoLostWakeup'
    BY <2>6 DEF NoLostWakeup
  <2> QED BY <2>1, <2>7
<1> QED BY <1>1, <1>2, <1>3 DEF Pass

\* A step that leaves the queue, the free permits and the slots alone, except
\* for a thread outside the queue, loses no wakeup.
LEMMA QueueUntouched ==
  ASSUME QueueTypes, NoLostWakeup, NEW t \in Threads,
         pc[t] \notin {"awake", "asleep"}, pc'[t] \notin {"awake", "asleep"},
         \A u \in Threads \ {t} : pc'[u] = pc[u] /\ id'[u] = id[u] /\ req'[u] = req[u],
         available' = available, free' = free
  PROVE  NoLostWakeup'
<1>1. Waiting' = Waiting /\ t \notin Waiting
  BY DEF Waiting
<1>2. \A u \in Waiting : pc'[u] = pc[u] /\ id'[u] = id[u] /\ req'[u] = req[u] /\ u \in Threads
  BY <1>1 DEF Waiting
<1> SUFFICES ASSUME NEW u \in Threads, pc'[u] = "asleep", Eligible(u, id[u])'
             PROVE  ~Fits(req[u])'
  BY DEF NoLostWakeup
<1>3. u \in Waiting /\ pc[u] = "asleep"
  BY <1>1, <1>2 DEF Waiting
<1>4. Eligible(u, id[u])
  BY <1>1, <1>2, <1>3 DEF Eligible, Before
<1> QED BY <1>2, <1>3, <1>4 DEF NoLostWakeup, Fits

\* Every step of the threads and of the cancel calls preserves the invariant.
LEMMA StepBroker == BrokerInv /\ [Next]_vars => BrokerInv'
<1> SUFFICES ASSUME BrokerInv, [Next]_vars PROVE BrokerInv'
  OBVIOUS
<1> USE BrokerAssumption DEF BrokerInv
<1>1. ASSUME NEW t \in Threads, TryAcquire(t) PROVE BrokerInv'
  <2>1. PICK r \in Requests : Reserve(t, r)
    BY <1>1 DEF TryAcquire
  <2>2. /\ pc[t] = "idle" /\ Waiting = {} /\ pc' = [pc EXCEPT ![t] = "holding"]
        /\ UNCHANGED <<nextId, id, req>>
    BY <1>1 DEF TryAcquire
  <2>3. slot[t] = NoSlot
    BY <2>2 DEF OwnersHold
  <2>4. /\ available' \in Int /\ free' \subseteq Slots
        /\ cpu' \in [Threads -> Nat] /\ part' = part
        /\ slot' \in [Threads -> Slots \cup {NoSlot}]
        /\ \A u \in Threads \ {t} : slot'[u] = slot[u]
        /\ SlotsPartitioned'
    BY <2>1, <2>3, ReserveEffect
  <2>5. QueueTypes' /\ OwnersHold'
    BY <2>2, <2>4 DEF QueueTypes, OwnersHold
  <2>6. \A u \in Threads : pc'[u] # "asleep"
    BY <2>2 DEF Waiting, QueueTypes
  <2> QED BY <2>4, <2>5, <2>6, NobodyAsleep
<1>2. ASSUME NEW t \in Threads, Acquire(t) PROVE BrokerInv'
  <2>1. PICK r \in Requests :
          /\ req' = [req EXCEPT ![t] = r]
          /\ pc' = [pc EXCEPT ![t] = IF r.token = NoToken THEN "entering" ELSE "registered"]
    BY <1>2 DEF Acquire
  <2>2. pc[t] = "idle" /\ UNCHANGED <<nextId, id, leaseVars>>
    BY <1>2 DEF Acquire
  <2>3. QueueTypes' /\ OwnersHold' /\ SlotsPartitioned'
    BY <2>1, <2>2 DEF QueueTypes, OwnersHold, SlotsPartitioned, leaseVars
  <2>4. NoLostWakeup'
    BY <2>1, <2>2, QueueUntouched DEF QueueTypes, leaseVars
  <2> QED BY <2>3, <2>4
<1>3. ASSUME NEW t \in Threads, EarlyCheck(t) \/ Exhausted(t) PROVE BrokerInv'
  <2>1. /\ pc[t] \in {"registered", "entering"}
        /\ pc' = [pc EXCEPT ![t] = "entering"] \/ pc' = [pc EXCEPT ![t] = "idle"]
        /\ UNCHANGED <<id, req>> \/ Leave(t)
        /\ UNCHANGED <<nextId, leaseVars>>
    BY <1>3 DEF EarlyCheck, Exhausted
  <2>2. id' \in [Threads -> Nat] /\ req' \in [Threads -> Requests]
    BY <2>1, LeaveEffect DEF QueueTypes
  <2>3. QueueTypes' /\ OwnersHold' /\ SlotsPartitioned'
    BY <2>1, <2>2 DEF QueueTypes, OwnersHold, SlotsPartitioned, leaseVars
  <2>4. \A u \in Threads \ {t} : pc'[u] = pc[u] /\ id'[u] = id[u] /\ req'[u] = req[u]
    BY <2>1, LeaveEffect DEF QueueTypes
  <2>5. pc[t] \notin {"awake", "asleep"} /\ pc'[t] \notin {"awake", "asleep"}
    BY <2>1 DEF QueueTypes
  <2>6. NoLostWakeup'
    BY <2>1, <2>4, <2>5, QueueUntouched DEF leaseVars
  <2> QED BY <2>3, <2>6
<1>4. ASSUME NEW t \in Threads, Enqueue(t) PROVE BrokerInv'
  <2>1. pc[t] = "entering" /\ nextId' = nextId + 1 /\ Pass(t, nextId)
    BY <1>4 DEF Enqueue
  <2>2. nextId \in Nat /\ nextId' \in Nat
    BY <2>1 DEF QueueTypes
  <2> QED BY <2>1, <2>2, PassKeeps
<1>5. ASSUME NEW t \in Threads, Recheck(t) PROVE BrokerInv'
  <2>1. pc[t] = "awake" /\ nextId' = nextId /\ Pass(t, id[t])
    BY <1>5 DEF Recheck
  <2>2. id[t] \in Nat /\ nextId' \in Nat
    BY <2>1 DEF QueueTypes
  <2> QED BY <2>1, <2>2, PassKeeps
<1>6. ASSUME NEW t \in Threads, SpuriousWake(t) PROVE BrokerInv'
  <2>1. /\ pc[t] = "asleep" /\ pc' = [pc EXCEPT ![t] = "awake"]
        /\ UNCHANGED <<nextId, id, req, leaseVars>>
    BY <1>6 DEF SpuriousWake
  <2>2. QueueTypes' /\ OwnersHold' /\ SlotsPartitioned'
    BY <2>1 DEF QueueTypes, OwnersHold, SlotsPartitioned, leaseVars
  <2>3. Waiting' = Waiting
    BY <2>1 DEF Waiting, QueueTypes
  <2>4. NoLostWakeup'
    BY <2>1, <2>3 DEF NoLostWakeup, Eligible, Before, Fits, QueueTypes, leaseVars
  <2> QED BY <2>2, <2>4
<1>7. ASSUME NEW t \in Threads, Split(t) PROVE BrokerInv'
  <2>1. /\ UNCHANGED <<queueVars, available, free, slot>>
        /\ cpu' \in [Threads -> Nat] /\ part' \in [Threads -> Nat]
    BY <1>7 DEF Split, QueueTypes
  <2>2. QueueTypes' /\ OwnersHold' /\ SlotsPartitioned'
    BY <2>1 DEF QueueTypes, OwnersHold, SlotsPartitioned, queueVars
  <2>3. NoLostWakeup'
    BY <2>1 DEF NoLostWakeup, Eligible, Before, Waiting, Fits, queueVars
  <2> QED BY <2>2, <2>3
<1>8. ASSUME NEW t \in Threads, NEW u \in Threads, AcceptTransfer(t, u) PROVE BrokerInv'
  <2>1. /\ pc[u] = "idle" /\ pc' = [pc EXCEPT ![u] = "holding"]
        /\ UNCHANGED <<nextId, id, req, available, free, slot>>
        /\ cpu' \in [Threads -> Nat] /\ part' \in [Threads -> Nat]
    BY <1>8 DEF AcceptTransfer, QueueTypes
  <2>2. QueueTypes' /\ OwnersHold' /\ SlotsPartitioned'
    BY <2>1 DEF QueueTypes, OwnersHold, SlotsPartitioned
  <2>3. NoLostWakeup'
    BY <2>1, QueueUntouched DEF QueueTypes
  <2> QED BY <2>2, <2>3
<1>9. ASSUME NEW t \in Threads, DropCpu(t) PROVE BrokerInv'
  <2>1. /\ NotifyAll(t, After(0, slot[t])) /\ After(0, slot[t]) \in {"idle", "holding"}
        /\ UNCHANGED <<nextId, id, req, free, part, slot>>
        /\ available' \in Int /\ cpu' \in [Threads -> Nat]
    BY <1>9 DEF DropCpu, After, QueueTypes
  <2>2. QueueTypes' /\ SlotsPartitioned'
    BY <2>1, NotifyWakes DEF QueueTypes, SlotsPartitioned
  <2>3. OwnersHold'
    BY <2>1, NotifyWakes DEF OwnersHold, After
  <2>4. NoLostWakeup'
    BY <2>1, NotifyWakes, NobodyAsleep
  <2> QED BY <2>2, <2>3, <2>4
<1>10. ASSUME NEW t \in Threads, DropTransfer(t) PROVE BrokerInv'
  <2>1. /\ pc' = Notified /\ UNCHANGED <<nextId, id, req, free, cpu, slot>>
        /\ available' \in Int /\ part' \in [Threads -> Nat]
    BY <1>10 DEF DropTransfer, QueueTypes
  <2>2. QueueTypes' /\ OwnersHold' /\ SlotsPartitioned'
    BY <2>1 DEF QueueTypes, OwnersHold, SlotsPartitioned, Notified
  <2>3. \A u \in Threads : pc'[u] # "asleep"
    BY <2>1 DEF Notified
  <2> QED BY <2>2, <2>3, NobodyAsleep
<1>11. ASSUME NEW t \in Threads, DropSlot(t) PROVE BrokerInv'
  <2>1. /\ slot[t] \in Slots
        /\ NotifyAll(t, After(cpu[t], NoSlot)) /\ After(cpu[t], NoSlot) \in {"idle", "holding"}
        /\ free' = free \cup {slot[t]} /\ slot' = [slot EXCEPT ![t] = NoSlot]
        /\ UNCHANGED <<nextId, id, req, available, cpu, part>>
    BY <1>11 DEF DropSlot, After, QueueTypes
  <2>2. QueueTypes' /\ OwnersHold'
    BY <2>1, NotifyWakes DEF QueueTypes, OwnersHold
  <2>3. SlotsPartitioned'
    BY <2>1 DEF SlotsPartitioned, QueueTypes
  <2>4. NoLostWakeup'
    BY <2>1, NotifyWakes, NobodyAsleep
  <2> QED BY <2>2, <2>3, <2>4
<1>12. ASSUME NEW c \in Cancellers, CancelList(c) \/ CancelSet(c) PROVE BrokerInv'
  <2>1. /\ pc' = pc \/ pc' = Notified
        /\ UNCHANGED <<nextId, id, req, leaseVars>>
    BY <1>12 DEF CancelList, CancelSet, queueVars
  <2>2. QueueTypes' /\ OwnersHold' /\ SlotsPartitioned'
    BY <2>1 DEF QueueTypes, OwnersHold, SlotsPartitioned, Notified, leaseVars
  <2>3. CASE pc' = pc
    BY <2>1, <2>2, <2>3 DEF NoLostWakeup, Eligible, Before, Waiting, Fits, leaseVars
  <2>4. CASE pc' = Notified
    <3>1. \A u \in Threads : pc'[u] # "asleep"
      BY <2>4 DEF Notified
    <3> QED BY <2>2, <3>1, NobodyAsleep
  <2> QED BY <2>1, <2>3, <2>4
<1>13. CASE UNCHANGED vars
  BY <1>13 DEF vars, queueVars, leaseVars, QueueTypes, OwnersHold, SlotsPartitioned,
               NoLostWakeup, Eligible, Before, Waiting, Fits
<1> QED
  BY <1>1, <1>2, <1>3, <1>4, <1>5, <1>6, <1>7, <1>8, <1>9, <1>10, <1>11, <1>12, <1>13
  DEF Next, ThreadStep

\* The invariant holds in every reachable state.
LEMMA Broker == Spec => []BrokerInv
  BY InitBroker, StepBroker, PTL DEF Spec

\* The waiter whose turn it is never sleeps through permits and a slot that
\* would serve it (every return, grant and cancelled wait calls notify_all).
THEOREM WakeupsAreNotLost == Spec => []NoLostWakeup
<1>1. BrokerInv => NoLostWakeup
  BY DEF BrokerInv
<1> QED BY <1>1, Broker, PTL

\* An auxiliary slot is free or owned by one lease (the asserts in Drop of
\* AuxiliarySlotLease never fire).
THEOREM SlotsStayPartitioned == Spec => []SlotsPartitioned
<1>1. BrokerInv => SlotsPartitioned
  BY DEF BrokerInv
<1> QED BY <1>1, Broker, PTL

\* A pass of the loop grants only the eligible waiter.
LEMMA PassInOrder ==
  ASSUME QueueTypes, NEW t \in Threads, NEW k, Pass(t, k),
         NEW v \in Threads, pc[v] # "holding", pc'[v] = "holding"
  PROVE  v = t /\ Eligible(t, k)
  BY NotifyWakes DEF Pass, QueueTypes

\* Grants follow next_eligible_waiter, and try_acquire passes nobody.
THEOREM GrantsFollowQueue == Spec => GrantsInOrder
<1> DEFINE Order ==
      \A t \in Threads :
        (pc[t] # "holding" /\ pc'[t] = "holding" /\ available' < available) =>
          \A u \in Waiting \ {t} :
            pc[t] # "idle" /\ ~Before(u, req[t], IF pc[t] = "entering" THEN nextId ELSE id[t])
<1>1. BrokerInv /\ [Next]_vars => [Order]_vars
  <2> SUFFICES ASSUME BrokerInv, Next, NEW v \in Threads,
                      pc[v] # "holding", pc'[v] = "holding", available' < available,
                      NEW w \in Waiting \ {v}
               PROVE  pc[v] # "idle"
                      /\ ~Before(w, req[v], IF pc[v] = "entering" THEN nextId ELSE id[v])
    OBVIOUS
  <2> USE DEF BrokerInv
  <2>1. ASSUME NEW t \in Threads, TryAcquire(t) PROVE FALSE
    BY <2>1 DEF TryAcquire
  <2>2. ASSUME NEW t \in Threads, Enqueue(t)
        PROVE  v = t /\ pc[v] = "entering" /\ Eligible(v, nextId)
    BY <2>2, PassInOrder DEF Enqueue
  <2>3. ASSUME NEW t \in Threads, Recheck(t)
        PROVE  v = t /\ pc[v] = "awake" /\ Eligible(v, id[v])
    BY <2>3, PassInOrder DEF Recheck
  <2>4. ASSUME NEW t \in Threads,
               \/ Acquire(t) \/ EarlyCheck(t) \/ Exhausted(t) \/ SpuriousWake(t)
               \/ Split(t) \/ DropSlot(t) \/ \E u \in Threads : AcceptTransfer(t, u)
        PROVE  FALSE
    BY <2>4 DEF Acquire, EarlyCheck, Exhausted, SpuriousWake, Split, DropSlot,
                AcceptTransfer, leaseVars, QueueTypes
  <2>5. ASSUME NEW t \in Threads, DropCpu(t) \/ DropTransfer(t) PROVE FALSE
    BY <2>5 DEF DropCpu, DropTransfer, QueueTypes
  <2>6. ASSUME NEW c \in Cancellers, CancelList(c) \/ CancelSet(c) PROVE FALSE
    BY <2>6 DEF CancelList, CancelSet, leaseVars, QueueTypes
  <2> QED BY <2>1, <2>2, <2>3, <2>4, <2>5, <2>6 DEF Next, ThreadStep, Eligible
<1>2. GrantsInOrder <=> [][Order]_vars
  BY DEF GrantsInOrder
<1> QED BY <1>1, <1>2, Broker, PTL DEF Spec
-----------------------------------------------------------------------------
(***************************************************************************)
(* The laws of Total that the proofs need.                                 *)
(***************************************************************************)

\* Finitely many bounded values have finitely many units.
LEMMA TotalType ==
  ASSUME NEW S, IsFiniteSet(S), NEW b \in Nat, NEW f \in [S -> 0..b]
  PROVE  IsFiniteSet(Units(f, b)) /\ Total(f, b) \in Nat
<1>1. IsFiniteSet(1..b)
  BY FS_Interval
<1>2. IsFiniteSet(S \X (1..b))
  BY <1>1, FS_Product
<1>3. Units(f, b) \in SUBSET (S \X (1..b))
  BY DEF Units
<1> QED BY <1>2, <1>3, FS_Subset, FS_CardinalityType DEF Total

\* The units of one value, beside those of the others.
LEMMA TotalColumn ==
  ASSUME NEW A, IsFiniteSet(A), NEW x, NEW n \in Nat, A \cap ({x} \X (1..n)) = {}
  PROVE  Cardinality(A \cup ({x} \X (1..n))) = Cardinality(A) + n /\ Cardinality(A) \in Nat
<1> DEFINE C == {x} \X (1..n)
<1>1. IsFiniteSet({x}) /\ Cardinality({x}) = 1
  BY FS_Singleton
<1>2. IsFiniteSet(1..n) /\ Cardinality(1..n) = n
  BY FS_Interval
<1>3. IsFiniteSet(C) /\ Cardinality(C) = Cardinality({x}) * Cardinality(1..n)
  BY <1>1, <1>2, FS_Product
<1>4. IsFiniteSet(C) /\ Cardinality(C) = n /\ A \cap C = {}
  BY <1>1, <1>2, <1>3
<1> HIDE DEF C
<1>5. Cardinality(A \cup C) = Cardinality(A) + Cardinality(C) - Cardinality(A \cap C)
  BY <1>4, FS_Union
<1>6. Cardinality(A) \in Nat /\ Cardinality(A \cap C) = 0
  BY <1>4, FS_CardinalityType, FS_EmptySet
<1>7. Cardinality(A \cup C) = Cardinality(A) + n
  BY <1>4, <1>5, <1>6
<1> QED BY <1>6, <1>7 DEF C

\* A changed value changes the total by the difference.
LEMMA TotalUpdate ==
  ASSUME NEW S, IsFiniteSet(S), NEW b \in Nat, NEW x \in S,
         NEW f \in [S -> 0..b], NEW g \in [S -> 0..b],
         \A s \in S \ {x} : g[s] = f[s]
  PROVE  Total(g, b) = Total(f, b) + g[x] - f[x]
<1> DEFINE A == {p \in Units(f, b) : p[1] # x}
           C(n) == {x} \X (1..n)
<1>1. Units(f, b) = A \cup C(f[x]) /\ Units(g, b) = A \cup C(g[x])
  BY DEF Units
<1>2. IsFiniteSet(A)
  BY TotalType, FS_Subset
<1>3. A \cap C(f[x]) = {} /\ A \cap C(g[x]) = {}
  OBVIOUS
<1>4. f[x] \in Nat /\ g[x] \in Nat
  OBVIOUS
<1> HIDE DEF A
<1>5. Cardinality(A \cup C(f[x])) = Cardinality(A) + f[x] /\ Cardinality(A) \in Nat
  BY <1>2, <1>3, <1>4, TotalColumn
<1>6. Cardinality(A \cup C(g[x])) = Cardinality(A) + g[x]
  BY <1>2, <1>3, <1>4, TotalColumn
<1> QED BY <1>1, <1>4, <1>5, <1>6 DEF Total

\* No units, no total.
LEMMA TotalZero ==
  ASSUME NEW S, NEW b \in Nat, NEW f \in [S -> 0..b], \A s \in S : f[s] = 0
  PROVE  Total(f, b) = 0
<1>1. Units(f, b) = {}
  BY DEF Units
<1> QED BY <1>1, FS_EmptySet DEF Total

-----------------------------------------------------------------------------
(* The permits: a thread that is not past its acquisition owns none, so a  *)
(* grant never overwrites a lease, and every step moves as many permits    *)
(* out of one place as into another.                                       *)

Widths == [t \in Threads |-> cpu[t] + part[t]]

LeaseTypes ==
  available \in Nat /\ cpu \in [Threads -> 0..Limit] /\ part \in [Threads -> 0..Limit]

\* The CPU lease of a thread that has not acquired is empty.
LeasesHeld == \A t \in Threads : cpu[t] # 0 => pc[t] = "holding"

PermitInv == LeaseTypes /\ LeasesHeld /\ PermitsConserved

\* The widths are bounded, and so is their sum.
LEMMA WidthsType ==
  ASSUME LeaseTypes
  PROVE  /\ Widths \in [Threads -> 0..(2 * Limit)] /\ 2 * Limit \in Nat
         /\ Total(Widths, 2 * Limit) \in Nat
         /\ PermitsConserved <=> available + Total(Widths, 2 * Limit) = Limit
<1>1. Widths \in [Threads -> 0..(2 * Limit)] /\ 2 * Limit \in Nat
  BY BrokerAssumption DEF Widths, LeaseTypes
<1>2. Total(Widths, 2 * Limit) \in Nat
  BY <1>1, TotalType, BrokerAssumption
<1> QED BY <1>1, <1>2 DEF PermitsConserved, Widths

\* The widths of the leases after a step are numbers of permits too.
LEMMA WidthsTypeNext ==
  ASSUME LeaseTypes'
  PROVE  /\ Widths' \in [Threads -> 0..(2 * Limit)]
         /\ Total(Widths', 2 * Limit) \in Nat
         /\ PermitsConserved' <=> available' + Total(Widths', 2 * Limit) = Limit
<1>1. Widths' \in [Threads -> 0..(2 * Limit)] /\ 2 * Limit \in Nat
  BY BrokerAssumption DEF Widths, LeaseTypes
<1>2. Total(Widths', 2 * Limit) \in Nat
  BY <1>1, TotalType, BrokerAssumption
<1> QED BY <1>1, <1>2 DEF PermitsConserved, Widths

\* What leaves the pool is added to the leases.
LEMMA Balance ==
  ASSUME NEW pool \in Nat, NEW held \in Nat, NEW p \in Nat, NEW h \in Nat, NEW total \in Nat,
         NEW c \in Nat, NEW d \in Nat, NEW x \in Nat, NEW y \in Nat,
         pool + held = total, h = held + (x + y) - (c + d), p + x + y = pool + c + d
  PROVE  p + h = total
  OBVIOUS

\* A step that moves permits between the pool and one thread.
LEMMA PermitsMove ==
  ASSUME LeaseTypes, LeaseTypes', PermitsConserved, NEW t \in Threads,
         \A u \in Threads \ {t} : cpu'[u] = cpu[u] /\ part'[u] = part[u],
         available' + cpu'[t] + part'[t] = available + cpu[t] + part[t]
  PROVE  PermitsConserved'
<1>1. /\ Widths \in [Threads -> 0..(2 * Limit)] /\ 2 * Limit \in Nat
      /\ Total(Widths, 2 * Limit) \in Nat
      /\ available + Total(Widths, 2 * Limit) = Limit
  BY WidthsType
<1>2. /\ Widths' \in [Threads -> 0..(2 * Limit)] /\ Total(Widths', 2 * Limit) \in Nat
      /\ PermitsConserved' <=> available' + Total(Widths', 2 * Limit) = Limit
  BY WidthsTypeNext
<1>3. \A u \in Threads \ {t} : Widths'[u] = Widths[u]
  BY DEF Widths
<1>4. Total(Widths', 2 * Limit) = Total(Widths, 2 * Limit) + Widths'[t] - Widths[t]
  BY <1>1, <1>2, <1>3, TotalUpdate, BrokerAssumption
<1>5. Widths'[t] = cpu'[t] + part'[t] /\ Widths[t] = cpu[t] + part[t]
  BY DEF Widths
<1>6. /\ cpu[t] \in Nat /\ part[t] \in Nat /\ cpu'[t] \in Nat /\ part'[t] \in Nat
      /\ available \in Nat /\ available' \in Nat /\ Limit \in Nat
  BY BrokerAssumption DEF LeaseTypes
<1> DEFINE old == Total(Widths, 2 * Limit)
           new == Total(Widths', 2 * Limit)
<1>7. /\ old \in Nat /\ new \in Nat /\ available + old = Limit
      /\ new = old + (cpu'[t] + part'[t]) - (cpu[t] + part[t])
  BY <1>1, <1>2, <1>4, <1>5
<1> HIDE DEF old, new
<1>8. available' + new = Limit
  BY <1>6, <1>7, Balance
<1> QED BY <1>2, <1>8 DEF new

\* A grant takes its width out of the pool for a thread that owns none.
LEMMA ReservePermits ==
  ASSUME PermitInv, QueueTypes, NEW t \in Threads, NEW r \in Requests, cpu[t] = 0,
         Fits(r), Reserve(t, r)
  PROVE  /\ LeaseTypes' /\ PermitsConserved'
         /\ \A u \in Threads \ {t} : cpu'[u] = cpu[u]
<1>1. r.width \in 1..Limit
  BY DEF Requests
<1>2. /\ available' = available - r.width /\ cpu' = [cpu EXCEPT ![t] = r.width] /\ part' = part
      /\ r.width <= available
  BY DEF Reserve, Fits
<1>3. LeaseTypes'
  BY <1>1, <1>2, BrokerAssumption DEF PermitInv, LeaseTypes
<1>4. \A u \in Threads \ {t} : cpu'[u] = cpu[u] /\ part'[u] = part[u]
  BY <1>2 DEF PermitInv, LeaseTypes
<1>5. available' + cpu'[t] + part'[t] = available + cpu[t] + part[t]
  BY <1>1, <1>2, BrokerAssumption DEF PermitInv, LeaseTypes
<1>6. PermitsConserved'
  BY <1>3, <1>4, <1>5, PermitsMove DEF PermitInv
<1> QED BY <1>3, <1>4, <1>6

\* At first every permit is free.
LEMMA InitPermits == Init => PermitInv
<1> SUFFICES ASSUME Init PROVE PermitInv
  OBVIOUS
<1>1. /\ available = Limit /\ cpu = [t \in Threads |-> 0] /\ part = [t \in Threads |-> 0]
  BY DEF Init
<1>2. LeaseTypes
  BY <1>1, BrokerAssumption DEF LeaseTypes
<1>3. \A t \in Threads : Widths[t] = 0
  BY <1>1 DEF Widths
<1>4. Total(Widths, 2 * Limit) = 0
  BY <1>2, <1>3, WidthsType, TotalZero
<1>5. PermitsConserved
  BY <1>1, <1>2, <1>4, WidthsType, BrokerAssumption
<1> QED BY <1>1, <1>2, <1>5 DEF PermitInv, LeasesHeld

\* A pass of the loop.
LEMMA PassPermits ==
  ASSUME BrokerInv, PermitInv, NEW t \in Threads, pc[t] \in {"entering", "awake"},
         NEW k \in Nat, Pass(t, k)
  PROVE  PermitInv'
<1> USE DEF PermitInv
<1>0. cpu[t] = 0 /\ QueueTypes /\ req[t] \in Requests
  BY DEF LeasesHeld, BrokerInv, QueueTypes
<1>1. CASE NotifyAll(t, "idle") /\ UNCHANGED leaseVars
  <2>1. \A u \in Threads \ {t} : (pc[u] = "holding") <=> (pc'[u] = "holding")
    BY <1>0, <1>1, NotifyWakes
  <2> QED BY <1>0, <1>1, <2>1 DEF LeaseTypes, LeasesHeld, PermitsConserved, leaseVars
<1>2. CASE Fits(req[t]) /\ Reserve(t, req[t]) /\ NotifyAll(t, "holding")
  <2>1. /\ \A u \in Threads \ {t} : (pc[u] = "holding") <=> (pc'[u] = "holding")
        /\ pc'[t] = "holding"
    BY <1>0, <1>2, NotifyWakes
  <2> QED BY <1>0, <1>2, <2>1, ReservePermits DEF LeasesHeld
<1>3. CASE pc' = [pc EXCEPT ![t] = "asleep"] /\ UNCHANGED leaseVars
  BY <1>0, <1>3 DEF LeaseTypes, LeasesHeld, PermitsConserved, leaseVars, QueueTypes
<1> QED BY <1>1, <1>2, <1>3 DEF Pass

\* Every step conserves the permits.
LEMMA StepPermits == BrokerInv /\ PermitInv /\ [Next]_vars => PermitInv'
<1> SUFFICES ASSUME BrokerInv, PermitInv, [Next]_vars PROVE PermitInv'
  OBVIOUS
<1> USE BrokerAssumption DEF PermitInv
<1>0. QueueTypes /\ \A t \in Threads : pc[t] # "holding" => cpu[t] = 0
  BY DEF BrokerInv, LeasesHeld
<1>1. ASSUME NEW t \in Threads, TryAcquire(t) PROVE PermitInv'
  <2>1. PICK r \in Requests : Fits(r) /\ Reserve(t, r)
    BY <1>1 DEF TryAcquire
  <2>2. pc[t] = "idle" /\ pc' = [pc EXCEPT ![t] = "holding"]
    BY <1>1 DEF TryAcquire
  <2>3. /\ LeaseTypes' /\ PermitsConserved'
        /\ \A u \in Threads \ {t} : cpu'[u] = cpu[u]
    BY <1>0, <2>1, <2>2, ReservePermits
  <2> QED BY <1>0, <2>2, <2>3 DEF LeasesHeld, QueueTypes
<1>2. ASSUME NEW t \in Threads,
             Acquire(t) \/ EarlyCheck(t) \/ Exhausted(t) \/ SpuriousWake(t)
      PROVE  PermitInv'
  <2>1. /\ UNCHANGED leaseVars /\ pc[t] # "holding"
        /\ \A u \in Threads \ {t} : pc'[u] = pc[u]
    BY <1>0, <1>2 DEF Acquire, EarlyCheck, Exhausted, SpuriousWake, QueueTypes
  <2> QED BY <1>0, <2>1 DEF LeaseTypes, LeasesHeld, PermitsConserved, leaseVars
<1>3. ASSUME NEW t \in Threads, Enqueue(t) \/ Recheck(t) PROVE PermitInv'
  <2>1. pc[t] \in {"entering", "awake"} /\ (Pass(t, nextId) \/ Pass(t, id[t]))
    BY <1>3 DEF Enqueue, Recheck
  <2>2. nextId \in Nat /\ id[t] \in Nat
    BY <1>0 DEF QueueTypes
  <2> QED BY <2>1, <2>2, PassPermits
<1>4. ASSUME NEW t \in Threads, Split(t) PROVE PermitInv'
  <2>1. PICK w \in 1..Limit :
          /\ w < cpu[t]
          /\ cpu' = [cpu EXCEPT ![t] = @ - w]
          /\ part' = [part EXCEPT ![t] = w]
    BY <1>4 DEF Split
  <2>2. part[t] = 0 /\ UNCHANGED <<pc, available>>
    BY <1>4 DEF Split, queueVars
  <2>3. LeaseTypes'
    BY <2>1, <2>2 DEF LeaseTypes
  <2>4. /\ \A u \in Threads \ {t} : cpu'[u] = cpu[u] /\ part'[u] = part[u]
        /\ cpu'[t] = cpu[t] - w /\ part'[t] = w
    BY <2>1 DEF LeaseTypes
  <2>5. available' + cpu'[t] + part'[t] = available + cpu[t] + part[t]
    BY <2>2, <2>4 DEF LeaseTypes
  <2>6. PermitsConserved'
    BY <2>3, <2>4, <2>5, PermitsMove
  <2> QED BY <2>1, <2>2, <2>3, <2>4, <2>6 DEF LeasesHeld, LeaseTypes
<1>5. ASSUME NEW t \in Threads, NEW u \in Threads, AcceptTransfer(t, u) PROVE PermitInv'
  <2>1. /\ part[t] > 0 /\ pc[u] = "idle" /\ cpu[u] = 0
        /\ cpu' = [cpu EXCEPT ![u] = part[t]] /\ part' = [part EXCEPT ![t] = 0]
        /\ pc' = [pc EXCEPT ![u] = "holding"] /\ available' = available
    BY <1>0, <1>5 DEF AcceptTransfer
  <2>2. LeaseTypes'
    BY <2>1 DEF LeaseTypes
  <2>3. LeasesHeld'
    BY <1>0, <2>1 DEF LeasesHeld, LeaseTypes, QueueTypes
  <2>4. CASE t = u
    <3>1. /\ \A v \in Threads \ {t} : cpu'[v] = cpu[v] /\ part'[v] = part[v]
          /\ available' + cpu'[t] + part'[t] = available + cpu[t] + part[t]
      BY <2>1, <2>4 DEF LeaseTypes
    <3> QED BY <2>2, <2>3, <3>1, PermitsMove
  <2>5. CASE t # u
    <3> DEFINE h == [Widths EXCEPT ![t] = cpu[t]]
               b == 2 * Limit
    <3>1. /\ Widths \in [Threads -> 0..b] /\ b \in Nat /\ Total(Widths, b) \in Nat
          /\ available + Total(Widths, b) = Limit
      BY WidthsType
    <3>2. Widths' \in [Threads -> 0..b] /\ (PermitsConserved' <=> available' + Total(Widths', b) = Limit)
      BY <2>2, WidthsTypeNext
    <3>3. cpu[t] \in 0..Limit /\ part[t] \in 0..Limit /\ part[u] \in 0..Limit
      BY DEF LeaseTypes
    <3>4. h \in [Threads -> 0..b] /\ h[t] = cpu[t] /\ h[u] = part[u]
      <4>1. cpu[t] \in 0..b
        BY <3>3
      <4>2. Widths[u] = part[u]
        BY <2>1, <3>3 DEF Widths
      <4> QED BY <2>5, <3>1, <4>1, <4>2
    <3>5. /\ \A v \in Threads \ {t} : h[v] = Widths[v]
          /\ Widths[t] = cpu[t] + part[t]
      BY <3>1 DEF Widths
    <3>6. /\ \A v \in Threads \ {u} : Widths'[v] = h[v]
          /\ Widths'[u] = part[t] + part[u]
      <4>1. \A v \in Threads : Widths'[v] = cpu'[v] + part'[v] /\ Widths[v] = cpu[v] + part[v]
        BY DEF Widths
      <4>2. cpu'[t] = cpu[t] /\ part'[t] = 0 /\ cpu'[u] = part[t] /\ part'[u] = part[u]
        BY <2>1, <2>5 DEF LeaseTypes
      <4>3. \A v \in Threads \ {t, u} : cpu'[v] = cpu[v] /\ part'[v] = part[v]
        BY <2>1 DEF LeaseTypes
      <4>4. Widths'[t] = h[t]
        BY <3>3, <3>4, <4>1, <4>2
      <4> QED BY <3>5, <4>1, <4>2, <4>3, <4>4
    <3> HIDE DEF h, b
    <3>7. Total(h, b) = Total(Widths, b) + h[t] - Widths[t]
      BY <3>1, <3>4, <3>5, TotalUpdate
    <3>8. Total(Widths', b) = Total(h, b) + Widths'[u] - h[u]
      <4> DEFINE g == Widths'
      <4>1. g \in [Threads -> 0..b] /\ \A v \in Threads \ {u} : g[v] = h[v]
        BY <3>2, <3>6
      <4> HIDE DEF g
      <4>2. b \in Nat /\ h \in [Threads -> 0..b] /\ IsFiniteSet(Threads)
        BY <3>1, <3>4, BrokerAssumption
      <4>3. Total(g, b) = Total(h, b) + g[u] - h[u]
        BY <4>1, <4>2, TotalUpdate
      <4> QED BY <4>3 DEF g
    <3>9. PermitsConserved'
      BY <2>1, <3>1, <3>2, <3>3, <3>4, <3>5, <3>6, <3>7, <3>8
    <3> QED BY <2>2, <2>3, <3>9
  <2> QED BY <2>4, <2>5
<1>6. ASSUME NEW t \in Threads, DropCpu(t) PROVE PermitInv'
  <2>1. /\ available' = available + cpu[t] /\ cpu' = [cpu EXCEPT ![t] = 0] /\ part' = part
        /\ NotifyAll(t, After(0, slot[t])) /\ After(0, slot[t]) \in {"idle", "holding"}
    BY <1>6 DEF DropCpu, After
  <2>2. LeaseTypes'
    BY <2>1 DEF LeaseTypes
  <2>3. /\ \A u \in Threads \ {t} : cpu'[u] = cpu[u] /\ part'[u] = part[u]
        /\ cpu'[t] = 0
        /\ available' + cpu'[t] + part'[t] = available + cpu[t] + part[t]
    BY <2>1 DEF LeaseTypes
  <2>4. \A u \in Threads \ {t} : (pc[u] = "holding") <=> (pc'[u] = "holding")
    BY <1>0, <2>1, NotifyWakes
  <2>5. PermitsConserved'
    BY <2>2, <2>3, PermitsMove
  <2> QED BY <2>2, <2>3, <2>4, <2>5 DEF LeasesHeld
<1>7. ASSUME NEW t \in Threads, DropTransfer(t) PROVE PermitInv'
  <2>1. /\ available' = available + part[t] /\ part' = [part EXCEPT ![t] = 0] /\ cpu' = cpu
        /\ pc' = Notified
    BY <1>7 DEF DropTransfer
  <2>2. LeaseTypes'
    BY <2>1 DEF LeaseTypes
  <2>3. /\ \A u \in Threads \ {t} : cpu'[u] = cpu[u] /\ part'[u] = part[u]
        /\ available' + cpu'[t] + part'[t] = available + cpu[t] + part[t]
    BY <2>1 DEF LeaseTypes
  <2>4. PermitsConserved'
    BY <2>2, <2>3, PermitsMove
  <2> QED BY <2>1, <2>2, <2>4 DEF LeasesHeld, Notified
<1>8. ASSUME NEW t \in Threads, DropSlot(t) PROVE PermitInv'
  <2>1. /\ UNCHANGED <<available, cpu, part>>
        /\ NotifyAll(t, After(cpu[t], NoSlot)) /\ After(cpu[t], NoSlot) \in {"idle", "holding"}
    BY <1>8 DEF DropSlot, After
  <2>2. /\ \A u \in Threads \ {t} : (pc[u] = "holding") <=> (pc'[u] = "holding")
        /\ pc'[t] = After(cpu[t], NoSlot)
    BY <1>0, <2>1, NotifyWakes
  <2> QED BY <2>1, <2>2 DEF LeaseTypes, LeasesHeld, PermitsConserved, After
<1>9. ASSUME NEW c \in Cancellers, CancelList(c) \/ CancelSet(c) PROVE PermitInv'
  <2>1. UNCHANGED <<available, cpu, part>> /\ (pc' = pc \/ pc' = Notified)
    BY <1>9 DEF CancelList, CancelSet, queueVars, leaseVars
  <2> QED BY <2>1 DEF LeaseTypes, LeasesHeld, PermitsConserved, Notified
<1>10. CASE UNCHANGED vars
  BY <1>10 DEF vars, queueVars, leaseVars, LeaseTypes, LeasesHeld, PermitsConserved
<1> QED
  BY <1>1, <1>2, <1>3, <1>4, <1>5, <1>6, <1>7, <1>8, <1>9, <1>10 DEF Next, ThreadStep

\* The invariant holds in every state of every behaviour.
LEMMA Permits == Spec => []PermitInv
  BY InitPermits, StepPermits, Broker, PTL DEF Spec

\* The free permits and all leases add up to the installed limit, through every
\* grant, split, transfer and drop (the asserts in Drop of CpuLease never fire).
THEOREM PermitsAreConserved == Spec => []PermitsConserved
<1>1. PermitInv => PermitsConserved
  BY DEF PermitInv
<1> QED BY <1>1, Permits, PTL
-----------------------------------------------------------------------------
(* The remaining types, and what cancel leaves asleep.                     *)

IdTypes == nextId \in 0..MaxId /\ id \in [Threads -> 0..MaxId]

CancelTypes ==
  /\ cancelled \in SUBSET Tokens /\ registered \in SUBSET Tokens
  /\ cpc \in [Cancellers -> {"start", "unlisted", "listed", "done", "missed"}]
  /\ ctok \in [Cancellers -> Tokens \cup {NoToken}]
  /\ \A c \in Cancellers : cpc[c] # "start" => ctok[c] \in Tokens

CancelInv == IdTypes /\ CancelTypes /\ CancelWakesWaiters

\* At first no cancel is under way.
LEMMA InitCancel == Init => CancelInv
  BY BrokerAssumption DEF Init, CancelInv, IdTypes, CancelTypes, CancelWakesWaiters

\* A step of a thread that puts no cancelled request to sleep.
LEMMA CancelUntouched ==
  ASSUME CancelWakesWaiters, UNCHANGED <<cancelled, cpc, ctok>>,
         \A u \in Threads :
           \/ pc'[u] # "asleep"
           \/ pc[u] = "asleep" /\ req'[u] = req[u]
           \/ req'[u].token \notin cancelled
  PROVE  CancelWakesWaiters'
  BY DEF CancelWakesWaiters, Cancelled

\* A pass of the loop looks at the token before it sleeps.
LEMMA PassCancel ==
  ASSUME BrokerInv, CancelInv, NEW t \in Threads, NEW k \in 0..MaxId, Pass(t, k),
         UNCHANGED cancelVars
  PROVE  id' \in [Threads -> 0..MaxId] /\ CancelWakesWaiters'
<1>0. QueueTypes /\ UNCHANGED <<cancelled, cpc, ctok>> /\ id \in [Threads -> 0..MaxId]
      /\ CancelWakesWaiters
  BY DEF BrokerInv, CancelInv, IdTypes, cancelVars
<1>1. CASE (NotifyAll(t, "idle") \/ NotifyAll(t, "holding")) /\ Leave(t)
  <2>1. \A u \in Threads : pc'[u] # "asleep"
    BY <1>0, <1>1, NotifyWakes
  <2>2. id' \in [Threads -> 0..MaxId]
    BY <1>0, <1>1, BrokerAssumption DEF Leave
  <2> QED BY <1>0, <2>1, <2>2, CancelUntouched
<1>2. CASE /\ ~Cancelled(t) /\ pc' = [pc EXCEPT ![t] = "asleep"]
           /\ id' = [id EXCEPT ![t] = k] /\ UNCHANGED req
  <2>1. \A u \in Threads : pc'[u] = IF u = t THEN "asleep" ELSE pc[u]
    BY <1>0, <1>2 DEF QueueTypes
  <2>2. id' \in [Threads -> 0..MaxId]
    BY <1>0, <1>2
  <2> QED BY <1>0, <1>2, <2>1, <2>2, CancelUntouched DEF Cancelled
<1> QED BY <1>1, <1>2 DEF Pass

\* Every step keeps the types, and every sleeper that a cancel missed is one
\* whose token the cancel had looked up too early.
LEMMA StepCancel == BrokerInv /\ CancelInv /\ [Next]_vars => CancelInv'
<1> SUFFICES ASSUME BrokerInv, CancelInv, [Next]_vars PROVE CancelInv'
  OBVIOUS
<1> USE BrokerAssumption DEF CancelInv
<1>0. QueueTypes
  BY DEF BrokerInv
<1>1. ASSUME NEW t \in Threads, TryAcquire(t) PROVE CancelInv'
  <2>1. /\ UNCHANGED <<nextId, id, req, cancelled, registered, cpc, ctok>>
        /\ pc' = [pc EXCEPT ![t] = "holding"]
    BY <1>1 DEF TryAcquire, cancelVars
  <2>2. CancelWakesWaiters'
    BY <1>0, <2>1, CancelUntouched DEF QueueTypes
  <2> QED BY <2>1, <2>2 DEF IdTypes, CancelTypes
<1>2. ASSUME NEW t \in Threads, Acquire(t) PROVE CancelInv'
  <2>1. PICK r \in Requests :
          /\ req' = [req EXCEPT ![t] = r]
          /\ pc' = [pc EXCEPT ![t] = IF r.token = NoToken THEN "entering" ELSE "registered"]
          /\ registered' = registered \cup ({r.token} \ {NoToken})
    BY <1>2 DEF Acquire
  <2>2. UNCHANGED <<nextId, id, cancelled, cpc, ctok>>
    BY <1>2 DEF Acquire
  <2>3. r.token \in Tokens \cup {NoToken}
    BY DEF Requests
  <2>4. CancelWakesWaiters'
    BY <1>0, <2>1, <2>2, CancelUntouched DEF QueueTypes
  <2>5. registered' \in SUBSET Tokens
    BY <2>1, <2>3 DEF CancelTypes
  <2> QED BY <2>2, <2>4, <2>5 DEF IdTypes, CancelTypes
<1>3. ASSUME NEW t \in Threads, EarlyCheck(t) \/ Exhausted(t) PROVE CancelInv'
  <2>1. /\ UNCHANGED <<nextId, cancelled, registered, cpc, ctok>>
        /\ pc' = [pc EXCEPT ![t] = "entering"] \/ pc' = [pc EXCEPT ![t] = "idle"]
        /\ UNCHANGED <<id, req>> \/ Leave(t)
    BY <1>3 DEF EarlyCheck, Exhausted, cancelVars
  <2>2. /\ \A u \in Threads \ {t} : pc'[u] = pc[u] /\ req'[u] = req[u]
        /\ pc'[t] # "asleep"
    BY <1>0, <2>1, LeaveEffect DEF QueueTypes
  <2>3. id' \in [Threads -> 0..MaxId]
    BY <2>1 DEF Leave, IdTypes
  <2>4. CancelWakesWaiters'
    BY <2>1, <2>2, CancelUntouched
  <2> QED BY <2>1, <2>3, <2>4 DEF IdTypes, CancelTypes
<1>4. ASSUME NEW t \in Threads, Enqueue(t) PROVE CancelInv'
  <2>1. nextId < MaxId /\ nextId' = nextId + 1 /\ Pass(t, nextId) /\ UNCHANGED cancelVars
    BY <1>4 DEF Enqueue
  <2>2. nextId \in 0..MaxId /\ nextId' \in 0..MaxId
    BY <2>1 DEF IdTypes
  <2>3. id' \in [Threads -> 0..MaxId] /\ CancelWakesWaiters'
    BY <2>1, <2>2, PassCancel
  <2> QED BY <2>1, <2>2, <2>3 DEF IdTypes, CancelTypes, cancelVars
<1>5. ASSUME NEW t \in Threads, Recheck(t) PROVE CancelInv'
  <2>1. Pass(t, id[t]) /\ UNCHANGED nextId /\ UNCHANGED cancelVars
    BY <1>5 DEF Recheck
  <2>2. id[t] \in 0..MaxId
    BY DEF IdTypes
  <2>3. id' \in [Threads -> 0..MaxId] /\ CancelWakesWaiters'
    BY <2>1, <2>2, PassCancel
  <2> QED BY <2>1, <2>3 DEF IdTypes, CancelTypes, cancelVars
<1>6. ASSUME NEW t \in Threads,
             \/ SpuriousWake(t) \/ Split(t) \/ DropCpu(t) \/ DropTransfer(t) \/ DropSlot(t)
             \/ \E u \in Threads : AcceptTransfer(t, u)
      PROVE  CancelInv'
  <2>1. UNCHANGED <<nextId, id, req, cancelled, registered, cpc, ctok>>
    BY <1>6 DEF SpuriousWake, Split, DropCpu, DropTransfer, DropSlot, AcceptTransfer,
                queueVars, cancelVars
  <2>2. ASSUME NEW u \in Threads, pc'[u] = "asleep" PROVE pc[u] = "asleep"
    <3>1. CASE SpuriousWake(t) \/ Split(t) \/ DropTransfer(t) \/ \E v \in Threads : AcceptTransfer(t, v)
      BY <1>0, <2>2, <3>1 DEF SpuriousWake, Split, DropTransfer, AcceptTransfer, Notified,
                              queueVars, QueueTypes
    <3>2. CASE DropCpu(t)
      <4>1. NotifyAll(t, After(0, slot[t])) /\ After(0, slot[t]) \in {"idle", "holding"}
        BY <3>2 DEF DropCpu, After
      <4> QED BY <1>0, <2>2, <4>1, NotifyWakes
    <3>3. CASE DropSlot(t)
      <4>1. NotifyAll(t, After(cpu[t], NoSlot)) /\ After(cpu[t], NoSlot) \in {"idle", "holding"}
        BY <3>3 DEF DropSlot, After
      <4> QED BY <1>0, <2>2, <4>1, NotifyWakes
    <3> QED BY <1>6, <3>1, <3>2, <3>3
  <2>3. CancelWakesWaiters'
    BY <2>1, <2>2, CancelUntouched
  <2> QED BY <2>1, <2>3 DEF IdTypes, CancelTypes
<1>7. ASSUME NEW c \in Cancellers, CancelList(c) PROVE CancelInv'
  <2>1. PICK k \in Tokens :
          /\ ctok' = [ctok EXCEPT ![c] = k]
          /\ cpc' = [cpc EXCEPT ![c] = IF k \in registered THEN "listed" ELSE "unlisted"]
    BY <1>7 DEF CancelList
  <2>2. cpc[c] = "start" /\ UNCHANGED <<nextId, pc, id, req, cancelled, registered>>
    BY <1>7 DEF CancelList, queueVars
  <2>3. CancelTypes'
    BY <2>1, <2>2 DEF CancelTypes
  <2>4. \A d \in Cancellers : cpc[d] = "missed" => cpc'[d] = "missed" /\ ctok'[d] = ctok[d]
    BY <2>1, <2>2 DEF CancelTypes
  <2>5. CancelWakesWaiters'
    BY <2>2, <2>4 DEF CancelWakesWaiters, Cancelled
  <2> QED BY <2>2, <2>3, <2>5 DEF IdTypes
<1>8. ASSUME NEW c \in Cancellers, CancelSet(c) PROVE CancelInv'
  <2>1. /\ cpc[c] \in {"listed", "unlisted"}
        /\ cpc' = [cpc EXCEPT ![c] = IF @ = "listed" THEN "done" ELSE "missed"]
        /\ cancelled' = cancelled \cup {ctok[c]}
        /\ pc' = IF cpc[c] = "listed" /\ ctok[c] \notin cancelled THEN Notified ELSE pc
        /\ UNCHANGED <<nextId, id, req, registered, ctok>>
    BY <1>8 DEF CancelSet
  <2>2. CancelTypes'
    BY <2>1 DEF CancelTypes
  <2>3. \A d \in Cancellers : cpc[d] = "missed" => cpc'[d] = "missed"
    BY <2>1 DEF CancelTypes
  <2>4. CASE cpc[c] = "listed" /\ ctok[c] \notin cancelled
    <3>1. \A u \in Threads : pc'[u] # "asleep"
      BY <2>1, <2>4 DEF Notified
    <3>2. CancelWakesWaiters'
      BY <3>1 DEF CancelWakesWaiters
    <3> QED BY <2>1, <2>2, <3>2 DEF IdTypes
  <2>5. CASE cpc[c] = "listed" /\ ctok[c] \in cancelled
    <3>1. cancelled' = cancelled /\ pc' = pc
      BY <2>1, <2>5
    <3>2. CancelWakesWaiters'
      BY <2>1, <2>3, <3>1 DEF CancelWakesWaiters, Cancelled
    <3> QED BY <2>1, <2>2, <3>2 DEF IdTypes
  <2>6. CASE cpc[c] = "unlisted"
    <3>1. cpc'[c] = "missed" /\ pc' = pc
      BY <2>1, <2>6 DEF CancelTypes
    <3>2. CancelWakesWaiters'
      BY <2>1, <2>3, <3>1 DEF CancelWakesWaiters, Cancelled
    <3> QED BY <2>1, <2>2, <3>2 DEF IdTypes
  <2> QED BY <2>1, <2>4, <2>5, <2>6
<1>9. CASE UNCHANGED vars
  BY <1>9 DEF vars, queueVars, leaseVars, cancelVars, IdTypes, CancelTypes, CancelWakesWaiters, Cancelled
<1> QED
  BY <1>1, <1>2, <1>3, <1>4, <1>5, <1>6, <1>7, <1>8, <1>9 DEF Next, ThreadStep

\* The invariant holds in every state of every behaviour.
LEMMA Cancel == Spec => []CancelInv
  BY InitCancel, StepCancel, Broker, PTL DEF Spec

\* cancel leaves a waiter of its token asleep only when it had read the token's
\* list of brokers before the waiter's acquire put this one on it.
THEOREM CancelsWakeWaiters == Spec => []CancelWakesWaiters
<1>1. CancelInv => CancelWakesWaiters
  BY DEF CancelInv
<1> QED BY <1>1, Cancel, PTL

\* Every field keeps its range: the free permits never exceed the installed limit
\* nor fall below zero, which rests on their conservation.
THEOREM BrokerTypes == Spec => []TypeOK
<1>1. BrokerInv /\ PermitInv /\ CancelInv => TypeOK
  <2> SUFFICES ASSUME BrokerInv, PermitInv, CancelInv PROVE TypeOK
    OBVIOUS
  <2>1. available \in 0..Limit
    BY WidthsType, BrokerAssumption DEF PermitInv, LeaseTypes
  <2> QED BY <2>1 DEF TypeOK, BrokerInv, QueueTypes, PermitInv, LeaseTypes, CancelInv, IdTypes,
                      CancelTypes
<1> QED BY <1>1, Broker, Permits, Cancel, PTL
=============================================================================
