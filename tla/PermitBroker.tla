---------------------------- MODULE PermitBroker ----------------------------
(***************************************************************************)
(* The process-wide CPU permit broker (neoethos-execution-budget,          *)
(* src/lib.rs: CpuPermitBroker, CompositeAdmissionAuthority,               *)
(* CancellationToken, CpuLease, AuxiliarySlotLease).                       *)
(*                                                                         *)
(* Threads acquire a width of CPU permits, with or without one auxiliary   *)
(* slot, blocking on one mutex and one condition variable.  An action is   *)
(* one critical section of that mutex, or one atomic step outside it.      *)
(* Waiter ids grow with every push_back and waiters are removed by id, so  *)
(* the deque is the set of waiting threads ordered by their ids.  A call   *)
(* that returns an error or None without touching the broker (a nested     *)
(* acquisition, a width above the limit, try_acquire when it would have to *)
(* wait) is a stuttering step.                                             *)
(***************************************************************************)
EXTENDS Integers, FiniteSets, Units

CONSTANTS
  Threads,     \* threads that acquire, hold and hand over leases
  Cancellers,  \* calls of CancellationToken::cancel
  Tokens,      \* cancellation tokens
  NoToken,     \* acquire() without a token
  Limit,       \* installed_limit
  Slots,       \* slot indices of the auxiliary pool
  NoSlot,      \* no auxiliary slot
  MaxId        \* bound: ids below MaxId, then WaiterSequenceExhausted (u64::MAX)

ASSUME BrokerAssumption ==
  /\ Limit \in Nat \ {0}
  /\ MaxId \in Nat
  /\ IsFiniteSet(Threads)
  /\ NoToken \notin Tokens
  /\ NoSlot \notin Slots

VARIABLES
  available,   \* BrokerState.available
  nextId,      \* BrokerState.next_waiter_id
  free,        \* AuxiliaryPoolState.free_slots
  pc,          \* where each thread is in acquire_resources_inner
  id,          \* waiter id of each thread in the queue
  req,         \* the request of each thread
  cpu,         \* width of the CpuLease each thread owns, 0 for none
  part,        \* width of a CpuLease split off and offered as a transfer
  slot,        \* the AuxiliarySlotLease each thread owns
  cancelled,   \* CancellationInner.cancelled
  registered,  \* tokens whose list of brokers names this broker
  cpc,         \* where each call of cancel is
  ctok         \* the token each call cancels

queueVars  == <<nextId, pc, id, req>>
leaseVars  == <<available, free, cpu, part, slot>>
cancelVars == <<cancelled, registered, cpc, ctok>>
vars == <<queueVars, leaseVars, cancelVars>>

\* validate_width admits no request above the installed limit.
Requests ==
  [width : 1..Limit, child : BOOLEAN, aux : BOOLEAN, token : Tokens \cup {NoToken}]
NoRequest == [width |-> 1, child |-> FALSE, aux |-> FALSE, token |-> NoToken]

TypeOK ==
  /\ available \in 0..Limit
  /\ nextId \in 0..MaxId
  /\ free \in SUBSET Slots
  /\ pc \in [Threads -> {"idle", "registered", "entering", "awake", "asleep", "holding"}]
  /\ id \in [Threads -> 0..MaxId]
  /\ req \in [Threads -> Requests]
  /\ cpu \in [Threads -> 0..Limit]
  /\ part \in [Threads -> 0..Limit]
  /\ slot \in [Threads -> Slots \cup {NoSlot}]
  /\ cancelled \in SUBSET Tokens
  /\ registered \in SUBSET Tokens
  /\ cpc \in [Cancellers -> {"start", "unlisted", "listed", "done", "missed"}]
  /\ ctok \in [Cancellers -> Tokens \cup {NoToken}]

Init ==
  /\ available = Limit
  /\ nextId = 0
  /\ free = Slots
  /\ pc = [t \in Threads |-> "idle"]
  /\ id = [t \in Threads |-> 0]
  /\ req = [t \in Threads |-> NoRequest]
  /\ cpu = [t \in Threads |-> 0]
  /\ part = [t \in Threads |-> 0]
  /\ slot = [t \in Threads |-> NoSlot]
  /\ cancelled = {}
  /\ registered \in SUBSET Tokens  \* by earlier uses of the token
  /\ cpc = [c \in Cancellers |-> "start"]
  /\ ctok = [c \in Cancellers |-> NoToken]
-----------------------------------------------------------------------------
(* The queue and the two pools.                                            *)

\* BrokerState.waiters.
Waiting == {t \in Threads : pc[t] \in {"awake", "asleep"}}

\* Waiter u is served before a request r with waiter id k: children before
\* local requests, then in the order of the ids.
Before(u, r, k) == IF req[u].child = r.child THEN id[u] < k ELSE req[u].child

\* next_eligible_waiter is thread t, queued with id k.
Eligible(t, k) == \A u \in Waiting \ {t} : ~Before(u, req[t], k)

\* Mutant: off by one.
FitsOneMore(r) == r.width <= available + 1 /\ (r.aux => free # {})

\* Enough permits and, for a composite request, a free auxiliary slot.
Fits(r) == r.width <= available /\ (r.aux => free # {})

\* is_cancelled of the thread's token.
Cancelled(t) == req[t].token \in cancelled

\* The program counters after notify_all.
Notified == [t \in Threads |-> IF pc[t] = "asleep" THEN "awake" ELSE pc[t]]

\* notify_all while thread t moves on to next.
NotifyAll(t, next) == pc' = [Notified EXCEPT ![t] = next]

\* Mutant: the slot handed out stays on the free list.
ReserveKeepsSlotFree(t, r) ==
  /\ available' = available - r.width
  /\ cpu' = [cpu EXCEPT ![t] = r.width]
  /\ IF r.aux THEN \E s \in free : slot' = [slot EXCEPT ![t] = s] ELSE UNCHANGED slot
  /\ UNCHANGED <<free, part>>

\* reserve_resources: both resources leave their pools in one critical section.
Reserve(t, r) ==
  /\ available' = available - r.width
  /\ cpu' = [cpu EXCEPT ![t] = r.width]
  /\ IF r.aux
     THEN \E s \in free : free' = free \ {s} /\ slot' = [slot EXCEPT ![t] = s]
     ELSE UNCHANGED <<free, slot>>
  /\ UNCHANGED part

\* remove_waiter: the thread's Waiter record is gone.
Leave(t) == id' = [id EXCEPT ![t] = 0] /\ req' = [req EXCEPT ![t] = NoRequest]
-----------------------------------------------------------------------------
(* Acquisition.                                                            *)

\* Mutant: an immediate acquisition does not look at the queue.
TryAcquireBarges(t) ==
  /\ pc[t] = "idle"
  /\ \E r \in Requests :
       r.token = NoToken /\ Fits(r) /\ Reserve(t, r)
  /\ pc' = [pc EXCEPT ![t] = "holding"]
  /\ UNCHANGED <<nextId, id, req, cancelVars>>

\* try_acquire_resources: immediately, and never before a queued request.
TryAcquire(t) ==
  /\ pc[t] = "idle"
  /\ Waiting = {}
  /\ \E r \in Requests :
       r.token = NoToken /\ Fits(r) /\ Reserve(t, r)
  /\ pc' = [pc EXCEPT ![t] = "holding"]
  /\ UNCHANGED <<nextId, id, req, cancelVars>>

\* acquire / acquire_cancellable: a cancellable request registers its token.
Acquire(t) ==
  /\ pc[t] = "idle"
  /\ \E r \in Requests :
       /\ req' = [req EXCEPT ![t] = r]
       /\ pc' = [pc EXCEPT ![t] = IF r.token = NoToken THEN "entering" ELSE "registered"]
       /\ registered' = registered \cup ({r.token} \ {NoToken})
  /\ UNCHANGED <<nextId, id, leaseVars, cancelled, cpc, ctok>>

\* The look at the token before the broker's mutex is taken.
EarlyCheck(t) ==
  /\ pc[t] = "registered"
  /\ \/ ~Cancelled(t) /\ pc' = [pc EXCEPT ![t] = "entering"] /\ UNCHANGED <<id, req>>
     \/ Cancelled(t) /\ pc' = [pc EXCEPT ![t] = "idle"] /\ Leave(t)
  /\ UNCHANGED <<nextId, leaseVars, cancelVars>>

\* One pass of the loop by thread t, whose waiter has id k: cancelled, granted
\* or back to the condition variable.
Pass(t, k) ==
  \/ /\ Cancelled(t)
     /\ NotifyAll(t, "idle") /\ Leave(t)
     /\ UNCHANGED leaseVars
  \/ /\ ~Cancelled(t) /\ Eligible(t, k) /\ Fits(req[t])
     /\ Reserve(t, req[t])
     /\ NotifyAll(t, "holding") /\ Leave(t)
  \/ /\ ~Cancelled(t) /\ ~(Eligible(t, k) /\ Fits(req[t]))
     /\ pc' = [pc EXCEPT ![t] = "asleep"]
     /\ id' = [id EXCEPT ![t] = k]
     /\ UNCHANGED <<req, leaseVars>>

\* The mutex is taken, the waiter pushed and the first pass made.
Enqueue(t) ==
  /\ pc[t] = "entering" /\ nextId < MaxId
  /\ nextId' = nextId + 1
  /\ Pass(t, nextId)
  /\ UNCHANGED cancelVars

\* checked_add failed: WaiterSequenceExhausted.
Exhausted(t) ==
  /\ pc[t] = "entering" /\ nextId = MaxId
  /\ pc' = [pc EXCEPT ![t] = "idle"] /\ Leave(t)
  /\ UNCHANGED <<nextId, leaseVars, cancelVars>>

\* A notified waiter takes the mutex back and passes the loop again.
Recheck(t) ==
  /\ pc[t] = "awake"
  /\ Pass(t, id[t])
  /\ UNCHANGED <<nextId, cancelVars>>

\* A condition variable may wake without a notification.
SpuriousWake(t) ==
  /\ pc[t] = "asleep"
  /\ pc' = [pc EXCEPT ![t] = "awake"]
  /\ UNCHANGED <<nextId, id, req, leaseVars, cancelVars>>
-----------------------------------------------------------------------------
(* Leases.                                                                 *)

\* Where thread t is once it owns the CPU width c and the slot s.
After(c, s) == IF c = 0 /\ s = NoSlot THEN "idle" ELSE "holding"

\* Mutant: the parent keeps its full width.
SplitKeepsParent(t) ==
  /\ part[t] = 0
  /\ \E w \in 1..Limit : w < cpu[t] /\ part' = [part EXCEPT ![t] = w]
  /\ UNCHANGED <<queueVars, available, free, cpu, slot, cancelVars>>

\* CpuLease::split, strictly inside the parent, and into_transfer.
Split(t) ==
  /\ part[t] = 0
  /\ \E w \in 1..Limit :
       /\ w < cpu[t]
       /\ cpu' = [cpu EXCEPT ![t] = @ - w]
       /\ part' = [part EXCEPT ![t] = w]
  /\ UNCHANGED <<queueVars, available, free, slot, cancelVars>>

\* CpuLeaseTransfer::accept by another thread, which works in its scope.
AcceptTransfer(t, u) ==
  /\ part[t] > 0 /\ pc[u] = "idle"
  /\ cpu' = [cpu EXCEPT ![u] = part[t]]
  /\ part' = [part EXCEPT ![t] = 0]
  /\ pc' = [pc EXCEPT ![u] = "holding"]
  /\ UNCHANGED <<nextId, id, req, available, free, slot, cancelVars>>

\* Drop of a CpuLease.
DropCpu(t) ==
  /\ cpu[t] > 0
  /\ available' = available + cpu[t]
  /\ cpu' = [cpu EXCEPT ![t] = 0]
  /\ NotifyAll(t, After(0, slot[t]))
  /\ UNCHANGED <<nextId, id, req, free, part, slot, cancelVars>>

\* Drop of a transfer nobody accepted, by whoever it was sent to.
DropTransfer(t) ==
  /\ part[t] > 0
  /\ available' = available + part[t]
  /\ part' = [part EXCEPT ![t] = 0]
  /\ pc' = Notified
  /\ UNCHANGED <<nextId, id, req, free, cpu, slot, cancelVars>>

\* Mutant: the slot comes back without a notification.
DropSlotSilently(t) ==
  /\ slot[t] # NoSlot
  /\ free' = free \cup {slot[t]}
  /\ slot' = [slot EXCEPT ![t] = NoSlot]
  /\ pc' = [pc EXCEPT ![t] = After(cpu[t], NoSlot)]
  /\ UNCHANGED <<nextId, id, req, available, cpu, part, cancelVars>>

\* Drop of an AuxiliarySlotLease, before or after the CPU lease.
DropSlot(t) ==
  /\ slot[t] # NoSlot
  /\ free' = free \cup {slot[t]}
  /\ slot' = [slot EXCEPT ![t] = NoSlot]
  /\ NotifyAll(t, After(cpu[t], NoSlot))
  /\ UNCHANGED <<nextId, id, req, available, cpu, part, cancelVars>>
-----------------------------------------------------------------------------
(* CancellationToken::cancel: the list of brokers is read first, the flag  *)
(* is set later, under the mutexes of the brokers that were listed.        *)

CancelList(c) ==
  /\ cpc[c] = "start"
  /\ \E k \in Tokens :
       /\ ctok' = [ctok EXCEPT ![c] = k]
       /\ cpc' = [cpc EXCEPT ![c] = IF k \in registered THEN "listed" ELSE "unlisted"]
  /\ UNCHANGED <<queueVars, leaseVars, cancelled, registered>>

\* Mutant: the flag is set and nobody is notified.
CancelSetSilently(c) ==
  /\ cpc[c] \in {"listed", "unlisted"}
  /\ cpc' = [cpc EXCEPT ![c] = "done"]
  /\ cancelled' = cancelled \cup {ctok[c]}
  /\ UNCHANGED <<queueVars, leaseVars, registered, ctok>>

\* Only the first cancel notifies, and only the brokers it had listed.
CancelSet(c) ==
  /\ cpc[c] \in {"listed", "unlisted"}
  /\ cpc' = [cpc EXCEPT ![c] = IF @ = "listed" THEN "done" ELSE "missed"]
  /\ cancelled' = cancelled \cup {ctok[c]}
  /\ pc' = IF cpc[c] = "listed" /\ ctok[c] \notin cancelled THEN Notified ELSE pc
  /\ UNCHANGED <<nextId, id, req, leaseVars, registered, ctok>>
-----------------------------------------------------------------------------
ThreadStep(t) ==
  \/ TryAcquire(t) \/ Acquire(t) \/ EarlyCheck(t) \/ Enqueue(t) \/ Exhausted(t)
  \/ Recheck(t) \/ SpuriousWake(t)
  \/ Split(t) \/ (\E u \in Threads : AcceptTransfer(t, u))
  \/ DropCpu(t) \/ DropTransfer(t) \/ DropSlot(t)

Next ==
  \/ \E t \in Threads : ThreadStep(t)
  \/ \E c \in Cancellers : CancelList(c) \/ CancelSet(c)

Spec == Init /\ [][Next]_vars

\* The code a thread runs by itself: its passes through acquire, and the end
\* of the work under its leases.
Progress(t) ==
  EarlyCheck(t) \/ Enqueue(t) \/ Exhausted(t) \/ Recheck(t) \/ DropCpu(t) \/ DropSlot(t)

\* A thread that can take the mutex does, and leased work ends.
Fairness == \A t \in Threads : WF_vars(Progress(t)) /\ WF_vars(DropTransfer(t))

FairSpec == Spec /\ Fairness
-----------------------------------------------------------------------------
(***************************************************************************)
(* Properties.                                                             *)
(***************************************************************************)

\* The installed limit is neither exceeded nor leaked: the free permits and
\* the widths of all leases, split, transferred or not, add up to it (the
\* asserts in Drop of CpuLease).
PermitsConserved ==
  available + Total([t \in Threads |-> cpu[t] + part[t]], 2 * Limit) = Limit

\* A slot index is free or owned by exactly one lease, never both and never
\* lost (the assert "returned more than once" in Drop of AuxiliarySlotLease).
SlotsPartitioned ==
  /\ \A s \in Slots : s \in free <=> \A t \in Threads : slot[t] # s
  /\ \A t, u \in Threads : t # u /\ slot[t] = slot[u] => slot[t] = NoSlot

\* No lost wakeup: the request whose turn it is and that could be granted is
\* never left asleep on the condition variable.
NoLostWakeup ==
  \A t \in Threads :
    pc[t] = "asleep" /\ Eligible(t, id[t]) => ~Fits(req[t])

\* No granted request overtakes a queued one that is served before it: child
\* requests first, then first come first served, and try_acquire never barges.
GrantsInOrder ==
  [][ \A t \in Threads :
        (pc[t] # "holding" /\ pc'[t] = "holding" /\ available' < available) =>
          \A u \in Waiting \ {t} :
            pc[t] # "idle" /\ ~Before(u, req[t], IF pc[t] = "entering" THEN nextId ELSE id[t]) ]_vars

\* cancel wakes every waiter of its token: a cancelled request is left asleep,
\* until somebody happens to return permits, only when the cancel had read the
\* token's brokers before the waiter's acquire registered this one.
CancelWakesWaiters ==
  \A t \in Threads :
    pc[t] = "asleep" /\ Cancelled(t) =>
      \E c \in Cancellers : ctok[c] = req[t].token /\ cpc[c] = "missed"

\* Every queued request leaves the queue, granted or cancelled, whatever
\* immediate acquisitions do meanwhile.
QueuedRequestsServed ==
  \A t \in Threads : t \in Waiting ~> t \notin Waiting
=============================================================================
