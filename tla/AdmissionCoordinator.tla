------------------------ MODULE AdmissionCoordinator ------------------------
(***************************************************************************)
(* The execution admission coordinator of neoethos-app (app_services/      *)
(* execution_admission.rs): async callers queue CPU (and import) requests  *)
(* through a command channel to one thread, which is the only caller of    *)
(* try_acquire on their behalf and answers through a oneshot channel per   *)
(* request.  A caller may drop its pending handle at any moment, also when *)
(* the lease is already in the oneshot; the owner may shut the coordinator *)
(* down at any moment; and leases taken from the broker directly return    *)
(* their permits without a word to the coordinator.                        *)
(***************************************************************************)
EXTENDS Integers, Sequences, SequencesExt, FiniteSets, Units

CONSTANTS
  Requests,    \* admission requests, one per submit
  Asks,        \* what a caller may ask for: [child, import, width]
  Limit,       \* installed_limit of the broker
  SlotLimit,   \* auxiliary_slots
  DirectWidth, \* width of an acquisition made directly at the broker
  MaxDirect    \* bound: number of direct acquisitions

NoRequest == [none |-> TRUE]
NoAsk     == [none |-> TRUE]

ASSUME AdmissionAssumption ==
  /\ IsFiniteSet(Requests) /\ NoRequest \notin Requests
  /\ Asks \subseteq [child : BOOLEAN, import : BOOLEAN, width : Nat \ {0}]
  /\ Limit \in Nat \ {0} /\ SlotLimit \in Nat \ {0}
  /\ DirectWidth \in 1..Limit /\ MaxDirect \in Nat

VARIABLES
  available,  \* permits of the broker
  slots,      \* free auxiliary slots
  chan,       \* the mpsc command channel
  children,   \* AdmissionQueues.children
  local,      \* AdmissionQueues.local
  phase,      \* where run_coordinator is
  inHand,     \* the request being answered, with its grant; or none
  owner,      \* shutdown by the owner of the coordinator
  client,     \* where each caller is
  ask,        \* the priority, the need of a slot and the width of each request
  reply,      \* the oneshot of each request
  open,       \* requests whose oneshot receiver is alive
  direct,     \* the direct user of the broker: "idle", "waiting" or "holding"
  directLeft  \* direct acquisitions still to come

coordVars  == <<children, local, phase, inHand>>
poolVars   == <<available, slots>>
clientVars == <<client, ask, reply, open>>
directVars == <<direct, directLeft>>
vars == <<poolVars, chan, coordVars, owner, clientVars, directVars>>

Commands ==
  [kind : {"enqueue", "cancel"}, r : Requests] \cup [kind : {"leaseReturned", "shutdown"}]

TypeOK ==
  /\ available \in 0..Limit
  /\ slots \in 0..SlotLimit
  /\ chan \in Seq(Commands)
  /\ children \in Seq(Requests) /\ local \in Seq(Requests)
  /\ phase \in {"recv", "drain", "grant", "deliver", "ack", "stopped"}
  /\ inHand \in Requests \cup {NoRequest}
  /\ owner \in {"running", "stopping", "joined"}
  /\ client \in [Requests -> {"new", "pending", "closing", "waking", "cancelling",
                              "holding", "returning", "done"}]
  /\ ask \in [Requests -> Asks \cup {NoAsk}]
  /\ reply \in [Requests -> {"empty", "lease", "error", "taken"}]
  /\ open \in SUBSET Requests
  /\ direct \in {"idle", "waiting", "holding"}
  /\ directLeft \in 0..MaxDirect

Init ==
  /\ available = Limit /\ slots = SlotLimit
  /\ chan = <<>> /\ children = <<>> /\ local = <<>>
  /\ phase = "recv" /\ inHand = NoRequest
  /\ owner = "running"
  /\ client = [r \in Requests |-> "new"]
  /\ ask = [r \in Requests |-> NoAsk]
  /\ reply = [r \in Requests |-> "empty"]
  /\ open = {}
  /\ direct = "idle" /\ directLeft = MaxDirect
-----------------------------------------------------------------------------
(* Helpers.                                                                *)

Goes(r, to) == client' = [client EXCEPT ![r] = to]
Width(r)    == ask[r].width
SlotsOf(r)  == IF ask[r].import THEN 1 ELSE 0

\* Drop of the raw leases of request r.
GiveBack(r) == available' = available + Width(r) /\ slots' = slots + SlotsOf(r)

\* A send on the command channel; it fails silently once the receiver is gone.
Post(c) == chan' = IF phase = "stopped" THEN chan ELSE Append(chan, c)

LeaseReturned == [kind |-> "leaseReturned"]

\* The oneshot senders of the requests in rs answer with an error, or are
\* dropped, which the receiver reads as CoordinatorStopped.
Fail(rs) == reply' = [r \in Requests |-> IF r \in rs THEN "error" ELSE reply[r]]
-----------------------------------------------------------------------------
(* The callers.                                                            *)

\* submit / submit_import; the send fails once the coordinator has stopped.
Submit(r) ==
  /\ client[r] = "new"
  /\ \E a \in Asks : ask' = [ask EXCEPT ![r] = IF phase = "stopped" THEN NoAsk ELSE a]
  /\ Goes(r, IF phase = "stopped" THEN "done" ELSE "pending")
  /\ open' = IF phase = "stopped" THEN open ELSE open \cup {r}
  /\ Post([kind |-> "enqueue", r |-> r])
  /\ UNCHANGED <<poolVars, coordVars, owner, reply, directVars>>

\* wait() returns with the lease or the error.
Receive(r) ==
  /\ client[r] = "pending" /\ reply[r] # "empty"
  /\ Goes(r, IF reply[r] = "lease" THEN "holding" ELSE "done")
  /\ reply' = [reply EXCEPT ![r] = "taken"]
  /\ open' = open \ {r}
  /\ UNCHANGED <<poolVars, chan, coordVars, owner, ask, directVars>>

\* Mutant: a lease lying in the dropped oneshot is forgotten.
CloseForgetsLease(r) ==
  /\ client[r] \in {"pending", "closing"}
  /\ Goes(r, IF client[r] = "pending" THEN "cancelling" ELSE "done")
  /\ reply' = [reply EXCEPT ![r] = IF @ = "empty" THEN "empty" ELSE "taken"]
  /\ open' = open \ {r}
  /\ UNCHANGED <<poolVars, chan, coordVars, owner, ask, directVars>>

\* The oneshot receiver is dropped, with the lease that may lie in it.  It goes
\* before the handle when the future of wait() is aborted, after it when the
\* handle was never awaited.
Close(r) ==
  /\ client[r] \in {"pending", "closing"}
  /\ LET full == reply[r] = "lease"
     IN  /\ IF full THEN GiveBack(r) ELSE UNCHANGED poolVars
         /\ Goes(r, CASE client[r] = "pending" /\ full  -> "waking"
                      [] client[r] = "pending" /\ ~full -> "cancelling"
                      [] client[r] = "closing" /\ full  -> "returning"
                      [] client[r] = "closing" /\ ~full -> "done")
  /\ reply' = [reply EXCEPT ![r] = IF @ = "empty" THEN "empty" ELSE "taken"]
  /\ open' = open \ {r}
  /\ UNCHANGED <<chan, coordVars, owner, ask, directVars>>

\* Drop of the unsettled handle: Cancel { id }.
PostCancel(r) ==
  /\ client[r] \in {"pending", "cancelling"}
  /\ Goes(r, IF client[r] = "pending" THEN "closing" ELSE "done")
  /\ Post([kind |-> "cancel", r |-> r])
  /\ UNCHANGED <<poolVars, coordVars, owner, ask, reply, open, directVars>>

\* The end of the leased work, or a panic in it: the raw leases are dropped ...
ReturnLease(r) ==
  /\ client[r] = "holding"
  /\ GiveBack(r)
  /\ Goes(r, "returning")
  /\ UNCHANGED <<chan, coordVars, owner, ask, reply, open, directVars>>

\* ... and then the coordinator is told.
PostReturned(r) ==
  /\ client[r] \in {"returning", "waking"}
  /\ Goes(r, IF client[r] = "waking" THEN "cancelling" ELSE "done")
  /\ Post(LeaseReturned)
  /\ UNCHANGED <<poolVars, coordVars, owner, ask, reply, open, directVars>>

\* shutdown() or Drop of the coordinator handle.
Shutdown ==
  /\ owner = "running"
  /\ owner' = "stopping"
  /\ Post([kind |-> "shutdown"])
  /\ UNCHANGED <<poolVars, coordVars, clientVars, directVars>>
-----------------------------------------------------------------------------
(* The coordinator thread.                                                 *)

\* Mutant: the queue of the children is forgotten.
QueuedLocalOnly == ToSet(local)

\* The requests in both queues of AdmissionQueues.
Queued == ToSet(children) \cup ToSet(local)

\* VecDeque::retain: the requests of q that lie in S, in their order.
Retain(q, S) ==
  LET kept[i \in 0..Len(q)] ==
        IF i = 0 THEN <<>>
        ELSE IF q[i] \in S THEN Append(kept[i - 1], q[i]) ELSE kept[i - 1]
  IN  kept[Len(q)]

\* handle_command; next is where the thread goes unless it must stop.
HandleCommand(next) ==
  LET c == Head(chan)
      without(q) == Retain(q, Requests \ {c.r})
  IN  /\ chan # <<>>
      /\ chan' = Tail(chan)
      /\ \/ /\ c.kind = "enqueue"
            /\ children' = IF ask[c.r].child THEN Append(children, c.r) ELSE children
            /\ local' = IF ask[c.r].child THEN local ELSE Append(local, c.r)
            /\ phase' = next /\ UNCHANGED reply
         \/ /\ c.kind = "cancel"
            /\ Fail(Queued \cap {c.r})
            /\ children' = without(children) /\ local' = without(local)
            /\ phase' = next
         \/ /\ c.kind = "leaseReturned"
            /\ phase' = next /\ UNCHANGED <<children, local, reply>>
         \/ /\ c.kind = "shutdown"
            /\ Fail(Queued)
            /\ children' = <<>> /\ local' = <<>>
            /\ phase' = "ack"
      /\ UNCHANGED <<inHand, poolVars, owner, client, ask, open, directVars>>

\* recv, or recv_timeout when requests are queued.
Recv == phase = "recv" /\ HandleCommand("drain")

\* Mutant: the two ways to wait are swapped, and queued requests wait for a command.
RecheckWhenIdle ==
  /\ phase = "recv" /\ chan = <<>> /\ Queued = {}
  /\ phase' = "grant"
  /\ UNCHANGED <<poolVars, chan, children, local, inHand, owner, clientVars, directVars>>

\* recv_timeout ran out with requests queued: the queues are looked at again.
Recheck ==
  /\ phase = "recv" /\ chan = <<>> /\ Queued # {}
  /\ phase' = "grant"
  /\ UNCHANGED <<poolVars, chan, children, local, inHand, owner, clientVars, directVars>>

\* try_recv until the channel is empty, before any grant decision.
Drain ==
  /\ phase = "drain"
  /\ \/ HandleCommand("drain")
     \/ /\ chan = <<>>
        /\ phase' = "grant"
        /\ UNCHANGED <<poolVars, chan, children, local, inHand, owner, clientVars, directVars>>

\* authority.try_acquire: never before a thread queued at the broker itself.
CanAcquire(r) == direct # "waiting" /\ Width(r) <= available /\ SlotsOf(r) <= slots

\* One turn of the loop in grant_ready_requests: discard_closed, the head of the
\* children's queue or else of the local one, an error, a grant or a return.
GrantNext ==
  LET cs == Retain(children, open)
      ls == Retain(local, open)
      pop == /\ children' = IF cs # <<>> THEN Tail(cs) ELSE cs
             /\ local' = IF cs # <<>> THEN ls ELSE Tail(ls)
      keep == children' = cs /\ local' = ls
      r == IF cs # <<>> THEN Head(cs) ELSE Head(ls)
  IN  /\ phase = "grant"
      /\ \/ /\ cs \o ls = <<>> /\ keep
            /\ phase' = "recv"
            /\ UNCHANGED <<poolVars, inHand, reply>>
         \/ /\ cs \o ls # <<>> /\ Width(r) > Limit /\ pop
            /\ Fail({r})
            /\ UNCHANGED <<poolVars, phase, inHand>>
         \/ /\ cs \o ls # <<>> /\ Width(r) <= Limit /\ CanAcquire(r) /\ pop
            /\ available' = available - Width(r)
            /\ slots' = slots - SlotsOf(r)
            /\ inHand' = r /\ phase' = "deliver"
            /\ UNCHANGED reply
         \/ /\ cs \o ls # <<>> /\ Width(r) <= Limit /\ ~CanAcquire(r) /\ keep
            /\ phase' = "recv"
            /\ UNCHANGED <<poolVars, inHand, reply>>
      /\ UNCHANGED <<chan, owner, client, ask, open, directVars>>

\* reply.send(Ok(admitted)); a receiver dropped meanwhile hands the lease back,
\* whose drop returns the permits and posts LeaseReturned.
Deliver ==
  /\ phase = "deliver"
  /\ \/ /\ inHand \in open
        /\ reply' = [reply EXCEPT ![inHand] = "lease"]
        /\ UNCHANGED <<poolVars, chan>>
     \/ /\ inHand \notin open
        /\ GiveBack(inHand) /\ Post(LeaseReturned)
        /\ UNCHANGED reply
  /\ inHand' = NoRequest /\ phase' = "grant"
  /\ UNCHANGED <<children, local, owner, client, ask, open, directVars>>

\* Mutant: the thread ends and the commands in the channel are kept alive.
TerminateKeepsChannel ==
  /\ phase = "ack"
  /\ phase' = "stopped" /\ owner' = "joined" /\ chan' = <<>>
  /\ UNCHANGED <<poolVars, children, local, inHand, clientVars, directVars>>

\* The acknowledged thread returns: the receiver is dropped with every command
\* that arrived after Shutdown, and the oneshot senders in them.
Terminate ==
  /\ phase = "ack"
  /\ phase' = "stopped" /\ owner' = "joined"
  /\ Fail({c.r : c \in {d \in ToSet(chan) : d.kind = "enqueue"}})
  /\ chan' = <<>>
  /\ UNCHANGED <<poolVars, children, local, inHand, client, ask, open, directVars>>
-----------------------------------------------------------------------------
(* A thread that uses the broker directly (PermitBroker).                  *)

DirectAcquire ==
  /\ direct = "idle" /\ directLeft > 0
  /\ directLeft' = directLeft - 1
  /\ \/ DirectWidth <= available /\ direct' = "holding" /\ available' = available - DirectWidth
     \/ DirectWidth > available /\ direct' = "waiting" /\ UNCHANGED available
  /\ UNCHANGED <<slots, chan, coordVars, owner, clientVars>>

DirectGrant ==
  /\ direct = "waiting" /\ DirectWidth <= available
  /\ direct' = "holding" /\ available' = available - DirectWidth
  /\ UNCHANGED <<slots, chan, coordVars, owner, clientVars, directLeft>>

DirectReturn ==
  /\ direct = "holding"
  /\ direct' = "idle" /\ available' = available + DirectWidth
  /\ UNCHANGED <<slots, chan, coordVars, owner, clientVars, directLeft>>
-----------------------------------------------------------------------------
ClientStep(r) ==
  Submit(r) \/ Receive(r) \/ Close(r) \/ PostCancel(r) \/ ReturnLease(r) \/ PostReturned(r)

CoordinatorStep == Recv \/ Recheck \/ Drain \/ GrantNext \/ Deliver \/ Terminate

Next ==
  \/ \E r \in Requests : ClientStep(r)
  \/ Shutdown
  \/ CoordinatorStep
  \/ DirectAcquire \/ DirectGrant \/ DirectReturn

Spec == Init /\ [][Next]_vars

\* What a caller does by itself, once an answer has come or it has let go.
CallerProgress(r) ==
  \/ Receive(r) \/ ReturnLease(r) \/ PostReturned(r)
  \/ client[r] = "closing" /\ Close(r)
  \/ client[r] = "cancelling" /\ PostCancel(r)

\* The coordinator thread runs, leased work ends, destructors complete, and the
\* runtime polls a caller whose answer has arrived.
Fairness ==
  /\ WF_vars(CoordinatorStep)
  /\ \A r \in Requests : WF_vars(CallerProgress(r))
  /\ WF_vars(DirectGrant) /\ WF_vars(DirectReturn)

FairSpec == Spec /\ Fairness
-----------------------------------------------------------------------------
(***************************************************************************)
(* Properties.                                                             *)
(***************************************************************************)

\* The requests whose leases exist: held by a caller, lying in a oneshot, or in
\* the coordinator's hand.
Granted ==
  {r \in Requests : client[r] = "holding" \/ reply[r] = "lease" \/ inHand = r}

HeldPermits == [r \in Requests |-> IF r \in Granted THEN Width(r) ELSE 0]
HeldSlots   == [r \in Requests |-> IF r \in Granted THEN SlotsOf(r) ELSE 0]

\* No permit and no slot is lost or doubled, wherever the handle is dropped:
\* queued, between the grant and its delivery, in the oneshot, or at shutdown.
CapacityConserved ==
  /\ available + Total(HeldPermits, Limit)
       + (IF direct = "holding" THEN DirectWidth ELSE 0) = Limit
  /\ slots + Total(HeldSlots, SlotLimit) = SlotLimit

\* After the coordinator thread has ended no caller waits for an answer that
\* cannot come, not even one whose request arrived behind Shutdown.
StoppedLeavesNobodyWaiting ==
  phase = "stopped" => \A r \in Requests : client[r] = "pending" => reply[r] # "empty"

\* A request is in exactly one place between its submission and its answer:
\* an answered or aborted one is never still queued with an open reply.
QueuedOnce ==
  /\ \A r \in Requests :
       r \in open /\ reply[r] = "empty" =>
         Cardinality({i \in DOMAIN chan : chan[i] = [kind |-> "enqueue", r |-> r]})
           + Cardinality({i \in DOMAIN (children \o local) : (children \o local)[i] = r})
           + (IF inHand = r THEN 1 ELSE 0) = 1
  /\ \A r \in Queued : reply[r] = "empty"

\* Every submitted request is answered or given up, although permits held
\* directly at the broker come back without a command.
EveryRequestSettles ==
  \A r \in Requests : client[r] = "pending" ~> client[r] # "pending"
=============================================================================
