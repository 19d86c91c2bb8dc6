--------------------------- MODULE PendingActions ---------------------------
(***************************************************************************)
(* The queue of trade actions proposed by the AI helper and confirmed by   *)
(* the operator (neoethos-app, app_services/pending_actions.rs) with the   *)
(* HTTP handlers that drive it (server/pending_actions.rs).                *)
(*                                                                         *)
(* An action is one critical section of the queue's mutex or one step of a *)
(* confirm handler around its await.  Any number of confirm and reject     *)
(* requests for the same action race; only the handler whose               *)
(* mark_confirmed succeeded goes on, so each action has at most one.       *)
(***************************************************************************)
EXTENDS Naturals, FiniteSets

CONSTANTS
  MaxActions,  \* bound: actions proposed, with ids 1..MaxActions
  MaxPending,  \* MAX_PENDING_ACTIONS
  TTL,         \* PENDING_ACTION_TTL_SECS
  Retention,   \* the 24 h after which a row is pruned
  MaxTime,     \* bound: the clock
  Disconnects  \* whether a client may drop its confirm request

ASSUME PendingAssumption ==
  /\ MaxActions \in Nat /\ MaxPending \in Nat \ {0}
  /\ TTL \in Nat /\ Retention \in Nat /\ TTL < Retention
  /\ MaxTime \in Nat /\ Disconnects \in BOOLEAN

VARIABLES
  clock,     \* current_unix_ms
  next,      \* COUNTER of next_id
  status,    \* status of each row; "none" before it, "gone" after it
  proposed,  \* proposed_at_unix_ms
  handler,   \* the confirm handler that owns each confirmed action
  call,      \* the broker or MCP call of each action
  journal,   \* rows of pending_actions.jsonl: <<id, status>>
  confirmed, \* history: when each action was confirmed
  calls      \* history: calls started for each action

vars == <<clock, next, status, proposed, handler, call, journal, confirmed, calls>>

Ids == 1..MaxActions
Statuses == {"pending", "confirmed", "rejected", "expired", "executed", "failed"}

TypeOK ==
  /\ clock \in 0..MaxTime
  /\ next \in 1..(MaxActions + 1)
  /\ status \in [Ids -> Statuses \cup {"none", "gone"}]
  /\ proposed \in [Ids -> 0..MaxTime]
  /\ handler \in [Ids -> {"none", "dispatching", "awaiting", "left"}]
  /\ call \in [Ids -> {"none", "running", "ok", "error"}]
  /\ journal \subseteq Ids \X Statuses
  /\ confirmed \in [Ids -> 0..MaxTime]
  /\ calls \in [Ids -> Nat]

Init ==
  /\ clock = 0
  /\ next = 1
  /\ status = [i \in Ids |-> "none"]
  /\ proposed = [i \in Ids |-> 0]
  /\ handler = [i \in Ids |-> "none"]
  /\ call = [i \in Ids |-> "none"]
  /\ journal = {}
  /\ confirmed = [i \in Ids |-> 0]
  /\ calls = [i \in Ids |-> 0]
-----------------------------------------------------------------------------
(* The queue.                                                              *)

IsExpired(i) == clock > proposed[i] + TTL

\* Rows older than the retention go, whatever their status.
Pruned(i) == proposed[i] + Retention < clock

\* The status of row i after sweep_expired, and the rows it writes.
SweptStatus(i) ==
  IF status[i] \in Statuses
  THEN IF Pruned(i) THEN "gone"
       ELSE IF status[i] = "pending" /\ IsExpired(i) THEN "expired" ELSE status[i]
  ELSE status[i]

Swept == [i \in Ids |-> SweptStatus(i)]
SweptRows == {<<i, "expired">> : i \in {j \in Ids : status[j] = "pending" /\ IsExpired(j)}}

Pending(st) == {i \in Ids : st[i] = "pending"}

\* Ids grow, so the oldest row is the one with the smallest id.
Oldest(st) == {i \in Pending(st) : \A j \in Pending(st) : i <= j}

\* Mutant: a full queue grows.
ToEvictNone == {}

\* The row a new proposal pushes out of a full queue.
ToEvict == IF Cardinality(Pending(Swept)) >= MaxPending THEN Oldest(Swept) ELSE {}

\* propose: sweep, evict the oldest pending row of a full queue, append.
Propose ==
  /\ next <= MaxActions
  /\ status' = [i \in Ids |-> IF i = next THEN "pending"
                              ELSE IF i \in ToEvict THEN "gone" ELSE Swept[i]]
  /\ journal' = journal \cup SweptRows \cup {<<i, "expired">> : i \in ToEvict}
                        \cup {<<next, "pending">>}
  /\ proposed' = [proposed EXCEPT ![next] = clock]
  /\ next' = next + 1
  /\ UNCHANGED <<clock, handler, call, confirmed, calls>>

\* list_all, polled by the operator's screen.
List ==
  /\ status' = Swept
  /\ journal' = journal \cup SweptRows
  /\ UNCHANGED <<clock, next, proposed, handler, call, confirmed, calls>>

\* Status s for row i, with its audit row.
Mark(i, s) ==
  /\ status' = [status EXCEPT ![i] = s]
  /\ journal' = journal \cup {<<i, s>>}

\* Mutant: a second click on a confirmed row is taken for a first one.
ConfirmAgain(i) ==
  /\ status[i] \in {"pending", "confirmed"} /\ ~IsExpired(i)
  /\ Mark(i, "confirmed")
  /\ handler' = [handler EXCEPT ![i] = "dispatching"]
  /\ confirmed' = [confirmed EXCEPT ![i] = clock]
  /\ UNCHANGED <<clock, next, proposed, call, calls>>

\* Mutant: the expiry is left to the sweeper.
ConfirmUnswept(i) ==
  /\ status[i] = "pending"
  /\ Mark(i, "confirmed")
  /\ handler' = [handler EXCEPT ![i] = "dispatching"]
  /\ confirmed' = [confirmed EXCEPT ![i] = clock]
  /\ UNCHANGED <<clock, next, proposed, call, calls>>

\* mark_confirmed: a late click only marks the row expired.
Confirm(i) ==
  /\ status[i] = "pending"
  /\ \/ /\ IsExpired(i)
        /\ Mark(i, "expired")
        /\ UNCHANGED <<handler, confirmed>>
     \/ /\ ~IsExpired(i)
        /\ Mark(i, "confirmed")
        /\ handler' = [handler EXCEPT ![i] = "dispatching"]
        /\ confirmed' = [confirmed EXCEPT ![i] = clock]
  /\ UNCHANGED <<clock, next, proposed, call, calls>>

\* mark_rejected: also of a row past its expiry.
Reject(i) ==
  /\ status[i] = "pending"
  /\ Mark(i, "rejected")
  /\ UNCHANGED <<clock, next, proposed, handler, call, confirmed, calls>>

\* mark_completed finds the row or does nothing; it looks at no status.
MarkCompleted(i, s) ==
  \/ status[i] \in Statuses /\ Mark(i, s)
  \/ status[i] = "gone" /\ UNCHANGED <<status, journal>>
-----------------------------------------------------------------------------
(* The confirm handler after mark_confirmed.                               *)

\* Mutant: a close without a volume returns and leaves the row confirmed.
RefuseVolumeUnmarked(i) ==
  /\ handler[i] = "dispatching"
  /\ handler' = [handler EXCEPT ![i] = "left"]
  /\ UNCHANGED <<clock, next, status, proposed, call, journal, confirmed, calls>>

\* A close with neither a proposed nor an overriding volume fails at once.
RefuseVolume(i) ==
  /\ handler[i] = "dispatching"
  /\ MarkCompleted(i, "failed")
  /\ handler' = [handler EXCEPT ![i] = "left"]
  /\ UNCHANGED <<clock, next, proposed, call, confirmed, calls>>

\* The blocking close, or the POST to the MCP sidecar, is started and awaited.
StartCall(i) ==
  /\ handler[i] = "dispatching"
  /\ handler' = [handler EXCEPT ![i] = "awaiting"]
  /\ call' = [call EXCEPT ![i] = "running"]
  /\ calls' = [calls EXCEPT ![i] = @ + 1]
  /\ UNCHANGED <<clock, next, status, proposed, journal, confirmed>>

\* The call ends, also after its handler is gone.
CallEnds(i) ==
  /\ call[i] = "running"
  /\ \E answer \in {"ok", "error"} : call' = [call EXCEPT ![i] = answer]
  /\ UNCHANGED <<clock, next, status, proposed, handler, journal, confirmed, calls>>

\* The awaiting handler marks the outcome.
Complete(i) ==
  /\ handler[i] = "awaiting" /\ call[i] \in {"ok", "error"}
  /\ MarkCompleted(i, IF call[i] = "ok" THEN "executed" ELSE "failed")
  /\ handler' = [handler EXCEPT ![i] = "left"]
  /\ UNCHANGED <<clock, next, proposed, call, confirmed, calls>>

\* The HTTP client goes away and the server drops the handler at its await.
Disconnect(i) ==
  /\ Disconnects
  /\ handler[i] = "awaiting"
  /\ handler' = [handler EXCEPT ![i] = "left"]
  /\ UNCHANGED <<clock, next, status, proposed, call, journal, confirmed, calls>>

Tick ==
  /\ clock < MaxTime
  /\ clock' = clock + 1
  /\ UNCHANGED <<next, status, proposed, handler, call, journal, confirmed, calls>>
-----------------------------------------------------------------------------
Next ==
  \/ Propose \/ List \/ Tick
  \/ \E i \in Ids : \/ Confirm(i) \/ Reject(i) \/ RefuseVolume(i) \/ StartCall(i)
                    \/ CallEnds(i) \/ Complete(i) \/ Disconnect(i)

Spec == Init /\ [][Next]_vars

\* The runtime polls a handler, and a call ends or times out.
Fairness ==
  \A i \in Ids : /\ WF_vars(RefuseVolume(i) \/ StartCall(i))
                 /\ WF_vars(CallEnds(i)) /\ WF_vars(Complete(i))

FairSpec == Spec /\ Fairness
-----------------------------------------------------------------------------
(***************************************************************************)
(* Properties.                                                             *)
(***************************************************************************)

\* However many clicks race, an action is sent to the broker at most once.
AtMostOneCall == \A i \in Ids : calls[i] <= 1

\* Only an action confirmed by the operator inside its time to live is sent, and
\* never one that was rejected, expired or evicted first.
OnlyFreshConfirmedSent ==
  \A i \in Ids : calls[i] > 0 =>
    /\ confirmed[i] <= proposed[i] + TTL
    /\ <<i, "confirmed">> \in journal
    /\ <<i, "rejected">> \notin journal /\ <<i, "expired">> \notin journal

\* The queue never holds more live prompts than MAX_PENDING_ACTIONS.
PendingBounded == Cardinality(Pending(status)) <= MaxPending

\* A confirmed action ends executed or failed ("the broker outcome is stamped
\* back onto the action"), unless its client left while the call was under way:
\* the handler that would have stamped it is then dropped, and the action stays
\* confirmed although the call was made.
OutcomeStampedOrLeft ==
  \A i \in Ids : status[i] = "confirmed" ~>
    status[i] # "confirmed" \/ (handler[i] = "left" /\ call[i] # "none")
=============================================================================
