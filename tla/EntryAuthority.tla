--------------------------- MODULE EntryAuthority ---------------------------
(***************************************************************************)
(* The durable account-wide entry authority of the live trading engine     *)
(* (neoethos-app, app_services/account_risk.rs, AccountEntryAuthority) and *)
(* the entry path of the engines that share it (app_services/              *)
(* live_trading.rs, run; app_services/broker_api_entry.rs, submit_with).   *)
(*                                                                         *)
(* Every engine (worker) of one broker account samples the accounting day, *)
(* awaits the broker, reserves one daily entry in the shared checkpoint,   *)
(* makes its intent durable, sends exactly one order and either confirms   *)
(* the opening or leaves the intent unresolved.  A write of the checkpoint *)
(* may fail, and the process may crash between any two steps.              *)
(***************************************************************************)
EXTENDS Naturals, FiniteSets

CONSTANTS
  Workers,   \* live engines started on the account
  OrderIds,  \* clientOrderIds, one per entry decision
  NoOrder,   \* the absent clientOrderId / intent / marker
  MaxDay,    \* bound: accounting days 1..MaxDay
  Cap,       \* risk.max_trades_per_day; 0 stands for None (disabled)
  RiskCap,   \* max_portfolio_risk, in units of one entry's base risk
  Risky,     \* trading_mode == "risky" (UTC days) or prop_firm
  Faults     \* whether checkpoint writes may fail and the process may crash

ASSUME ConstantsAssumption ==
  /\ IsFiniteSet(Workers) /\ Workers # {}
  /\ IsFiniteSet(OrderIds)
  /\ NoOrder \notin OrderIds
  /\ MaxDay \in Nat \ {0}
  /\ Cap \in Nat
  /\ RiskCap \in Nat
  /\ Risky \in BOOLEAN
  /\ Faults \in BOOLEAN

VARIABLES
  today,      \* the accounting day the clock shows
  file,       \* which checkpoint files exist on disk
  disk,       \* content of the durable checkpoint
  loaded,     \* the process registry holds the authority
  mem,        \* AccountEntryAuthority in memory (meaningful when loaded)
  marker,     \* current_submission_marker: the attempt it is bound to
  pc,         \* where each worker is on its entry path
  wday,       \* the day each worker sampled and reserves on
  seen,       \* open positions each worker read from the broker
  order,      \* the clientOrderId of each worker's current attempt
  unresolved, \* has_unresolved_broker_entry of each worker
  holding,    \* the order each worker tracks as its open position
  broker,     \* what the broker did with each order
  sentDay,    \* history: reserved day of each sent order, 0 if never sent
  verified,   \* history: orders whose opening was durably confirmed
  wentBack    \* history: a stale engine prepared a day before the stored one

authVars   == <<file, disk, loaded, mem, marker>>
workerVars == <<pc, wday, seen, order, unresolved, holding>>
brokerVars == <<broker, sentDay, verified, wentBack>>
vars == <<today, authVars, workerVars, brokerVars>>

Days == 1..MaxDay
NoIntent == [id |-> NoOrder, day |-> 0, accepted |-> FALSE]
Intent == [id : OrderIds, day : Days, accepted : BOOLEAN]
Checkpoint == [day : 0..MaxDay, count : Nat, intent : Intent \cup {NoIntent},
               last : OrderIds \cup {NoOrder}]
EmptyCheckpoint == [day |-> 0, count |-> 0, intent |-> NoIntent, last |-> NoOrder]

Sent == {o \in OrderIds : sentDay[o] # 0}
OpenPositions == {o \in OrderIds : broker[o] = "open"}

TypeOK ==
  /\ today \in Days
  /\ file \in {"none", "entryV1", "riskV1", "riskV2", "entryV2"}
  /\ disk \in Checkpoint
  /\ loaded \in BOOLEAN
  /\ mem \in Checkpoint
  /\ marker \in OrderIds \cup {NoOrder}
  /\ pc \in [Workers -> {"down", "starting", "idle", "sampled", "prepared", "reserved",
                         "submitting", "checked", "intent", "sent", "refused"}]
  /\ wday \in [Workers -> 0..MaxDay]
  /\ seen \in [Workers -> Nat]
  /\ order \in [Workers -> OrderIds \cup {NoOrder}]
  /\ unresolved \in [Workers -> BOOLEAN]
  /\ holding \in [Workers -> OrderIds \cup {NoOrder}]
  /\ broker \in [OrderIds -> {"none", "sent", "open", "closed", "rejected"}]
  /\ sentDay \in [OrderIds -> 0..MaxDay]
  /\ verified \in SUBSET OrderIds
  /\ wentBack \in BOOLEAN

(***************************************************************************)
(* Init: nothing runs.  The disk may hold no checkpoint, or one written by *)
(* an earlier version: a V1 entry or combined risk file whose positive     *)
(* count means an order was sent and nobody knows its fate, or a V2 risk   *)
(* file without its entry file.                                            *)
(***************************************************************************)
LegacyOrders(f, n) ==
  IF f \in {"entryV1", "riskV1"} /\ n = 1 THEN {{o} : o \in OrderIds} ELSE {{}}

Init ==
  /\ today = 1
  /\ file \in {"none", "entryV1", "riskV1", "riskV2"}
  /\ \E n \in 0..1 : \E old \in LegacyOrders(file, n) :
       /\ disk = IF file \in {"entryV1", "riskV1"}
                 THEN [EmptyCheckpoint EXCEPT !.day = 1, !.count = n]
                 ELSE EmptyCheckpoint
       /\ sentDay = [o \in OrderIds |-> IF o \in old THEN 1 ELSE 0]
       /\ broker = [o \in OrderIds |-> IF o \in old THEN "sent" ELSE "none"]
  /\ loaded = FALSE
  /\ mem = EmptyCheckpoint
  /\ marker = NoOrder
  /\ pc = [w \in Workers |-> "down"]
  /\ wday = [w \in Workers |-> 0]
  /\ seen = [w \in Workers |-> 0]
  /\ order = [w \in Workers |-> NoOrder]
  /\ unresolved = [w \in Workers |-> FALSE]
  /\ holding = [w \in Workers |-> NoOrder]
  /\ verified = {}
  /\ wentBack = FALSE
-----------------------------------------------------------------------------
(* The checkpoint file: write_json_atomic leaves the old file or the new.  *)

Goto(w, from, to) == pc[w] = from /\ pc' = [pc EXCEPT ![w] = to]

\* Mutant: a failed write of the checkpoint is reported as a success.
PersistSwallowsError(new) ==
  mem' = new /\ file' = "entryV2" /\ (disk' = new \/ (Faults /\ disk' = disk))

\* persist() succeeded: memory and file hold the new checkpoint.
Persist(new) == mem' = new /\ disk' = new /\ file' = "entryV2"

\* persist() failed and the caller put every field back.
RolledBack == Faults /\ UNCHANGED <<mem, disk, file>>

\* The call refused before it changed anything.
Untouched == UNCHANGED <<mem, disk, file>>
-----------------------------------------------------------------------------
(* acquire_entry and the start of run(): the registry's authority, or the  *)
(* one restored from disk.  A positive V1 count, and a V2 risk file        *)
(* without its entry file, refuse the start.                               *)

\* Mutant: a legacy checkpoint with a positive count is migrated.
RestorableAnyLegacy == file # "riskV2"

Restorable ==
  \/ file \in {"none", "entryV2"}
  \/ file \in {"entryV1", "riskV1"} /\ disk.count = 0

\* Mutant: a restart restores the day and the intent but not the count.
AcquireEntryForgetsCount ==
  \/ loaded /\ UNCHANGED authVars
  \/ /\ ~loaded /\ Restorable
     /\ loaded' = TRUE /\ marker' = NoOrder
     /\ Persist([disk EXCEPT !.count = 0])

AcquireEntry ==
  \/ loaded /\ UNCHANGED authVars
  \/ /\ ~loaded /\ Restorable
     /\ loaded' = TRUE /\ marker' = NoOrder
     /\ IF file = "entryV2" THEN mem' = disk /\ UNCHANGED <<disk, file>>
                            ELSE Persist(disk)

Start(w) ==
  /\ Goto(w, "down", "starting")
  /\ AcquireEntry
  /\ unresolved' = [unresolved EXCEPT ![w] = mem'.intent # NoIntent]
  /\ wday' = [wday EXCEPT ![w] = today]
  /\ UNCHANGED <<today, seen, order, holding, brokerVars>>

\* prepare_day(d), under the authority's lock: ok tells the caller's outcome.
PrepareDay(d, ok) ==
  \/ ok /\ mem.day = d /\ Untouched
  \/ ok /\ mem.day # d /\ Persist([mem EXCEPT !.day = d, !.count = 0])
  \/ ~ok /\ mem.day # d /\ RolledBack

\* History of prepare_day: any day that differs is accepted, an earlier one too.
NoteDay ==
  /\ wentBack' = IF mem'.day < mem.day THEN TRUE ELSE wentBack
  /\ UNCHANGED <<broker, sentDay, verified>>

\* The initial prepare_day of run(): a failure ends the engine.
StartupPrepare(w) ==
  /\ \E ok \in BOOLEAN :
       /\ PrepareDay(IF Risky THEN today ELSE wday[w], ok)
       /\ Goto(w, "starting", IF ok THEN "idle" ELSE "down")
  /\ NoteDay
  /\ UNCHANGED <<today, loaded, marker, wday, seen, order, unresolved, holding>>

\* The stop flag, an environment change or a fatal error ends the loop: the
\* worker forgets its position and its attempt, the registry keeps the authority.
Stop(w) ==
  /\ pc[w] \in {"starting", "idle"}
  /\ pc' = [pc EXCEPT ![w] = "down"]
  /\ unresolved' = [unresolved EXCEPT ![w] = FALSE]
  /\ holding' = [holding EXCEPT ![w] = NoOrder]
  /\ UNCHANGED <<today, authVars, wday, seen, order, brokerVars>>
-----------------------------------------------------------------------------
(* The entry path of one bar.                                              *)

\* now_utc / today are sampled, then the entry context (equity, open
\* positions) is awaited from the broker.
SampleDay(w) ==
  /\ ~unresolved[w] /\ holding[w] = NoOrder
  /\ Goto(w, "idle", "sampled")
  /\ wday' = [wday EXCEPT ![w] = today]
  /\ seen' = [seen EXCEPT ![w] = Cardinality(OpenPositions)]
  /\ UNCHANGED <<today, authVars, order, unresolved, holding, brokerVars>>

\* The entry context is unavailable, a cooldown is active, the ML gate
\* abstains: the bar is skipped before anything is reserved.
Abstain(w) ==
  /\ pc[w] \in {"sampled", "prepared"}
  /\ pc' = [pc EXCEPT ![w] = "idle"]
  /\ UNCHANGED <<today, authVars, wday, seen, order, unresolved, holding, brokerVars>>

\* prepare_day with the sampled day; a failed write skips the bar.
PrepareEntryDay(w) ==
  /\ \E ok \in BOOLEAN :
       /\ PrepareDay(wday[w], ok)
       /\ Goto(w, "sampled", IF ok THEN "prepared" ELSE "idle")
  /\ NoteDay
  /\ UNCHANGED <<today, loaded, marker, wday, seen, order, unresolved, holding>>

\* Mutant: the cap is compared off by one.
MayReserveOffByOne(d) ==
  mem.intent = NoIntent /\ mem.day = d /\ (Cap = 0 \/ mem.count <= Cap)

MayReserve(d) ==
  /\ mem.intent = NoIntent
  /\ mem.day = d
  /\ Cap = 0 \/ mem.count < Cap

TryReserveEntry(w) ==
  /\ \/ /\ MayReserve(wday[w])
        /\ Persist([mem EXCEPT !.count = @ + 1])
        /\ Goto(w, "prepared", "reserved")
     \/ /\ MayReserve(wday[w]) /\ RolledBack
        /\ Goto(w, "prepared", "idle")
     \/ /\ ~MayReserve(wday[w]) /\ Untouched
        /\ Goto(w, "prepared", "idle")
  /\ UNCHANGED <<today, loaded, marker, wday, seen, order, unresolved, holding, brokerVars>>

\* release_entry(d): an error is logged and the count stays.
ReleaseEntry(d) ==
  LET releasable == mem.intent = NoIntent /\ mem.day = d /\ mem.count > 0
  IN  \/ releasable /\ Persist([mem EXCEPT !.count = @ - 1])
      \/ releasable /\ RolledBack
      \/ ~releasable /\ Untouched

\* A risk gate, the portfolio-risk budget over the open positions read with the
\* entry context, sizing or the day re-check before the send refuses the entry.
RefuseReserved(w) ==
  /\ Goto(w, "reserved", "idle")
  /\ ReleaseEntry(wday[w])
  /\ UNCHANGED <<today, loaded, marker, wday, seen, order, unresolved, holding, brokerVars>>

\* Mutant: one more position than the budget allows.
BeginSubmitOverBudget(w) ==
  /\ seen[w] <= RiskCap /\ wday[w] = today
  /\ Goto(w, "reserved", "submitting")
  /\ UNCHANGED <<today, authVars, wday, seen, order, unresolved, holding, brokerVars>>

\* All gates passed and the reserved day is still current: spawn_blocking.
BeginSubmit(w) ==
  /\ seen[w] < RiskCap
  /\ wday[w] = today
  /\ Goto(w, "reserved", "submitting")
  /\ UNCHANGED <<today, authVars, wday, seen, order, unresolved, holding, brokerVars>>

\* submit_with up to final_check, which re-reads the UTC day.
FinalCheck(w) ==
  /\ Goto(w, "submitting", IF Risky /\ wday[w] # today THEN "refused" ELSE "checked")
  /\ UNCHANGED <<today, authVars, wday, seen, order, unresolved, holding, brokerVars>>

Fresh(o) ==
  /\ o \notin Sent \cup {mem.intent.id, disk.intent.id, mem.last, disk.last, marker}
  /\ \A w \in Workers : order[w] # o

\* begin_submission: a failed write keeps the intent in memory, not on disk.
BeginSubmission(w) ==
  LET admissible == mem.intent = NoIntent /\ mem.day = wday[w] /\ mem.count > 0
  IN  /\ pc[w] = "checked"
      /\ \E o \in OrderIds :
           LET new == [mem EXCEPT !.intent = [id |-> o, day |-> wday[w], accepted |-> FALSE]]
           IN  /\ Fresh(o)
               /\ order' = [order EXCEPT ![w] = o]
               /\ \/ /\ admissible /\ Persist(new) /\ marker' = o
                     /\ Goto(w, "checked", "intent")
                  \/ /\ admissible /\ Faults /\ mem' = new /\ marker' = o
                     /\ Goto(w, "checked", "refused")
                     /\ UNCHANGED <<disk, file>>
                  \/ /\ ~admissible /\ Untouched
                     /\ Goto(w, "checked", "refused")
                     /\ UNCHANGED marker
      /\ UNCHANGED <<today, loaded, wday, seen, unresolved, holding, brokerVars>>

\* Any local refusal before the send: symbol contract, volume, age or quote
\* checks of submit_with, also the re-check after the durable write.
RefuseUnsent(w) ==
  /\ pc[w] \in {"submitting", "checked", "intent"}
  /\ pc' = [pc EXCEPT ![w] = "refused"]
  /\ UNCHANGED <<today, authVars, wday, seen, order, unresolved, holding, brokerVars>>

\* The marker is stored and the one backend call is made.
Send(w) ==
  /\ Goto(w, "intent", "sent")
  /\ broker' = [broker EXCEPT ![order[w]] = "sent"]
  /\ sentDay' = [sentDay EXCEPT ![order[w]] = wday[w]]
  /\ UNCHANGED <<today, authVars, wday, seen, order, unresolved, holding, verified, wentBack>>

\* Mutant: any unsent attempt drops whatever intent is there.
ReleaseAnyIntent(w) ==
  \/ mem.intent = NoIntent /\ ReleaseEntry(wday[w]) /\ UNCHANGED marker
  \/ mem.intent # NoIntent /\ Persist([mem EXCEPT !.intent = NoIntent]) /\ marker' = NoOrder

\* Mutant: the slot is taken off the count of whatever day it is by now.
ReleaseUnsentAnyDay(w) ==
  LET mine == mem.intent.id = order[w] /\ marker = order[w]
  IN  \/ mem.intent = NoIntent /\ ReleaseEntry(wday[w]) /\ UNCHANGED marker
      \/ /\ mem.intent # NoIntent /\ mine /\ marker' = NoOrder
         /\ Persist([mem EXCEPT !.intent = NoIntent, !.count = @ - 1])
      \/ mem.intent # NoIntent /\ ~mine /\ Untouched /\ UNCHANGED marker

\* release_unsent_entry: only the bound attempt may drop its unsent intent.
ReleaseUnsentEntry(w) ==
  LET provesUnsent ==
        /\ mem.intent.id = order[w] /\ mem.intent.day = wday[w]
        /\ ~mem.intent.accepted /\ marker = order[w]
        /\ mem.day = wday[w] => mem.count > 0
      released == [mem EXCEPT !.intent = NoIntent,
                              !.count = IF mem.day = wday[w] THEN @ - 1 ELSE @]
  IN  \/ mem.intent = NoIntent /\ ReleaseEntry(wday[w]) /\ UNCHANGED marker
      \/ mem.intent # NoIntent /\ provesUnsent /\ Persist(released) /\ marker' = NoOrder
      \/ mem.intent # NoIntent /\ provesUnsent /\ RolledBack /\ UNCHANGED marker
      \/ mem.intent # NoIntent /\ ~provesUnsent /\ Untouched /\ UNCHANGED marker

\* The submit task returned an error (or panicked, which ends the engine) with
\* the marker still false.
FinishUnsent(w) ==
  /\ \E next \in {"idle", "down"} : Goto(w, "refused", next)
  /\ ReleaseUnsentEntry(w)
  /\ order' = [order EXCEPT ![w] = NoOrder]
  /\ UNCHANGED <<today, loaded, wday, seen, unresolved, holding, brokerVars>>
-----------------------------------------------------------------------------
(* The answer of the one broker call.                                      *)

\* confirm_verified_opening: the exact opening clears the durable intent.
Confirm(w) ==
  LET o == order[w]
  IN  /\ mem.intent.id = o
      /\ Persist([mem EXCEPT !.intent = NoIntent, !.last = o])
      /\ marker' = NoOrder
      /\ verified' = verified \cup {o}
      /\ UNCHANGED unresolved

\* It failed (a write error or a volume that differs from the intent): the
\* position is tracked, the intent stays and the worker is blocked.
ConfirmFailed(w) ==
  /\ Untouched
  /\ unresolved' = [unresolved EXCEPT ![w] = TRUE]
  /\ UNCHANGED <<marker, verified>>

ReplyVerified(w) ==
  /\ Goto(w, "sent", "idle")
  /\ broker[order[w]] \in {"open", "closed"}
  /\ Confirm(w) \/ ConfirmFailed(w)
  /\ holding' = [holding EXCEPT ![w] = order[w]]
  /\ order' = [order EXCEPT ![w] = NoOrder]
  /\ UNCHANGED <<today, loaded, wday, seen, broker, sentDay, wentBack>>

\* record_unresolved_outcome / record_unresolved_error: a known order id is
\* kept with the intent; a failed write leaves it in memory only.
RecordUnresolved(w) ==
  LET noted == [mem EXCEPT !.intent.accepted = TRUE]
  IN  /\ mem.intent.id = order[w]
      /\ \/ Persist(noted)
         \/ Faults /\ mem' = noted /\ UNCHANGED <<disk, file>>

\* No exact opening proof, an error after the marker, or a lost task.
ReplyUnresolved(w) ==
  /\ Goto(w, "sent", "idle")
  /\ RecordUnresolved(w) \/ Untouched
  /\ unresolved' = [unresolved EXCEPT ![w] = TRUE]
  /\ order' = [order EXCEPT ![w] = NoOrder]
  /\ UNCHANGED <<today, loaded, marker, wday, seen, holding, brokerVars>>

\* The reconcile block saw the tracked position flat with complete deals.
FinalizeClose(w) ==
  /\ pc[w] = "idle" /\ holding[w] # NoOrder
  /\ broker[holding[w]] = "closed"
  /\ holding' = [holding EXCEPT ![w] = NoOrder]
  /\ UNCHANGED <<today, authVars, pc, wday, seen, order, unresolved, brokerVars>>
-----------------------------------------------------------------------------
(* The environment: the broker, the clock and crashes.                     *)

\* A sent order is filled or rejected, and a position closed, at any time,
\* also while no engine runs.
BrokerStep ==
  /\ \E o \in OrderIds :
       \/ broker[o] = "sent" /\ broker' = [broker EXCEPT ![o] = "open"]
       \/ broker[o] = "sent" /\ broker' = [broker EXCEPT ![o] = "rejected"]
       \/ broker[o] = "open" /\ broker' = [broker EXCEPT ![o] = "closed"]
  /\ UNCHANGED <<today, authVars, workerVars, sentDay, verified, wentBack>>

\* The clock.
NextDay ==
  /\ today < MaxDay
  /\ today' = today + 1
  /\ UNCHANGED <<authVars, workerVars, brokerVars>>

\* Memory is lost, the files and the broker are not.
Crash ==
  /\ Faults
  /\ loaded' = FALSE
  /\ mem' = EmptyCheckpoint
  /\ marker' = NoOrder
  /\ pc' = [w \in Workers |-> "down"]
  /\ wday' = [w \in Workers |-> 0]
  /\ seen' = [w \in Workers |-> 0]
  /\ order' = [w \in Workers |-> NoOrder]
  /\ unresolved' = [w \in Workers |-> FALSE]
  /\ holding' = [w \in Workers |-> NoOrder]
  /\ UNCHANGED <<today, file, disk, brokerVars>>

WorkerStep(w) ==
  \/ Start(w) \/ StartupPrepare(w) \/ Stop(w)
  \/ SampleDay(w) \/ Abstain(w) \/ PrepareEntryDay(w)
  \/ TryReserveEntry(w) \/ RefuseReserved(w) \/ BeginSubmit(w)
  \/ FinalCheck(w) \/ BeginSubmission(w) \/ RefuseUnsent(w)
  \/ Send(w) \/ FinishUnsent(w)
  \/ ReplyVerified(w) \/ ReplyUnresolved(w) \/ FinalizeClose(w)

Next == (\E w \in Workers : WorkerStep(w)) \/ BrokerStep \/ NextDay \/ Crash

Spec == Init /\ [][Next]_vars
-----------------------------------------------------------------------------
(***************************************************************************)
(* Properties.                                                             *)
(***************************************************************************)

\* Every order that reached the broker and is not durably confirmed is the
\* unresolved intent of the checkpoint on disk (begin_submission persists
\* before the executor runs, and nothing but an exact opening clears it), so a
\* crash at any moment finds it again.
SentIsDurable ==
  file = "entryV2" =>
    \A o \in Sent \ verified : disk.intent.id = o

\* Two orders of one account are never both unresolved: no engine sends while
\* another's order, or one restored after a crash, has an unknown fate.
OneUnresolvedOrder ==
  file = "entryV2" =>
    \A o, p \in Sent \ verified : o = p

SentOn(d) == {o \in OrderIds : sentDay[o] = d}

\* The durable count of the prepared day covers every order sent on a
\* reservation of that day (try_reserve_entry: "cannot under-count a filled
\* order"), until an engine that sampled its day before a midnight prepares that
\* day again after another engine prepared the next one.
CountCoversSent ==
  ~wentBack /\ disk.day # 0 => disk.count >= Cardinality(SentOn(disk.day))

FilledOn(d) == {o \in SentOn(d) : broker[o] \in {"open", "closed"}}

\* The same for filled orders only: what the comment on try_reserve_entry says.
NeverUnderCountsFilled ==
  disk.day # 0 => disk.count >= Cardinality(FilledOn(disk.day))

\* No accounting day sees more orders than risk.max_trades_per_day, over all
\* engines, rollovers, crashes and failed writes, under the same proviso.
DailyCapRespected ==
  ~wentBack /\ Cap # 0 => \A d \in Days : Cardinality(SentOn(d)) <= Cap

\* max_portfolio_risk bounds the positions open at once across all engines, up to
\* what their stale reads allow: the open positions are counted before the
\* reservation and the send, so every other engine may still pass on the count
\* it read before the last slot was filled, and no engine twice.
PortfolioOvershootBounded ==
  Cardinality(OpenPositions) <= RiskCap + Cardinality(Workers) - 1

\* An intent restored from disk, or one whose executor may have started and
\* that was not confirmed, is never dropped or replaced while the process
\* lives: no retry without broker reconciliation.
UncertaintyKept ==
  [][ (loaded /\ loaded' /\ mem.intent # NoIntent
         /\ (marker = NoOrder \/ mem.intent.id \in Sent))
      => \/ mem'.intent.id = mem.intent.id
         \/ mem.intent.id \in verified' ]_vars

Serial == INSTANCE SerialOrders WITH Orders <- OrderIds, sent <- Sent

\* The engines, their shared checkpoint, its failing writes, crashes and
\* restarts implement an account that sends one order after the other and goes
\* on only when every earlier opening is verified.
ImplementsSerialOrders == Serial!Spec
-----------------------------------------------------------------------------
(***************************************************************************)
(* The inductive invariant behind SentIsDurable and UncertaintyKept: how   *)
(* memory, disk and the workers' attempts agree.                           *)
(***************************************************************************)

\* Before the first V2 write nothing runs and no intent can be on disk; a
\* checkpoint that may be restored then has no order behind it.
LegacyQuiet ==
  file # "entryV2" =>
    /\ ~loaded
    /\ disk.intent = NoIntent
    /\ Restorable => Sent = {}

\* No engine runs without the authority.
LoadedWhenRunning == ~loaded => \A w \in Workers : pc[w] = "down"

\* The intent on disk is the one in memory (memory may hold one the disk lacks).
DiskIntentInMemory ==
  loaded => disk.intent.id \in {NoOrder, mem.intent.id}

\* The attempt between the durable write and the answer owns the intent, and
\* only an attempt whose executor ran has reached the broker.
AttemptOwnsIntent ==
  \A w \in Workers :
    /\ pc[w] \in {"intent", "sent"} =>
         /\ order[w] \in OrderIds
         /\ disk.intent.id = order[w]
         /\ mem.intent.id = order[w]
    /\ pc[w] # "down" => wday[w] \in Days
    /\ pc[w] # "sent" => order[w] \notin Sent

\* One clientOrderId per decision.
OrdersDistinct ==
  \A v, w \in Workers : v # w /\ order[v] = order[w] => order[v] = NoOrder

DurabilityInv ==
  /\ TypeOK
  /\ LegacyQuiet
  /\ LoadedWhenRunning
  /\ DiskIntentInMemory
  /\ AttemptOwnsIntent
  /\ OrdersDistinct
  /\ SentIsDurable
=============================================================================
