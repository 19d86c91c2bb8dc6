------------------------------ MODULE LossLedger ------------------------------
(***************************************************************************)
(* The loss ledgers behind the risky-mode kill switch (neoethos-core,      *)
(* domain/risky_mode.rs, RiskyModeManager), the account's trade journal    *)
(* that makes them account-wide (neoethos-app, journal_store.rs,           *)
(* journal_reconcile.rs), and the parts of a live engine that roll, raise  *)
(* and judge them (live_trading.rs, run, account_period_losses).           *)
(*                                                                         *)
(* Every engine has a manager of its own and they all trade one account.   *)
(* A manager sees the closes of its own engine; before each order it is    *)
(* raised to the losses in the journal, which the bridge fills from the    *)
(* broker's closing deals.  Profits and losses are one unit a deal; the    *)
(* caps, shares of the bankroll in the code, are numbers of losing deals.  *)
(* The engines and the bridge both stand behind the broker-truth gate      *)
(* (neoethos-broker-truth, gate.rs), which refuses everybody at this       *)
(* commit: GateOpen says what happens behind it.                           *)
(***************************************************************************)
EXTENDS Integers, FiniteSets

CONSTANTS
  GateOpen,      \* BrokerFinancialTruthCapabilityV1::require grants its permit
  Engines,       \* risky-mode live engines
  Nobody,        \* no engine tracks the position
  Periods,       \* ledgers: "day" and longer ones
  Length,        \* days in each period
  Cap,           \* loss cap of each period
  MaxPositions,  \* bound: position ids 1..MaxPositions
  FirstDay,      \* the day the run starts on
  MaxDay,        \* bound: days FirstDay..MaxDay
  MaxUpsets      \* bound: failed reads and writes of the journal, restarts

ASSUME LedgerConstants ==
  /\ GateOpen \in BOOLEAN
  /\ Nobody \notin Engines
  /\ "day" \in Periods
  /\ Length \in [Periods -> Nat \ {0}] /\ Length["day"] = 1
  /\ Cap \in [Periods -> Nat \ {0}]
  /\ {MaxPositions, FirstDay, MaxDay} \subseteq Nat \ {0} /\ FirstDay <= MaxDay
  /\ MaxUpsets \in Nat

VARIABLES
  today,   \* the UTC day
  pos,     \* broker: the state of each position
  deals,   \* broker: closing deals, at most two for a position
  rows,    \* the journal file as read: of two lines for a position, the last
  seen,    \* SEEN: position ids taken as recorded
  holder,  \* the engine that tracks each position
  pc,      \* where each engine is
  day,     \* the day each engine sampled for its bar
  cursor,  \* risky_period: the period each ledger belongs to
  ledger,  \* the loss accumulators of each manager
  upsets,  \* upsets so far
  blind    \* history: the file was unreadable when SEEN was seeded from it

brokerVars  == <<pos, deals>>
journalVars == <<rows, seen, blind>>
engineVars  == <<pc, day, cursor, ledger>>
vars == <<today, brokerVars, journalVars, holder, engineVars, upsets>>

Positions == 1..MaxPositions
Days == FirstDay..MaxDay
Deal == [pos : Positions, part : {1, 2}, day : Days, pnl : {-1, 1}]

\* period_starts_ms and the ids of live_trading: which period a day lies in.
PeriodOf(k, d) == (d + Length[k] - 1) \div Length[k]

TypeOK ==
  /\ today \in Days
  /\ pos \in [Positions -> {"none", "open", "half", "flat"}]
  /\ deals \subseteq Deal
  /\ rows \subseteq deals
  /\ seen \subseteq Positions /\ blind \in BOOLEAN
  /\ holder \in [Positions -> Engines \cup {Nobody}]
  /\ pc \in [Engines -> {"down", "idle", "sampled", "rolled", "passed", "tripping", "retreating"}]
  /\ day \in [Engines -> 0..today]
  /\ cursor \in [Engines -> [Periods -> 0..today]]
  /\ ledger \in [Engines -> [Periods -> 0..2 * MaxPositions]]
  /\ upsets \in 0..MaxUpsets

NoLoss == [k \in Periods |-> 0]

Init ==
  /\ today = FirstDay
  /\ pos = [p \in Positions |-> "none"] /\ deals = {}
  /\ rows = {} /\ seen = {} /\ blind = FALSE
  /\ holder = [p \in Positions |-> Nobody]
  /\ pc = [w \in Engines |-> "down"]
  /\ day = [w \in Engines |-> 0]
  /\ cursor = [w \in Engines |-> NoLoss]
  /\ ledger = [w \in Engines |-> NoLoss]
  /\ upsets = 0

\* The bar is over: its sample goes out of scope.
EndBar(w) ==
  /\ pc' = [pc EXCEPT ![w] = "idle"]
  /\ day' = [day EXCEPT ![w] = 0]

Upset == upsets < MaxUpsets /\ upsets' = upsets + 1

\* The losing deals of S in the period id of kind k.
LossIn(S, k, id) == Cardinality({d \in S : d.pnl < 0 /\ PeriodOf(k, d.day) = id})
-----------------------------------------------------------------------------
(* The journal: reconcile_best_effort, called by the bridge with each      *)
(* account snapshot, and record_closed_trade.                              *)

\* The deals a snapshot may list: those of the last 24 hours.
Recent == {d \in deals : d.day >= today - 1}

\* The position id enters the seen set before the line is appended; a failed
\* append is logged and the deal counts as recorded from then on.
Journal(d) ==
  /\ d.pos \notin seen
  /\ seen' = seen \cup {d.pos}
  /\ \/ rows' = {r \in rows : r.pos # d.pos} \cup {d} /\ UNCHANGED upsets
     \/ Upset /\ UNCHANGED rows
  /\ UNCHANGED <<today, brokerVars, blind, holder, engineVars>>

\* One snapshot's list, deal by deal.  A deal that is cut off by the 100 rows of
\* the list, or refused (no data directory, a money component missing, no
\* symbol catalog yet, no contract size) leaves no trace and may be listed
\* again: it takes no step.  So does every deal while the gate is shut.
BridgeStep == GateOpen /\ \E d \in Recent : Journal(d)

\* Mutant: the seen set of a new process is empty.
SeenAnew == {}

\* The seen set of a new process is read from the file.
SeenInFile == {d.pos : d \in rows}
-----------------------------------------------------------------------------
(* The risky part of a live engine.                                        *)

\* live_trading::start behind its gate, and a new manager, with the cursors
\* seeded from the clock.
Start(w) ==
  /\ GateOpen /\ pc[w] = "down"
  /\ pc' = [pc EXCEPT ![w] = "idle"]
  /\ cursor' = [cursor EXCEPT ![w] = [k \in Periods |-> PeriodOf(k, today)]]
  /\ ledger' = [ledger EXCEPT ![w] = NoLoss]
  /\ UNCHANGED <<today, brokerVars, journalVars, holder, day, upsets>>

\* The manager and the tracked positions go with the engine.
Stop(w) ==
  /\ pc[w] = "idle"
  /\ pc' = [pc EXCEPT ![w] = "down"]
  /\ cursor' = [cursor EXCEPT ![w] = NoLoss]
  /\ ledger' = [ledger EXCEPT ![w] = NoLoss]
  /\ holder' = [p \in Positions |-> IF holder[p] = w THEN Nobody ELSE holder[p]]
  /\ UNCHANGED <<today, brokerVars, journalVars, day, upsets>>

\* The net of the closing deals of p, a unit each, where it is a loss.
NetLoss(p) ==
  LET losing  == Cardinality({d \in deals : d.pos = p /\ d.pnl < 0})
      winning == Cardinality({d \in deals : d.pos = p /\ d.pnl > 0})
  IN  IF losing > winning THEN losing - winning ELSE 0

\* record_trade_outcome, once the tracked position is flat with all its fills.
BookClose(w, p) ==
  /\ pc[w] = "idle" /\ holder[p] = w /\ pos[p] = "flat"
  /\ holder' = [holder EXCEPT ![p] = Nobody]
  /\ ledger' = [ledger EXCEPT ![w] = [k \in Periods |-> @[k] + NetLoss(p)]]
  /\ UNCHANGED <<today, brokerVars, journalVars, pc, day, cursor, upsets>>

\* The day is sampled for an entry, before the broker is awaited.
SampleDay(w) ==
  /\ pc[w] = "idle" /\ \A p \in Positions : holder[p] # w
  /\ pc' = [pc EXCEPT ![w] = "sampled"]
  /\ day' = [day EXCEPT ![w] = today]
  /\ UNCHANGED <<today, brokerVars, journalVars, holder, cursor, ledger, upsets>>

\* The day comes from the sample, the longer periods from the clock now; a
\* ledger whose period changed is reset.
RollLedgers(w) ==
  LET new == [k \in Periods |-> PeriodOf(k, IF k = "day" THEN day[w] ELSE today)]
  IN  /\ pc[w] = "sampled"
      /\ pc' = [pc EXCEPT ![w] = "rolled"]
      /\ cursor' = [cursor EXCEPT ![w] = new]
      /\ ledger' = [ledger EXCEPT ![w] =
                      [k \in Periods |-> IF cursor[w][k] = new[k] THEN @[k] ELSE 0]]
      /\ UNCHANGED <<today, brokerVars, journalVars, holder, day, upsets>>

\* Mutant: the journal's losses are added to what the engine counted itself.
RaisedBySum(l, S) == [k \in Periods |-> l[k] + LossIn(S, k, PeriodOf(k, today))]

\* Mutant: the ledger stays the engine's own.
RaisedNever(l, S) == l

\* raise_period_losses with account_period_losses of the rows that were read.
Raised(l, S) ==
  [k \in Periods |-> LET account == LossIn(S, k, PeriodOf(k, today))
                     IN  IF account > l[k] THEN account ELSE l[k]]

\* check_trade_allowed on the ledgers l: where the engine goes next.  The tiers
\* that judge the order come first and refuse without a trip ("idle"); then the
\* ledgers, with the retreat below the stage once reached, which depends on the
\* bankroll alone, judged before the month.
Verdicts(l) ==
  LET over == {k \in Periods : l[k] >= Cap[k]}
  IN  {"idle"} \cup
        IF over \ {"month"} # {} THEN {"tripping"}
        ELSE {"retreating", IF over = {} THEN "passed" ELSE "tripping"}

\* The pre-send check: the ledger is raised from the journal (an unreadable one,
\* or no data directory, reads as empty) and judged.
PresendCheck(w) ==
  /\ pc[w] = "rolled"
  /\ \E S \in {rows, {}} :
       LET raised == Raised(ledger[w], S)
       IN  /\ IF S = rows THEN UNCHANGED upsets ELSE Upset
           /\ ledger' = [ledger EXCEPT ![w] = raised]
           /\ \E to \in Verdicts(raised) :
                /\ pc' = [pc EXCEPT ![w] = to]
                /\ day' = IF to = "idle" THEN [day EXCEPT ![w] = 0] ELSE day
  /\ UNCHANGED <<today, brokerVars, journalVars, holder, cursor>>

\* record_kill_switch_trip (KillSwitch); the entry is refused.
Trip(w) ==
  /\ pc[w] \in {"tripping", "retreating"} /\ EndBar(w)
  /\ UNCHANGED <<today, brokerVars, journalVars, holder, cursor, ledger, upsets>>

\* Broker ids grow.
NextId(p) == pos[p] = "none" /\ \A q \in 1..(p - 1) : pos[q] # "none"

\* The day is resolved again before the send; the order may not fill.
Submit(w) ==
  /\ pc[w] = "passed" /\ EndBar(w)
  /\ \/ /\ day[w] = today
        /\ \E p \in Positions :
             /\ NextId(p)
             /\ pos' = [pos EXCEPT ![p] = "open"]
             /\ holder' = [holder EXCEPT ![p] = w]
     \/ UNCHANGED <<pos, holder>>
  /\ UNCHANGED <<today, deals, journalVars, cursor, ledger, upsets>>

\* Another gate or a failed await ends the bar.
Abandon(w) ==
  /\ pc[w] \in {"sampled", "rolled"} /\ EndBar(w)
  /\ UNCHANGED <<today, brokerVars, journalVars, holder, cursor, ledger, upsets>>
-----------------------------------------------------------------------------
(* The environment.                                                        *)

\* The operator opens a position of the account by hand.
ManualOpen ==
  /\ \E p \in Positions : NextId(p) /\ pos' = [pos EXCEPT ![p] = "open"]
  /\ UNCHANGED <<today, deals, journalVars, holder, engineVars, upsets>>

\* A stop, a target or the operator closes a position, whole or in two parts.
CloseDeal(p) ==
  /\ \E pnl \in {-1, 1} :
       deals' = deals \cup
         {[pos |-> p, part |-> IF pos[p] = "half" THEN 2 ELSE 1, day |-> today, pnl |-> pnl]}
  /\ \/ pos[p] = "open" /\ pos' = [pos EXCEPT ![p] = "half"]
     \/ pos[p] \in {"open", "half"} /\ pos' = [pos EXCEPT ![p] = "flat"]
  /\ UNCHANGED <<today, journalVars, holder, engineVars, upsets>>

NextDay ==
  /\ today < MaxDay /\ today' = today + 1
  /\ UNCHANGED <<brokerVars, journalVars, holder, engineVars, upsets>>

\* The process ends and starts again; an unreadable file seeds an empty seen set.
Restart ==
  /\ Upset
  /\ \/ seen' = SeenInFile /\ blind' = FALSE
     \/ seen' = {} /\ blind' = TRUE
  /\ holder' = [p \in Positions |-> Nobody]
  /\ pc' = [w \in Engines |-> "down"]
  /\ day' = [w \in Engines |-> 0]
  /\ cursor' = [w \in Engines |-> NoLoss]
  /\ ledger' = [w \in Engines |-> NoLoss]
  /\ UNCHANGED <<today, brokerVars, rows>>

EngineStep(w) ==
  \/ Start(w) \/ Stop(w) \/ SampleDay(w) \/ RollLedgers(w) \/ PresendCheck(w)
  \/ Trip(w) \/ Submit(w) \/ Abandon(w)
  \/ \E p \in Positions : BookClose(w, p)

Next ==
  \/ \E w \in Engines : EngineStep(w)
  \/ BridgeStep
  \/ ManualOpen \/ (\E p \in Positions : CloseDeal(p)) \/ NextDay \/ Restart

Spec == Init /\ [][Next]_vars
-----------------------------------------------------------------------------
(***************************************************************************)
(* Properties.                                                             *)
(***************************************************************************)

Passes(w) == pc[w] = "rolled" /\ pc'[w] = "passed"
Trips(w) == pc[w] = "rolled" /\ pc'[w] = "tripping"

\* The journal has every losing deal of the current period.
Complete(k) ==
  LossIn(rows, k, PeriodOf(k, today)) = LossIn(deals, k, PeriodOf(k, today))

\* No engine passes the pre-send check when the account has lost its cap in the
\* current day or longer period, whichever engine, manual order or earlier
\* process lost it, once the journal has the deals and could be read ("the caps
\* bind on the account rather than on this one engine, and survive an app
\* restart").
AccountCapHolds ==
  [][ \A w \in Engines : Passes(w) /\ upsets' = upsets =>
        \A k \in Periods :
          Complete(k) => LossIn(deals, k, PeriodOf(k, today)) < Cap[k] ]_vars

\* A 24 h halt for a period's cap is never the work of a loss counted twice: some
\* period the engine judges, by its cursor or by the clock, really lost its cap
\* ("counts once, not twice").
NoPhantomTrip ==
  [][ \A w \in Engines : Trips(w) =>
        \E k \in Periods :
          \/ LossIn(deals, k, PeriodOf(k, today)) >= Cap[k]
          \/ LossIn(deals, k, cursor[w][k]) >= Cap[k] ]_vars

\* A row that the journal once had stays in it, and with it the account's loss:
\* of a position closed in two deals on both sides of a restart, the second one's
\* row never takes the place of the first one's, where the last line of a position
\* is the one that is read ("Idempotent on position_id"), unless the file was
\* unreadable when this process first asked for its seen set.
JournalKeepsRows ==
  [][rows \subseteq rows' \/ blind]_vars
=============================================================================
