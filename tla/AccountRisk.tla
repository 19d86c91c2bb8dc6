----------------------------- MODULE AccountRisk -----------------------------
(***************************************************************************)
(* The durable account-wide prop-firm risk authority (neoethos-app,        *)
(* app_services/account_risk.rs, AccountRiskAuthority), the risk manager   *)
(* it wraps (neoethos-core, domain/risk.rs, RiskManager) and the path of   *)
(* the live engines that consult it (app_services/live_trading.rs, run and *)
(* prepare_account_risk_period).                                           *)
(*                                                                         *)
(* One authority per broker account judges every entry against the balance *)
(* at the start of the firm's day, the peak equity, the profit target and  *)
(* the latched circuit breaker.  An engine samples the day, awaits a       *)
(* broker snapshot, may await evidence that the balance has not changed    *)
(* since the day began, and takes the authority's lock again after each    *)
(* await; the checkpoint write may fail and the process may crash.  Money  *)
(* is counted in small units; position sizes are not modelled.             *)
(***************************************************************************)
EXTENDS Integers

CONSTANTS
  Engines,         \* live engines started on the account
  NoEngine,        \* nobody tracks the open position
  MaxDay,          \* bound: firm-local days 1..MaxDay
  DaysPerMonth,    \* length of a firm-local month
  Initial,         \* risk.initial_balance, the declared account size
  Amounts,         \* bound: balances and equities the account may reach
  DailyPct,        \* daily_drawdown_limit, percent of Initial
  TotalPct,        \* total_drawdown_limit, percent of its anchor
  HaltPct,         \* recovery_halt_drawdown_pct (100 stands for recovery off)
  TargetPct,       \* monthly or challenge profit target; 0 stands for none
  MaxDeals,        \* bound: deals and cash flows on the account
  MaxUpsets        \* bound: failed writes and crashes

ASSUME RiskConstants ==
  /\ NoEngine \notin Engines
  /\ MaxDay \in Nat \ {0}
  /\ DaysPerMonth \in Nat \ {0}
  /\ Initial \in Nat \ {0}
  /\ Amounts \subseteq Nat \ {0}
  /\ Initial \in Amounts
  /\ {DailyPct, TotalPct, HaltPct} \subseteq 1..100
  /\ TargetPct \in 0..100
  /\ MaxDeals \in Nat
  /\ MaxUpsets \in Nat

VARIABLES
  today,     \* the firm-local day the clock shows
  balance,   \* broker: closed balance
  equity,    \* broker: balance plus unrealised P/L
  pos,       \* broker and journal: the account's position
  owner,     \* the engine that tracks the position
  activity,  \* broker: last day with a deal or a cash flow, 0 for none
  deals,     \* broker: deals and cash flows so far
  challenge, \* settings: risk.challenge_mode
  disk,      \* the checkpoint file
  loaded,    \* the registry holds the authority
  mgr,       \* AccountRiskAuthority in memory (meaningful when loaded)
  upsets,    \* failed writes and crashes so far
  pc,        \* where each engine is
  starting,  \* whether the engine is still in its start-up
  period,    \* the period each engine sampled
  snap,      \* the broker snapshot each engine holds
  evidence,  \* the anchor evidence each engine fetched
  startOf,   \* history: the balance at the start of each day
  told,      \* history: the latched refusals reported to an engine
  crossed,   \* history: a day ended between a start-up's snapshot and its period
  rewound    \* history: an engine prepared a day before the authority's

brokerVars == <<balance, equity, pos, owner, activity, deals>>
authVars   == <<disk, loaded, mgr, upsets>>
engineVars == <<pc, starting, period, snap, evidence>>
history    == <<told, crossed, rewound>>
vars == <<today, brokerVars, challenge, authVars, engineVars, startOf, history>>

Days == 1..MaxDay
Month(d) == d \div DaysPerMonth + 1
Snapshot == [balance : Amounts, equity : Amounts, flat : BOOLEAN]
Observed == [balance |-> balance, equity |-> equity, flat |-> pos # "open"]
NoSnapshot == [balance |-> Initial, equity |-> Initial, flat |-> TRUE]
Manager == [challenge : BOOLEAN, day : 0..MaxDay, dayStart : Amounts, monthStart : Amounts,
            peak : Amounts, breaker : BOOLEAN, target : BOOLEAN]

\* RiskManager::from_settings: anchored on the live snapshot, no period yet.
FromSettings(c, s) ==
  [challenge |-> c, day |-> 0, dayStart |-> s.balance, monthStart |-> s.balance,
   peak |-> IF s.equity > Initial THEN s.equity ELSE Initial,
   breaker |-> FALSE, target |-> FALSE]

NoFile == [present |-> FALSE, mgr |-> FromSettings(FALSE, NoSnapshot)]

TypeOK ==
  /\ today \in Days
  /\ balance \in Amounts /\ equity \in Amounts
  /\ pos \in {"flat", "open", "closed"}
  /\ owner \in Engines \cup {NoEngine}
  /\ activity \in 0..today
  /\ deals \in 0..MaxDeals
  /\ challenge \in BOOLEAN
  /\ disk \in [present : BOOLEAN, mgr : Manager]
  /\ loaded \in BOOLEAN
  /\ mgr \in Manager
  /\ upsets \in 0..MaxUpsets
  /\ pc \in [Engines -> {"down", "snapped", "acquired", "idle", "sampled", "observed",
                         "asking", "ready", "prepared", "admitted"}]
  /\ starting \in [Engines -> BOOLEAN]
  /\ period \in [Engines -> 0..today]
  /\ snap \in [Engines -> Snapshot]
  /\ evidence \in [Engines -> {"none", "clean", "dirty"}]
  /\ startOf \in [Days -> Amounts]
  /\ told \in [final : BOOLEAN, month : 0..Month(MaxDay)]
  /\ crossed \in BOOLEAN /\ rewound \in BOOLEAN

Init ==
  /\ today = 1
  /\ balance = Initial /\ equity = Initial
  /\ pos = "flat" /\ owner = NoEngine /\ activity = 0 /\ deals = 0
  /\ challenge \in BOOLEAN
  /\ disk = NoFile /\ loaded = FALSE /\ mgr = NoFile.mgr /\ upsets = 0
  /\ pc = [w \in Engines |-> "down"]
  /\ starting = [w \in Engines |-> FALSE]
  /\ period = [w \in Engines |-> 0]
  /\ snap = [w \in Engines |-> NoSnapshot]
  /\ evidence = [w \in Engines |-> "none"]
  /\ startOf = [d \in Days |-> Initial]
  /\ told = [final |-> FALSE, month |-> 0]
  /\ crossed = FALSE /\ rewound = FALSE
-----------------------------------------------------------------------------
(* RiskManager: pure functions of the manager and a snapshot.              *)

NeedsPeriod(m, d) == m.day # d

\* on_equity_update: track the peak.  recovery_mode only scales the size.
OnEquityUpdate(m, s) == [m EXCEPT !.peak = IF s.equity > @ THEN s.equity ELSE @]

\* roll_periods: a new day takes its anchor from the snapshot, a new month its
\* own and clears the monthly target; the total-loss latch is never cleared.
RollPeriods(m, d, s) ==
  LET newMonth == m.day = 0 \/ Month(m.day) # Month(d)
      rolled == [m EXCEPT
        !.day = d,
        !.dayStart = IF m.day # d THEN s.balance ELSE @,
        !.monthStart = IF newMonth THEN s.balance ELSE @,
        !.target = IF newMonth THEN m.challenge /\ @ ELSE @]
  IN  OnEquityUpdate(rolled, s)

\* drawdown_state against the two limits: the day's loss is a share of the
\* declared balance, the total one of the challenge start or of the peak.
DailyLossReached(dayStart, e) == (dayStart - e) * 100 >= DailyPct * Initial
Anchor(m) == IF m.challenge THEN Initial ELSE m.peak
TotalLossReached(m, e) ==
  \/ (Anchor(m) - e) * 100 >= TotalPct * Anchor(m)
  \/ HaltPct < 100 /\ (Anchor(m) - e) * 100 >= HaltPct * Anchor(m)

\* A profit target is a closed-balance objective of a flat account, latched.
TargetHit(m, s) ==
  LET base == IF m.challenge THEN Initial ELSE m.monthStart
  IN  m.target \/ (TargetPct > 0 /\ s.flat /\ (s.balance - base) * 100 >= TargetPct * base)

\* Mutant: the daily loss is not judged.
VerdictNoDaily(m, s, revenge, other) ==
  IF TargetHit(m, s) THEN "target"
  ELSE IF m.breaker \/ TotalLossReached(m, s.equity) THEN "breaker"
  ELSE IF revenge THEN "revenge" ELSE IF other THEN "other" ELSE "ok"

\* Mutant: the breaker is judged from the equity alone, the latch is not read.
VerdictNoLatch(m, s, revenge, other) ==
  IF TargetHit(m, s) THEN "target"
  ELSE IF revenge THEN "revenge"
  ELSE IF TotalLossReached(m, s.equity) THEN "breaker"
  ELSE IF DailyLossReached(m.dayStart, s.equity) THEN "daily"
  ELSE IF other THEN "other" ELSE "ok"

\* check_trade_allowed, in the order of its rules.  revenge stands for the
\* pattern of the last closed trades, whose times and sizes are not modelled,
\* other for the recovery entry count and the confidence floor.
Verdict(m, s, revenge, other) ==
  IF TargetHit(m, s) THEN "target"
  ELSE IF m.breaker THEN "breaker"
  ELSE IF revenge THEN "revenge"
  ELSE IF TotalLossReached(m, s.equity) THEN "breaker"
  ELSE IF DailyLossReached(m.dayStart, s.equity) THEN "daily"
  ELSE IF other THEN "other" ELSE "ok"

\* What check_trade_allowed leaves in the manager.
Judged(m, s, v) ==
  [m EXCEPT !.target = TargetHit(m, s), !.breaker = @ \/ v = "breaker"]
-----------------------------------------------------------------------------
(* The checkpoint and the registry.                                        *)

Goto(w, from, to) == pc[w] = from /\ pc' = [pc EXCEPT ![w] = to]

\* The bar or the start-up is over: its locals go out of scope.
Leave(w, to) ==
  /\ pc' = [pc EXCEPT ![w] = to]
  /\ starting' = [starting EXCEPT ![w] = FALSE]
  /\ period' = [period EXCEPT ![w] = 0]
  /\ snap' = [snap EXCEPT ![w] = NoSnapshot]
  /\ evidence' = [evidence EXCEPT ![w] = "none"]

\* A write fails or the process dies.
Upset == upsets < MaxUpsets /\ upsets' = upsets + 1

\* Memory keeps the new manager either way; persist() says whether the file has it.
Commit(m, ok) ==
  /\ mgr' = m
  /\ \/ ok /\ disk' = [present |-> TRUE, mgr |-> m] /\ UNCHANGED upsets
     \/ ~ok /\ Upset /\ UNCHANGED disk

\* Mutant: the checkpoint is restored under whatever policy is set now.
AcquireAnyPolicy(w, ok) ==
  /\ ok
  /\ loaded' = TRUE
  /\ mgr' = IF loaded THEN mgr
            ELSE IF disk.present THEN [disk.mgr EXCEPT !.challenge = challenge]
            ELSE FromSettings(challenge, snap[w])
  /\ UNCHANGED <<disk, upsets>>

\* AccountRiskRegistry::acquire: the live authority, the restored checkpoint
\* or a fresh manager; another policy than the current settings refuses.
Acquire(w, ok) ==
  LET known == IF loaded THEN mgr ELSE disk.mgr
      match == (loaded \/ disk.present) => known.challenge = challenge
  IN  /\ ok = match
      /\ loaded' = (loaded \/ match)
      /\ mgr' = IF loaded \/ ~match THEN mgr
                ELSE IF disk.present THEN disk.mgr ELSE FromSettings(challenge, snap[w])
      /\ UNCHANGED <<disk, upsets>>
-----------------------------------------------------------------------------
(* The start of an engine: snapshot, authority, then the period.           *)

\* fetch_margin_status_blocking of the start-up.
StartSnapshot(w) ==
  /\ Goto(w, "down", "snapped")
  /\ starting' = [starting EXCEPT ![w] = TRUE]
  /\ snap' = [snap EXCEPT ![w] = Observed]
  /\ UNCHANGED <<today, brokerVars, challenge, authVars, period, evidence, startOf, history>>

StartAcquire(w) ==
  /\ pc[w] = "snapped"
  /\ \/ /\ Acquire(w, TRUE) /\ Goto(w, "snapped", "acquired")
        /\ UNCHANGED <<starting, period, snap, evidence>>
     \/ Acquire(w, FALSE) /\ Leave(w, "down")
  /\ UNCHANGED <<today, brokerVars, challenge, startOf, history>>

\* prop_firm_period(now) of the start-up, after the snapshot.
StartPeriod(w) ==
  /\ Goto(w, "acquired", "observed")
  /\ period' = [period EXCEPT ![w] = today]
  /\ UNCHANGED <<today, brokerVars, challenge, authVars, starting, snap, evidence, startOf, history>>

\* The stop flag: the engine forgets the position it tracks.
Stop(w) ==
  /\ Goto(w, "idle", "down")
  /\ owner' = IF owner = w THEN NoEngine ELSE owner
  /\ pos' = IF owner = w /\ pos # "open" THEN "flat" ELSE pos
  /\ UNCHANGED <<today, balance, equity, activity, deals, challenge, authVars,
                 starting, period, snap, evidence, startOf, history>>
-----------------------------------------------------------------------------
(* One bar: the period first, then the snapshot, then the authority.       *)

SamplePeriod(w) ==
  /\ Goto(w, "idle", "sampled")
  /\ period' = [period EXCEPT ![w] = today]
  /\ UNCHANGED <<today, brokerVars, challenge, authVars, starting, snap, evidence, startOf, history>>

\* fetch_live_entry_context_blocking returned.
ObserveAccount(w) ==
  /\ Goto(w, "sampled", "observed")
  /\ snap' = [snap EXCEPT ![w] = Observed]
  /\ UNCHANGED <<today, brokerVars, challenge, authVars, starting, period, evidence, startOf, history>>

\* The first lock of prepare_account_risk_period: is evidence needed?
CheckPeriod(w) ==
  /\ Goto(w, "observed", IF NeedsPeriod(mgr, period[w]) THEN "asking" ELSE "ready")
  /\ evidence' = [evidence EXCEPT ![w] = "none"]
  /\ UNCHANGED <<today, brokerVars, challenge, authVars, starting, period, snap, startOf, history>>

\* fetch_anchor_evidence_blocking: deals and cash flows since the period began.
FetchEvidence(w) ==
  /\ Goto(w, "asking", "ready")
  /\ evidence' = [evidence EXCEPT ![w] = IF activity < period[w] THEN "clean" ELSE "dirty"]
  /\ UNCHANGED <<today, brokerVars, challenge, authVars, starting, period, snap, startOf, history>>

\* Mutant: what the first lock said is not asked again under the second.
AnchorProvenOnce(w) == evidence[w] # "dirty"

\* prove_unchanged_since, asked again under the second lock.
AnchorProven(w) == NeedsPeriod(mgr, period[w]) => evidence[w] = "clean"

\* The second lock: prepare_period.  A failure ends the start-up or the bar.
PreparePeriod(w) ==
  /\ pc[w] = "ready"
  /\ \/ /\ AnchorProven(w) /\ Commit(RollPeriods(mgr, period[w], snap[w]), TRUE)
        /\ \/ starting[w] /\ Leave(w, "idle")
           \/ /\ ~starting[w] /\ Goto(w, "ready", "prepared")
              /\ UNCHANGED <<starting, period, snap, evidence>>
     \/ /\ AnchorProven(w) /\ Commit(RollPeriods(mgr, period[w], snap[w]), FALSE)
        /\ Leave(w, IF starting[w] THEN "down" ELSE "idle")
     \/ /\ ~AnchorProven(w) /\ UNCHANGED <<mgr, disk, upsets>>
        /\ Leave(w, IF starting[w] THEN "down" ELSE "idle")
  /\ rewound' = (rewound \/ (AnchorProven(w) /\ period[w] < mgr.day))
  /\ UNCHANGED <<today, brokerVars, challenge, loaded, startOf, told, crossed>>

\* A refusal reported to the engine is one whose latch reached the file: the
\* breaker and the challenge target are final, the monthly one for its month.
Report(m, v, d) ==
  IF v = "breaker" \/ (v = "target" /\ m.challenge) THEN told' = [final |-> TRUE, month |-> 0]
  ELSE IF v = "target" /\ ~told.final THEN told' = [told EXCEPT !.month = Month(d)]
  ELSE UNCHANGED told

\* gate_and_size, after further awaits: the period is checked again, the
\* decision is persisted before it is returned.  Its second write, after the
\* sizing, holds the same state; when it fails the entry is refused, which is
\* the second disjunct of Submit.
GateAndSize(w) ==
  /\ pc[w] = "prepared"
  /\ \/ /\ NeedsPeriod(mgr, period[w])
        /\ Leave(w, "idle")
        /\ UNCHANGED <<mgr, disk, upsets, told>>
     \/ /\ ~NeedsPeriod(mgr, period[w])
        /\ \E ok, other, revenge \in BOOLEAN :
             LET seen == OnEquityUpdate(mgr, snap[w])
                 v == Verdict(seen, snap[w], revenge, other)
             IN  /\ Commit(Judged(seen, snap[w], v), ok)
                 /\ IF ok THEN Report(mgr, v, period[w]) ELSE UNCHANGED told
                 /\ IF ok /\ v = "ok"
                    THEN /\ Goto(w, "prepared", "admitted")
                         /\ UNCHANGED <<starting, period, snap, evidence>>
                    ELSE Leave(w, "idle")
  /\ UNCHANGED <<today, brokerVars, challenge, loaded, startOf, crossed, rewound>>

\* A deal or a cash flow: the broker lists it under today.
Deal == deals < MaxDeals /\ deals' = deals + 1 /\ activity' = today

\* The day is resolved again before the send; a rolled day drops the entry.
\* Bound: the broker fills one position at a time.
Submit(w) ==
  /\ pc[w] = "admitted" /\ Leave(w, "idle")
  /\ \/ /\ period[w] = today /\ pos = "flat"
        /\ pos' = "open" /\ owner' = w /\ Deal
        /\ UNCHANGED <<balance, equity>>
     \/ UNCHANGED brokerVars
  /\ UNCHANGED <<today, challenge, authVars, startOf, history>>

\* An await failed or another gate refused.
Abandon(w) ==
  /\ pc[w] \in {"snapped", "acquired", "sampled", "asking", "prepared"}
  /\ Leave(w, IF starting[w] THEN "down" ELSE "idle")
  /\ UNCHANGED <<today, brokerVars, challenge, authVars, startOf, history>>

\* record_closed_trade once the position is proved flat: the trade window (not
\* modelled) is saved with the whole checkpoint; a failed write is only logged.
RecordClosedTrade(w) ==
  /\ pc[w] = "idle" /\ owner = w /\ pos = "closed"
  /\ \E ok \in BOOLEAN : Commit(mgr, ok)
  /\ pos' = "flat" /\ owner' = NoEngine
  /\ UNCHANGED <<today, balance, equity, activity, deals, challenge, loaded, engineVars,
                 startOf, history>>
-----------------------------------------------------------------------------
(* The environment: the broker, the clock, the operator and crashes.       *)

\* Unrealised P/L moves.
PriceMoves ==
  /\ pos = "open"
  /\ equity' \in Amounts \cap {equity - 1, equity + 1}
  /\ UNCHANGED <<today, balance, pos, owner, activity, deals, challenge, authVars, engineVars, startOf, history>>

\* The broker closes the position.
Close ==
  /\ pos = "open"
  /\ balance' = equity
  /\ pos' = IF owner = NoEngine THEN "flat" ELSE "closed"
  /\ Deal
  /\ UNCHANGED <<today, equity, owner, challenge, authVars, engineVars, startOf, history>>

\* A deposit or a withdrawal on a flat account.
CashFlow ==
  /\ pos # "open"
  /\ balance' \in Amounts \cap {balance - 1, balance + 1}
  /\ equity' = balance' /\ Deal
  /\ UNCHANGED <<today, pos, owner, challenge, authVars, engineVars, startOf, history>>

\* Midnight of the firm.
NextDay ==
  /\ today < MaxDay
  /\ crossed' = (crossed \/ \E w \in Engines : pc[w] \in {"snapped", "acquired"})
  /\ today' = today + 1
  /\ startOf' = [startOf EXCEPT ![today + 1] = balance]
  /\ UNCHANGED <<brokerVars, challenge, authVars, engineVars, told, rewound>>

\* The operator changes risk.challenge_mode.
ChangeSettings ==
  /\ challenge' = ~challenge
  /\ UNCHANGED <<today, brokerVars, authVars, engineVars, startOf, history>>

\* Memory is lost: the authority, the engines and the position they track.
Crash ==
  /\ Upset
  /\ loaded' = FALSE /\ mgr' = NoFile.mgr
  /\ pc' = [w \in Engines |-> "down"]
  /\ starting' = [w \in Engines |-> FALSE]
  /\ period' = [w \in Engines |-> 0]
  /\ snap' = [w \in Engines |-> NoSnapshot]
  /\ evidence' = [w \in Engines |-> "none"]
  /\ owner' = NoEngine
  /\ pos' = IF pos = "open" THEN "open" ELSE "flat"
  /\ UNCHANGED <<today, balance, equity, activity, deals, challenge, disk, startOf, history>>

EngineStep(w) ==
  \/ StartSnapshot(w) \/ StartAcquire(w) \/ StartPeriod(w) \/ Stop(w)
  \/ SamplePeriod(w) \/ ObserveAccount(w) \/ CheckPeriod(w) \/ FetchEvidence(w)
  \/ PreparePeriod(w) \/ GateAndSize(w) \/ Submit(w) \/ Abandon(w) \/ RecordClosedTrade(w)

Environment == PriceMoves \/ Close \/ CashFlow \/ NextDay \/ ChangeSettings \/ Crash

Next == (\E w \in Engines : EngineStep(w)) \/ Environment

Spec == Init /\ [][Next]_vars
-----------------------------------------------------------------------------
(***************************************************************************)
(* Properties.                                                             *)
(***************************************************************************)

\* The day's anchor in memory and in the checkpoint is the balance the account
\* really had when that day began, whichever engine rolled the period and
\* however its two locks, its snapshot and its evidence interleaved with the
\* others ("it never manufactures an anchor from a mid-day value").  A start-up
\* that a midnight cuts between its snapshot and its period is not covered: the
\* evidence is then asked for a day the snapshot does not belong to.
DayAnchorTruthful ==
  ~crossed =>
    /\ loaded /\ mgr.day # 0 => mgr.dayStart = startOf[mgr.day]
    /\ disk.present /\ disk.mgr.day # 0 => disk.mgr.dayStart = startOf[disk.mgr.day]

\* An entry passes the gate only on a snapshot whose equity is within the daily
\* loss limit of the balance at the start of its day: the real one, not the one
\* the manager remembers (start-ups cut by a midnight apart, as above).
DailyLossStopsEntries ==
  ~crossed => \A w \in Engines : pc[w] = "admitted" => ~DailyLossReached(startOf[period[w]], snap[w].equity)

Admits(w) == pc[w] # "admitted" /\ pc'[w] = "admitted"

\* A latched refusal that was reported is final: the circuit breaker and the
\* challenge target for the account, the monthly target for the current month,
\* across engines, restarts, failed writes and rollovers ("a process restart does
\* not clear it").  For the monthly target an engine that slept through midnight
\* and then prepares its old day is not covered: roll_periods goes back to the old
\* month, and the next roll forward starts the current one afresh.
LatchedRefusalIsFinal ==
  [][ \A w \in Engines : Admits(w) =>
        /\ ~told.final
        /\ ~rewound => told.month # Month(today) ]_vars

\* The checkpoint never forgives: it is not removed, the peak never falls, the
\* breaker is never cleared and no other policy reinterprets it ("a second
\* engine or app restart cannot reset" them).
CheckpointNeverForgives ==
  [][ disk.present =>
        /\ disk'.present
        /\ disk'.mgr.peak >= disk.mgr.peak
        /\ disk.mgr.breaker => disk'.mgr.breaker
        /\ disk'.mgr.challenge = disk.mgr.challenge ]_vars
=============================================================================
