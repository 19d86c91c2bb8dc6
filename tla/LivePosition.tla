----------------------------- MODULE LivePosition -----------------------------
(***************************************************************************)
(* The open position of one live engine (neoethos-app, app_services/       *)
(* live_trading.rs, run): its reconciliation with the broker, the booking  *)
(* of its exact closing money (broker_deal_economics.rs,                   *)
(* BrokerPositionMoneyAccumulatorV1), the trailing stop, the weekend close *)
(* and the auto-cull that retires a losing strategy in a blacklist file it *)
(* shares with the other engines (strategy_blacklist.rs).                  *)
(*                                                                         *)
(* The broker may close the position in several fills at any time.  The    *)
(* engine asks for the open positions and the recent deals in one          *)
(* sequence of requests; the deal list covers a look-back that ends when   *)
(* the requests are built, the open positions are those of the answer.     *)
(* Entries themselves are the subject of EntryAuthority.  The engine       *)
(* stands behind the broker-truth gate (neoethos-broker-truth, gate.rs),   *)
(* which refuses everybody at this commit: GateOpen says what happens      *)
(* behind it.                                                              *)
(***************************************************************************)
EXTENDS Integers, Sequences, FiniteSets, Units

CONSTANTS
  GateOpen,     \* BrokerFinancialTruthCapabilityV1::require grants its permit
  Volume,       \* the filled entry volume, in the smallest closable units
  Lookback,     \* DEFAULT_CTRADER_DEAL_LOOKBACK_HOURS: clock ticks a deal stays listed
  MaxOpens,     \* bound: positions opened
  MaxMalformed, \* bound: closing deals whose money evidence does not build
  Entry,        \* the opening price, in points
  Pip,          \* points per pip
  SlDist,       \* initial stop distance, in points
  TriggerDist,  \* favourable move that engages the trail
  TrailDist,    \* distance of the trail behind the extreme
  LockDist,     \* profit the engaged trail locks in
  Moves,        \* bound: favourable bar extremes, as distances from Entry
  Cull          \* cull_after_consecutive_losses

ASSUME PositionConstants ==
  /\ GateOpen \in BOOLEAN
  /\ {Volume, Entry, Pip, SlDist, TriggerDist, TrailDist, Cull} \subseteq Nat \ {0}
  /\ {Lookback, MaxOpens, MaxMalformed, LockDist} \subseteq Nat
  /\ Moves \subseteq 0..(Entry - 1)
  /\ Entry > SlDist + Pip

VARIABLES
  left,       \* broker: open volume of the position the engine opened last
  fills,      \* broker: its closing deals, in order
  stop,       \* broker: its protective stop
  long,       \* its direction
  pc,         \* where the engine is
  tracked,    \* open_position / opened_ids holds the position
  ask,        \* the requests in flight: deals executed, deals listed, some left out
  present,    \* reconciled_open_position
  seen,       \* close_money_accumulators: the fills observed
  unverified, \* unverified_close_positions / has_unverified_fill
  extreme,    \* pos_extreme
  trail,      \* pos_trail_px, 0 before the first confirmed move
  losses,     \* consecutive_losses
  black,      \* strategy_blacklist.json: the retired strategies
  readable,   \* whether that file parses
  list,       \* what retire() loaded, for this engine and a sibling
  sibling,    \* the retirement of another engine's strategy
  opens,      \* positions opened so far
  net,        \* history: the money booked for the position, NotBooked before
  cut,        \* history: the flat position was judged by a list without one of its fills
  retired,    \* history: this strategy's retirement was written
  overlap     \* history: what may undo it: an overlapping one, a damaged file

brokerVars == <<left, fills, stop, long>>
moneyVars  == <<ask, present, seen, unverified, net, cut>>
trailVars  == <<extreme, trail>>
graveVars  == <<black, readable, list, sibling, retired, overlap>>
vars == <<brokerVars, pc, tracked, moneyVars, trailVars, losses, graveVars, opens>>

Strategies == {"mine", "other"}
NotBooked == Volume + 1  \* no sum of closing money reaches it
Fill == [vol : 1..Volume, money : {-1, 1}, ok : BOOLEAN, age : 0..Lookback + 1]
NoAsk == [upto |-> 0, deals |-> {}, more |-> FALSE]

\* The sign of a favourable price move.
Dir == IF long THEN 1 ELSE -1
InitialStop == Entry - Dir * SlDist
Money(S) == Cardinality({i \in S : fills[i].money = 1}) - Cardinality({i \in S : fills[i].money = -1})
Closed(S) == Total([i \in S |-> fills[i].vol], Volume)
Malformed == {i \in DOMAIN fills : ~fills[i].ok}

TypeOK ==
  /\ left \in 0..Volume
  /\ fills \in Seq(Fill)
  /\ stop \in Int /\ long \in BOOLEAN
  /\ pc \in {"down", "idle", "asked", "managing", "retiring", "writing"}
  /\ tracked \in BOOLEAN
  /\ ask.upto \in 0..Len(fills) /\ ask.deals \subseteq 1..ask.upto /\ ask.more \in BOOLEAN
  /\ present \in BOOLEAN
  /\ seen \subseteq DOMAIN fills
  /\ unverified \in BOOLEAN
  /\ extreme \in Int /\ trail \in Int
  /\ losses \in 0..Cull
  /\ black \subseteq Strategies /\ readable \in BOOLEAN
  /\ list \in [Strategies -> SUBSET Strategies]
  /\ sibling \in {"trading", "retiring", "done"}
  /\ opens \in 0..MaxOpens
  /\ net \in -Volume..NotBooked
  /\ cut \in BOOLEAN /\ retired \in BOOLEAN /\ overlap \in BOOLEAN

Init ==
  /\ left = 0 /\ fills = <<>> /\ stop = 0 /\ long = TRUE
  /\ pc = "down" /\ tracked = FALSE
  /\ ask = NoAsk /\ present = FALSE
  /\ seen = {} /\ unverified = FALSE
  /\ extreme = 0 /\ trail = 0
  /\ losses = 0
  /\ black = {} /\ readable = TRUE
  /\ list = [s \in Strategies |-> {}] /\ sibling = "trading"
  /\ opens = 0
  /\ net = NotBooked /\ cut = FALSE /\ retired = FALSE /\ overlap = FALSE
-----------------------------------------------------------------------------
(* Start, stop and entry.                                                  *)

\* load: an unreadable file is an empty list.
Loaded == IF readable THEN black ELSE {}

\* The locals of run() go out of scope: the position stays with the broker.
Forget ==
  /\ tracked' = FALSE /\ ask' = NoAsk /\ present' = FALSE
  /\ seen' = {} /\ unverified' = FALSE
  /\ extreme' = 0 /\ trail' = 0 /\ losses' = 0

\* start_all refuses a blacklisted strategy, and live_trading::start everything
\* while the gate is shut.
Start ==
  /\ GateOpen /\ pc = "down" /\ "mine" \notin Loaded
  /\ pc' = "idle"
  /\ UNCHANGED <<brokerVars, tracked, moneyVars, trailVars, losses, graveVars, opens>>

\* The stop flag, a changed environment, a fatal error or a crash.
Stop ==
  /\ pc # "down" /\ pc' = "down" /\ Forget
  /\ list' = [list EXCEPT !["mine"] = {}]
  /\ UNCHANGED <<brokerVars, net, cut, black, readable, sibling, retired, overlap, opens>>

\* An exact opening fill is tracked; tracking blocks any further entry.
Enter ==
  /\ pc = "idle" /\ ~tracked /\ opens < MaxOpens
  /\ opens' = opens + 1
  /\ long' \in BOOLEAN
  /\ left' = Volume /\ fills' = <<>>
  /\ stop' = IF long' THEN Entry - SlDist ELSE Entry + SlDist
  /\ tracked' = TRUE /\ extreme' = Entry /\ trail' = 0
  /\ net' = NotBooked /\ cut' = FALSE
  /\ UNCHANGED <<pc, ask, present, seen, unverified, losses, graveVars>>
-----------------------------------------------------------------------------
(* A bar with a tracked position: the broker reconcile.                    *)

\* load_account_runtime builds all its requests, the deal list's time range too.
\* The list has at most 100 rows of the whole account and its hasMore is thrown
\* away, so any of the position's deals may be left out without a sign.
Ask ==
  LET recent == {i \in DOMAIN fills : fills[i].age <= Lookback}
  IN  /\ pc = "idle" /\ tracked
      /\ pc' = "asked"
      /\ \E listed \in SUBSET recent :
           ask' = [upto |-> Len(fills), deals |-> listed, more |-> listed # recent]
      /\ UNCHANGED <<brokerVars, tracked, present, seen, unverified, net, cut, trailVars,
                     losses, graveVars, opens>>

\* The fetch failed, and the bar goes on, or the identity or the remaining
\* volume was refused, and the bar ends.
AnswerRefused ==
  /\ pc = "asked" /\ pc' \in {"managing", "idle"}
  /\ ask' = NoAsk /\ present' = FALSE
  /\ UNCHANGED <<brokerVars, tracked, seen, unverified, net, cut, trailVars, losses, graveVars, opens>>

\* Mutant: a deal that was already observed is refused.
PoisonedByDuplicate(deals) == unverified \/ deals \cap (Malformed \cup seen) # {}

\* A deal whose evidence does not build poisons the position's money for good.
Poisoned(deals) == unverified \/ deals \cap Malformed # {}

\* Mutant: the closed volume is not compared with the entry's.
CompleteAnyway(S) == S # {}

\* verify_complete_filled_volume.
Complete(S) == Closed(S) = Volume

\* consecutive_losses after a close that made m.
Streak(m) == IF m < 0 THEN losses + 1 ELSE 0

\* observe_fill for every listed deal (a duplicate changes nothing), then, if the
\* position is flat, the verification of the volume and finalize_if_position_closed.
\* A flat position with a fill but an incomplete volume is refused for good; one
\* without any fill waits.  The booking feeds the streak and may retire the
\* strategy, by the streak or by the win rate of the last trades (byRate).
AnswerOk ==
  LET now == seen \cup (ask.deals \ Malformed)
      flat == left = 0
      refused == \/ Poisoned(ask.deals)
                 \/ flat /\ now # {} /\ (ask.deals = {} \/ ~Complete(now))
      books == flat /\ now # {} /\ ~refused
      streak == Streak(Money(now))
  IN  /\ pc = "asked"
      /\ ask' = NoAsk
      /\ present' = ~flat
      /\ cut' = (cut \/ (flat /\ now # {} /\ (ask.more \/ ask.upto < Len(fills))))
      /\ \/ /\ books
            /\ tracked' = FALSE /\ seen' = {} /\ unverified' = FALSE
            /\ net' = Money(now) /\ losses' = streak
            /\ \E byRate \in BOOLEAN :
                 pc' = IF byRate \/ streak >= Cull THEN "retiring" ELSE "managing"
         \/ /\ ~books
            /\ seen' = now /\ unverified' = refused
            /\ pc' = "managing"
            /\ UNCHANGED <<tracked, net, losses>>
      /\ UNCHANGED <<brokerVars, trailVars, graveVars, opens>>
-----------------------------------------------------------------------------
(* The rest of the bar: weekend close or trailing stop.                    *)

\* A closing fill of v units.
Fills(v, m, k) ==
  /\ left' = left - v
  /\ fills' = Append(fills, [vol |-> v, money |-> m, ok |-> k, age |-> 0])
  /\ k \/ Cardinality(Malformed) < MaxMalformed

\* close_position_blocking inside the weekend window, then continue: whatever it
\* returns, the position stays tracked until a reconcile proves it flat.
WeekendClose ==
  /\ pc = "managing" /\ present
  /\ pc' = "idle" /\ present' = FALSE
  /\ \/ left > 0 /\ \E m \in {-1, 1} : Fills(left, m, TRUE)
     \/ UNCHANGED <<left, fills>>
  /\ UNCHANGED <<stop, long, tracked, ask, seen, unverified, net, cut, trailVars, losses,
                 graveVars, opens>>

\* Snap to the pip grid, half away from zero.
Snap(x) == Pip * ((2 * x + Pip) \div (2 * Pip))

\* Mutant: the bar's own extreme instead of the running one.
ExtremeOfBar(bar) == bar

\* The running favourable extreme.
Extreme(bar) == IF Dir * (bar - extreme) > 0 THEN bar ELSE extreme

\* Mutant: no locked-profit floor.
CandidateNoFloor(x) == x - Dir * TrailDist

\* The trail behind the extreme, never closer to the entry than the locked profit.
Candidate(x) ==
  LET behind == x - Dir * TrailDist
      floor == Entry + Dir * LockDist
  IN  IF Dir * (behind - floor) > 0 THEN behind ELSE floor

\* The trigger is reached and the candidate is ahead of the last confirmed stop.
Advances(x) ==
  /\ Dir * (x - Entry) >= TriggerDist
  /\ trail = 0 \/ Dir * (Candidate(x) - trail) > 0

\* The amend of the stop: confirmed, applied with its answer lost, or refused (as
\* it is for a closed position).  Only a confirmation moves the local trail.
Amend(price) ==
  \/ left > 0 /\ stop' = price /\ trail' = price
  \/ left > 0 /\ stop' = price /\ UNCHANGED trail
  \/ UNCHANGED <<stop, trail>>

Manage ==
  /\ pc = "managing" /\ pc' = "idle" /\ present' = FALSE
  /\ \/ /\ tracked
        /\ \E move \in Moves :
             LET x == Extreme(Entry + Dir * move)
             IN  /\ extreme' = x
                 /\ \/ Advances(x) /\ Amend(Snap(Candidate(x)))
                    \/ ~Advances(x) /\ UNCHANGED <<stop, trail>>
     \/ ~tracked /\ UNCHANGED <<stop, trailVars>>
  /\ UNCHANGED <<left, fills, long, tracked, ask, seen, unverified, net, cut, losses,
                 graveVars, opens>>
-----------------------------------------------------------------------------
(* Retirement: strategy_blacklist::retire of this engine and of a sibling. *)

\* Mutant: the list is written anew.
WithOnly(retirees, s) == {s}

\* An entry already present is not written again; the push keeps the others.
With(retirees, s) == retirees \cup {s}

\* load, without a lock.
RetireLoad ==
  /\ pc = "retiring" /\ pc' = "writing"
  /\ list' = [list EXCEPT !["mine"] = Loaded]
  /\ UNCHANGED <<brokerVars, tracked, moneyVars, trailVars, losses, black, readable, sibling,
                 retired, overlap, opens>>

\* The write, whose error is only logged, and the end of the engine.
RetireWrite ==
  /\ pc = "writing" /\ pc' = "down" /\ Forget
  /\ \/ /\ "mine" \in list["mine"] /\ UNCHANGED <<black, readable, retired, overlap>>
     \/ /\ black' = With(list["mine"], "mine") /\ readable' = TRUE
        /\ retired' = TRUE /\ overlap' = (overlap \/ sibling = "retiring")
     \/ UNCHANGED <<black, readable, retired, overlap>>
  /\ list' = [list EXCEPT !["mine"] = {}]
  /\ UNCHANGED <<brokerVars, net, cut, sibling, opens>>

\* The same two steps of a sibling engine on the same file.
SiblingRetires ==
  /\ \/ /\ sibling = "trading" /\ sibling' = "retiring"
        /\ list' = [list EXCEPT !["other"] = Loaded]
        /\ UNCHANGED <<black, readable>>
     \/ /\ sibling = "retiring" /\ sibling' = "done"
        /\ black' = With(list["other"], "other") /\ readable' = TRUE
        /\ list' = [list EXCEPT !["other"] = {}]
  /\ UNCHANGED <<brokerVars, pc, tracked, moneyVars, trailVars, losses, retired, overlap, opens>>
-----------------------------------------------------------------------------
(* The environment.                                                        *)

\* The broker closes the position, or a part of it: stop, target or operator.
\* One that no engine tracks any more is not followed.
BrokerCloses ==
  /\ tracked /\ left > 0
  /\ \E v \in 1..left, m \in {-1, 1}, k \in BOOLEAN : Fills(v, m, k)
  /\ UNCHANGED <<stop, long, pc, tracked, moneyVars, trailVars, losses, graveVars, opens>>

\* Time passes: a deal grows older, up to just beyond the look-back.
Tick ==
  /\ tracked
  /\ \E i \in DOMAIN fills : fills[i].age <= Lookback
  /\ fills' = [i \in DOMAIN fills |->
                 [fills[i] EXCEPT !.age = IF @ <= Lookback THEN @ + 1 ELSE @]]
  /\ UNCHANGED <<left, stop, long, pc, tracked, moneyVars, trailVars, losses, graveVars, opens>>

\* The blacklist file no longer parses.
Damage ==
  /\ readable /\ readable' = FALSE /\ overlap' = TRUE
  /\ UNCHANGED <<brokerVars, pc, tracked, moneyVars, trailVars, losses, black, list, sibling,
                 retired, opens>>

EngineStep ==
  \/ Start \/ Stop \/ Enter \/ Ask \/ AnswerRefused \/ AnswerOk
  \/ WeekendClose \/ Manage \/ RetireLoad \/ RetireWrite

Next == EngineStep \/ SiblingRetires \/ BrokerCloses \/ Tick \/ Damage

Spec == Init /\ [][Next]_vars

\* New bars keep coming, the loop does not hang in its own code, and the broker
\* answers again and again when it is asked again and again.
Fairness == WF_vars(Ask) /\ WF_vars(Manage) /\ WF_vars(AnswerOk \/ AnswerRefused) /\ SF_vars(AnswerOk)

FairSpec == Spec /\ Fairness
-----------------------------------------------------------------------------
(***************************************************************************)
(* Properties.                                                             *)
(***************************************************************************)

\* Money is booked only for a position that is flat at the broker and is the
\* exact sum of all its closing fills, however they were split over snapshots,
\* listed again or missed ("no money/risk/learning side effect occurs until the
\* same broker snapshot proves the whole position is flat").
BooksExactMoney ==
  net # NotBooked => left = 0 /\ ~tracked /\ net = Money(DOMAIN fills)

\* A fill that was never observed and left the look-back.
AgedOut == \E i \in DOMAIN fills \ seen : fills[i].age > Lookback

\* The engine does not hold a phantom position: a tracked position that is flat
\* is eventually released.  Four ways out remain: a fill between the requests
\* of one snapshot after a partial close was observed (cut), a fill that the 100
\* rows of a snapshot leave out, once after another was observed (cut too) or
\* every time (ask.more), a fill that left the look-back before it was observed
\* (no bar, no answer for that long), and a malformed deal.
FlatIsReleased ==
  (tracked /\ left = 0) ~> (~tracked \/ cut \/ AgedOut \/ ask.more \/ Malformed # {})

\* The engine's amends never loosen the stop of an open position, also when the
\* answer to an applied one was lost and the local trail lags behind ("Ratchet-
\* only").
StopNeverLoosens ==
  [][tracked /\ tracked' => Dir * (stop' - stop) >= 0]_vars

\* An engaged trail keeps the locked profit, up to the half pip that snapping to
\* the pip grid may take from it.
LockedProfitWithinHalfPip ==
  tracked /\ stop # InitialStop => 2 * Dir * (stop - Entry) >= 2 * LockDist - Pip

\* A strategy whose retirement was written is never started again ("a retired
\* strategy can NEVER be traded again"), across restarts and later retirements of
\* others, unless one of them had loaded the file before, or the file was damaged.
RetiredStaysOut ==
  [][pc = "down" /\ pc' = "idle" /\ retired => overlap]_vars
=============================================================================
