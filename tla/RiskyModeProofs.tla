-------------------------- MODULE RiskyModeProofs --------------------------
(***************************************************************************)
(* The two halves of the risky-mode halt, for every set of engines, every  *)
(* calendar, every cap and cooldown and every bound:                       *)
(*   - LossLedger: TypeOK, AccountCapHolds, NoPhantomTrip and              *)
(*     JournalKeepsRows.  The first two properties speak of the step       *)
(*     through the pre-send check; what NoPhantomTrip needs of the states  *)
(*     is that a ledger never counts a losing deal twice (LedgerBacked),   *)
(*     and counts deals of its own period when it is judged                *)
(*     (RolledBacked).  JournalKeepsRows needs that a seen set which was   *)
(*     seeded from a readable file covers the file (SeenCoversFile).       *)
(*   - KillSwitch, instantiated over variables of its own: TypeOK and      *)
(*     CooldownHolds.  What that needs is TripKept, that a trip whose      *)
(*     cooldown runs is still what the file says and that no clearing of   *)
(*     an older trip is under way.                                         *)
(***************************************************************************)
EXTENDS LossLedger, FiniteSetTheorems, TLAPS

CONSTANTS Operator, Cooldown, MaxFailures, MaxTime, MaxSwitchUpsets
VARIABLES now, file, bridge, broker, spawned, watching, watchdog, failures,
          slot, halted, switchPc, switchUpsets, lastTrip

Kill == INSTANCE KillSwitch
          WITH MaxUpsets <- MaxSwitchUpsets, pc <- switchPc, upsets <- switchUpsets
-----------------------------------------------------------------------------
(* The loss ledgers.                                                       *)

\* The losing deals since the period the cursor of w stands on, without those of
\* a position that w still tracks: what the ledger of w may have counted.
Countable(w, k) ==
  {d \in deals : d.pnl < 0 /\ PeriodOf(k, d.day) >= cursor[w][k] /\ holder[d.pos] # w}

\* Types, but for the bound on the ledgers.
PlainTypes ==
  /\ today \in Days
  /\ pos \in [Positions -> {"none", "open", "half", "flat"}]
  /\ deals \subseteq Deal
  /\ rows \subseteq deals
  /\ seen \subseteq Positions /\ blind \in BOOLEAN
  /\ holder \in [Positions -> Engines \cup {Nobody}]
  /\ pc \in [Engines -> {"down", "idle", "sampled", "rolled", "passed", "tripping", "retreating"}]
  /\ day \in [Engines -> 0..today]
  /\ cursor \in [Engines -> [Periods -> Nat]]
  /\ ledger \in [Engines -> [Periods -> Nat]]
  /\ upsets \in 0..MaxUpsets

\* A position has its deals once it is partly closed, each part once, none of
\* them in the future.
DealsKnown ==
  /\ \A d \in deals : d.day <= today /\ pos[d.pos] \in {"half", "flat"}
  /\ \A d \in deals : d.part = 2 => pos[d.pos] = "flat"
  /\ \A d, e \in deals : d.pos = e.pos /\ d.part = e.part => d = e

\* An engine tracks a position only between its bars.
HoldsWhenIdle(w) == \A p \in Positions : holder[p] = w => pc[w] = "idle"

\* No ledger is of a period that has not begun.
CursorNotAhead(w) == \A k \in Periods : cursor[w][k] <= PeriodOf(k, today)

\* The deals of a tracked position are no older than the ledger's period.
HeldSince(w) ==
  \A d \in deals, k \in Periods :
    holder[d.pos] = w => PeriodOf(k, d.day) >= cursor[w][k]

\* A ledger counts no deal twice.
LedgerBacked(w) == \A k \in Periods : ledger[w][k] <= Cardinality(Countable(w, k))

\* A day ledger that the sample will keep counts losses of that very day.
SampleBacked(w) ==
  pc[w] = "sampled" =>
    /\ day[w] # 0
    /\ cursor[w]["day"] = PeriodOf("day", day[w]) =>
         ledger[w]["day"] <= LossIn(deals, "day", cursor[w]["day"])

\* The ledgers that are judged count losses of the periods they are of.
RolledBacked(w) ==
  pc[w] = "rolled" => \A k \in Periods : ledger[w][k] <= LossIn(deals, k, cursor[w][k])

Backed(w) ==
  /\ HoldsWhenIdle(w) /\ CursorNotAhead(w) /\ HeldSince(w)
  /\ LedgerBacked(w) /\ SampleBacked(w) /\ RolledBacked(w)

LedgerInv == PlainTypes /\ DealsKnown /\ \A w \in Engines : Backed(w)

\* The periods follow the days.
LEMMA PeriodLaw ==
  ASSUME NEW k \in Periods, NEW a \in Nat \ {0}, NEW b \in Nat, a <= b
  PROVE  /\ PeriodOf(k, a) \in Nat /\ PeriodOf(k, b) \in Nat
         /\ PeriodOf(k, a) <= PeriodOf(k, b) /\ PeriodOf(k, a) <= a
<1> DEFINE L == Length[k]
           x == (a + L - 1) \div L
           y == (b + L - 1) \div L
<1>1. L \in Nat \ {0}
  BY LedgerConstants
<1> HIDE DEF L
<1>2. /\ x \in Nat /\ L * x <= a + L - 1 /\ a + L - 1 < L * x + L
      /\ y \in Nat /\ L * y <= b + L - 1 /\ b + L - 1 < L * y + L
  BY <1>1
<1> HIDE DEF x, y
<1>3. L * x < L * (y + 1)
  BY <1>1, <1>2
<1>4. x < y + 1
  BY <1>1, <1>2, <1>3
<1>5. x <= a
  BY <1>1, <1>2
<1> QED BY <1>2, <1>4, <1>5 DEF x, y, L, PeriodOf


\* A position has at most two closing deals, so there are finitely many.
LEMMA DealsBounded ==
  ASSUME PlainTypes, DealsKnown
  PROVE  IsFiniteSet(deals) /\ Cardinality(deals) <= 2 * MaxPositions
<1> DEFINE Parts == Positions \X {1, 2}
           f == [d \in deals |-> <<d.pos, d.part>>]
<1>1. f \in Injection(deals, Parts)
  <2>1. f \in [deals -> Parts]
    BY DEF PlainTypes, Deal
  <2>2. ASSUME NEW d \in deals, NEW e \in deals, f[d] = f[e] PROVE d = e
    BY <2>2 DEF DealsKnown
  <2> QED BY <2>1, <2>2 DEF Injection, IsInjective
<1>2. MaxPositions \in Nat
  BY LedgerConstants
<1>3. IsFiniteSet(Positions) /\ Cardinality(Positions) = MaxPositions
  BY <1>2, FS_Interval DEF Positions
<1>4. IsFiniteSet({1, 2}) /\ Cardinality({1, 2}) = 2
  <2>1. IsFiniteSet({1}) /\ Cardinality({1}) = 1
    BY FS_Singleton
  <2>2. 2 \notin {1} /\ {1, 2} = {1} \cup {2}
    OBVIOUS
  <2> QED BY <2>1, <2>2, FS_AddElement
<1>5. IsFiniteSet(Parts) /\ Cardinality(Parts) = MaxPositions * 2
  BY <1>3, <1>4, FS_Product
<1> HIDE DEF Parts, f
<1>6. IsFiniteSet(deals) /\ Cardinality(deals) <= Cardinality(Parts)
  BY <1>1, <1>5, FS_Injection
<1> QED BY <1>2, <1>5, <1>6

\* Fewer deals, a smaller count.
LEMMA FewerDeals ==
  ASSUME NEW B, IsFiniteSet(B), NEW S \in SUBSET B, NEW R \in SUBSET S
  PROVE  /\ Cardinality(R) \in Nat /\ Cardinality(S) \in Nat
         /\ Cardinality(R) <= Cardinality(S)
<1>1. IsFiniteSet(S) /\ IsFiniteSet(R)
  BY FS_Subset
<1> QED BY <1>1, FS_Subset, FS_CardinalityType

\* The losses of a set of deals are a number.
LEMMA LossType ==
  ASSUME PlainTypes, DealsKnown, NEW S \in SUBSET deals, NEW k \in Periods, NEW i
  PROVE  /\ LossIn(S, k, i) \in Nat /\ LossIn(deals, k, i) \in Nat
         /\ LossIn(S, k, i) <= LossIn(deals, k, i)
<1> DEFINE R == {d \in S : d.pnl < 0 /\ PeriodOf(k, d.day) = i}
           T == {d \in deals : d.pnl < 0 /\ PeriodOf(k, d.day) = i}
<1>1. T \in SUBSET deals /\ R \in SUBSET T
  OBVIOUS
<1> HIDE DEF R, T
<1>2. /\ Cardinality(R) \in Nat /\ Cardinality(T) \in Nat
      /\ Cardinality(R) <= Cardinality(T)
  BY <1>1, DealsBounded, FewerDeals
<1> QED BY <1>2 DEF R, T, LossIn

\* At the first start there are no deals, no engines and no losses.
LEMMA InitLedger == Init => LedgerInv
<1> SUFFICES ASSUME Init PROVE LedgerInv
  OBVIOUS
<1> USE LedgerConstants DEF Init, NoLoss
<1>1. PlainTypes
  <2>1. blind \in BOOLEAN
    OBVIOUS
  <2> QED BY <2>1 DEF PlainTypes, Days
<1>2. DealsKnown
  BY DEF DealsKnown
<1>3. ASSUME NEW w \in Engines PROVE Backed(w)
  <2>1. ASSUME NEW k \in Periods PROVE PeriodOf(k, today) \in Nat
    BY <1>1, PeriodLaw DEF PlainTypes, Days
  <2>2. CursorNotAhead(w)
    BY <2>1 DEF CursorNotAhead
  <2>3. ASSUME NEW k \in Periods PROVE Cardinality(Countable(w, k)) = 0
    <3>1. Countable(w, k) = {}
      BY DEF Countable
    <3> QED BY <3>1, FS_EmptySet
  <2>4. LedgerBacked(w)
    BY <2>3 DEF LedgerBacked
  <2> QED BY <2>2, <2>4 DEF Backed, HoldsWhenIdle, HeldSince, SampleBacked, RolledBacked
<1> QED BY <1>1, <1>2, <1>3 DEF LedgerInv

\* An engine is left alone by what others do, and by the end of its bar.
LEMMA Untouched ==
  ASSUME LedgerInv, NEW v \in Engines, UNCHANGED <<today, deals>>,
         cursor'[v] = cursor[v], ledger'[v] = ledger[v],
         pc'[v] = "idle" \/ (pc'[v] = pc[v] /\ day'[v] = day[v]),
         \A p \in Positions : holder'[p] = v => holder[p] = v \/ pc'[v] = "idle",
         \A d \in deals : (holder'[d.pos] = v) <=> (holder[d.pos] = v)
  PROVE  Backed(v)'
<1> USE DEF LedgerInv, Backed
<1>1. HoldsWhenIdle(v)' /\ CursorNotAhead(v)' /\ HeldSince(v)'
  BY DEF HoldsWhenIdle, CursorNotAhead, HeldSince, PeriodOf
<1>2. \A k \in Periods : Countable(v, k)' = Countable(v, k)
  BY DEF Countable, PeriodOf
<1>3. LedgerBacked(v)'
  BY <1>2 DEF LedgerBacked
<1>4. \A k, i : LossIn(deals, k, i)' = LossIn(deals, k, i)
  BY DEF LossIn, PeriodOf
<1>5. SampleBacked(v)' /\ RolledBacked(v)'
  BY <1>4 DEF SampleBacked, RolledBacked, PeriodOf
<1> QED BY <1>1, <1>3, <1>5

\* The types of what an action changes, and the deals.
LEMMA TypesStep == LedgerInv /\ [Next]_vars => PlainTypes' /\ DealsKnown'
<1> SUFFICES ASSUME LedgerInv, [Next]_vars PROVE PlainTypes' /\ DealsKnown'
  OBVIOUS
<1> USE LedgerConstants DEF LedgerInv, NoLoss, Upset
<1> DEFINE Pcs == {"down", "idle", "sampled", "rolled", "passed", "tripping", "retreating"}
<1> today \in Nat \ {0}
  BY DEF PlainTypes, Days
<1>0. \A k \in Periods, d \in 1..today : PeriodOf(k, d) \in Nat
  BY PeriodLaw
<1>b. ASSUME NEW w \in Engines, EndBar(w)
      PROVE  pc' \in [Engines -> Pcs] /\ day' \in [Engines -> 0..today]
  BY <1>b DEF EndBar, PlainTypes
<1>1. ASSUME NEW d \in deals, Journal(d) PROVE PlainTypes' /\ DealsKnown'
  <2>1. rows' \subseteq deals /\ seen' \subseteq Positions /\ upsets' \in 0..MaxUpsets
    BY <1>1 DEF Journal, PlainTypes, Deal
  <2>2. UNCHANGED <<today, pos, deals, blind, holder, pc, day, cursor, ledger>>
    BY <1>1 DEF Journal, brokerVars, engineVars
  <2> QED BY <2>1, <2>2 DEF PlainTypes, DealsKnown
<1>2. ASSUME NEW w \in Engines, Start(w) \/ Stop(w) \/ SampleDay(w)
      PROVE  PlainTypes' /\ DealsKnown'
  <2>1. CASE Start(w)
    BY <1>0, <2>1 DEF Start, brokerVars, journalVars, PlainTypes, DealsKnown
  <2>2. CASE Stop(w)
    BY <2>2 DEF Stop, brokerVars, journalVars, PlainTypes, DealsKnown
  <2>3. CASE SampleDay(w)
    BY <2>3 DEF SampleDay, brokerVars, journalVars, PlainTypes, DealsKnown
  <2> QED BY <1>2, <2>1, <2>2, <2>3
<1>3. ASSUME NEW w \in Engines, NEW p \in Positions, BookClose(w, p)
      PROVE  PlainTypes' /\ DealsKnown'
  <2>1. NetLoss(p) \in Nat
    <3> DEFINE R == {d \in deals : d.pos = p /\ d.pnl < 0}
               S == {d \in deals : d.pos = p /\ d.pnl > 0}
    <3>1. Cardinality(R) \in Nat /\ Cardinality(S) \in Nat
      BY DealsBounded, FS_Subset, FS_CardinalityType
    <3> QED BY <3>1 DEF NetLoss
  <2>2. ledger' \in [Engines -> [Periods -> Nat]]
    BY <1>3, <2>1 DEF BookClose, PlainTypes
  <2> QED BY <1>3, <2>2 DEF BookClose, brokerVars, journalVars, PlainTypes, DealsKnown
<1>4. ASSUME NEW w \in Engines, RollLedgers(w) PROVE PlainTypes' /\ DealsKnown'
  <2> DEFINE new == [k \in Periods |-> PeriodOf(k, IF k = "day" THEN day[w] ELSE today)]
  <2>1. new \in [Periods -> Nat]
    <3>1. day[w] \in 1..today
      BY <1>4 DEF RollLedgers, PlainTypes, Backed, SampleBacked
    <3> QED BY <1>0, <3>1
  <2> HIDE DEF new
  <2>2. /\ cursor' = [cursor EXCEPT ![w] = new]
        /\ ledger' = [ledger EXCEPT ![w] =
                        [k \in Periods |-> IF cursor[w][k] = new[k] THEN @[k] ELSE 0]]
    BY <1>4 DEF RollLedgers, new
  <2>3. cursor' \in [Engines -> [Periods -> Nat]] /\ ledger' \in [Engines -> [Periods -> Nat]]
    BY <2>1, <2>2 DEF PlainTypes
  <2> QED BY <1>4, <2>3 DEF RollLedgers, brokerVars, journalVars, PlainTypes, DealsKnown
<1>5. ASSUME NEW w \in Engines, PresendCheck(w) PROVE PlainTypes' /\ DealsKnown'
  <2>1. PICK S \in {rows, {}} :
          /\ ledger' = [ledger EXCEPT ![w] = Raised(ledger[w], S)]
          /\ UNCHANGED upsets \/ Upset
          /\ \E c \in Pcs : pc' = [pc EXCEPT ![w] = c]
          /\ day' \in {day, [day EXCEPT ![w] = 0]}
    BY <1>5 DEF PresendCheck, Verdicts
  <2>2. Raised(ledger[w], S) \in [Periods -> Nat]
    BY <2>1, LossType DEF Raised, PlainTypes
  <2>3. ledger' \in [Engines -> [Periods -> Nat]]
    BY <2>1, <2>2 DEF PlainTypes
  <2>4. pc' \in [Engines -> Pcs] /\ day' \in [Engines -> 0..today]
    BY <2>1 DEF PlainTypes
  <2>5. upsets' \in 0..MaxUpsets
    BY <2>1 DEF PlainTypes
  <2>6. UNCHANGED <<today, pos, deals, rows, seen, blind, holder, cursor>>
    BY <1>5 DEF PresendCheck, brokerVars, journalVars
  <2> QED BY <2>3, <2>4, <2>5, <2>6 DEF PlainTypes, DealsKnown
<1>6. ASSUME NEW w \in Engines, Trip(w) \/ Abandon(w)
      PROVE  PlainTypes' /\ DealsKnown'
  BY <1>b, <1>6 DEF Trip, Abandon, brokerVars, journalVars, PlainTypes, DealsKnown
<1>7. ASSUME ManualOpen \/ \E w \in Engines : Submit(w) PROVE PlainTypes' /\ DealsKnown'
  <2>1. PlainTypes'
    <3>1. CASE ManualOpen
      BY <3>1 DEF ManualOpen, journalVars, engineVars, PlainTypes
    <3>2. ASSUME NEW w \in Engines, Submit(w) PROVE PlainTypes'
      <4>1. /\ pos' \in [Positions -> {"none", "open", "half", "flat"}]
            /\ holder' \in [Positions -> Engines \cup {Nobody}]
        BY <3>2 DEF Submit, PlainTypes
      <4>2. pc' \in [Engines -> Pcs] /\ day' \in [Engines -> 0..today]
        BY <1>b, <3>2 DEF Submit
      <4>3. UNCHANGED <<today, deals, rows, seen, blind, cursor, ledger, upsets>>
        BY <3>2 DEF Submit, journalVars
      <4> QED BY <4>1, <4>2, <4>3 DEF PlainTypes
    <3> QED BY <1>7, <3>1, <3>2
  <2>2. \A d \in deals : d.pos \in Positions /\ pos'[d.pos] = pos[d.pos]
    BY <1>7 DEF ManualOpen, Submit, NextId, PlainTypes, DealsKnown, Deal
  <2>3. UNCHANGED <<today, deals>>
    BY <1>7 DEF ManualOpen, Submit
  <2>4. DealsKnown'
    BY <2>2, <2>3 DEF DealsKnown
  <2> QED BY <2>1, <2>4
<1>8. ASSUME NEW p \in Positions, CloseDeal(p) PROVE PlainTypes' /\ DealsKnown'
  <2>1. PICK n \in {-1, 1} :
          deals' = deals \cup
            {[pos |-> p, part |-> IF pos[p] = "half" THEN 2 ELSE 1, day |-> today, pnl |-> n]}
    BY <1>8 DEF CloseDeal
  <2> DEFINE e == [pos |-> p, part |-> IF pos[p] = "half" THEN 2 ELSE 1, day |-> today, pnl |-> n]
  <2>2. /\ e \in Deal /\ e.pos = p /\ e.day = today
        /\ (e.part = 2 <=> pos[p] = "half") /\ e.part \in {1, 2}
    BY DEF Deal, PlainTypes
  <2>3. deals' = deals \cup {e}
    BY <2>1
  <2> HIDE DEF e
  <2>4. PlainTypes'
    BY <1>8, <2>2, <2>3 DEF CloseDeal, journalVars, engineVars, PlainTypes
  <2>5. /\ pos[p] \in {"open", "half"} /\ pos'[p] \in {"half", "flat"}
        /\ pos[p] = "half" => pos'[p] = "flat"
        /\ \A q \in Positions \ {p} : pos'[q] = pos[q]
        /\ today' = today
    BY <1>8 DEF CloseDeal, PlainTypes
  <2>6. \A d \in deals : d.pos \in Positions /\ d.part \in {1, 2} /\ d.day \in Days
    BY DEF PlainTypes, Deal
  <2>7. \A d \in deals : d.pos = p => pos[p] = "half" /\ d.part = 1
    BY <2>5, <2>6 DEF DealsKnown
  <2>8. \A d \in deals' : d.day <= today /\ pos'[d.pos] \in {"half", "flat"}
    BY <1>0, <2>2, <2>3, <2>5, <2>6 DEF DealsKnown
  <2>9. \A d \in deals' : d.part = 2 => pos'[d.pos] = "flat"
    BY <2>2, <2>3, <2>5, <2>6, <2>7 DEF DealsKnown
  <2>10. \A d, f \in deals' : d.pos = f.pos /\ d.part = f.part => d = f
    BY <2>2, <2>3, <2>7 DEF DealsKnown
  <2> QED BY <2>4, <2>5, <2>8, <2>9, <2>10 DEF DealsKnown
<1>9. CASE NextDay
  BY <1>9 DEF NextDay, brokerVars, journalVars, engineVars, PlainTypes, DealsKnown, Days, Deal
<1>10. CASE Restart
  <2>1. seen' \subseteq Positions
    BY <1>10 DEF Restart, SeenInFile, PlainTypes, Deal
  <2>2. blind' \in BOOLEAN
    BY <1>10 DEF Restart
  <2>3. PlainTypes'
    BY <1>10, <2>1, <2>2 DEF Restart, brokerVars, PlainTypes
  <2> QED BY <1>10, <2>3 DEF Restart, brokerVars, DealsKnown
<1>11. CASE UNCHANGED vars
  BY <1>11 DEF vars, brokerVars, journalVars, engineVars, PlainTypes, DealsKnown
<1> QED
  BY <1>1, <1>2, <1>3, <1>4, <1>5, <1>6, <1>7, <1>8, <1>9, <1>10, <1>11
  DEF Next, EngineStep, BridgeStep, Recent

\* A new engine starts with empty ledgers of the current periods.
LEMMA StartBacked ==
  ASSUME LedgerInv, PlainTypes', DealsKnown', NEW w \in Engines, Start(w) \/ Stop(w)
  PROVE  Backed(w)'
<1> USE DEF LedgerInv
<1>1. today \in Nat \ {0} /\ today' = today /\ deals' = deals
  BY LedgerConstants DEF PlainTypes, Days, Start, Stop, brokerVars
<1>2. \A k \in Periods : PeriodOf(k, today) \in Nat
  BY <1>1, PeriodLaw
<1>3. \A p \in Positions : holder'[p] # w
  BY <1>2, LedgerConstants DEF Start, Stop, PlainTypes, Backed, HoldsWhenIdle
<1>4. pc'[w] \in {"idle", "down"} /\ ledger'[w] = NoLoss
  BY DEF Start, Stop, PlainTypes
<1>5. CursorNotAhead(w)'
  BY <1>1, <1>2 DEF Start, Stop, PlainTypes, NoLoss, CursorNotAhead, PeriodOf
<1>6. LedgerBacked(w)'
  <2> SUFFICES ASSUME NEW k \in Periods
               PROVE  ledger'[w][k] <= Cardinality(Countable(w, k)')
    BY DEF LedgerBacked
  <2>1. Countable(w, k)' \in SUBSET deals
    BY <1>1 DEF Countable
  <2>2. Cardinality(Countable(w, k)') \in Nat
    BY <2>1, DealsBounded, FewerDeals
  <2> QED BY <1>4, <2>2 DEF NoLoss
<1>7. HeldSince(w)'
  BY <1>1, <1>3 DEF HeldSince, PlainTypes, Deal
<1> QED BY <1>3, <1>4, <1>5, <1>6, <1>7 DEF Backed, HoldsWhenIdle, SampleBacked, RolledBacked

\* The net loss of the closed position is at most its losing deals, which the
\* ledger may count from now on.
LEMMA BookBacked ==
  ASSUME LedgerInv, NEW w \in Engines, NEW p \in Positions, BookClose(w, p)
  PROVE  Backed(w)'
<1> USE DEF LedgerInv
<1>1. UNCHANGED <<today, deals, cursor, pc, day>>
  BY DEF BookClose, brokerVars
<1>2. /\ holder[p] = w /\ holder'[p] = Nobody /\ Nobody # w
      /\ \A q \in Positions \ {p} : holder'[q] = holder[q]
  BY LedgerConstants DEF BookClose, PlainTypes
<1>3. \A d \in deals : d.pos \in Positions
  BY DEF PlainTypes, Deal
<1>4. HoldsWhenIdle(w)' /\ CursorNotAhead(w)' /\ HeldSince(w)'
  BY <1>1, <1>2, <1>3 DEF Backed, HoldsWhenIdle, CursorNotAhead, HeldSince, PeriodOf
<1>5. LedgerBacked(w)'
  <2> SUFFICES ASSUME NEW k \in Periods
               PROVE  ledger'[w][k] <= Cardinality(Countable(w, k)')
    BY DEF LedgerBacked
  <2> DEFINE C == Countable(w, k)
             R == {d \in deals : d.pos = p /\ d.pnl < 0}
             S == {d \in deals : d.pos = p /\ d.pnl > 0}
  <2>1. Countable(w, k)' = C \cup R
    BY <1>1, <1>2, <1>3 DEF Countable, Backed, HeldSince, PeriodOf
  <2>2. C \cap R = {}
    BY <1>2 DEF Countable
  <2>3. C \in SUBSET deals /\ R \in SUBSET deals /\ S \in SUBSET deals
    BY DEF Countable
  <2>4. ledger'[w][k] = ledger[w][k] + NetLoss(p) /\ ledger[w][k] \in Nat
    BY DEF BookClose, PlainTypes
  <2>5. NetLoss(p) = IF Cardinality(R) > Cardinality(S)
                     THEN Cardinality(R) - Cardinality(S) ELSE 0
    BY DEF NetLoss
  <2>6. ledger[w][k] <= Cardinality(C)
    BY DEF Backed, LedgerBacked
  <2> HIDE DEF C, R, S
  <2>7. IsFiniteSet(C) /\ IsFiniteSet(R) /\ IsFiniteSet(S)
    BY <2>3, DealsBounded, FS_Subset
  <2>8. {Cardinality(C), Cardinality(R), Cardinality(S)} \subseteq Nat
    BY <2>7, FS_CardinalityType
  <2>9. Cardinality(C \cup R) = Cardinality(C) + Cardinality(R) - Cardinality(C \cap R)
    BY <2>7, FS_Union
  <2>10. Cardinality(C \cap R) = 0
    BY <2>2, FS_EmptySet
  <2> QED BY <2>1, <2>4, <2>5, <2>6, <2>8, <2>9, <2>10
<1>6. pc'[w] = "idle"
  BY <1>1 DEF BookClose
<1> QED BY <1>4, <1>5, <1>6 DEF Backed, SampleBacked, RolledBacked

\* The day is sampled while no position is tracked: what the ledger of the
\* current day counts are losses of the current day.
LEMMA SampleDayBacked ==
  ASSUME LedgerInv, NEW w \in Engines, SampleDay(w)
  PROVE  Backed(w)'
<1> USE DEF LedgerInv
<1>1. /\ UNCHANGED <<today, deals, holder, cursor, ledger>>
      /\ pc'[w] = "sampled" /\ day'[w] = today /\ \A p \in Positions : holder[p] # w
  BY DEF SampleDay, brokerVars, PlainTypes
<1>2. today \in Nat \ {0} /\ \A d \in deals : d.pos \in Positions /\ d.day \in Nat \ {0}
  BY LedgerConstants DEF PlainTypes, Deal, Days
<1>3. HoldsWhenIdle(w)' /\ CursorNotAhead(w)' /\ HeldSince(w)'
  BY <1>1, <1>2 DEF Backed, HoldsWhenIdle, CursorNotAhead, HeldSince, PeriodOf
<1>4. LedgerBacked(w)'
  <2>1. \A k \in Periods : Countable(w, k)' = Countable(w, k)
    BY <1>1 DEF Countable, PeriodOf
  <2> QED BY <1>1, <2>1 DEF Backed, LedgerBacked
<1>5. SampleBacked(w)'
  <2> DEFINE i == cursor[w]["day"]
             T == {d \in deals : d.pnl < 0 /\ PeriodOf("day", d.day) = i}
  <2> SUFFICES ASSUME i = PeriodOf("day", today)
               PROVE  ledger[w]["day"] <= LossIn(deals, "day", i)
    BY <1>1, <1>2 DEF SampleBacked, LossIn, PeriodOf
  <2>1. \A d \in deals : PeriodOf("day", d.day) \in Nat /\ i \in Nat /\ PeriodOf("day", d.day) <= i
    BY <1>2, PeriodLaw, LedgerConstants DEF DealsKnown
  <2>2. T \in SUBSET deals /\ Countable(w, "day") \in SUBSET T
    BY <2>1 DEF Countable
  <2> HIDE DEF T
  <2>3. /\ Cardinality(Countable(w, "day")) \in Nat /\ Cardinality(T) \in Nat
        /\ Cardinality(Countable(w, "day")) <= Cardinality(T)
    BY <2>2, DealsBounded, FewerDeals
  <2>4. ledger[w]["day"] \in Nat /\ ledger[w]["day"] <= Cardinality(Countable(w, "day"))
    BY LedgerConstants DEF Backed, LedgerBacked, PlainTypes
  <2> QED BY <2>3, <2>4 DEF T, LossIn
<1> QED BY <1>1, <1>3, <1>4, <1>5 DEF Backed, RolledBacked

\* A ledger that is rolled is either reset or of its period already.
LEMMA RollBacked ==
  ASSUME LedgerInv, NEW w \in Engines, RollLedgers(w)
  PROVE  Backed(w)'
<1> USE DEF LedgerInv
<1> DEFINE new == [k \in Periods |-> PeriodOf(k, IF k = "day" THEN day[w] ELSE today)]
<1>1. /\ UNCHANGED <<today, deals, holder>> /\ pc[w] = "sampled" /\ pc'[w] = "rolled"
      /\ cursor'[w] = new
      /\ \A k \in Periods : ledger'[w][k] = IF cursor[w][k] = new[k] THEN ledger[w][k] ELSE 0
  BY DEF RollLedgers, brokerVars, PlainTypes
<1>2. /\ today \in Nat \ {0} /\ day[w] \in Nat \ {0} /\ day[w] <= today
      /\ \A d \in deals : d.pos \in Positions /\ d.day \in Nat \ {0}
  BY <1>1, LedgerConstants DEF PlainTypes, Deal, Days, Backed, SampleBacked
<1>3. ASSUME NEW k \in Periods
      PROVE  new[k] \in Nat /\ new[k] <= PeriodOf(k, today) /\ PeriodOf(k, today) \in Nat
  BY <1>2, PeriodLaw
<1>4. \A p \in Positions : holder[p] # w
  BY <1>1 DEF Backed, HoldsWhenIdle
<1>5. ASSUME NEW k \in Periods
      PROVE  /\ ledger'[w][k] <= Cardinality(Countable(w, k)')
             /\ ledger'[w][k] <= LossIn(deals, k, new[k])
  <2> DEFINE C == Countable(w, k)
             T == {d \in deals : d.pnl < 0 /\ PeriodOf(k, d.day) = new[k]}
  <2>1. /\ Countable(w, k)' \in SUBSET deals /\ C \in SUBSET deals /\ T \in SUBSET deals
        /\ T = {d \in deals : d.pnl < 0 /\ PeriodOf(k, d.day) = new[k]}
    BY <1>1 DEF Countable
  <2>2. /\ Cardinality(Countable(w, k)') \in Nat /\ Cardinality(T) \in Nat
        /\ LossIn(deals, k, new[k]) = Cardinality(T)
    BY <2>1, DealsBounded, FewerDeals DEF LossIn
  <2>3. CASE cursor[w][k] # new[k]
    BY <1>1, <2>2, <2>3
  <2>4. CASE cursor[w][k] = new[k]
    <3>1. Countable(w, k)' = C
      BY <1>1, <2>4 DEF Countable, PeriodOf
    <3>2. ledger'[w][k] = ledger[w][k] /\ ledger[w][k] \in Nat /\ ledger[w][k] <= Cardinality(C)
      BY <1>1, <2>4 DEF PlainTypes, Backed, LedgerBacked
    <3>3. CASE k = "day"
      <4>1. ledger[w]["day"] <= LossIn(deals, "day", cursor[w]["day"])
        BY <1>1, <2>4, <3>3 DEF Backed, SampleBacked
      <4> QED BY <2>4, <3>1, <3>2, <3>3, <4>1
    <3>4. CASE k # "day"
      <4>1. \A d \in deals : PeriodOf(k, d.day) \in Nat /\ PeriodOf(k, d.day) <= new[k]
        BY <1>2, <3>4, PeriodLaw DEF DealsKnown
      <4>2. C \in SUBSET T
        BY <1>3, <2>4, <4>1 DEF Countable
      <4> HIDE DEF C, T
      <4>3. Cardinality(C) \in Nat /\ Cardinality(C) <= Cardinality(T)
        BY <2>1, <4>2, DealsBounded, FewerDeals
      <4> QED BY <2>2, <3>1, <3>2, <4>3
    <3> QED BY <3>3, <3>4
  <2> QED BY <2>3, <2>4
<1> HIDE DEF new
<1>6. CursorNotAhead(w)' /\ LedgerBacked(w)'
  BY <1>1, <1>3, <1>5 DEF CursorNotAhead, LedgerBacked, PeriodOf
<1>7. RolledBacked(w)'
  BY <1>1, <1>5 DEF RolledBacked, LossIn, PeriodOf
<1>8. HoldsWhenIdle(w)' /\ HeldSince(w)'
  BY <1>1, <1>2, <1>4 DEF HoldsWhenIdle, HeldSince
<1> QED BY <1>1, <1>6, <1>7, <1>8 DEF Backed, SampleBacked

\* The larger of what the engine counted and what the journal says.
LEMMA RaisedLaw ==
  ASSUME LedgerInv, NEW w \in Engines, NEW S \in SUBSET deals, NEW k \in Periods
  PROVE  LET account == LossIn(S, k, PeriodOf(k, today))
             raised == Raised(ledger[w], S)[k]
         IN  /\ account \in Nat /\ raised \in Nat
             /\ account <= raised /\ ledger[w][k] <= raised
             /\ raised = account \/ raised = ledger[w][k]
  BY LossType DEF LedgerInv, PlainTypes, Raised

\* The journal's losses of the current period are deals that the ledger may
\* count, since the engine tracks no position.
LEMMA PresendBacked ==
  ASSUME LedgerInv, NEW w \in Engines, PresendCheck(w)
  PROVE  Backed(w)'
<1> USE DEF LedgerInv
<1>1. PICK S \in {rows, {}} : ledger' = [ledger EXCEPT ![w] = Raised(ledger[w], S)]
  BY DEF PresendCheck
<1>2. /\ UNCHANGED <<today, deals, holder, cursor>> /\ pc[w] = "rolled"
      /\ pc'[w] \in {"idle", "tripping", "retreating", "passed"}
  BY DEF PresendCheck, Verdicts, brokerVars, PlainTypes
<1>3. S \in SUBSET deals /\ ledger'[w] = Raised(ledger[w], S)
  BY <1>1 DEF PlainTypes
<1>4. /\ today \in Nat \ {0}
      /\ \A d \in deals : d.pos \in Positions /\ d.day \in Nat \ {0}
  BY LedgerConstants DEF PlainTypes, Deal, Days
<1>5. \A p \in Positions : holder[p] # w
  BY <1>2 DEF Backed, HoldsWhenIdle
<1>6. HoldsWhenIdle(w)' /\ CursorNotAhead(w)' /\ HeldSince(w)'
  BY <1>2, <1>4, <1>5 DEF Backed, HoldsWhenIdle, CursorNotAhead, HeldSince, PeriodOf
<1>7. LedgerBacked(w)'
  <2> SUFFICES ASSUME NEW k \in Periods
               PROVE  ledger'[w][k] <= Cardinality(Countable(w, k)')
    BY DEF LedgerBacked
  <2> DEFINE C == Countable(w, k)
             T == {d \in S : d.pnl < 0 /\ PeriodOf(k, d.day) = PeriodOf(k, today)}
  <2>1. Countable(w, k)' = C
    BY <1>2 DEF Countable, PeriodOf
  <2>2. cursor[w][k] <= PeriodOf(k, today)
    BY DEF Backed, CursorNotAhead
  <2>3. C \in SUBSET deals /\ T \in SUBSET C
    BY <1>3, <1>4, <1>5, <2>2 DEF Countable
  <2>4. LossIn(S, k, PeriodOf(k, today)) = Cardinality(T)
    BY DEF LossIn
  <2>5. ledger[w][k] <= Cardinality(C)
    BY DEF Backed, LedgerBacked
  <2> HIDE DEF C, T
  <2>6. Cardinality(T) \in Nat /\ Cardinality(C) \in Nat /\ Cardinality(T) <= Cardinality(C)
    BY <2>3, DealsBounded, FewerDeals
  <2>7. ledger'[w][k] = Cardinality(T) \/ ledger'[w][k] = ledger[w][k]
    BY <1>3, <2>4, RaisedLaw
  <2> QED BY <2>1, <2>5, <2>6, <2>7
<1> QED BY <1>2, <1>6, <1>7 DEF Backed, SampleBacked, RolledBacked

\* A closing deal is of today, and a ledger counts it only when it is booked or
\* read from the journal.
LEMMA CloseBacked ==
  ASSUME LedgerInv, NEW p \in Positions, CloseDeal(p), NEW w \in Engines
  PROVE  Backed(w)'
<1> USE DEF LedgerInv
<1>1. PICK e : deals' = deals \cup {e} /\ e.day = today
  <2>1. PICK n \in {-1, 1} :
          deals' = deals \cup
            {[pos |-> p, part |-> IF pos[p] = "half" THEN 2 ELSE 1, day |-> today, pnl |-> n]}
    BY DEF CloseDeal
  <2> DEFINE c == [pos |-> p, part |-> IF pos[p] = "half" THEN 2 ELSE 1, day |-> today, pnl |-> n]
  <2>2. c.day = today
    OBVIOUS
  <2> HIDE DEF c
  <2> QED BY <2>1, <2>2 DEF c
<1>2. UNCHANGED <<today, holder, pc, day, cursor, ledger>>
  BY DEF CloseDeal, engineVars
<1>3. IsFiniteSet(deals')
  BY <1>1, DealsBounded, FS_AddElement
<1>4. HoldsWhenIdle(w)' /\ CursorNotAhead(w)'
  BY <1>2 DEF Backed, HoldsWhenIdle, CursorNotAhead, PeriodOf
<1>5. HeldSince(w)'
  <2>1. \A k \in Periods : PeriodOf(k, e.day) \in Int /\ cursor[w][k] \in Int
                           /\ PeriodOf(k, e.day) >= cursor[w][k]
    <3>1. today \in Nat \ {0}
      BY LedgerConstants DEF PlainTypes, Days
    <3> QED BY <1>1, <3>1, PeriodLaw DEF PlainTypes, Backed, CursorNotAhead
  <2> QED BY <1>1, <1>2, <2>1 DEF Backed, HeldSince, PeriodOf
<1>6. LedgerBacked(w)'
  <2> SUFFICES ASSUME NEW k \in Periods
               PROVE  ledger[w][k] <= Cardinality(Countable(w, k)')
    BY <1>2 DEF LedgerBacked
  <2>1. Countable(w, k)' \in SUBSET deals' /\ Countable(w, k) \in SUBSET Countable(w, k)'
    BY <1>1, <1>2 DEF Countable, PeriodOf
  <2>2. /\ {Cardinality(Countable(w, k)), Cardinality(Countable(w, k)')} \subseteq Nat
        /\ Cardinality(Countable(w, k)) <= Cardinality(Countable(w, k)')
    BY <1>3, <2>1, FewerDeals
  <2>3. ledger[w][k] \in Nat /\ ledger[w][k] <= Cardinality(Countable(w, k))
    BY DEF PlainTypes, Backed, LedgerBacked
  <2> QED BY <2>2, <2>3
<1>7. ASSUME NEW k \in Periods, NEW i
      PROVE  /\ LossIn(deals, k, i) \in Nat /\ LossIn(deals', k, i) \in Nat
             /\ LossIn(deals, k, i) <= LossIn(deals', k, i)
  <2> DEFINE R == {d \in deals : d.pnl < 0 /\ PeriodOf(k, d.day) = i}
             T == {d \in deals' : d.pnl < 0 /\ PeriodOf(k, d.day) = i}
  <2>1. T \in SUBSET deals' /\ R \in SUBSET T
    BY <1>1
  <2>2. LossIn(deals, k, i) = Cardinality(R) /\ LossIn(deals', k, i) = Cardinality(T)
    BY DEF LossIn
  <2> HIDE DEF R, T
  <2> QED BY <1>3, <2>1, <2>2, FewerDeals
<1>8. \A k \in Periods : ledger[w][k] \in Nat
  BY DEF PlainTypes
<1>9. SampleBacked(w)'
  <2> SUFFICES ASSUME pc[w] = "sampled"
               PROVE  /\ day[w] # 0
                      /\ cursor[w]["day"] = PeriodOf("day", day[w]) =>
                           ledger[w]["day"] <= LossIn(deals', "day", cursor[w]["day"])
    BY <1>2 DEF SampleBacked, PeriodOf, LossIn
  <2> QED BY <1>7, <1>8, LedgerConstants DEF Backed, SampleBacked
<1>10. RolledBacked(w)'
  <2> SUFFICES ASSUME pc[w] = "rolled", NEW k \in Periods
               PROVE  ledger[w][k] <= LossIn(deals', k, cursor[w][k])
    BY <1>2 DEF RolledBacked, PeriodOf, LossIn
  <2> QED BY <1>7, <1>8 DEF Backed, RolledBacked
<1> QED BY <1>4, <1>5, <1>6, <1>9, <1>10 DEF Backed

\* A later day is in the same period or in a later one.
LEMMA NextDayBacked ==
  ASSUME LedgerInv, NextDay, NEW w \in Engines
  PROVE  Backed(w)'
<1> USE DEF LedgerInv
<1>1. UNCHANGED <<deals, holder, pc, day, cursor, ledger>> /\ today' = today + 1
  BY DEF NextDay, brokerVars, engineVars
<1>2. today \in Nat \ {0}
  BY LedgerConstants DEF PlainTypes, Days
<1>3. \A k \in Periods : /\ PeriodOf(k, today) \in Nat /\ PeriodOf(k, today + 1) \in Nat
                         /\ PeriodOf(k, today) <= PeriodOf(k, today + 1)
  BY <1>2, PeriodLaw
<1>4. CursorNotAhead(w)'
  <2> SUFFICES ASSUME NEW k \in Periods PROVE cursor[w][k] <= PeriodOf(k, today + 1)
    BY <1>1 DEF CursorNotAhead, PeriodOf
  <2>1. cursor[w][k] \in Nat /\ cursor[w][k] <= PeriodOf(k, today)
    BY DEF PlainTypes, Backed, CursorNotAhead
  <2> QED BY <1>3, <2>1
<1>5. HoldsWhenIdle(w)' /\ HeldSince(w)'
  BY <1>1 DEF Backed, HoldsWhenIdle, HeldSince, PeriodOf
<1>6. \A k \in Periods : Countable(w, k)' = Countable(w, k)
  BY <1>1 DEF Countable, PeriodOf
<1>7. LedgerBacked(w)'
  BY <1>1, <1>6 DEF Backed, LedgerBacked
<1>8. \A k, i : LossIn(deals, k, i)' = LossIn(deals, k, i)
  BY <1>1 DEF LossIn, PeriodOf
<1>9. SampleBacked(w)' /\ RolledBacked(w)'
  BY <1>1, <1>8 DEF Backed, SampleBacked, RolledBacked, PeriodOf
<1> QED BY <1>4, <1>5, <1>7, <1>9 DEF Backed

\* A new process has no engine, and so no ledger.
LEMMA RestartBacked ==
  ASSUME LedgerInv, Restart, NEW w \in Engines
  PROVE  Backed(w)'
<1> USE DEF LedgerInv
<1>1. /\ UNCHANGED <<today, deals>> /\ pc'[w] = "down"
      /\ ledger'[w] = NoLoss /\ cursor'[w] = NoLoss
      /\ \A p \in Positions : holder'[p] # w
  BY LedgerConstants DEF Restart, brokerVars
<1>2. today \in Nat \ {0} /\ \A d \in deals : d.pos \in Positions
  BY LedgerConstants DEF PlainTypes, Deal, Days
<1>3. HoldsWhenIdle(w)' /\ HeldSince(w)'
  BY <1>1, <1>2 DEF HoldsWhenIdle, HeldSince
<1>4. CursorNotAhead(w)'
  <2>1. \A k \in Periods : PeriodOf(k, today) \in Nat
    BY <1>2, PeriodLaw
  <2> QED BY <1>1, <2>1 DEF CursorNotAhead, NoLoss, PeriodOf
<1>5. LedgerBacked(w)'
  <2> SUFFICES ASSUME NEW k \in Periods PROVE 0 <= Cardinality(Countable(w, k)')
    BY <1>1 DEF LedgerBacked, NoLoss
  <2>1. Countable(w, k)' \in SUBSET deals
    BY <1>1 DEF Countable
  <2>2. Cardinality(Countable(w, k)') \in Nat
    BY <2>1, DealsBounded, FewerDeals
  <2> QED BY <2>2
<1> QED BY <1>1, <1>3, <1>4, <1>5 DEF Backed, SampleBacked, RolledBacked

\* A position that was filled just now has no deals.
LEMMA SubmitBacked ==
  ASSUME LedgerInv, NEW w \in Engines, Submit(w), NEW v \in Engines
  PROVE  Backed(v)'
<1> USE DEF LedgerInv
<1>1. UNCHANGED <<today, deals, cursor, ledger>>
  BY DEF Submit
<1>2. pc'[v] = "idle" \/ (v # w /\ pc'[v] = pc[v] /\ day'[v] = day[v])
  BY DEF Submit, EndBar, PlainTypes
<1>3. \A p \in Positions : holder'[p] = holder[p] \/ (holder'[p] = w /\ pos[p] = "none")
  BY DEF Submit, NextId, PlainTypes
<1>4. \A d \in deals : d.pos \in Positions /\ pos[d.pos] # "none"
  BY DEF PlainTypes, DealsKnown, Deal
<1>5. \A p \in Positions : holder'[p] = v => holder[p] = v \/ pc'[v] = "idle"
  BY <1>2, <1>3
<1>6. \A d \in deals : (holder'[d.pos] = v) <=> (holder[d.pos] = v)
  BY <1>3, <1>4
<1> QED BY <1>1, <1>2, <1>5, <1>6, Untouched

\* Every step of the engines, the bridge, the broker and the clock preserves
\* the invariant.
LEMMA StepLedger == LedgerInv /\ [Next]_vars => LedgerInv'
<1> SUFFICES ASSUME LedgerInv, [Next]_vars, NEW v \in Engines PROVE Backed(v)'
  BY TypesStep DEF LedgerInv
<1>0. PlainTypes' /\ DealsKnown' /\ PlainTypes /\ \A d \in deals : d.pos \in Positions
  BY TypesStep DEF LedgerInv, PlainTypes, Deal
<1>1. ASSUME UNCHANGED <<today, deals, holder, pc, day, cursor, ledger>> PROVE Backed(v)'
  BY <1>1, Untouched
<1>2. ASSUME NEW w \in Engines, Trip(w) \/ Abandon(w) PROVE Backed(v)'
  <2>1. /\ UNCHANGED <<today, deals, holder, cursor, ledger>>
        /\ pc'[v] = "idle" \/ (pc'[v] = pc[v] /\ day'[v] = day[v])
    BY <1>0, <1>2 DEF Trip, Abandon, EndBar, brokerVars, PlainTypes
  <2> QED BY <2>1, Untouched
<1>3. ASSUME NEW w \in Engines, w # v,
             \/ Start(w) \/ Stop(w) \/ SampleDay(w) \/ RollLedgers(w) \/ PresendCheck(w)
             \/ \E p \in Positions : BookClose(w, p)
      PROVE  Backed(v)'
  <2>1. /\ UNCHANGED <<today, deals>> /\ cursor'[v] = cursor[v] /\ ledger'[v] = ledger[v]
        /\ pc'[v] = pc[v] /\ day'[v] = day[v]
    BY <1>0, <1>3 DEF Start, Stop, SampleDay, RollLedgers, PresendCheck, BookClose, EndBar,
                      brokerVars, PlainTypes
  <2>2. \A p \in Positions : (holder'[p] = v) <=> (holder[p] = v)
    BY <1>0, <1>3, LedgerConstants
    DEF Start, Stop, SampleDay, RollLedgers, PresendCheck, BookClose, PlainTypes
  <2> QED BY <1>0, <2>1, <2>2, Untouched
<1>4. ASSUME NEW p \in Positions, BookClose(v, p) PROVE Backed(v)'
  BY <1>4, BookBacked
<1>5. ASSUME \/ Start(v) \/ Stop(v) \/ SampleDay(v) \/ RollLedgers(v) \/ PresendCheck(v)
      PROVE  Backed(v)'
  BY <1>0, <1>5, StartBacked, SampleDayBacked, RollBacked, PresendBacked
<1>6. ASSUME NEW w \in Engines, Submit(w) PROVE Backed(v)'
  BY <1>6, SubmitBacked
<1>7. ASSUME NEW p \in Positions, CloseDeal(p) PROVE Backed(v)'
  BY <1>7, CloseBacked
<1>8. CASE NextDay \/ Restart
  BY <1>8, NextDayBacked, RestartBacked
<1>9. CASE BridgeStep \/ ManualOpen \/ UNCHANGED vars
  BY <1>1, <1>9 DEF BridgeStep, Recent, Journal, ManualOpen, vars, brokerVars, journalVars, engineVars
<1> QED
  BY <1>2, <1>3, <1>4, <1>5, <1>6, <1>7, <1>8, <1>9 DEF Next, EngineStep

\* The invariant holds in every state of every behaviour.
THEOREM Ledger == Spec => []LedgerInv
  BY InitLedger, StepLedger, PTL DEF Spec

\* Types, for every number of engines, positions and days and every calendar:
\* no cursor is ahead of the clock and no ledger counts more deals than the
\* broker can have closed.
THEOREM LedgerTypes == Spec => []TypeOK
<1>1. ASSUME LedgerInv PROVE TypeOK
  <2> USE <1>1 DEF LedgerInv
  <2>1. cursor \in [Engines -> [Periods -> 0..today]]
    <3>1. today \in Nat \ {0}
      BY LedgerConstants DEF PlainTypes, Days
    <3>2. \A k \in Periods : PeriodOf(k, today) \in Nat /\ PeriodOf(k, today) <= today
      BY <3>1, PeriodLaw
    <3>3. \A w \in Engines, k \in Periods : cursor[w][k] <= PeriodOf(k, today)
      BY DEF Backed, CursorNotAhead
    <3>4. \A w \in Engines, k \in Periods : cursor[w][k] \in 0..today
      BY <3>1, <3>2, <3>3 DEF PlainTypes
    <3> QED BY <3>4 DEF PlainTypes
  <2>2. ledger \in [Engines -> [Periods -> 0..2 * MaxPositions]]
    <3>1. ASSUME NEW w \in Engines, NEW k \in Periods
          PROVE  ledger[w][k] \in 0..2 * MaxPositions
      <4>1. ledger[w][k] \in Nat /\ ledger[w][k] <= Cardinality(Countable(w, k))
        BY DEF PlainTypes, Backed, LedgerBacked
      <4>2. Countable(w, k) \in SUBSET deals /\ deals \in SUBSET deals
        BY DEF Countable
      <4>3. /\ Cardinality(Countable(w, k)) \in Nat /\ Cardinality(deals) \in Nat
            /\ Cardinality(Countable(w, k)) <= Cardinality(deals)
        BY <4>2, DealsBounded, FewerDeals
      <4>4. MaxPositions \in Nat /\ Cardinality(deals) <= 2 * MaxPositions
        BY LedgerConstants, DealsBounded
      <4> QED BY <4>1, <4>3, <4>4
    <3> QED BY <3>1 DEF PlainTypes
  <2> QED BY <2>1, <2>2 DEF PlainTypes, TypeOK
<1> QED BY <1>1, Ledger, PTL

\* Only the pre-send check lets an entry pass or trips the switch.
LEMMA OnlyTheCheck ==
  ASSUME LedgerInv, Next, NEW w \in Engines, pc[w] = "rolled",
         pc'[w] \in {"passed", "tripping"}
  PROVE  PresendCheck(w)
<1>0. pc \in [Engines -> {"down", "idle", "sampled", "rolled", "passed", "tripping", "retreating"}]
  BY DEF LedgerInv, PlainTypes
<1>1. ASSUME UNCHANGED pc \/ pc' = [v \in Engines |-> "down"] PROVE FALSE
  BY <1>0, <1>1
<1>2. ASSUME NEW v \in Engines,
             \/ Start(v) \/ Stop(v) \/ SampleDay(v) \/ RollLedgers(v) \/ Trip(v)
             \/ Submit(v) \/ Abandon(v)
      PROVE  FALSE
  BY <1>0, <1>2 DEF Start, Stop, SampleDay, RollLedgers, Trip, Submit, Abandon, EndBar
<1>3. ASSUME NEW v \in Engines, PresendCheck(v) PROVE v = w
  BY <1>0, <1>3 DEF PresendCheck
<1> QED
  BY <1>1, <1>2, <1>3
  DEF Next, EngineStep, BridgeStep, BookClose, Journal, ManualOpen, CloseDeal, NextDay,
      Restart, engineVars

\* The caps bind on the account: no engine passes the check once the account
\* has lost its cap in a period that the journal has in full, whichever engine,
\* manual order or earlier process lost it.
THEOREM AccountCapIsKept == Spec => AccountCapHolds
<1> DEFINE Kept ==
      \A w \in Engines : Passes(w) /\ upsets' = upsets =>
        \A k \in Periods :
          Complete(k) => LossIn(deals, k, PeriodOf(k, today)) < Cap[k]
<1>1. LedgerInv /\ [Next]_vars => [Kept]_vars
  <2> SUFFICES ASSUME LedgerInv, Next, NEW w \in Engines, Passes(w), upsets' = upsets,
                      NEW k \in Periods, Complete(k)
               PROVE  LossIn(deals, k, PeriodOf(k, today)) < Cap[k]
    OBVIOUS
  <2>1. PresendCheck(w)
    BY OnlyTheCheck DEF Passes
  <2>2. /\ upsets \in Nat
        /\ pc \in [Engines -> {"down", "idle", "sampled", "rolled", "passed", "tripping", "retreating"}]
    BY LedgerConstants DEF LedgerInv, PlainTypes
  <2>3. ~(\E j \in Periods : Raised(ledger[w], rows)[j] >= Cap[j])
    <3>1. PICK S \in {rows, {}} :
            /\ IF S = rows THEN UNCHANGED upsets ELSE Upset
            /\ "passed" \in Verdicts(Raised(ledger[w], S))
      BY <2>1, <2>2 DEF PresendCheck, Passes
    <3>2. S = rows
      BY <2>2, <3>1 DEF Upset
    <3> QED BY <3>1, <3>2 DEF Verdicts
  <2>4. rows \in SUBSET deals
    BY DEF LedgerInv, PlainTypes
  <2>5. /\ LossIn(rows, k, PeriodOf(k, today)) \in Nat /\ Raised(ledger[w], rows)[k] \in Nat
        /\ LossIn(rows, k, PeriodOf(k, today)) <= Raised(ledger[w], rows)[k]
    BY <2>4, RaisedLaw
  <2>6. Cap[k] \in Nat
    BY LedgerConstants
  <2> QED BY <2>3, <2>5, <2>6 DEF Complete
<1>2. AccountCapHolds <=> [][Kept]_vars
  BY DEF AccountCapHolds
<1> QED BY <1>1, <1>2, Ledger, PTL DEF Spec

\* No loss is counted twice: when the check trips the 24 h halt, the account
\* really lost the cap of some period, the one on the clock or the one the
\* ledger is of.
THEOREM TripsAreReal == Spec => NoPhantomTrip
<1> DEFINE Real ==
      \A w \in Engines : Trips(w) =>
        \E k \in Periods :
          \/ LossIn(deals, k, PeriodOf(k, today)) >= Cap[k]
          \/ LossIn(deals, k, cursor[w][k]) >= Cap[k]
<1>1. LedgerInv /\ [Next]_vars => [Real]_vars
  <2> SUFFICES ASSUME LedgerInv, Next, NEW w \in Engines, Trips(w)
               PROVE  \E k \in Periods :
                        \/ LossIn(deals, k, PeriodOf(k, today)) >= Cap[k]
                        \/ LossIn(deals, k, cursor[w][k]) >= Cap[k]
    OBVIOUS
  <2>1. PresendCheck(w)
    BY OnlyTheCheck DEF Trips
  <2>2. pc \in [Engines -> {"down", "idle", "sampled", "rolled", "passed", "tripping", "retreating"}]
    BY DEF LedgerInv, PlainTypes
  <2>3. PICK S \in {rows, {}} : \E k \in Periods : Raised(ledger[w], S)[k] >= Cap[k]
    <3>1. PICK S \in {rows, {}} : "tripping" \in Verdicts(Raised(ledger[w], S))
      BY <2>1, <2>2 DEF PresendCheck, Trips
    <3> QED BY <3>1 DEF Verdicts
  <2>4. PICK k \in Periods : Raised(ledger[w], S)[k] >= Cap[k]
    BY <2>3
  <2>5. S \in SUBSET deals
    BY DEF LedgerInv, PlainTypes
  <2>6. /\ Raised(ledger[w], S)[k] \in Nat
        /\ \/ Raised(ledger[w], S)[k] = LossIn(S, k, PeriodOf(k, today))
           \/ Raised(ledger[w], S)[k] = ledger[w][k]
    BY <2>5, RaisedLaw
  <2>7. /\ LossIn(deals, k, PeriodOf(k, today)) \in Nat /\ LossIn(deals, k, cursor[w][k]) \in Nat
        /\ LossIn(S, k, PeriodOf(k, today)) <= LossIn(deals, k, PeriodOf(k, today))
    BY <2>5, LossType DEF LedgerInv
  <2>8. ledger[w][k] <= LossIn(deals, k, cursor[w][k])
    BY DEF Trips, LedgerInv, Backed, RolledBacked
  <2>9. Cap[k] \in Nat
    BY LedgerConstants
  <2> QED BY <2>4, <2>6, <2>7, <2>8, <2>9
<1>2. NoPhantomTrip <=> [][Real]_vars
  BY DEF NoPhantomTrip
<1> QED BY <1>1, <1>2, Ledger, PTL DEF Spec

\* The seen set has every position of the file.
SeenCoversFile == blind \/ \A r \in rows : r.pos \in seen

\* The bridge enters a position before its row, and a new process reads the file.
LEMMA SeenCovers == Spec => []SeenCoversFile
<1>1. Init => SeenCoversFile
  BY DEF Init, SeenCoversFile
<1>2. SeenCoversFile /\ [Next]_vars => SeenCoversFile'
  <2> SUFFICES ASSUME SeenCoversFile, [Next]_vars PROVE SeenCoversFile'
    OBVIOUS
  <2>1. ASSUME NEW d, Journal(d) PROVE SeenCoversFile'
    BY <2>1 DEF Journal, SeenCoversFile
  <2>2. CASE Restart
    BY <2>2 DEF Restart, SeenInFile, SeenCoversFile
  <2>3. ASSUME UNCHANGED journalVars PROVE SeenCoversFile'
    BY <2>3 DEF journalVars, SeenCoversFile
  <2> QED
    BY <2>1, <2>2, <2>3
    DEF Next, EngineStep, BridgeStep, Start, Stop, SampleDay, RollLedgers, PresendCheck, Trip,
        Submit, Abandon, BookClose, ManualOpen, CloseDeal, NextDay, vars
<1> QED BY <1>1, <1>2, PTL DEF Spec

\* No row of the journal is ever replaced by one of another deal of the same
\* position, through every restart and failed append, unless the process could
\* not read the file when it seeded its seen set.
THEOREM RowsAreKept == Spec => JournalKeepsRows
<1> DEFINE Kept == rows \subseteq rows' \/ blind
<1>1. SeenCoversFile /\ [Next]_vars => [Kept]_vars
  <2> SUFFICES ASSUME SeenCoversFile, Next PROVE Kept
    OBVIOUS
  <2>1. ASSUME NEW d, Journal(d) PROVE Kept
    BY <2>1 DEF Journal, SeenCoversFile
  <2>2. ASSUME UNCHANGED rows PROVE Kept
    BY <2>2
  <2> HIDE DEF Kept
  <2> QED
    BY <2>1, <2>2
    DEF Next, EngineStep, BridgeStep, Start, Stop, SampleDay, RollLedgers, PresendCheck, Trip,
        Submit, Abandon, BookClose, ManualOpen, CloseDeal, NextDay, Restart, journalVars
<1>2. JournalKeepsRows <=> [][Kept]_vars
  BY DEF JournalKeepsRows
<1> QED BY <1>1, <1>2, SeenCovers, PTL DEF Spec
-----------------------------------------------------------------------------
(* The kill switch.                                                        *)

\* While the cooldown of the last trip runs, no clearing has decided to erase
\* the file, and the file is unreadable, or of a newer build, or carries this
\* trip or a later one.
TripKept ==
  lastTrip # 0 /\ now - lastTrip < Cooldown =>
    /\ bridge = "idle"
    /\ \/ file.kind \in {"damaged", "newer"}
       \/ file.kind = "ok" /\ file.killed >= lastTrip

SwitchInv == Kill!TypeOK /\ TripKept

\* At the first start there is no file, no trip and nothing under way.
LEMMA InitSwitch ==
  ASSUME Kill!KillSwitchConstants, Kill!Init PROVE SwitchInv
<1>1. spawned \in BOOLEAN /\ watching \in BOOLEAN /\ halted \in BOOLEAN
  BY DEF Kill!Init
<1>2. Kill!TypeOK
  BY <1>1 DEF Kill!KillSwitchConstants, Kill!Init, Kill!TypeOK
<1> QED BY <1>2 DEF Kill!Init, SwitchInv, TripKept

\* A trip leaves the file well formed, counts at most one upset, and keeps or
\* renews the trip the file carries.
LEMMA RecordTripEffect ==
  ASSUME Kill!KillSwitchConstants, SwitchInv, Kill!RecordTrip, UNCHANGED <<now, bridge>>
  PROVE  /\ file' \in [kind : {"none", "ok", "newer", "damaged"}, killed : 0..now]
         /\ switchUpsets' \in 0..MaxSwitchUpsets
         /\ lastTrip' \in 0..now
         /\ TripKept'
<1> USE DEF Kill!KillSwitchConstants, SwitchInv
<1>1. CASE /\ file' = [kind |-> "ok", killed |-> now]
           /\ lastTrip' = IF bridge = "idle" THEN now ELSE lastTrip
           /\ UNCHANGED switchUpsets
  BY <1>1 DEF Kill!TypeOK, TripKept
<1>2. CASE UNCHANGED <<file, lastTrip>> /\ (UNCHANGED switchUpsets \/ Kill!Upset)
  BY <1>2 DEF Kill!TypeOK, TripKept, Kill!Upset
<1> QED BY <1>1, <1>2 DEF Kill!RecordTrip

\* A step that keeps the clock, the file and the record of the trips keeps
\* TripKept.
LEMMA FileUntouched ==
  ASSUME TripKept, UNCHANGED <<now, Kill!fileVars>>
  PROVE  TripKept'
  BY DEF TripKept, Kill!fileVars

\* Every step of the bridge, the watchdog, the engines, the operator and the
\* environment preserves the invariant.
LEMMA StepSwitch ==
  ASSUME Kill!KillSwitchConstants, SwitchInv, [Kill!Next]_(Kill!vars)
  PROVE  SwitchInv'
<1> USE DEF Kill!KillSwitchConstants, SwitchInv
<1>1. CASE Kill!ClearCheck
  <2>1. Kill!TypeOK'
    BY <1>1 DEF Kill!ClearCheck, Kill!TypeOK, Kill!haltVars
  <2>2. TripKept'
    BY <1>1 DEF Kill!ClearCheck, Kill!CooldownExpired, Kill!Elapsed, Kill!Loaded, Kill!TypeOK,
                TripKept
  <2> QED BY <2>1, <2>2
<1>2. CASE Kill!ClearSave
  <2>1. Kill!TypeOK'
    BY <1>2 DEF Kill!ClearSave, Kill!Upset, Kill!TypeOK, Kill!haltVars
  <2>2. TripKept'
    BY <1>2 DEF Kill!ClearSave, Kill!TypeOK, TripKept
  <2> QED BY <2>1, <2>2
<1>3. ASSUME NEW w \in Engines, Kill!CooldownGate(w) PROVE SwitchInv'
  <2>1. Kill!TypeOK'
    BY <1>3 DEF Kill!CooldownGate, Kill!TypeOK, Kill!haltVars, Kill!fileVars, Kill!Actors
  <2> QED BY <1>3, <2>1, FileUntouched DEF Kill!CooldownGate
<1>4. ASSUME NEW w \in Engines, Kill!PresendCheck(w) PROVE SwitchInv'
  <2>1. /\ switchPc' \in [Kill!Actors -> {"idle", "gated", "allowed", "sending"}]
        /\ UNCHANGED <<now, bridge, broker, Kill!haltVars>>
    BY <1>4 DEF Kill!PresendCheck, Kill!TypeOK, Kill!fileVars, Kill!Actors
  <2>2. CASE UNCHANGED <<Kill!fileVars, switchUpsets>>
    <3>1. Kill!TypeOK'
      BY <2>1, <2>2 DEF Kill!TypeOK, Kill!haltVars, Kill!fileVars
    <3> QED BY <2>1, <2>2, <3>1, FileUntouched
  <2>3. CASE Kill!RecordTrip
    <3>1. Kill!TypeOK'
      BY <2>1, <2>3, RecordTripEffect DEF Kill!TypeOK, Kill!haltVars
    <3> QED BY <2>1, <2>3, <3>1, RecordTripEffect
  <2> QED BY <1>4, <2>2, <2>3 DEF Kill!PresendCheck
<1>5. CASE Kill!ManualOrder
  <2>1. Kill!TypeOK'
    BY <1>5 DEF Kill!ManualOrder, Kill!TypeOK, Kill!haltVars, Kill!fileVars, Kill!Actors
  <2> QED BY <1>5, <2>1, FileUntouched DEF Kill!ManualOrder
<1>6. ASSUME NEW a \in Kill!Actors, Kill!HaltCheck(a) PROVE SwitchInv'
  <2>1. Kill!TypeOK'
    <3>1. spawned' \in BOOLEAN /\ watching' \in BOOLEAN
      BY <1>6 DEF Kill!HaltCheck, Kill!EnsureSpawned, Kill!TypeOK
    <3>2. switchUpsets' \in 0..MaxSwitchUpsets
      BY <1>6 DEF Kill!HaltCheck, Kill!EnsureSpawned, Kill!Upset, Kill!TypeOK
    <3>3. switchPc' \in [Kill!Actors -> {"idle", "gated", "allowed", "sending"}]
      BY <1>6 DEF Kill!HaltCheck, Kill!TypeOK
    <3> QED BY <1>6, <3>1, <3>2, <3>3 DEF Kill!HaltCheck, Kill!TypeOK, Kill!fileVars
  <2> QED BY <1>6, <2>1, FileUntouched DEF Kill!HaltCheck
<1>7. ASSUME NEW a \in Kill!Actors, Kill!Send(a) PROVE SwitchInv'
  <2>1. Kill!TypeOK'
    BY <1>7 DEF Kill!Send, Kill!TypeOK, Kill!haltVars, Kill!fileVars
  <2> QED BY <1>7, <2>1, FileUntouched DEF Kill!Send
<1>8. CASE Kill!Poll
  <2>1. failures' \in 0..MaxFailures
    BY <1>8 DEF Kill!Poll, Kill!TypeOK
  <2>2. /\ slot' \in {"none"} \cup Kill!Reasons
        /\ watchdog' \in {"asleep", "armNew", "armSame", "trip"}
    BY <1>8 DEF Kill!Poll, Kill!Arm, Kill!TypeOK, Kill!Reasons
  <2>3. Kill!TypeOK'
    BY <1>8, <2>1, <2>2 DEF Kill!Poll, Kill!TypeOK, Kill!fileVars
  <2> QED BY <1>8, <2>3, FileUntouched DEF Kill!Poll
<1>9. CASE Kill!RaiseFlag
  <2>1. Kill!TypeOK'
    BY <1>9 DEF Kill!RaiseFlag, Kill!TypeOK, Kill!fileVars
  <2> QED BY <1>9, <2>1, FileUntouched DEF Kill!RaiseFlag
<1>10. CASE Kill!TripFromHalt
  <2>1. Kill!TypeOK'
    BY <1>10, RecordTripEffect DEF Kill!TripFromHalt, Kill!TypeOK
  <2> QED BY <1>10, <2>1, RecordTripEffect DEF Kill!TripFromHalt
<1>11. CASE Kill!Tick
  <2>1. Kill!TypeOK'
    BY <1>11 DEF Kill!Tick, Kill!TypeOK, Kill!haltVars, Kill!fileVars
  <2>2. TripKept'
    BY <1>11 DEF Kill!Tick, Kill!TypeOK, TripKept, Kill!fileVars
  <2> QED BY <2>1, <2>2
<1>12. CASE Kill!BrokerChanges
  <2>1. Kill!TypeOK'
    BY <1>12 DEF Kill!BrokerChanges, Kill!TypeOK, Kill!haltVars, Kill!fileVars, Kill!Reasons
  <2> QED BY <1>12, <2>1, FileUntouched DEF Kill!BrokerChanges
<1>13. CASE Kill!Restart
  <2>1. /\ file' \in [kind : {"none", "ok", "newer", "damaged"}, killed : 0..now]
        /\ file' = file \/ (file.kind = "ok" /\ file'.kind = "newer")
    BY <1>13 DEF Kill!Restart, Kill!TypeOK
  <2>2. Kill!TypeOK'
    <3>1. spawned' \in BOOLEAN /\ watching' \in BOOLEAN /\ halted' \in BOOLEAN
      BY <1>13 DEF Kill!Restart
    <3>2. switchPc' \in [Kill!Actors -> {"idle", "gated", "allowed", "sending"}]
      BY <1>13 DEF Kill!Restart
    <3> QED BY <1>13, <2>1, <3>1, <3>2 DEF Kill!Restart, Kill!Upset, Kill!TypeOK
  <2>3. TripKept'
    BY <1>13, <2>1 DEF Kill!Restart, TripKept
  <2> QED BY <2>2, <2>3
<1>14. CASE Kill!Damage
  <2>1. Kill!TypeOK'
    BY <1>14 DEF Kill!Damage, Kill!Upset, Kill!TypeOK, Kill!haltVars
  <2>2. TripKept'
    BY <1>14 DEF Kill!Damage, Kill!TypeOK, TripKept
  <2> QED BY <2>1, <2>2
<1>15. CASE Kill!DeleteFile
  <2>1. Kill!TypeOK'
    BY <1>15 DEF Kill!DeleteFile, Kill!TypeOK, Kill!haltVars
  <2>2. TripKept'
    BY <1>15 DEF Kill!DeleteFile, TripKept
  <2> QED BY <2>1, <2>2
<1>16. CASE UNCHANGED Kill!vars
  BY <1>16 DEF Kill!vars, Kill!haltVars, Kill!fileVars, Kill!TypeOK, TripKept
<1> QED
  BY <1>1, <1>2, <1>3, <1>4, <1>5, <1>6, <1>7, <1>8, <1>9, <1>10, <1>11, <1>12, <1>13,
     <1>14, <1>15, <1>16
  DEF Kill!Next, Kill!BridgeStep, Kill!WatchdogStep, Kill!EngineStep

\* The invariant holds in every state of every behaviour.
THEOREM Switch ==
  ASSUME Kill!KillSwitchConstants PROVE Kill!Spec => []SwitchInv
<1>1. Kill!Init => SwitchInv
  BY InitSwitch
<1>2. SwitchInv /\ [Kill!Next]_(Kill!vars) => SwitchInv'
  BY StepSwitch
<1> QED BY <1>1, <1>2, PTL DEF Kill!Spec

\* Types, for every number of engines and every bound: the timestamp in the
\* file is never in the future, and the failure count stays within its budget.
THEOREM SwitchTypes ==
  ASSUME Kill!KillSwitchConstants PROVE Kill!Spec => []Kill!TypeOK
<1>1. SwitchInv => Kill!TypeOK
  BY DEF SwitchInv
<1> QED BY <1>1, Switch, PTL

\* Only CooldownGate moves an engine from idle to gated.
LEMMA OnlyTheGate ==
  ASSUME Kill!KillSwitchConstants, Kill!TypeOK, Kill!Next, NEW w \in Engines,
         switchPc[w] = "idle", switchPc'[w] = "gated"
  PROVE  Kill!CooldownGate(w)
<1>0. w \in Kill!Actors /\ w # Operator
  BY DEF Kill!KillSwitchConstants, Kill!Actors
<1>1. ASSUME switchPc' = switchPc \/ switchPc' = [a \in Kill!Actors |-> "idle"] PROVE FALSE
  BY <1>0, <1>1
<1>2. ASSUME NEW v \in Engines, Kill!PresendCheck(v) PROVE FALSE
  BY <1>0, <1>2 DEF Kill!PresendCheck, Kill!TypeOK
<1>3. ASSUME Kill!ManualOrder PROVE FALSE
  BY <1>0, <1>3 DEF Kill!ManualOrder, Kill!TypeOK
<1>4. ASSUME NEW a \in Kill!Actors, Kill!HaltCheck(a) \/ Kill!Send(a) PROVE FALSE
  BY <1>0, <1>4 DEF Kill!HaltCheck, Kill!Send, Kill!TypeOK
<1>5. ASSUME NEW v \in Engines, Kill!CooldownGate(v) PROVE v = w
  BY <1>0, <1>5 DEF Kill!CooldownGate, Kill!TypeOK
<1> QED
  BY <1>1, <1>2, <1>3, <1>4, <1>5
  DEF Kill!Next, Kill!BridgeStep, Kill!WatchdogStep, Kill!EngineStep, Kill!ClearCheck,
      Kill!ClearSave, Kill!Poll, Kill!RaiseFlag,
      Kill!TripFromHalt, Kill!Tick, Kill!BrokerChanges, Kill!Restart, Kill!Damage, Kill!DeleteFile

\* A saved trip refuses risky entries for its whole cooldown: across restarts,
\* failed writes, damaged files and the bridge's clearing of expired trips, no
\* engine passes kill_switch_cooldown_remaining_secs before the cooldown is
\* over, unless the file is of a newer build or the trip was saved while an
\* older one was being cleared.
THEOREM CooldownIsKept ==
  ASSUME Kill!KillSwitchConstants PROVE Kill!Spec => Kill!CooldownHolds
<1>1. SwitchInv /\ [Kill!Next]_(Kill!vars) =>
        [ \A w \in Engines :
            switchPc[w] = "idle" /\ switchPc'[w] = "gated" /\ lastTrip # 0 /\ file.kind # "newer"
              => now - lastTrip >= Cooldown ]_(Kill!vars)
  <2> SUFFICES ASSUME SwitchInv, Kill!Next, NEW w \in Engines,
                      switchPc[w] = "idle", switchPc'[w] = "gated",
                      lastTrip # 0, file.kind # "newer"
               PROVE  now - lastTrip >= Cooldown
    OBVIOUS
  <2>1. ~Kill!Cooling
    BY OnlyTheGate DEF SwitchInv, Kill!CooldownGate
  <2>2. now \in Nat /\ lastTrip \in Nat /\ file.killed \in Nat /\ Cooldown \in Nat
    BY DEF Kill!KillSwitchConstants, SwitchInv, Kill!TypeOK
  <2> QED BY <2>1, <2>2 DEF SwitchInv, TripKept, Kill!Cooling, Kill!Loaded, Kill!Elapsed
<1> QED BY <1>1, Switch, PTL DEF Kill!Spec, Kill!CooldownHolds
=============================================================================
