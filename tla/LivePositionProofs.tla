------------------------- MODULE LivePositionProofs -------------------------
(***************************************************************************)
(* The ratchet and the locked profit of the trailing stop, the booking of  *)
(* exact money and the finality of a written retirement, for all constants *)
(* and any number of positions.                                            *)
(***************************************************************************)
EXTENDS LivePosition, FiniteSetTheorems, TLAPS

\* The stop of a tracked position is the initial one, or it keeps the locked
\* profit and no later candidate, whose extreme is no less favourable, snaps
\* behind it.  Neither mentions the local trail, which lags after a lost answer.
Ratchet ==
  tracked => \/ stop = InitialStop
             \/ /\ 2 * Dir * (stop - Entry) >= 2 * LockDist - Pip
                /\ Dir * (Snap(Candidate(extreme)) - stop) >= 0

TrailTypes ==
  stop \in Int /\ extreme \in Int /\ trail \in Int /\ long \in BOOLEAN /\ tracked \in BOOLEAN

TrailInv == TrailTypes /\ Ratchet

\* Integer division with a positive divisor.
LEMMA Division ==
  ASSUME NEW a \in Int, NEW b \in Nat \ {0}
  PROVE  a \div b \in Int /\ b * (a \div b) <= a /\ a < b * (a \div b) + b
  OBVIOUS

\* A price moves at most half a pip when it is snapped.
LEMMA SnapNear ==
  ASSUME NEW x \in Int
  PROVE  Snap(x) \in Int /\ 2 * Snap(x) <= 2 * x + Pip /\ 2 * x - Pip <= 2 * Snap(x)
<1> DEFINE q == (2 * x + Pip) \div (2 * Pip)
<1>1. 2 * Pip \in Nat \ {0} /\ 2 * x + Pip \in Int /\ Pip \in Nat \ {0}
  BY PositionConstants
<1>2. q \in Int /\ (2 * Pip) * q <= 2 * x + Pip /\ 2 * x + Pip < (2 * Pip) * q + 2 * Pip
  BY <1>1, Division
<1>3. Snap(x) = Pip * q
  BY DEF Snap
<1> HIDE DEF q
<1>4. Pip * q \in Int /\ (2 * Pip) * q = 2 * (Pip * q)
  BY <1>1, <1>2
<1> QED BY <1>1, <1>2, <1>3, <1>4

\* Snapping keeps the order of prices.
LEMMA SnapMonotone ==
  ASSUME NEW x \in Int, NEW y \in Int, x <= y
  PROVE  Snap(x) <= Snap(y)
<1> DEFINE d == 2 * Pip
           p == (2 * x + Pip) \div d
           q == (2 * y + Pip) \div d
<1>1. d \in Nat \ {0} /\ Pip \in Nat \ {0} /\ 2 * x + Pip \in Int /\ 2 * y + Pip \in Int
      /\ 2 * x + Pip <= 2 * y + Pip
  BY PositionConstants
<1>2. p \in Int /\ d * p <= 2 * x + Pip
  BY <1>1, Division
<1>3. q \in Int /\ 2 * y + Pip < d * q + d
  BY <1>1, Division
<1>4. Snap(x) = Pip * p /\ Snap(y) = Pip * q
  BY DEF Snap
<1> HIDE DEF p, q, d
<1>5. d * p < d * (q + 1)
  BY <1>1, <1>2, <1>3
<1>6. p <= q
  BY <1>1, <1>2, <1>3, <1>5
<1>7. Pip * p <= Pip * q
  BY <1>1, <1>2, <1>3, <1>6
<1> QED BY <1>4, <1>7

\* What the amend sends: never behind the locked profit by more than half a pip,
\* and never less favourable for a more favourable extreme.
LEMMA CandidateSnaps ==
  ASSUME long \in BOOLEAN, NEW x \in Int, NEW y \in Int, Dir * (y - x) >= 0
  PROVE  /\ Snap(Candidate(x)) \in Int /\ Snap(Candidate(y)) \in Int
         /\ 2 * Dir * (Snap(Candidate(x)) - Entry) >= 2 * LockDist - Pip
         /\ Dir * (Snap(Candidate(y)) - Snap(Candidate(x))) >= 0
<1> DEFINE cx == Candidate(x)
           cy == Candidate(y)
<1>1. {Entry, TrailDist, LockDist, Pip} \subseteq Nat
  BY PositionConstants
<1>2. CASE long
  <2>1. Dir = 1 /\ y >= x
    BY <1>2 DEF Dir
  <2>2. cx \in Int /\ cy \in Int /\ cx >= Entry + LockDist /\ cx <= cy
    BY <1>1, <2>1 DEF Candidate
  <2> HIDE DEF cx, cy
  <2>3. /\ Snap(cx) \in Int /\ Snap(cy) \in Int /\ Snap(cx) <= Snap(cy)
        /\ 2 * cx - Pip <= 2 * Snap(cx)
    BY <2>2, SnapNear, SnapMonotone
  <2> QED BY <1>1, <2>1, <2>2, <2>3 DEF cx, cy
<1>3. CASE ~long
  <2>1. Dir = -1 /\ y <= x
    BY <1>3 DEF Dir
  <2>2. cx \in Int /\ cy \in Int /\ cx <= Entry - LockDist /\ cy <= cx
    BY <1>1, <2>1 DEF Candidate
  <2> HIDE DEF cx, cy
  <2>3. /\ Snap(cx) \in Int /\ Snap(cy) \in Int /\ Snap(cy) <= Snap(cx)
        /\ 2 * Snap(cx) <= 2 * cx + Pip
    BY <2>2, SnapNear, SnapMonotone
  <2> QED BY <1>1, <2>1, <2>2, <2>3 DEF cx, cy
<1> QED BY <1>2, <1>3

\* One bar's work on the stop of a tracked position.
LEMMA ManageMoves ==
  ASSUME TrailInv, Manage, tracked
  PROVE  \E x \in Int :
           /\ Dir * (x - extreme) >= 0 /\ extreme' = x
           /\ long' = long /\ tracked' = tracked /\ trail' \in Int
           /\ stop' = stop \/ stop' = Snap(Candidate(x))
<1> USE DEF TrailInv, TrailTypes
<1>1. PICK move \in Moves :
        LET x == Extreme(Entry + Dir * move)
        IN  /\ extreme' = x
            /\ \/ Advances(x) /\ Amend(Snap(Candidate(x)))
               \/ ~Advances(x) /\ UNCHANGED <<stop, trail>>
  BY DEF Manage
<1> DEFINE x == Extreme(Entry + Dir * move)
<1>2. Entry + Dir * move \in Int
  BY PositionConstants DEF Dir
<1>3. x \in Int /\ Dir * (x - extreme) >= 0
  BY <1>2 DEF Extreme, Dir
<1>4. extreme' = x /\ (Amend(Snap(Candidate(x))) \/ UNCHANGED <<stop, trail>>)
  BY <1>1
<1> HIDE DEF x
<1>5. Snap(Candidate(x)) \in Int
  BY <1>3, CandidateSnaps
<1>6. trail' \in Int /\ (stop' = stop \/ stop' = Snap(Candidate(x)))
  BY <1>4, <1>5 DEF Amend
<1>7. long' = long /\ tracked' = tracked
  BY DEF Manage
<1> QED BY <1>3, <1>4, <1>6, <1>7

\* At first no stop was moved.
LEMMA InitTrail == Init => TrailInv
<1> SUFFICES ASSUME Init PROVE TrailInv
  OBVIOUS
<1>1. stop = 0 /\ extreme = 0 /\ trail = 0 /\ long \in BOOLEAN /\ tracked \in BOOLEAN
  BY DEF Init
<1>2. ~tracked
  BY DEF Init
<1> QED BY <1>1, <1>2 DEF TrailInv, TrailTypes, Ratchet

\* Every step keeps the ratchet.
LEMMA StepTrail == TrailInv /\ [Next]_vars => TrailInv'
<1> SUFFICES ASSUME TrailInv, [Next]_vars PROVE TrailInv'
  OBVIOUS
<1> USE DEF TrailInv, TrailTypes
<1>1. CASE Enter
  <2>1. {Entry, SlDist} \subseteq Nat
    BY PositionConstants
  <2>2. /\ long' \in BOOLEAN /\ tracked' = TRUE /\ extreme' = Entry /\ trail' = 0
        /\ stop' = IF long' THEN Entry - SlDist ELSE Entry + SlDist
    BY <1>1 DEF Enter
  <2>3. stop' \in Int /\ stop' = InitialStop'
    BY <2>1, <2>2 DEF InitialStop, Dir
  <2> QED BY <2>1, <2>2, <2>3 DEF Ratchet
<1>2. CASE Manage /\ tracked
  <2>1. PICK x \in Int :
           /\ Dir * (x - extreme) >= 0 /\ extreme' = x
           /\ long' = long /\ tracked' = tracked /\ trail' \in Int
           /\ stop' = stop \/ stop' = Snap(Candidate(x))
    BY <1>2, ManageMoves
  <2>2. Dir' = Dir /\ InitialStop' = InitialStop /\ Candidate(extreme)' = Candidate(x)
        /\ Snap(Candidate(extreme))' = Snap(Candidate(x))
    BY <2>1 DEF Dir, InitialStop, Candidate, Snap
  <2>3. /\ Snap(Candidate(x)) \in Int /\ Snap(Candidate(extreme)) \in Int
        /\ 2 * Dir * (Snap(Candidate(x)) - Entry) >= 2 * LockDist - Pip
        /\ Dir * (Snap(Candidate(x)) - Snap(Candidate(extreme))) >= 0
    <3>1. Dir * (x - x) >= 0
      BY DEF Dir
    <3> QED BY <2>1, <3>1, CandidateSnaps
  <2>4. Dir \in {1, -1}
    BY DEF Dir
  <2>5. TrailTypes'
    BY <2>1, <2>3
  <2>6. CASE stop' = stop
    BY <2>1, <2>2, <2>3, <2>4, <2>5, <2>6 DEF Ratchet
  <2>7. CASE stop' = Snap(Candidate(x))
    BY <2>1, <2>2, <2>3, <2>4, <2>5, <2>7 DEF Ratchet
  <2> QED BY <2>1, <2>6, <2>7
<1>3. CASE \/ Start \/ Ask \/ AnswerRefused \/ WeekendClose \/ RetireLoad \/ SiblingRetires
           \/ BrokerCloses \/ Tick \/ Damage \/ UNCHANGED vars \/ (Manage /\ ~tracked)
  <2>1. UNCHANGED <<stop, long, tracked, extreme, trail>>
    BY <1>3 DEF Start, Ask, AnswerRefused, WeekendClose, RetireLoad, SiblingRetires,
                BrokerCloses, Tick, Damage, Manage, vars, brokerVars, trailVars
  <2>2. TrailTypes'
    BY <2>1
  <2>3. /\ InitialStop' = InitialStop /\ Dir' = Dir
        /\ Snap(Candidate(extreme))' = Snap(Candidate(extreme))
    BY <2>1 DEF InitialStop, Dir, Candidate, Snap
  <2> QED BY <2>1, <2>2, <2>3 DEF Ratchet
<1>4. CASE Stop \/ RetireWrite
  <2>1. UNCHANGED <<stop, long>> /\ tracked' = FALSE /\ extreme' = 0 /\ trail' = 0
    BY <1>4 DEF Stop, RetireWrite, Forget, brokerVars
  <2>2. ~tracked' /\ tracked' \in BOOLEAN
    BY <2>1
  <2> QED BY <2>1, <2>2 DEF Ratchet
<1>5. CASE AnswerOk
  <2>1. UNCHANGED <<stop, long, extreme, trail>> /\ (tracked' = FALSE \/ tracked' = tracked)
    BY <1>5 DEF AnswerOk, brokerVars, trailVars
  <2>2. tracked' \in BOOLEAN /\ (tracked' => tracked)
    <3>1. CASE tracked' = FALSE
      BY <3>1
    <3>2. CASE tracked' = tracked
      BY <3>2
    <3> QED BY <2>1, <3>1, <3>2
  <2>3. /\ InitialStop' = InitialStop /\ Dir' = Dir
        /\ Snap(Candidate(extreme))' = Snap(Candidate(extreme))
    BY <2>1 DEF InitialStop, Dir, Candidate, Snap
  <2> QED BY <2>1, <2>2, <2>3 DEF Ratchet
<1> QED BY <1>1, <1>2, <1>3, <1>4, <1>5 DEF Next, EngineStep

\* The invariant holds in every state of every behaviour.
LEMMA Trail == Spec => []TrailInv
  BY InitTrail, StepTrail, PTL DEF Spec

\* A moved stop keeps the locked profit up to half a pip, whatever the sequence
\* of bars, lost answers and refused amends.
THEOREM ProfitStaysLocked == Spec => []LockedProfitWithinHalfPip
<1>1. TrailInv => LockedProfitWithinHalfPip
  BY DEF TrailInv, Ratchet, LockedProfitWithinHalfPip
<1> QED BY <1>1, Trail, PTL

\* The amends only tighten the stop, provided that the initial stop is not nearer
\* to the entry than the half pip by which snapping may miss the locked profit:
\* the narrowest configured stop is several pips (sl_min_pips), but the loop
\* itself does not check it.
THEOREM StopRatchets ==
  ASSUME 2 * (SlDist + LockDist) >= Pip
  PROVE  Spec => StopNeverLoosens
<1> DEFINE Tightens == tracked /\ tracked' => Dir * (stop' - stop) >= 0
<1>1. TrailInv /\ [Next]_vars => [Tightens]_vars
  <2> SUFFICES ASSUME TrailInv, Next, tracked, tracked' PROVE Dir * (stop' - stop) >= 0
    OBVIOUS
  <2> USE DEF TrailInv, TrailTypes
  <2>1. Dir \in {1, -1} /\ {Entry, SlDist, LockDist, Pip} \subseteq Nat
    BY PositionConstants DEF Dir
  <2>2. CASE Manage
    <3>1. PICK x \in Int :
             /\ Dir * (x - extreme) >= 0
             /\ stop' = stop \/ stop' = Snap(Candidate(x))
      BY <2>2, ManageMoves
    <3>2. /\ Snap(Candidate(x)) \in Int /\ Snap(Candidate(extreme)) \in Int
          /\ 2 * Dir * (Snap(Candidate(x)) - Entry) >= 2 * LockDist - Pip
          /\ Dir * (Snap(Candidate(x)) - Snap(Candidate(extreme))) >= 0
      <4>1. Dir * (x - x) >= 0
        BY DEF Dir
      <4> QED BY <3>1, <4>1, CandidateSnaps
    <3>3. CASE stop' = stop
      BY <2>1, <3>3
    <3>4. CASE stop' = Snap(Candidate(x)) /\ stop = InitialStop
      BY <2>1, <3>2, <3>4 DEF InitialStop
    <3>5. CASE stop' = Snap(Candidate(x)) /\ stop # InitialStop
      BY <2>1, <3>2, <3>5 DEF Ratchet
    <3> QED BY <3>1, <3>3, <3>4, <3>5
  <2>3. CASE ~Manage
    <3>1. stop' = stop
      BY <2>3 DEF Next, EngineStep, Start, Stop, Enter, Ask, AnswerRefused, AnswerOk, WeekendClose,
                  RetireLoad, RetireWrite, SiblingRetires, BrokerCloses, Tick, Damage, brokerVars
    <3> QED BY <2>1, <3>1
  <2> QED BY <2>2, <2>3
<1>2. StopNeverLoosens <=> [][Tightens]_vars
  BY DEF StopNeverLoosens
<1> QED BY <1>1, <1>2, Trail, PTL DEF Spec
-----------------------------------------------------------------------------
(* The retirement: a written entry survives every later write of the file  *)
(* that loaded it after this one.                                          *)

GraveTypes ==
  /\ black \subseteq Strategies
  /\ list \in [Strategies -> SUBSET Strategies]
  /\ retired \in BOOLEAN /\ overlap \in BOOLEAN

\* A retired strategy is in the file, and in the list of a sibling that is about
\* to write it.
EntryKept ==
  retired /\ ~overlap =>
    readable /\ "mine" \in black /\ (sibling = "retiring" => "mine" \in list["other"])

GraveInv == GraveTypes /\ EntryKept

\* At first nothing is retired.
LEMMA InitGrave == Init => GraveInv
<1> SUFFICES ASSUME Init PROVE GraveInv
  OBVIOUS
<1>1. black = {} /\ list = [s \in Strategies |-> {}]
  BY DEF Init
<1>2. retired \in BOOLEAN /\ overlap \in BOOLEAN /\ ~retired
  BY DEF Init
<1> QED BY <1>1, <1>2 DEF GraveInv, GraveTypes, EntryKept

\* Every step keeps a written retirement.
LEMMA StepGrave == GraveInv /\ [Next]_vars => GraveInv'
<1> SUFFICES ASSUME GraveInv, [Next]_vars PROVE GraveInv'
  OBVIOUS
<1> USE DEF GraveInv, GraveTypes
<1>0. "mine" \in Strategies /\ "other" \in Strategies
  BY DEF Strategies
<1>1. CASE RetireLoad
  <2>1. /\ list' = [list EXCEPT !["mine"] = Loaded]
        /\ UNCHANGED <<black, readable, sibling, retired, overlap>>
    BY <1>1 DEF RetireLoad
  <2>2. Loaded \subseteq Strategies
    BY DEF Loaded
  <2>3. list' \in [Strategies -> SUBSET Strategies] /\ list'["other"] = list["other"]
    BY <1>0, <2>1, <2>2
  <2> QED BY <2>1, <2>3 DEF EntryKept
<1>2. CASE RetireWrite
  <2>1. /\ UNCHANGED sibling /\ list'["other"] = list["other"]
        /\ list' \in [Strategies -> SUBSET Strategies]
    BY <1>0, <1>2 DEF RetireWrite
  <2>2. CASE UNCHANGED <<black, readable, retired, overlap>>
    BY <2>1, <2>2 DEF EntryKept
  <2>3. CASE /\ black' = With(list["mine"], "mine") /\ readable' = TRUE
             /\ retired' = TRUE /\ overlap' = (overlap \/ sibling = "retiring")
    <3>1. black' \subseteq Strategies /\ "mine" \in black' /\ readable'
      BY <1>0, <2>3 DEF With
    <3>2. retired' \in BOOLEAN /\ overlap' \in BOOLEAN
      BY <2>3
    <3>3. sibling = "retiring" => overlap'
      BY <2>3
    <3> QED BY <2>1, <3>1, <3>2, <3>3 DEF EntryKept
  <2> QED BY <1>2, <2>2, <2>3 DEF RetireWrite
<1>3. CASE SiblingRetires
  <2>1. UNCHANGED <<retired, overlap>>
    BY <1>3 DEF SiblingRetires
  <2>2. CASE /\ sibling = "trading" /\ sibling' = "retiring"
             /\ list' = [list EXCEPT !["other"] = Loaded]
             /\ UNCHANGED <<black, readable>>
    <3>1. Loaded \subseteq Strategies /\ (readable => Loaded = black)
      BY DEF Loaded
    <3>2. list' \in [Strategies -> SUBSET Strategies] /\ list'["other"] = Loaded
      BY <1>0, <2>2, <3>1
    <3> QED BY <2>1, <2>2, <3>1, <3>2 DEF EntryKept
  <2>3. CASE /\ sibling = "retiring" /\ sibling' = "done"
             /\ black' = With(list["other"], "other") /\ readable' = TRUE
             /\ list' = [list EXCEPT !["other"] = {}]
    <3>1. black' \subseteq Strategies /\ list["other"] \subseteq black' /\ readable'
      BY <1>0, <2>3 DEF With
    <3>2. list' \in [Strategies -> SUBSET Strategies]
      BY <2>3
    <3> QED BY <2>1, <2>3, <3>1, <3>2 DEF EntryKept
  <2> QED BY <1>3, <2>2, <2>3 DEF SiblingRetires
<1>4. CASE Damage
  <2>1. overlap' /\ overlap' \in BOOLEAN /\ UNCHANGED <<black, list, retired>>
    BY <1>4 DEF Damage
  <2> QED BY <2>1 DEF EntryKept
<1>5. CASE Stop
  <2>1. /\ UNCHANGED <<black, readable, sibling, retired, overlap>>
        /\ list'["other"] = list["other"] /\ list' \in [Strategies -> SUBSET Strategies]
    BY <1>0, <1>5 DEF Stop
  <2> QED BY <2>1 DEF EntryKept
<1>6. CASE \/ Start \/ Enter \/ Ask \/ AnswerRefused \/ AnswerOk \/ WeekendClose
           \/ Manage \/ BrokerCloses \/ Tick \/ UNCHANGED vars
  <2>1. UNCHANGED <<black, readable, list, sibling, retired, overlap>>
    BY <1>6 DEF Start, Enter, Ask, AnswerRefused, AnswerOk, WeekendClose, Manage,
                BrokerCloses, Tick, vars, graveVars
  <2> QED BY <2>1 DEF EntryKept
<1> QED BY <1>1, <1>2, <1>3, <1>4, <1>5, <1>6 DEF Next, EngineStep

\* The invariant holds in every state of every behaviour.
LEMMA Grave == Spec => []GraveInv
  BY InitGrave, StepGrave, PTL DEF Spec

\* start_all refuses a strategy whose retirement was written, for ever, unless a
\* sibling's retirement overlapped with it or the file was damaged.
THEOREM RetirementIsFinal == Spec => RetiredStaysOut
<1> DEFINE Refused == pc = "down" /\ pc' = "idle" /\ retired => overlap
<1>1. GraveInv /\ [Next]_vars => [Refused]_vars
  <2> SUFFICES ASSUME GraveInv, Next, pc = "down", pc' = "idle", retired, ~overlap PROVE FALSE
    OBVIOUS
  <2>1. "mine" \in Loaded
    BY DEF GraveInv, EntryKept, Loaded
  <2>2. Start
    BY DEF Next, EngineStep, Stop, Enter, Ask, AnswerRefused, AnswerOk, WeekendClose, Manage,
           RetireLoad, RetireWrite, SiblingRetires, BrokerCloses, Tick, Damage
  <2> QED BY <2>1, <2>2 DEF Start
<1>2. RetiredStaysOut <=> [][Refused]_vars
  BY DEF RetiredStaysOut
<1> QED BY <1>1, <1>2, Grave, PTL DEF Spec
-----------------------------------------------------------------------------
(***************************************************************************)
(* The laws of Total that the proofs need.                                 *)
(***************************************************************************)

\* Finitely many bounded values have finitely many units.
LEMMA TotalType ==
  ASSUME NEW S, IsFiniteSet(S), NEW b \in Nat, NEW f \in [S -> 0..b]
  PROVE  IsFiniteSet(Units(f, b)) /\ Total(f, b) \in Nat
<1>1. IsFiniteSet(1..b)
  BY FS_Interval
<1>2. IsFiniteSet(S \X (1..b))
  BY <1>1, FS_Product
<1>3. Units(f, b) \in SUBSET (S \X (1..b))
  BY DEF Units
<1> QED BY <1>2, <1>3, FS_Subset, FS_CardinalityType DEF Total

\* The units of one value, beside those of the others.
LEMMA TotalColumn ==
  ASSUME NEW A, IsFiniteSet(A), NEW x, NEW n \in Nat, A \cap ({x} \X (1..n)) = {}
  PROVE  Cardinality(A \cup ({x} \X (1..n))) = Cardinality(A) + n /\ Cardinality(A) \in Nat
<1> DEFINE C == {x} \X (1..n)
<1>1. IsFiniteSet({x}) /\ Cardinality({x}) = 1
  BY FS_Singleton
<1>2. IsFiniteSet(1..n) /\ Cardinality(1..n) = n
  BY FS_Interval
<1>3. IsFiniteSet(C) /\ Cardinality(C) = Cardinality({x}) * Cardinality(1..n)
  BY <1>1, <1>2, FS_Product
<1>4. IsFiniteSet(C) /\ Cardinality(C) = n /\ A \cap C = {}
  BY <1>1, <1>2, <1>3
<1> HIDE DEF C
<1>5. Cardinality(A \cup C) = Cardinality(A) + Cardinality(C) - Cardinality(A \cap C)
  BY <1>4, FS_Union
<1>6. Cardinality(A) \in Nat /\ Cardinality(A \cap C) = 0
  BY <1>4, FS_CardinalityType, FS_EmptySet
<1>7. Cardinality(A \cup C) = Cardinality(A) + n
  BY <1>4, <1>5, <1>6
<1> QED BY <1>6, <1>7 DEF C

\* One more value adds its units.
LEMMA TotalExtend ==
  ASSUME NEW S, IsFiniteSet(S), NEW b \in Nat, NEW x, x \notin S,
         NEW f \in [S -> 0..b], NEW g \in [S \cup {x} -> 0..b],
         \A s \in S : g[s] = f[s]
  PROVE  Total(g, b) = Total(f, b) + g[x]
<1> DEFINE C == {x} \X (1..g[x])
<1>1. g[x] \in Nat /\ g[x] <= b
  OBVIOUS
<1>2. Units(g, b) = Units(f, b) \cup C /\ Units(f, b) \cap C = {}
  BY <1>1 DEF Units
<1>3. IsFiniteSet(Units(f, b))
  BY TotalType
<1>4. Cardinality(Units(f, b) \cup C) = Cardinality(Units(f, b)) + g[x]
  BY <1>1, <1>2, <1>3, TotalColumn
<1> QED BY <1>2, <1>4 DEF Total

\* No units, no total.
LEMMA TotalZero ==
  ASSUME NEW S, NEW b \in Nat, NEW f \in [S -> 0..b], \A s \in S : f[s] = 0
  PROVE  Total(f, b) = 0
<1>1. Units(f, b) = {}
  BY DEF Units
<1> QED BY <1>1, FS_EmptySet DEF Total

\* A part of positive values whose total is the whole's is the whole.
LEMMA TotalWhole ==
  ASSUME NEW S, IsFiniteSet(S), NEW b \in Nat, NEW f \in [S -> 1..b],
         NEW T \in SUBSET S, Total([t \in T |-> f[t]], b) = Total(f, b)
  PROVE  T = S
<1> DEFINE g == [t \in T |-> f[t]]
<1>1. Units(g, b) \in SUBSET Units(f, b)
  BY DEF Units
<1>2. IsFiniteSet(Units(f, b))
  <2>1. f \in [S -> 0..b]
    OBVIOUS
  <2> QED BY <2>1, TotalType
<1>3. Units(f, b) = Units(g, b)
  BY <1>1, <1>2, FS_Subset DEF Total
<1> SUFFICES ASSUME NEW s \in S PROVE s \in T
  OBVIOUS
<1>4. <<s, 1>> \in Units(f, b)
  BY DEF Units
<1>5. <<s, 1>> \in Units(g, b)
  BY <1>3, <1>4
<1> QED BY <1>5 DEF Units

-----------------------------------------------------------------------------
(* The booking: the volumes of the fills and what is left add up to the    *)
(* entry's, so fills of the entry's whole volume are all the fills.        *)

FillTypes ==
  left \in 0..Volume /\ fills \in Seq(Fill) /\ tracked \in BOOLEAN

\* What the reconcile knows refers to fills of the position tracked now.
ObservedFills ==
  /\ seen \subseteq DOMAIN fills /\ ask.deals \subseteq DOMAIN fills
  /\ ~tracked => seen = {}
  /\ pc = "asked" => tracked
  /\ pc # "asked" => ask.deals = {}

VolumeKept == tracked => left + Closed(DOMAIN fills) = Volume

BookInv == FillTypes /\ ObservedFills /\ VolumeKept /\ BooksExactMoney

\* The volumes of a set of fills, as the function Closed sums.
LEMMA VolumesOf ==
  ASSUME FillTypes, NEW S \in SUBSET DOMAIN fills
  PROVE  /\ Volume \in Nat \ {0} /\ IsFiniteSet(DOMAIN fills)
         /\ [i \in S |-> fills[i].vol] \in [S -> 1..Volume]
         /\ [i \in S |-> fills[i].vol] \in [S -> 0..Volume]
         /\ Closed(S) \in Nat
<1>1. Volume \in Nat \ {0}
  BY PositionConstants
<1>2. Len(fills) \in Nat /\ DOMAIN fills = 1..Len(fills)
  BY DEF FillTypes
<1>3. IsFiniteSet(DOMAIN fills) /\ IsFiniteSet(S)
  <2>1. IsFiniteSet(1..Len(fills))
    BY <1>2, FS_Interval
  <2> QED BY <1>2, <2>1, FS_Subset
<1>4. \A i \in S : fills[i] \in Fill
  BY DEF FillTypes
<1>5. \A i \in S : fills[i].vol \in 1..Volume /\ fills[i].vol \in 0..Volume
  BY <1>1, <1>4 DEF Fill
<1>6. [i \in S |-> fills[i].vol] \in [S -> 0..Volume]
  BY <1>5
<1>7. Closed(S) \in Nat
  BY <1>1, <1>3, <1>6, TotalType DEF Closed
<1> QED BY <1>1, <1>3, <1>5, <1>6, <1>7

\* A closing fill moves its units from the open volume to the closed one.
LEMMA FillAdds ==
  ASSUME FillTypes, NEW v \in 1..left, NEW m \in {-1, 1}, NEW k \in BOOLEAN, Fills(v, m, k)
  PROVE  /\ left' \in 0..Volume /\ fills' \in Seq(Fill) /\ DOMAIN fills \subseteq DOMAIN fills'
         /\ left' + Closed(DOMAIN fills)' = left + Closed(DOMAIN fills)
<1> DEFINE n == Len(fills)
           e == [vol |-> v, money |-> m, ok |-> k, age |-> 0]
           f == [i \in DOMAIN fills |-> fills[i].vol]
           g == [i \in DOMAIN fills' |-> fills'[i].vol]
<1>1. Volume \in Nat \ {0} /\ Lookback \in Nat /\ left \in 0..Volume /\ fills \in Seq(Fill)
  BY PositionConstants DEF FillTypes
<1>2. e \in Fill
  BY <1>1 DEF Fill
<1>3. left' = left - v /\ fills' = Append(fills, e)
  BY DEF Fills
<1> HIDE DEF e
<1>4. /\ fills' \in Seq(Fill) /\ n \in Nat /\ DOMAIN fills = 1..n /\ DOMAIN fills' = 1..(n + 1)
      /\ \A i \in 1..n : fills'[i] = fills[i]
      /\ fills'[n + 1] = e
  BY <1>1, <1>2, <1>3
<1>5. left' \in 0..Volume /\ DOMAIN fills \subseteq DOMAIN fills'
  BY <1>1, <1>3, <1>4
<1>6. f \in [1..n -> 0..Volume] /\ IsFiniteSet(1..n) /\ Closed(DOMAIN fills) \in Nat
  BY <1>4, VolumesOf
<1>7. \A i \in 1..(n + 1) : fills'[i] \in Fill
  BY <1>4
<1>8. \A i \in 1..(n + 1) : fills'[i].vol \in 0..Volume
  BY <1>1, <1>7 DEF Fill
<1>9. 1..(n + 1) = (1..n) \cup {n + 1} /\ n + 1 \notin 1..n
  BY <1>4
<1>10. g \in [(1..n) \cup {n + 1} -> 0..Volume] /\ (\A i \in 1..n : g[i] = f[i])
  BY <1>4, <1>8, <1>9
<1>11. g[n + 1] = v
  BY <1>4 DEF e
<1> HIDE DEF f, g, n
<1>12. Total(g, Volume) = Total(f, Volume) + v
  <2> DEFINE D == 1..n
             x == n + 1
  <2>1. /\ Volume \in Nat /\ IsFiniteSet(D) /\ x \notin D
        /\ f \in [D -> 0..Volume] /\ g \in [D \cup {x} -> 0..Volume]
        /\ \A i \in D : g[i] = f[i]
    BY <1>1, <1>6, <1>9, <1>10
  <2> HIDE DEF D, x
  <2>2. Total(g, Volume) = Total(f, Volume) + g[x]
    BY <2>1, TotalExtend
  <2> QED BY <1>11, <2>2 DEF x
<1>13. Closed(DOMAIN fills) = Total(f, Volume) /\ Closed(DOMAIN fills)' = Total(g, Volume)
  BY DEF Closed, f, g
<1> QED BY <1>1, <1>3, <1>4, <1>5, <1>6, <1>12, <1>13

\* At first nothing is closed and nothing observed.
LEMMA InitBook == Init => BookInv
<1> SUFFICES ASSUME Init PROVE BookInv
  OBVIOUS
<1>1. /\ left = 0 /\ fills = <<>> /\ pc = "down" /\ ask.deals = {} /\ seen = {}
      /\ net = NotBooked
  BY DEF Init, NoAsk
<1>2. tracked \in BOOLEAN /\ ~tracked
  BY DEF Init
<1>3. fills \in Seq(Fill) /\ 0 \in 0..Volume
  BY <1>1, PositionConstants
<1> QED BY <1>1, <1>2, <1>3 DEF BookInv, FillTypes, ObservedFills, VolumeKept, BooksExactMoney

\* A step that leaves the fills and the booked money alone.
LEMMA BookUntouched ==
  ASSUME BookInv, UNCHANGED <<left, fills, tracked, net>>,
         seen' \subseteq DOMAIN fills, tracked \/ seen' = seen,
         ask'.deals \subseteq DOMAIN fills,
         pc' = "asked" => tracked, pc' # "asked" => ask'.deals = {}
  PROVE  BookInv'
<1>1. Closed(DOMAIN fills)' = Closed(DOMAIN fills) /\ Money(DOMAIN fills)' = Money(DOMAIN fills)
  BY DEF Closed, Money
<1> QED BY <1>1 DEF BookInv, FillTypes, ObservedFills, VolumeKept, BooksExactMoney

\* A step in which the position fills, or may fill, and the engine does not look.
LEMMA BookFills ==
  ASSUME BookInv, UNCHANGED <<tracked, net, seen, ask>>,
         pc' = pc \/ {pc, pc'} \cap {"asked"} = {},
         \/ UNCHANGED <<left, fills>>
         \/ left > 0 /\ \E v \in 1..left, m \in {-1, 1}, k \in BOOLEAN : Fills(v, m, k)
  PROVE  BookInv'
<1>1. CASE UNCHANGED <<left, fills>>
  <2>1. /\ seen' \subseteq DOMAIN fills /\ seen' = seen /\ ask'.deals \subseteq DOMAIN fills
        /\ pc' = "asked" => tracked
        /\ pc' # "asked" => ask'.deals = {}
    BY DEF BookInv, ObservedFills
  <2> QED BY <1>1, <2>1, BookUntouched
<1>2. CASE left > 0 /\ \E v \in 1..left, m \in {-1, 1}, k \in BOOLEAN : Fills(v, m, k)
  <2>1. /\ left' \in 0..Volume /\ fills' \in Seq(Fill) /\ DOMAIN fills \subseteq DOMAIN fills'
        /\ left' + Closed(DOMAIN fills)' = left + Closed(DOMAIN fills)
    BY <1>2, FillAdds DEF BookInv
  <2>2. net' = NotBooked
    <3>1. left # 0
      BY <1>2 DEF BookInv, FillTypes
    <3>2. net = NotBooked
      BY <3>1 DEF BookInv, BooksExactMoney
    <3> QED BY <3>2
  <2>3. NotBooked' = NotBooked
    BY DEF NotBooked
  <2>4. FillTypes' /\ VolumeKept' /\ BooksExactMoney'
    BY <2>1, <2>2, <2>3 DEF BookInv, FillTypes, VolumeKept, BooksExactMoney
  <2>5. ObservedFills'
    BY <2>1 DEF BookInv, ObservedFills
  <2> QED BY <2>4, <2>5 DEF BookInv
<1> QED BY <1>1, <1>2

\* The answer books exactly when the fills observed are all the fills.
LEMMA BookAnswer ==
  ASSUME BookInv, AnswerOk
  PROVE  BookInv'
<1> DEFINE now == seen \cup (ask.deals \ Malformed)
<1>1. /\ pc = "asked" /\ tracked /\ now \subseteq DOMAIN fills /\ pc' # "asked"
      /\ ask'.deals = {} /\ UNCHANGED <<left, fills>>
  BY DEF AnswerOk, BookInv, ObservedFills, NoAsk, brokerVars
<1>2. CASE tracked' = tracked /\ net' = net /\ seen' = now
  BY <1>1, <1>2, BookUntouched
<1>3. CASE /\ left = 0 /\ Complete(now)
           /\ tracked' = FALSE /\ seen' = {} /\ net' = Money(now)
  <2>1. FillTypes /\ left + Closed(DOMAIN fills) = Volume
    BY <1>1 DEF BookInv, VolumeKept
  <2> DEFINE f == [i \in DOMAIN fills |-> fills[i].vol]
  <2>2. /\ Volume \in Nat /\ IsFiniteSet(DOMAIN fills) /\ f \in [DOMAIN fills -> 1..Volume]
        /\ Closed(DOMAIN fills) \in Nat
    BY <2>1, VolumesOf
  <2>3. Closed(now) = Closed(DOMAIN fills)
    BY <1>3, <2>1, <2>2 DEF Complete
  <2>4. [i \in now |-> f[i]] = [i \in now |-> fills[i].vol]
    BY <1>1
  <2>5. Total([i \in now |-> f[i]], Volume) = Total(f, Volume)
    BY <2>3, <2>4 DEF Closed
  <2> HIDE DEF now, f
  <2>6. now = DOMAIN fills
    BY <1>1, <2>2, <2>5, TotalWhole
  <2>7. Money(DOMAIN fills)' = Money(DOMAIN fills)
    BY <1>1 DEF Money
  <2>8. tracked' \in BOOLEAN /\ ~tracked'
    BY <1>3
  <2>9. FillTypes' /\ VolumeKept' /\ ObservedFills'
    BY <1>1, <1>3, <2>1, <2>8 DEF FillTypes, VolumeKept, ObservedFills
  <2>10. BooksExactMoney'
    BY <1>1, <1>3, <2>6, <2>7, <2>8 DEF BooksExactMoney
  <2> QED BY <2>9, <2>10 DEF BookInv
<1> QED BY <1>2, <1>3 DEF AnswerOk

\* Every step keeps the account of the volume.
LEMMA StepBook == BookInv /\ [Next]_vars => BookInv'
<1> SUFFICES ASSUME BookInv, [Next]_vars PROVE BookInv'
  OBVIOUS
<1> USE DEF BookInv
<1>1. CASE Start \/ Manage \/ RetireLoad \/ SiblingRetires \/ Damage \/ UNCHANGED vars
  <2>1. /\ UNCHANGED <<left, fills, tracked, net, seen, ask>>
        /\ pc' = pc \/ {pc, pc'} \cap {"asked"} = {}
    BY <1>1 DEF Start, Manage, RetireLoad, SiblingRetires, Damage, vars, brokerVars, moneyVars
  <2> QED BY <2>1, BookFills
<1>2. CASE WeekendClose \/ BrokerCloses
  <2>1. /\ UNCHANGED <<tracked, net, seen, ask>>
        /\ pc' = pc \/ {pc, pc'} \cap {"asked"} = {}
    BY <1>2 DEF WeekendClose, BrokerCloses, moneyVars
  <2>2. \/ UNCHANGED <<left, fills>>
        \/ left > 0 /\ \E v \in 1..left, m \in {-1, 1}, k \in BOOLEAN : Fills(v, m, k)
    <3>1. CASE WeekendClose
      <4>1. CASE left > 0 /\ \E m \in {-1, 1} : Fills(left, m, TRUE)
        <5>1. left \in 1..left
          BY <4>1 DEF FillTypes
        <5> QED BY <4>1, <5>1
      <4> QED BY <3>1, <4>1 DEF WeekendClose
    <3> QED BY <1>2, <3>1 DEF BrokerCloses
  <2> QED BY <2>1, <2>2, BookFills
<1>3. CASE Stop \/ RetireWrite
  <2>1. /\ UNCHANGED <<left, fills, net>> /\ tracked' = FALSE /\ seen' = {} /\ ask' = NoAsk
        /\ pc' = "down"
    BY <1>3 DEF Stop, RetireWrite, Forget, brokerVars
  <2>2. tracked' \in BOOLEAN /\ ~tracked' /\ ask'.deals = {}
    BY <2>1 DEF NoAsk
  <2>3. Money(DOMAIN fills)' = Money(DOMAIN fills)
    BY <2>1 DEF Money
  <2> QED BY <2>1, <2>2, <2>3 DEF FillTypes, ObservedFills, VolumeKept, BooksExactMoney
<1>4. CASE Enter
  <2>1. /\ pc = "idle" /\ ~tracked /\ left' = Volume /\ fills' = <<>> /\ tracked' = TRUE
        /\ net' = NotBooked /\ UNCHANGED <<pc, ask, seen>>
    BY <1>4 DEF Enter
  <2>2. FillTypes' /\ Volume \in Nat
    <3>1. Volume \in 0..Volume /\ Volume \in Nat
      BY PositionConstants
    <3>2. tracked' \in BOOLEAN
      BY <2>1
    <3> QED BY <2>1, <3>1, <3>2 DEF FillTypes
  <2>3. seen = {} /\ ask.deals = {}
    BY <2>1 DEF ObservedFills
  <2>4. ObservedFills' /\ BooksExactMoney'
    BY <2>1, <2>3 DEF ObservedFills, BooksExactMoney, NotBooked
  <2>5. VolumeKept'
    <3> DEFINE f == [i \in DOMAIN fills' |-> fills'[i].vol]
    <3>1. DOMAIN fills' = {}
      BY <2>1
    <3>2. f \in [DOMAIN fills' -> 0..Volume] /\ \A i \in DOMAIN fills' : f[i] = 0
      BY <3>1
    <3>3. Total(f, Volume) = 0
      BY <2>2, <3>2, TotalZero
    <3> QED BY <2>1, <2>2, <3>3 DEF VolumeKept, Closed
  <2> QED BY <2>2, <2>4, <2>5
<1>5. CASE Ask
  <2>1. /\ tracked /\ pc' = "asked" /\ UNCHANGED <<left, fills, tracked, net, seen>>
        /\ ask'.deals \subseteq DOMAIN fills
    BY <1>5 DEF Ask, brokerVars
  <2> QED BY <2>1, BookUntouched DEF ObservedFills
<1>6. CASE AnswerRefused
  <2>1. /\ UNCHANGED <<left, fills, tracked, net, seen>> /\ pc' # "asked" /\ ask'.deals = {}
    BY <1>6 DEF AnswerRefused, brokerVars, NoAsk
  <2> QED BY <2>1, BookUntouched DEF ObservedFills
<1>7. CASE Tick
  <2>1. /\ UNCHANGED <<left, tracked, pc, net, seen, ask>> /\ tracked
        /\ fills' = [i \in DOMAIN fills |->
                       [fills[i] EXCEPT !.age = IF @ <= Lookback THEN @ + 1 ELSE @]]
    BY <1>7 DEF Tick, moneyVars
  <2>2. Len(fills) \in Nat /\ DOMAIN fills = 1..Len(fills)
    BY DEF FillTypes
  <2>3. Lookback \in Nat
    BY PositionConstants
  <2>4. ASSUME NEW i \in DOMAIN fills
        PROVE  fills'[i] \in Fill /\ fills'[i].vol = fills[i].vol
    <3>1. fills[i] \in Fill
      BY DEF FillTypes
    <3>2. fills'[i] = [fills[i] EXCEPT !.age = IF @ <= Lookback THEN @ + 1 ELSE @]
      BY <2>1
    <3>3. ASSUME NEW q \in Fill
          PROVE  LET r == [q EXCEPT !.age = IF @ <= Lookback THEN @ + 1 ELSE @]
                 IN  r \in Fill /\ r.vol = q.vol
      BY <2>3 DEF Fill
    <3> QED BY <3>1, <3>2, <3>3
  <2>5. fills' \in Seq(Fill) /\ DOMAIN fills' = DOMAIN fills
    BY <2>1, <2>2, <2>4
  <2>6. Closed(DOMAIN fills)' = Closed(DOMAIN fills)
    BY <2>4, <2>5 DEF Closed
  <2>7. net' = NotBooked'
    BY <2>1 DEF BooksExactMoney, NotBooked
  <2> QED BY <2>1, <2>5, <2>6, <2>7 DEF FillTypes, ObservedFills, VolumeKept, BooksExactMoney
<1>8. CASE AnswerOk
  BY <1>8, BookAnswer
<1> QED BY <1>1, <1>2, <1>3, <1>4, <1>5, <1>6, <1>7, <1>8 DEF Next, EngineStep

\* The invariant holds in every state of every behaviour.
LEMMA Book == Spec => []BookInv
  BY InitBook, StepBook, PTL DEF Spec

\* finalize_if_position_closed books the sum of all closing fills and nothing
\* else, for every way the fills arrive, are listed again, missed or refused.
THEOREM MoneyIsExact == Spec => []BooksExactMoney
<1>1. BookInv => BooksExactMoney
  BY DEF BookInv
<1> QED BY <1>1, Book, PTL
=============================================================================
