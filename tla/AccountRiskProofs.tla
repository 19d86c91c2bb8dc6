-------------------------- MODULE AccountRiskProofs --------------------------
(***************************************************************************)
(* DayAnchorTruthful, DailyLossStopsEntries, LatchedRefusalIsFinal and     *)
(* CheckpointNeverForgives of AccountRisk, for every number of engines,    *)
(* every policy (limits, target, length of the month) and every bound.     *)
(*                                                                         *)
(* The anchor is truthful because a balance can only change with a deal or *)
(* a cash flow of the day (BalanceKept), so that clean evidence vouches    *)
(* for the snapshot taken before it (SnapshotTruthful).  The latches are   *)
(* final because the file holds what was reported (FinalKept, MonthKept)   *)
(* and the memory is never behind the file (MemoryAhead).  The arithmetic  *)
(* of the limits is not opened: the proofs hold for any limit rule.        *)
(***************************************************************************)
EXTENDS AccountRisk, TLAPS

\* An engine past its start-up's acquire works with a loaded authority, and a
\* period it holds is a day that has begun.
Prepared(w) ==
  /\ pc[w] = "snapped" => starting[w] = TRUE
  /\ pc[w] \notin {"down", "snapped"} => loaded
  /\ pc[w] \in {"sampled", "observed", "asking", "ready", "prepared", "admitted"} =>
       period[w] # 0

\* Without a deal or a cash flow since day d began, the balance is what it was.
BalanceKept == \A d \in 1..today : activity < d => balance = startOf[d]

\* A snapshot shows the balance at the start of the engine's day as long as there
\* was no activity since, and for good once the evidence is clean.
SnapshotTruthful(w) ==
  /\ pc[w] \in {"snapped", "acquired"} /\ activity < today => snap[w].balance = balance
  /\ pc[w] \in {"observed", "asking"} /\ activity < period[w] =>
       snap[w].balance = startOf[period[w]]
  /\ pc[w] = "ready" /\ evidence[w] = "clean" => snap[w].balance = startOf[period[w]]

\* DailyLossStopsEntries for one engine.
EntryWithinDailyLoss(w) ==
  pc[w] = "admitted" => ~DailyLossReached(startOf[period[w]], snap[w].equity)

EngineOK(w) ==
  Prepared(w) /\ (~crossed => SnapshotTruthful(w) /\ EntryWithinDailyLoss(w))

\* No day is prepared before it begins.
DaysPassed == mgr.day <= today /\ disk.mgr.day <= today /\ told.month <= Month(today)

\* The authority in memory is never behind the checkpoint.
MemoryAhead ==
  loaded /\ disk.present =>
    /\ mgr.challenge = disk.mgr.challenge
    /\ mgr.peak >= disk.mgr.peak
    /\ disk.mgr.breaker => mgr.breaker

\* The latches that end an account, and the one that ends its month.
Final(m) == m.breaker \/ (m.challenge /\ m.target)
MonthDone(m) == m.target /\ m.day # 0 /\ Month(m.day) = Month(today)

\* A reported final refusal is latched in the file and in memory ...
FinalKept ==
  told.final => disk.present /\ Final(disk.mgr) /\ (loaded => Final(mgr))

\* ... and so is one for the current month, unless an old day was prepared.
MonthKept ==
  ~rewound /\ told.month = Month(today) =>
    disk.present /\ MonthDone(disk.mgr) /\ (loaded => MonthDone(mgr))

\* What is said of the authority and the file.
AuthorityOK == DaysPassed /\ MemoryAhead /\ FinalKept /\ MonthKept /\ DayAnchorTruthful

RiskInv ==
  TypeOK /\ BalanceKept /\ AuthorityOK /\ \A w \in Engines : EngineOK(w)

\* TypeOK, in the parts that the steps change together.
BrokerTypes ==
  /\ today \in Days
  /\ balance \in Amounts /\ equity \in Amounts
  /\ pos \in {"flat", "open", "closed"}
  /\ owner \in Engines \cup {NoEngine}
  /\ activity \in 0..today
  /\ deals \in 0..MaxDeals
  /\ startOf \in [Days -> Amounts]

AuthorityTypes ==
  /\ challenge \in BOOLEAN
  /\ disk \in [present : BOOLEAN, mgr : Manager]
  /\ loaded \in BOOLEAN
  /\ mgr \in Manager
  /\ upsets \in 0..MaxUpsets

EngineTypes ==
  /\ pc \in [Engines -> {"down", "snapped", "acquired", "idle", "sampled", "observed",
                         "asking", "ready", "prepared", "admitted"}]
  /\ starting \in [Engines -> BOOLEAN]
  /\ period \in [Engines -> 0..today]
  /\ snap \in [Engines -> Snapshot]
  /\ evidence \in [Engines -> {"none", "clean", "dirty"}]

HistoryTypes ==
  /\ told \in [final : BOOLEAN, month : 0..Month(MaxDay)]
  /\ crossed \in BOOLEAN /\ rewound \in BOOLEAN

\* The parts together.
LEMMA TypeParts == TypeOK <=> BrokerTypes /\ AuthorityTypes /\ EngineTypes /\ HistoryTypes
  BY DEF TypeOK, BrokerTypes, AuthorityTypes, EngineTypes, HistoryTypes

\* The same after a step.
LEMMA TypePartsNext ==
  BrokerTypes' /\ AuthorityTypes' /\ EngineTypes' /\ HistoryTypes' => TypeOK'
  BY DEF TypeOK, BrokerTypes, AuthorityTypes, EngineTypes, HistoryTypes

\* Months are numbered in the order of the days.
LEMMA MonthMonotone ==
  ASSUME NEW d \in Nat, NEW e \in Nat, d <= e
  PROVE  Month(d) \in Nat /\ Month(e) \in Nat /\ Month(d) <= Month(e)
  BY RiskConstants DEF Month

\* The peak after an equity update.
LEMMA OnEquityUpdateEffect ==
  ASSUME NEW m \in Manager, NEW s \in Snapshot
  PROVE  LET u == OnEquityUpdate(m, s)
         IN  /\ u \in Manager
             /\ u.challenge = m.challenge /\ u.day = m.day /\ u.dayStart = m.dayStart
             /\ u.monthStart = m.monthStart /\ u.breaker = m.breaker /\ u.target = m.target
             /\ u.peak >= m.peak
  BY RiskConstants DEF OnEquityUpdate, Manager, Snapshot

\* What check_trade_allowed leaves behind.
LEMMA JudgedEffect ==
  ASSUME NEW m \in Manager, NEW s \in Snapshot, NEW v
  PROVE  LET j == Judged(m, s, v)
         IN  /\ j \in Manager
             /\ j.challenge = m.challenge /\ j.day = m.day /\ j.dayStart = m.dayStart
             /\ j.peak = m.peak
             /\ m.breaker \/ v = "breaker" => j.breaker
             /\ m.target \/ TargetHit(m, s) => j.target
<1>1. TargetHit(m, s) \in BOOLEAN
  BY DEF TargetHit
<1> DEFINE j == Judged(m, s, v)
<1>2. (m.breaker \/ v = "breaker") \in BOOLEAN
  OBVIOUS
<1>3. j = [m EXCEPT !.target = TargetHit(m, s), !.breaker = m.breaker \/ v = "breaker"]
  BY DEF Judged, Manager
<1> HIDE DEF j
<1>4. /\ j.challenge = m.challenge /\ j.day = m.day /\ j.dayStart = m.dayStart
      /\ j.peak = m.peak /\ j.monthStart = m.monthStart
  BY <1>3 DEF Manager
<1>5. j.target = TargetHit(m, s)
  BY <1>3 DEF Manager
<1>6. j.breaker = (m.breaker \/ v = "breaker")
  BY <1>3 DEF Manager
<1>7. j \in Manager
  BY <1>1, <1>2, <1>3 DEF Manager
<1>8. m.breaker \/ v = "breaker" => j.breaker
  BY <1>6
<1>9. m.target \/ TargetHit(m, s) => j.target
  BY <1>5 DEF TargetHit
<1> QED BY <1>4, <1>7, <1>8, <1>9 DEF j

\* What roll_periods leaves behind.
LEMMA RollEffect ==
  ASSUME NEW m \in Manager, NEW s \in Snapshot, NEW d \in Days
  PROVE  LET r == RollPeriods(m, d, s)
         IN  /\ r \in Manager
             /\ r.challenge = m.challenge /\ r.day = d
             /\ r.dayStart = IF m.day # d THEN s.balance ELSE m.dayStart
             /\ r.peak >= m.peak
             /\ m.breaker => r.breaker
             /\ m.target /\ (m.challenge \/ (m.day # 0 /\ Month(m.day) = Month(d))) => r.target
<1> DEFINE newMonth == m.day = 0 \/ Month(m.day) # Month(d)
           t == IF newMonth THEN m.challenge /\ m.target ELSE m.target
           r0 == [m EXCEPT !.day = d,
                           !.dayStart = IF m.day # d THEN s.balance ELSE m.dayStart,
                           !.monthStart = IF newMonth THEN s.balance ELSE m.monthStart,
                           !.target = t]
<1>1. RollPeriods(m, d, s) = OnEquityUpdate(r0, s)
  BY DEF RollPeriods, Manager
<1>2. t \in BOOLEAN
  BY DEF Manager
<1>3. m.target /\ (m.challenge \/ (m.day # 0 /\ Month(m.day) = Month(d))) => t
  OBVIOUS
<1>4. /\ (IF m.day # d THEN s.balance ELSE m.dayStart) \in Amounts
      /\ (IF newMonth THEN s.balance ELSE m.monthStart) \in Amounts
      /\ d \in 0..MaxDay
  BY DEF Manager, Snapshot, Days
<1> HIDE DEF newMonth, t
<1>5. /\ r0.challenge = m.challenge /\ r0.day = d /\ r0.peak = m.peak /\ r0.breaker = m.breaker
      /\ r0.dayStart = IF m.day # d THEN s.balance ELSE m.dayStart
      /\ r0.target = t
  BY DEF Manager
<1>6. r0 \in Manager
  BY <1>2, <1>4 DEF Manager
<1> HIDE DEF r0
<1> QED BY <1>1, <1>3, <1>5, <1>6, OnEquityUpdateEffect

\* Peaks and days are numbers, and a checkpoint is a manager with a file.
LEMMA ManagerNumbers ==
  /\ \A m \in Manager : m.peak \in Int /\ m.day \in Nat
  /\ \A m \in Manager : [present |-> TRUE, mgr |-> m] \in [present : BOOLEAN, mgr : Manager]
  /\ \A f \in [present : BOOLEAN, mgr : Manager] : f.mgr \in Manager
<1>1. ASSUME NEW m \in Manager PROVE m.peak \in Int /\ m.day \in Nat
  <2>1. m.peak \in Amounts /\ m.day \in 0..MaxDay
    BY DEF Manager
  <2>2. m.peak \in Nat
    BY <2>1, RiskConstants, Zenon
  <2>3. m.day \in Nat
    BY <2>1, RiskConstants
  <2> QED BY <2>2, <2>3
<1>2. ASSUME NEW m \in Manager
      PROVE  [present |-> TRUE, mgr |-> m] \in [present : BOOLEAN, mgr : Manager]
  <2>1. TRUE \in BOOLEAN
    OBVIOUS
  <2> QED BY <2>1
<1> QED BY <1>1, <1>2

\* A manager anchored on a snapshot, and the snapshot nobody took.
LEMMA FreshManager ==
  /\ \A c \in BOOLEAN, s \in Snapshot :
       FromSettings(c, s) \in Manager /\ FromSettings(c, s).day = 0
  /\ NoSnapshot \in Snapshot
  /\ NoFile \in [present : BOOLEAN, mgr : Manager] /\ ~NoFile.present /\ NoFile.mgr.day = 0
<1>1. ASSUME NEW c \in BOOLEAN, NEW s \in Snapshot
      PROVE  FromSettings(c, s) \in Manager /\ FromSettings(c, s).day = 0
  <2>1. /\ s.balance \in Amounts /\ FALSE \in BOOLEAN /\ 0 \in 0..MaxDay
        /\ (IF s.equity > Initial THEN s.equity ELSE Initial) \in Amounts
    BY RiskConstants DEF Snapshot
  <2> QED BY <2>1 DEF FromSettings, Manager
<1>2. NoSnapshot \in Snapshot
  BY RiskConstants DEF NoSnapshot, Snapshot
<1>3. NoFile \in [present : BOOLEAN, mgr : Manager] /\ ~NoFile.present /\ NoFile.mgr.day = 0
  BY <1>1, <1>2 DEF NoFile
<1> QED BY <1>1, <1>2, <1>3

\* The account is opened flat, with no file and no authority.
LEMMA InitRisk == Init => RiskInv
<1> SUFFICES ASSUME Init PROVE RiskInv
  OBVIOUS
<1> USE RiskConstants
<1>1. BrokerTypes
  BY DEF Init, BrokerTypes, Days
<1>2. AuthorityTypes
  <2>1. disk \in [present : BOOLEAN, mgr : Manager] /\ mgr \in Manager
    BY FreshManager DEF Init
  <2>2. loaded \in BOOLEAN /\ challenge \in BOOLEAN
    BY DEF Init
  <2> QED BY <2>1, <2>2 DEF Init, AuthorityTypes
<1>3. EngineTypes
  BY FreshManager DEF Init, EngineTypes, Days
<1>4. HistoryTypes
  <2>1. Month(MaxDay) \in Nat
    BY MonthMonotone
  <2>2. told \in [final : BOOLEAN, month : 0..Month(MaxDay)]
    BY <2>1 DEF Init
  <2>3. crossed \in BOOLEAN /\ rewound \in BOOLEAN
    BY DEF Init
  <2> QED BY <2>2, <2>3 DEF HistoryTypes
<1>5. BalanceKept
  BY DEF Init, BalanceKept, Days
<1>6. AuthorityOK
  <2>1. Month(today) \in Nat /\ Month(today) > 0
    BY DEF Init, Month
  <2>2. /\ told.final = FALSE /\ told.month = 0 /\ loaded = FALSE /\ ~disk.present
        /\ mgr.day = 0 /\ disk.mgr.day = 0 /\ today = 1
    BY FreshManager DEF Init
  <2> QED BY <2>1, <2>2 DEF AuthorityOK, DaysPassed, MemoryAhead, FinalKept, MonthKept,
                            DayAnchorTruthful
<1>7. \A w \in Engines : EngineOK(w)
  BY DEF Init, EngineOK, Prepared, SnapshotTruthful, EntryWithinDailyLoss
<1> QED BY <1>1, <1>2, <1>3, <1>4, <1>5, <1>6, <1>7, TypeParts DEF RiskInv

\* A step of engine w that keeps the day: what is left to show is about w.  A
\* deal or a cash flow of today says nothing new about the other engines, for
\* none of them can be waiting for evidence that would now be clean.
LEMMA EngineLocal ==
  ASSUME RiskInv, NEW w \in Engines,
         \A u \in Engines \ {w} : /\ pc'[u] = pc[u] /\ period'[u] = period[u]
                                  /\ snap'[u] = snap[u] /\ evidence'[u] = evidence[u] /\ starting'[u] = starting[u],
         UNCHANGED <<today, startOf, crossed>>, loaded => loaded',
         UNCHANGED <<balance, activity>> \/ activity' = today,
         EngineOK(w)'
  PROVE  \A u \in Engines : EngineOK(u)'
<1> SUFFICES ASSUME NEW u \in Engines, u # w PROVE EngineOK(u)'
  OBVIOUS
<1>1. EngineOK(u)
  BY DEF RiskInv
<1>2. today \in Nat /\ period[u] \in Nat /\ period[u] <= today
  BY RiskConstants, TypeParts DEF RiskInv, BrokerTypes, EngineTypes, Days
<1>3. Prepared(u)' /\ (~crossed => EntryWithinDailyLoss(u)')
  BY <1>1 DEF EngineOK, Prepared, EntryWithinDailyLoss
<1>4. ~crossed => SnapshotTruthful(u)'
  BY <1>1, <1>2 DEF EngineOK, SnapshotTruthful
<1> QED BY <1>3, <1>4 DEF EngineOK

\* The same for a step that moves no engine.
LEMMA EnginesStand ==
  ASSUME RiskInv, UNCHANGED <<engineVars, today, startOf, crossed, loaded>>,
         UNCHANGED <<balance, activity>> \/ activity' = today
  PROVE  \A u \in Engines : EngineOK(u)'
<1> SUFFICES ASSUME NEW u \in Engines PROVE EngineOK(u)'
  OBVIOUS
<1>1. EngineOK(u)
  BY DEF RiskInv
<1>2. today \in Nat /\ period[u] \in Nat /\ period[u] <= today
  BY RiskConstants, TypeParts DEF RiskInv, BrokerTypes, EngineTypes, Days
<1>3. Prepared(u)' /\ (~crossed => EntryWithinDailyLoss(u)')
  BY <1>1 DEF EngineOK, Prepared, EntryWithinDailyLoss, engineVars
<1>4. ~crossed => SnapshotTruthful(u)'
  BY <1>1, <1>2 DEF EngineOK, SnapshotTruthful, engineVars
<1> QED BY <1>3, <1>4 DEF EngineOK

\* A step that leaves the authority, the file and the history alone.
LEMMA AuthorityStands ==
  ASSUME RiskInv, UNCHANGED <<today, disk, loaded, mgr, startOf, history>>
  PROVE  AuthorityOK'
  BY DEF RiskInv, AuthorityOK, DaysPassed, MemoryAhead, FinalKept, MonthKept, Final, MonthDone,
         DayAnchorTruthful, history

\* The balance only changes with activity of today.
LEMMA BalanceStands ==
  ASSUME RiskInv, UNCHANGED <<today, startOf>>,
         UNCHANGED <<balance, activity>> \/ activity' = today
  PROVE  BalanceKept'
<1>1. today \in Nat
  BY RiskConstants, TypeParts DEF RiskInv, BrokerTypes, Days
<1> QED BY <1>1 DEF RiskInv, BalanceKept

\* Leaving a bar or a start-up forgets its locals.
LEMMA LeaveEffect ==
  ASSUME RiskInv, NEW w \in Engines, NEW to \in {"down", "idle"}, Leave(w, to), today' = today
  PROVE  /\ EngineTypes' /\ pc'[w] = to
         /\ \A u \in Engines \ {w} : /\ pc'[u] = pc[u] /\ period'[u] = period[u]
                                     /\ snap'[u] = snap[u] /\ evidence'[u] = evidence[u] /\ starting'[u] = starting[u]
<1>1. /\ EngineTypes /\ NoSnapshot \in Snapshot /\ 0 \in 0..today
  BY RiskConstants, TypeParts, FreshManager DEF RiskInv, BrokerTypes, Days
<1>2. starting' \in [Engines -> BOOLEAN]
  BY <1>1 DEF Leave, EngineTypes
<1>3. EngineTypes'
  BY <1>1, <1>2 DEF Leave, EngineTypes
<1> QED BY <1>1, <1>3 DEF Leave, EngineTypes

\* An engine that is down, or idle with a loaded authority, holds nothing.
LEMMA AtRest ==
  ASSUME NEW w \in Engines, pc'[w] = "down" \/ (pc'[w] = "idle" /\ loaded')
  PROVE  EngineOK(w)'
  BY DEF EngineOK, Prepared, SnapshotTruthful, EntryWithinDailyLoss

\* The steps between two locks: they change one engine, and at most the
\* position it tracks.
LEMMA LocalSteps ==
  ASSUME RiskInv, NEW w \in Engines,
         \/ StartSnapshot(w) \/ StartPeriod(w) \/ Stop(w) \/ SamplePeriod(w)
         \/ ObserveAccount(w) \/ CheckPeriod(w) \/ FetchEvidence(w) \/ Abandon(w)
  PROVE  RiskInv'
<1> USE RiskConstants
<1>0. /\ BrokerTypes /\ AuthorityTypes /\ EngineTypes /\ HistoryTypes
      /\ BalanceKept /\ EngineOK(w)
  BY TypeParts DEF RiskInv
<1>1. UNCHANGED <<today, balance, equity, activity, deals, challenge, authVars, startOf, history>>
  BY DEF StartSnapshot, StartPeriod, Stop, SamplePeriod, ObserveAccount, CheckPeriod,
         FetchEvidence, Abandon, brokerVars
<1>2. BalanceKept' /\ AuthorityOK'
  BY <1>1, BalanceStands, AuthorityStands DEF authVars
<1>3. BrokerTypes'
  BY <1>0, <1>1 DEF StartSnapshot, StartPeriod, Stop, SamplePeriod, ObserveAccount, CheckPeriod,
                    FetchEvidence, Abandon, brokerVars, BrokerTypes
<1>4. AuthorityTypes' /\ HistoryTypes'
  BY <1>0, <1>1 DEF AuthorityTypes, HistoryTypes, authVars, history
<1>5. /\ Observed \in Snapshot /\ Observed.balance = balance
      /\ today \in Nat /\ today > 0 /\ activity \in Nat
      /\ today \in 0..today /\ today \in 1..today
      /\ period[w] \in Nat /\ period[w] <= today
  BY <1>0 DEF Observed, Snapshot, BrokerTypes, EngineTypes, Days
<1>6. \A d \in 1..today : activity < d => balance = startOf[d]
  BY <1>0 DEF BalanceKept
<1>7. /\ EngineTypes' /\ EngineOK(w)'
      /\ \A u \in Engines \ {w} : /\ pc'[u] = pc[u] /\ period'[u] = period[u]
                                  /\ snap'[u] = snap[u] /\ evidence'[u] = evidence[u] /\ starting'[u] = starting[u]
  <2>1. CASE StartSnapshot(w)
    <3>1. /\ pc[w] = "down" /\ pc' = [pc EXCEPT ![w] = "snapped"]
          /\ starting' = [starting EXCEPT ![w] = TRUE] /\ snap' = [snap EXCEPT ![w] = Observed]
          /\ UNCHANGED <<period, evidence>>
      BY <2>1 DEF StartSnapshot, Goto
    <3>2. starting' \in [Engines -> BOOLEAN]
      BY <1>0, <3>1 DEF EngineTypes
    <3>3. EngineTypes'
      BY <1>0, <1>1, <1>5, <3>1, <3>2 DEF EngineTypes
    <3>4. pc'[w] = "snapped" /\ snap'[w].balance = balance /\ starting'[w] = TRUE
      BY <1>0, <1>5, <3>1 DEF EngineTypes
    <3>5. EngineOK(w)'
      BY <1>1, <3>4 DEF EngineOK, Prepared, SnapshotTruthful, EntryWithinDailyLoss
    <3> QED BY <1>0, <3>1, <3>3, <3>5 DEF EngineTypes
  <2>2. CASE StartPeriod(w) \/ SamplePeriod(w)
    <3>1. PICK to \in {"observed", "sampled"} :
            /\ pc' = [pc EXCEPT ![w] = to] /\ period' = [period EXCEPT ![w] = today]
            /\ pc[w] = IF to = "observed" THEN "acquired" ELSE "idle"
            /\ UNCHANGED <<starting, snap, evidence>>
      BY <2>2 DEF StartPeriod, SamplePeriod, Goto
    <3>2. EngineTypes'
      BY <1>0, <1>1, <1>5, <3>1 DEF EngineTypes
    <3>3. pc'[w] = to /\ period'[w] = today
      BY <1>0, <3>1 DEF EngineTypes
    <3>4. Prepared(w)'
      BY <1>0, <1>1, <1>5, <3>1, <3>3 DEF EngineOK, Prepared, authVars
    <3>5. ~crossed => SnapshotTruthful(w)' /\ EntryWithinDailyLoss(w)'
      BY <1>0, <1>1, <1>5, <1>6, <3>1, <3>3 DEF EngineOK, SnapshotTruthful, EntryWithinDailyLoss
    <3> QED BY <1>0, <1>1, <3>1, <3>2, <3>4, <3>5 DEF EngineTypes, EngineOK, history
  <2>3. CASE Stop(w)
    <3>1. pc' = [pc EXCEPT ![w] = "down"] /\ UNCHANGED <<starting, period, snap, evidence>>
      BY <2>3 DEF Stop, Goto
    <3>2. EngineTypes' /\ pc'[w] = "down"
      BY <1>0, <1>1, <3>1 DEF EngineTypes
    <3> QED BY <1>0, <3>1, <3>2, AtRest DEF EngineTypes
  <2>4. CASE ObserveAccount(w)
    <3>1. /\ pc[w] = "sampled" /\ pc' = [pc EXCEPT ![w] = "observed"]
          /\ snap' = [snap EXCEPT ![w] = Observed]
          /\ UNCHANGED <<starting, period, evidence>>
      BY <2>4 DEF ObserveAccount, Goto
    <3>2. EngineTypes'
      BY <1>0, <1>1, <1>5, <3>1 DEF EngineTypes
    <3>3. pc'[w] = "observed" /\ snap'[w].balance = balance
      BY <1>0, <1>5, <3>1 DEF EngineTypes
    <3>4. period[w] # 0 /\ loaded
      BY <1>0, <3>1 DEF EngineOK, Prepared
    <3>5. Prepared(w)'
      BY <1>1, <3>1, <3>3, <3>4 DEF Prepared, authVars
    <3>6. SnapshotTruthful(w)' /\ EntryWithinDailyLoss(w)'
      BY <1>1, <1>5, <1>6, <3>1, <3>3, <3>4 DEF SnapshotTruthful, EntryWithinDailyLoss
    <3> QED BY <1>0, <3>1, <3>2, <3>5, <3>6 DEF EngineTypes, EngineOK
  <2>5. CASE CheckPeriod(w)
    <3>1. PICK to \in {"asking", "ready"} :
            /\ pc[w] = "observed" /\ pc' = [pc EXCEPT ![w] = to]
            /\ evidence' = [evidence EXCEPT ![w] = "none"]
            /\ UNCHANGED <<starting, period, snap>>
      BY <2>5 DEF CheckPeriod, Goto
    <3>2. EngineTypes'
      BY <1>0, <1>1, <3>1 DEF EngineTypes
    <3>3. pc'[w] = to /\ evidence'[w] = "none"
      BY <1>0, <3>1 DEF EngineTypes
    <3>4. EngineOK(w)'
      BY <1>0, <1>1, <3>1, <3>3
      DEF EngineOK, Prepared, SnapshotTruthful, EntryWithinDailyLoss, authVars, history
    <3> QED BY <1>0, <3>1, <3>2, <3>4 DEF EngineTypes
  <2>6. CASE FetchEvidence(w)
    <3>1. /\ pc[w] = "asking" /\ pc' = [pc EXCEPT ![w] = "ready"]
          /\ evidence' = [evidence EXCEPT ![w] = IF activity < period[w] THEN "clean" ELSE "dirty"]
          /\ UNCHANGED <<starting, period, snap>>
      BY <2>6 DEF FetchEvidence, Goto
    <3>2. EngineTypes'
      BY <1>0, <1>1, <3>1 DEF EngineTypes
    <3>3. pc'[w] = "ready" /\ (evidence'[w] = "clean" => activity < period[w])
      BY <1>0, <3>1 DEF EngineTypes
    <3>4. EngineOK(w)'
      BY <1>0, <1>1, <3>1, <3>3
      DEF EngineOK, Prepared, SnapshotTruthful, EntryWithinDailyLoss, authVars, history
    <3> QED BY <1>0, <3>1, <3>2, <3>4 DEF EngineTypes
  <2>7. CASE Abandon(w)
    <3>1. PICK to \in {"down", "idle"} : Leave(w, to) /\ (to = "idle" => loaded')
      <4>1. pc[w] # "down" /\ Leave(w, IF starting[w] THEN "down" ELSE "idle")
        BY <2>7 DEF Abandon
      <4>2. CASE starting[w] = TRUE
        BY <4>1, <4>2
      <4>3. CASE starting[w] = FALSE
        BY <1>0, <1>1, <4>1, <4>3 DEF EngineOK, Prepared, authVars
      <4> QED BY <1>0, <4>2, <4>3 DEF EngineTypes
    <3>2. /\ EngineTypes' /\ pc'[w] = to
          /\ \A u \in Engines \ {w} : /\ pc'[u] = pc[u] /\ period'[u] = period[u]
                                      /\ snap'[u] = snap[u] /\ evidence'[u] = evidence[u] /\ starting'[u] = starting[u]
      BY <1>1, <3>1, LeaveEffect
    <3> QED BY <3>1, <3>2, AtRest
  <2> QED BY <2>1, <2>2, <2>3, <2>4, <2>5, <2>6, <2>7
<1>8. \A u \in Engines : EngineOK(u)'
  BY <1>1, <1>7, EngineLocal DEF history, authVars
<1> QED BY <1>2, <1>3, <1>4, <1>7, <1>8, TypePartsNext DEF RiskInv

\* What a commit of a manager m keeps, when m has lost no latch, carries a
\* truthful anchor, and whatever the engine is told has reached the file.
LEMMA CommitKeeps ==
  ASSUME RiskInv, loaded, NEW m \in Manager, NEW ok \in BOOLEAN, Commit(m, ok),
         UNCHANGED <<today, startOf, challenge, loaded, crossed>>,
         m.challenge = mgr.challenge, m.peak >= mgr.peak, mgr.breaker => m.breaker,
         Final(mgr) => Final(m), m.day <= today,
         ~crossed /\ m.day # 0 => m.dayStart = startOf[m.day],
         told'.month <= Month(today), rewound => rewound',
         told'.final => told.final \/ (ok /\ Final(m)),
         ~rewound' /\ told'.month = Month(today) =>
           \/ told.month = Month(today) /\ (MonthDone(mgr) => MonthDone(m))
           \/ ok /\ MonthDone(m)
  PROVE  AuthorityTypes' /\ AuthorityOK'
<1> USE RiskConstants
<1>0. AuthorityTypes /\ AuthorityOK
  BY TypeParts DEF RiskInv
<1>1. mgr.peak \in Int /\ disk.mgr.peak \in Int /\ m.peak \in Int /\ disk.mgr \in Manager
  BY <1>0, ManagerNumbers DEF AuthorityTypes
<1>2. mgr' = m /\ (disk' = [present |-> TRUE, mgr |-> m] \/ (ok = FALSE /\ disk' = disk))
  BY DEF Commit
<1>3. AuthorityTypes'
  <2>1. disk' \in [present : BOOLEAN, mgr : Manager]
    BY <1>0, <1>2, ManagerNumbers DEF AuthorityTypes
  <2>2. upsets' \in 0..MaxUpsets
    BY <1>0 DEF Commit, Upset, AuthorityTypes
  <2> QED BY <1>0, <1>2, <2>1, <2>2 DEF AuthorityTypes
<1>4. /\ disk' = disk \/ (disk'.present /\ disk'.mgr = m)
      /\ ok => disk'.present /\ disk'.mgr = m
  BY <1>2
<1>5. DaysPassed'
  BY <1>0, <1>2, <1>4 DEF AuthorityOK, DaysPassed, Month
<1>6. MemoryAhead'
  <2>1. CASE disk'.present /\ disk'.mgr = m
    BY <1>1, <1>2, <2>1 DEF MemoryAhead
  <2>2. CASE disk' = disk
    BY <1>0, <1>1, <1>2, <2>2 DEF AuthorityOK, MemoryAhead
  <2> QED BY <1>4, <2>1, <2>2
<1>7. FinalKept'
  BY <1>0, <1>2, <1>4 DEF AuthorityOK, FinalKept, Final
<1>8. MonthKept'
  <2> SUFFICES ASSUME ~rewound', told'.month = Month(today)
               PROVE  disk'.present /\ MonthDone(disk'.mgr) /\ MonthDone(m)
    BY <1>2 DEF MonthKept, MonthDone, Month
  <2>1. CASE ok /\ MonthDone(m)
    BY <1>4, <2>1
  <2>2. CASE told.month = Month(today) /\ (MonthDone(mgr) => MonthDone(m))
    <3>1. disk.present /\ MonthDone(disk.mgr) /\ MonthDone(m)
      BY <1>0, <2>2 DEF AuthorityOK, MonthKept
    <3> QED BY <1>4, <3>1
  <2> QED BY <2>1, <2>2
<1>9. DayAnchorTruthful'
  BY <1>0, <1>2, <1>4 DEF AuthorityOK, DayAnchorTruthful
<1> QED BY <1>3, <1>5, <1>6, <1>7, <1>8, <1>9 DEF AuthorityOK

\* acquire hands out the live authority, the checkpoint or a fresh manager.
LEMMA StartAcquireKeeps ==
  ASSUME RiskInv, NEW w \in Engines, StartAcquire(w)
  PROVE  RiskInv'
<1> USE RiskConstants
<1>0. /\ BrokerTypes /\ AuthorityTypes /\ EngineTypes /\ HistoryTypes
      /\ AuthorityOK /\ EngineOK(w)
  BY TypeParts DEF RiskInv
<1>1. /\ pc[w] = "snapped"
      /\ UNCHANGED <<today, brokerVars, challenge, startOf, history, disk, upsets>>
  BY DEF StartAcquire, Acquire
<1>2. snap[w] \in Snapshot /\ disk.mgr \in Manager
  BY <1>0 DEF EngineTypes, AuthorityTypes
<1>3. BalanceKept' /\ BrokerTypes' /\ HistoryTypes'
  BY <1>0, <1>1, BalanceStands DEF brokerVars, BrokerTypes, HistoryTypes, history
<1>4. CASE UNCHANGED <<loaded, mgr>>
  <2>1. AuthorityTypes' /\ AuthorityOK'
    BY <1>0, <1>1, <1>4, AuthorityStands DEF AuthorityTypes
  <2>2. CASE Leave(w, "down")
    <3>1. EngineTypes' /\ \A u \in Engines : EngineOK(u)'
      BY <1>1, <1>4, <2>2, LeaveEffect, AtRest, EngineLocal DEF brokerVars, history
    <3> QED BY <1>3, <2>1, <3>1, TypePartsNext DEF RiskInv
  <2>3. CASE /\ loaded' /\ pc' = [pc EXCEPT ![w] = "acquired"]
             /\ UNCHANGED <<starting, period, snap, evidence>>
    <3>1. EngineTypes' /\ pc'[w] = "acquired"
      BY <1>0, <1>1, <2>3 DEF EngineTypes
    <3>2. EngineOK(w)'
      BY <1>0, <1>1, <2>3, <3>1
      DEF EngineOK, Prepared, SnapshotTruthful, EntryWithinDailyLoss, brokerVars, history
    <3>3. \A u \in Engines : EngineOK(u)'
      BY <1>0, <1>1, <1>4, <2>3, <3>2, EngineLocal DEF EngineTypes, brokerVars, history
    <3> QED BY <1>3, <2>1, <3>1, <3>3, TypePartsNext DEF RiskInv
  <2> QED BY <1>0, <2>2, <2>3 DEF StartAcquire, Acquire, Goto, AuthorityTypes
<1>5. CASE ~UNCHANGED <<loaded, mgr>>
  <2>1. /\ ~loaded /\ loaded' = TRUE
        /\ mgr' = IF disk.present THEN disk.mgr ELSE FromSettings(challenge, snap[w])
        /\ pc' = [pc EXCEPT ![w] = "acquired"]
        /\ UNCHANGED <<starting, period, snap, evidence>>
    BY <1>0, <1>5 DEF StartAcquire, Acquire, Goto, AuthorityTypes
  <2>2. mgr' \in Manager /\ (~disk.present => mgr'.day = 0)
    BY <1>0, <1>2, <2>1, FreshManager DEF AuthorityTypes
  <2>3. AuthorityTypes'
    BY <1>0, <1>1, <2>1, <2>2 DEF AuthorityTypes
  <2>4. today \in Nat /\ disk.mgr.peak \in Int
    BY <1>0, <1>2, ManagerNumbers DEF BrokerTypes, Days
  <2>5. DaysPassed' /\ MemoryAhead'
    BY <1>0, <1>1, <2>1, <2>2, <2>4 DEF AuthorityOK, DaysPassed, MemoryAhead, Month, history
  <2>6. FinalKept' /\ MonthKept'
    BY <1>0, <1>1, <2>1 DEF AuthorityOK, FinalKept, MonthKept, Final, MonthDone, Month, history
  <2>7. DayAnchorTruthful'
    BY <1>0, <1>1, <2>1, <2>2 DEF AuthorityOK, DayAnchorTruthful, history
  <2>8. EngineTypes' /\ pc'[w] = "acquired"
    BY <1>0, <1>1, <2>1 DEF EngineTypes
  <2>9. EngineOK(w)'
    BY <1>0, <1>1, <2>1, <2>8
    DEF EngineOK, Prepared, SnapshotTruthful, EntryWithinDailyLoss, brokerVars, history
  <2>10. \A u \in Engines : EngineOK(u)'
    BY <1>0, <1>1, <2>1, <2>9, EngineLocal DEF EngineTypes, brokerVars, history
  <2> QED BY <1>3, <2>3, <2>5, <2>6, <2>7, <2>8, <2>10, TypePartsNext DEF RiskInv, AuthorityOK
<1> QED BY <1>4, <1>5

\* The second lock: the period is rolled on proof, or the bar ends.
LEMMA PreparePeriodKeeps ==
  ASSUME RiskInv, NEW w \in Engines, PreparePeriod(w)
  PROVE  RiskInv'
<1> USE RiskConstants
<1>0. /\ BrokerTypes /\ AuthorityTypes /\ EngineTypes /\ HistoryTypes
      /\ AuthorityOK /\ EngineOK(w)
  BY TypeParts DEF RiskInv
<1>1. /\ pc[w] = "ready"
      /\ rewound' = (rewound \/ (AnchorProven(w) /\ period[w] < mgr.day))
      /\ UNCHANGED <<today, brokerVars, challenge, loaded, startOf, told, crossed>>
  BY DEF PreparePeriod
<1>2. /\ loaded /\ period[w] \in Days /\ period[w] <= today /\ today \in Nat
      /\ mgr \in Manager /\ mgr.day \in Nat /\ snap[w] \in Snapshot
  BY <1>0, <1>1, ManagerNumbers
  DEF EngineOK, Prepared, EngineTypes, AuthorityTypes, BrokerTypes, Days
<1>3. BalanceKept' /\ BrokerTypes'
  BY <1>0, <1>1, BalanceStands DEF brokerVars, BrokerTypes
<1>4. HistoryTypes'
  <2>1. rewound' \in BOOLEAN
    BY <1>1
  <2> QED BY <1>0, <1>1, <2>1 DEF HistoryTypes
<1>5. /\ EngineTypes' /\ EngineOK(w)'
      /\ \A u \in Engines \ {w} : /\ pc'[u] = pc[u] /\ period'[u] = period[u]
                                  /\ snap'[u] = snap[u] /\ evidence'[u] = evidence[u] /\ starting'[u] = starting[u]
  <2>1. CASE \E to \in {"down", "idle"} : Leave(w, to)
    BY <1>1, <1>2, <2>1, LeaveEffect, AtRest
  <2>2. CASE pc' = [pc EXCEPT ![w] = "prepared"] /\ UNCHANGED <<starting, period, snap, evidence>>
    <3>1. EngineTypes' /\ pc'[w] = "prepared"
      BY <1>0, <1>1, <2>2 DEF EngineTypes
    <3>2. EngineOK(w)'
      BY <1>1, <1>2, <2>2, <3>1
      DEF EngineOK, Prepared, SnapshotTruthful, EntryWithinDailyLoss, Days
    <3> QED BY <1>0, <2>2, <3>1, <3>2 DEF EngineTypes
  <2> QED BY <2>1, <2>2 DEF PreparePeriod, Goto
<1>6. \A u \in Engines : EngineOK(u)'
  BY <1>1, <1>5, EngineLocal DEF brokerVars
<1>7. AuthorityTypes' /\ AuthorityOK'
  <2>1. CASE ~AnchorProven(w) /\ UNCHANGED <<mgr, disk, upsets>>
    <3>1. rewound' = rewound
      BY <1>0, <1>1, <2>1 DEF HistoryTypes
    <3> QED BY <1>0, <1>1, <2>1, <3>1, AuthorityStands DEF AuthorityTypes, history
  <2>2. ASSUME NEW ok \in BOOLEAN, AnchorProven(w),
               Commit(RollPeriods(mgr, period[w], snap[w]), ok)
        PROVE  AuthorityTypes' /\ AuthorityOK'
    <3> DEFINE r == RollPeriods(mgr, period[w], snap[w])
    <3>1. /\ r \in Manager /\ r.challenge = mgr.challenge /\ r.day = period[w]
          /\ r.dayStart = IF mgr.day # period[w] THEN snap[w].balance ELSE mgr.dayStart
          /\ r.peak >= mgr.peak
          /\ mgr.breaker => r.breaker
          /\ mgr.target /\ (mgr.challenge \/ (mgr.day # 0 /\ Month(mgr.day) = Month(period[w])))
               => r.target
      BY <1>2, RollEffect
    <3>2. Commit(r, ok)
      BY <2>2
    <3> HIDE DEF r
    <3>3. Final(mgr) => Final(r)
      BY <3>1 DEF Final
    <3>4. ~crossed /\ r.day # 0 => r.dayStart = startOf[r.day]
      <4>1. CASE mgr.day = period[w]
        BY <1>0, <1>2, <3>1, <4>1 DEF AuthorityOK, DayAnchorTruthful
      <4>2. CASE mgr.day # period[w]
        <5>1. evidence[w] = "clean"
          BY <2>2, <4>2 DEF AnchorProven, NeedsPeriod
        <5> QED BY <1>0, <1>1, <3>1, <4>2, <5>1 DEF EngineOK, SnapshotTruthful
      <4> QED BY <4>1, <4>2
    <3>5. ~rewound' => ~rewound /\ (MonthDone(mgr) => MonthDone(r))
      <4> SUFFICES ASSUME ~rewound', MonthDone(mgr) PROVE MonthDone(r)
        BY <1>1
      <4>0. ~(period[w] < mgr.day)
        BY <1>1, <2>2, Zenon
      <4>1. mgr.day <= period[w]
        BY <1>2, <4>0 DEF Days
      <4>2. Month(mgr.day) <= Month(period[w]) /\ Month(period[w]) <= Month(today)
        BY <1>2, <4>1, MonthMonotone DEF Days
      <4>3. Month(mgr.day) = Month(today) /\ mgr.day # 0 /\ mgr.target
        BY DEF MonthDone
      <4>4. Month(mgr.day) \in Nat /\ Month(period[w]) \in Nat
        BY <1>2, <4>1, MonthMonotone DEF Days
      <4>5. Month(period[w]) = Month(mgr.day)
        BY <4>2, <4>3, <4>4
      <4> QED BY <1>2, <3>1, <4>3, <4>5 DEF MonthDone, Days
    <3>6. told.month <= Month(today)
      BY <1>0 DEF AuthorityOK, DaysPassed
    <3> QED BY <1>1, <1>2, <3>1, <3>2, <3>3, <3>4, <3>5, <3>6, CommitKeeps
  <2> QED BY <2>1, <2>2 DEF PreparePeriod
<1> QED BY <1>3, <1>4, <1>5, <1>6, <1>7, TypePartsNext DEF RiskInv

\* A verdict of ok means that no latch was set and the daily loss was within
\* its limit.
LEMMA VerdictOk ==
  ASSUME NEW m \in Manager, NEW s, NEW revenge, NEW other, Verdict(m, s, revenge, other) = "ok"
  PROVE  ~m.breaker /\ ~m.target /\ ~DailyLossReached(m.dayStart, s.equity)
<1>1. ~TargetHit(m, s) /\ ~m.breaker /\ ~DailyLossReached(m.dayStart, s.equity)
  BY DEF Verdict
<1> QED BY <1>1 DEF TargetHit

\* A verdict of target or breaker says why.
LEMMA VerdictTarget ==
  ASSUME NEW m, NEW s, NEW revenge, NEW other, Verdict(m, s, revenge, other) = "target"
  PROVE  TargetHit(m, s)
  BY DEF Verdict

\* What an engine is told is of the right kind, and new only for a breaker, a
\* target of the challenge, or the target of the engine's month.
LEMMA ReportEffect ==
  ASSUME HistoryTypes, NEW m, NEW v, NEW d \in Days, Report(m, v, d)
  PROVE  /\ told' \in [final : BOOLEAN, month : 0..Month(MaxDay)]
         /\ told'.final => told.final \/ v = "breaker" \/ (v = "target" /\ m.challenge)
         /\ told'.month \in {0, told.month} \/ (v = "target" /\ told'.month = Month(d))
<1> USE RiskConstants
<1>1. Month(d) \in 0..Month(MaxDay) /\ Month(MaxDay) \in Nat
  BY MonthMonotone DEF Days
<1>2. CASE v = "breaker" \/ (v = "target" /\ m.challenge)
  <2>1. told' = [final |-> TRUE, month |-> 0]
    BY <1>2 DEF Report
  <2>2. told' \in [final : BOOLEAN, month : 0..Month(MaxDay)]
    BY <1>1, <2>1
  <2> QED BY <1>2, <2>1, <2>2
<1>3. CASE ~(v = "breaker" \/ (v = "target" /\ m.challenge)) /\ v = "target" /\ ~told.final
  <2>1. told' = [told EXCEPT !.month = Month(d)]
    BY <1>3 DEF Report
  <2>2. told' \in [final : BOOLEAN, month : 0..Month(MaxDay)]
    BY <1>1, <2>1 DEF HistoryTypes
  <2>3. told'.final = told.final /\ told'.month = Month(d)
    BY <2>1 DEF HistoryTypes
  <2> QED BY <1>3, <2>2, <2>3
<1>4. CASE UNCHANGED told
  BY <1>4 DEF HistoryTypes
<1> QED BY <1>2, <1>3, <1>4 DEF Report

\* The gate: the latches it sets are in the file before the engine hears of
\* them, and it admits only within the daily loss of the real anchor.
LEMMA GateKeeps ==
  ASSUME RiskInv, NEW w \in Engines, GateAndSize(w)
  PROVE  RiskInv'
<1> USE RiskConstants
<1>0. /\ BrokerTypes /\ AuthorityTypes /\ EngineTypes /\ HistoryTypes
      /\ AuthorityOK /\ EngineOK(w)
  BY TypeParts DEF RiskInv
<1>1. /\ pc[w] = "prepared"
      /\ UNCHANGED <<today, brokerVars, challenge, loaded, startOf, crossed, rewound>>
  BY DEF GateAndSize
<1>2. /\ loaded /\ period[w] \in Days /\ period[w] <= today /\ today \in Nat
      /\ mgr \in Manager /\ mgr.day \in Nat /\ snap[w] \in Snapshot
  BY <1>0, <1>1, ManagerNumbers
  DEF EngineOK, Prepared, EngineTypes, AuthorityTypes, BrokerTypes, Days
<1>3. BalanceKept' /\ BrokerTypes'
  BY <1>0, <1>1, BalanceStands DEF brokerVars, BrokerTypes
<1>4. CASE UNCHANGED <<mgr, disk, upsets, told>> /\ Leave(w, "idle")
  <2>1. EngineTypes' /\ \A u \in Engines : EngineOK(u)'
    BY <1>1, <1>2, <1>4, LeaveEffect, AtRest, EngineLocal DEF brokerVars
  <2>2. AuthorityTypes' /\ AuthorityOK' /\ HistoryTypes'
    BY <1>0, <1>1, <1>4, AuthorityStands DEF AuthorityTypes, HistoryTypes, history
  <2> QED BY <1>3, <2>1, <2>2, TypePartsNext DEF RiskInv
<1>5. ASSUME mgr.day = period[w], NEW ok \in BOOLEAN, NEW other \in BOOLEAN, NEW revenge \in BOOLEAN,
             LET seen == OnEquityUpdate(mgr, snap[w])
                 v == Verdict(seen, snap[w], revenge, other)
             IN  /\ Commit(Judged(seen, snap[w], v), ok)
                 /\ IF ok THEN Report(mgr, v, period[w]) ELSE UNCHANGED told
                 /\ IF ok /\ v = "ok"
                    THEN /\ Goto(w, "prepared", "admitted")
                         /\ UNCHANGED <<starting, period, snap, evidence>>
                    ELSE Leave(w, "idle")
      PROVE  RiskInv'
  <2> DEFINE seen == OnEquityUpdate(mgr, snap[w])
             v == Verdict(seen, snap[w], revenge, other)
             j == Judged(seen, snap[w], v)
  <2>1. /\ seen \in Manager
        /\ seen.challenge = mgr.challenge /\ seen.day = mgr.day /\ seen.dayStart = mgr.dayStart
        /\ seen.breaker = mgr.breaker /\ seen.target = mgr.target /\ seen.peak >= mgr.peak
    BY <1>2, OnEquityUpdateEffect
  <2>2. v = "ok" => ~DailyLossReached(seen.dayStart, snap[w].equity)
    BY <2>1, VerdictOk
  <2>3. v = "target" => TargetHit(seen, snap[w])
    BY VerdictTarget
  <2>4. /\ Commit(j, ok) /\ (ok => Report(mgr, v, period[w])) /\ (~ok => UNCHANGED told)
        /\ \/ /\ v = "ok" /\ pc' = [pc EXCEPT ![w] = "admitted"]
              /\ UNCHANGED <<starting, period, snap, evidence>>
           \/ Leave(w, "idle")
    BY <1>5 DEF Goto
  <2> HIDE DEF seen, v
  <2>5. /\ j \in Manager /\ j.challenge = seen.challenge /\ j.day = seen.day
        /\ j.dayStart = seen.dayStart /\ j.peak = seen.peak
        /\ seen.breaker \/ v = "breaker" => j.breaker
        /\ seen.target \/ TargetHit(seen, snap[w]) => j.target
    BY <1>2, <2>1, JudgedEffect
  <2> HIDE DEF j
  <2>6. /\ told' \in [final : BOOLEAN, month : 0..Month(MaxDay)]
        /\ told'.final => told.final \/ (ok /\ (v = "breaker" \/ (v = "target" /\ mgr.challenge)))
        /\ \/ told'.month \in {0, told.month}
           \/ ok /\ v = "target" /\ told'.month = Month(period[w])
    BY <1>0, <1>2, <2>4, ReportEffect DEF HistoryTypes
  <2>7. HistoryTypes'
    BY <1>0, <1>1, <2>6 DEF HistoryTypes
  <2>8. AuthorityTypes' /\ AuthorityOK'
    <3>1. Final(mgr) => Final(j)
      BY <2>1, <2>5 DEF Final
    <3>2. MonthDone(mgr) => MonthDone(j)
      BY <2>1, <2>5 DEF MonthDone
    <3>3. ~crossed /\ j.day # 0 => j.dayStart = startOf[j.day]
      BY <1>0, <1>2, <2>1, <2>5 DEF AuthorityOK, DayAnchorTruthful
    <3>4. told'.final => told.final \/ (ok /\ Final(j))
      BY <2>1, <2>3, <2>5, <2>6 DEF Final
    <3>5. Month(today) \in Nat /\ Month(today) > 0 /\ Month(period[w]) <= Month(today)
      <4>1. Month(period[w]) <= Month(today) /\ Month(today) \in Nat
        BY <1>2, MonthMonotone DEF Days
      <4>2. Month(today) > 0
        BY <1>2 DEF Month
      <4> QED BY <4>1, <4>2
    <3>6. told'.month <= Month(today)
      BY <1>0, <2>6, <3>5 DEF AuthorityOK, DaysPassed
    <3>7. told'.month = Month(today) =>
            told.month = Month(today) \/ (ok /\ MonthDone(j))
      BY <1>2, <1>5, <2>1, <2>3, <2>5, <2>6, <3>5 DEF MonthDone, Days
    <3>8. /\ j.peak >= mgr.peak /\ j.day <= today /\ j.challenge = mgr.challenge
          /\ mgr.breaker => j.breaker
      BY <1>2, <1>5, <2>1, <2>5
    <3> QED BY <1>1, <1>2, <2>4, <2>5, <3>1, <3>2, <3>3, <3>4, <3>6, <3>7, <3>8, CommitKeeps
  <2>9. EngineTypes' /\ \A u \in Engines : EngineOK(u)'
    <3>1. CASE Leave(w, "idle")
      BY <1>1, <1>2, <3>1, LeaveEffect, AtRest, EngineLocal DEF brokerVars
    <3>2. CASE /\ v = "ok" /\ pc' = [pc EXCEPT ![w] = "admitted"]
               /\ UNCHANGED <<starting, period, snap, evidence>>
      <4>1. EngineTypes' /\ pc'[w] = "admitted"
        BY <1>0, <1>1, <3>2 DEF EngineTypes
      <4>2. ~crossed => EntryWithinDailyLoss(w)'
        BY <1>0, <1>1, <1>2, <1>5, <2>1, <2>2, <3>2
        DEF AuthorityOK, DayAnchorTruthful, EntryWithinDailyLoss, Days
      <4>3. Prepared(w)' /\ SnapshotTruthful(w)'
        BY <1>1, <1>2, <3>2, <4>1 DEF Prepared, SnapshotTruthful, Days
      <4>4. EngineOK(w)'
        BY <1>1, <4>2, <4>3 DEF EngineOK
      <4> QED BY <1>0, <1>1, <3>2, <4>1, <4>4, EngineLocal DEF EngineTypes, brokerVars
    <3> QED BY <2>4, <3>1, <3>2
  <2> QED BY <1>3, <2>7, <2>8, <2>9, TypePartsNext DEF RiskInv
<1> QED BY <1>4, <1>5 DEF GateAndSize, NeedsPeriod

\* The send, and the bookkeeping of a closed trade.
LEMMA TradeKeeps ==
  ASSUME RiskInv, NEW w \in Engines, Submit(w) \/ RecordClosedTrade(w)
  PROVE  RiskInv'
<1> USE RiskConstants
<1>0. /\ BrokerTypes /\ AuthorityTypes /\ EngineTypes /\ HistoryTypes
      /\ AuthorityOK /\ EngineOK(w)
  BY TypeParts DEF RiskInv
<1>1. CASE Submit(w)
  <2>1. /\ pc[w] = "admitted" /\ Leave(w, "idle")
        /\ UNCHANGED <<today, challenge, authVars, startOf, history, balance, equity>>
        /\ UNCHANGED <<balance, activity>> \/ activity' = today
    BY <1>1 DEF Submit, Deal, brokerVars
  <2>2. loaded
    BY <1>0, <2>1 DEF EngineOK, Prepared
  <2>3. BrokerTypes'
    BY <1>0, <1>1 DEF Submit, Deal, brokerVars, BrokerTypes, Days
  <2>4. BalanceKept' /\ AuthorityTypes' /\ AuthorityOK' /\ HistoryTypes'
    BY <1>0, <2>1, BalanceStands, AuthorityStands DEF AuthorityTypes, HistoryTypes, authVars, history
  <2>5. EngineTypes' /\ \A u \in Engines : EngineOK(u)'
    BY <2>1, <2>2, LeaveEffect, AtRest, EngineLocal DEF authVars, history
  <2> QED BY <2>3, <2>4, <2>5, TypePartsNext DEF RiskInv
<1>2. CASE RecordClosedTrade(w)
  <2>1. /\ pc[w] = "idle" /\ pos' = "flat" /\ owner' = NoEngine
        /\ UNCHANGED <<today, balance, equity, activity, deals, challenge, loaded, engineVars,
                       startOf, history>>
    BY <1>2 DEF RecordClosedTrade
  <2>2. PICK ok \in BOOLEAN : Commit(mgr, ok)
    BY <1>2 DEF RecordClosedTrade
  <2>3. loaded /\ mgr \in Manager /\ mgr.peak \in Int
    BY <1>0, <2>1, ManagerNumbers DEF EngineOK, Prepared, AuthorityTypes
  <2>4. BrokerTypes' /\ BalanceKept' /\ EngineTypes' /\ HistoryTypes'
    BY <1>0, <2>1, BalanceStands DEF BrokerTypes, EngineTypes, HistoryTypes, engineVars, history
  <2>5. \A u \in Engines : EngineOK(u)'
    BY <2>1, EnginesStand DEF history
  <2>6. AuthorityTypes' /\ AuthorityOK'
    <3>1. /\ mgr.day <= today /\ told.month <= Month(today)
          /\ ~crossed /\ mgr.day # 0 => mgr.dayStart = startOf[mgr.day]
      BY <1>0, <2>3 DEF AuthorityOK, DaysPassed, DayAnchorTruthful
    <3>2. UNCHANGED <<today, startOf, challenge, loaded, crossed, told, rewound>>
      BY <2>1 DEF history
    <3> QED BY <2>2, <2>3, <3>1, <3>2, CommitKeeps
  <2> QED BY <2>4, <2>5, <2>6, TypePartsNext DEF RiskInv
<1> QED BY <1>1, <1>2

\* The broker, the clock, the operator and crashes.
LEMMA EnvironmentKeeps ==
  ASSUME RiskInv, Environment
  PROVE  RiskInv'
<1> USE RiskConstants
<1>0. /\ BrokerTypes /\ AuthorityTypes /\ EngineTypes /\ HistoryTypes
      /\ AuthorityOK /\ BalanceKept
  BY TypeParts DEF RiskInv
<1>1. CASE PriceMoves \/ Close \/ CashFlow
  <2>1. /\ UNCHANGED <<today, challenge, authVars, engineVars, startOf, history>>
        /\ UNCHANGED <<balance, activity>> \/ activity' = today
    BY <1>1 DEF PriceMoves, Close, CashFlow, Deal
  <2>2. BrokerTypes'
    BY <1>0, <1>1 DEF PriceMoves, Close, CashFlow, Deal, BrokerTypes, Days
  <2>3. BalanceKept' /\ AuthorityTypes' /\ AuthorityOK' /\ EngineTypes' /\ HistoryTypes'
    BY <1>0, <2>1, BalanceStands, AuthorityStands
    DEF AuthorityTypes, EngineTypes, HistoryTypes, authVars, engineVars, history
  <2>4. \A u \in Engines : EngineOK(u)'
    BY <2>1, EnginesStand DEF authVars, history
  <2> QED BY <2>2, <2>3, <2>4, TypePartsNext DEF RiskInv
<1>2. CASE NextDay
  <2>1. /\ today' = today + 1 /\ today + 1 \in Days /\ today \in Nat
        /\ crossed' = (crossed \/ \E w \in Engines : pc[w] \in {"snapped", "acquired"})
        /\ startOf' = [startOf EXCEPT ![today + 1] = balance]
        /\ UNCHANGED <<brokerVars, challenge, authVars, engineVars, told, rewound>>
    BY <1>0, <1>2 DEF NextDay, BrokerTypes, Days
  <2>2. \A d \in Nat : d > 0 /\ d <= today => startOf'[d] = startOf[d] /\ d \in 1..today
    BY <1>0, <2>1 DEF BrokerTypes, Days
  <2>3. startOf'[today + 1] = balance
    BY <1>0, <2>1 DEF BrokerTypes
  <2>4. BrokerTypes' /\ AuthorityTypes' /\ EngineTypes'
    BY <1>0, <2>1 DEF BrokerTypes, AuthorityTypes, EngineTypes, brokerVars, authVars, engineVars,
                      Days
  <2>5. HistoryTypes'
    <3>1. crossed' \in BOOLEAN
      BY <2>1
    <3> QED BY <1>0, <2>1, <3>1 DEF HistoryTypes
  <2>6. BalanceKept'
    <3> SUFFICES ASSUME NEW d \in 1..(today + 1), activity < d PROVE balance = startOf'[d]
      BY <2>1 DEF BalanceKept, brokerVars
    <3>1. CASE d = today + 1
      BY <2>3, <3>1
    <3>2. CASE d # today + 1
      BY <1>0, <2>1, <2>2, <3>2 DEF BalanceKept
    <3> QED BY <3>1, <3>2
  <2>7. AuthorityOK'
    <3>1. Month(today) \in Nat /\ Month(today + 1) \in Nat /\ Month(today) <= Month(today + 1)
      BY <2>1, MonthMonotone
    <3>2. /\ mgr.day \in Nat /\ disk.mgr.day \in Nat /\ told.month \in Nat
      BY <1>0, <3>1, ManagerNumbers, MonthMonotone DEF AuthorityTypes, HistoryTypes
    <3>3. told.month <= Month(today) /\ mgr.day <= today /\ disk.mgr.day <= today
      BY <1>0 DEF AuthorityOK, DaysPassed
    <3>4. DaysPassed'
      BY <2>1, <3>1, <3>2, <3>3 DEF DaysPassed, authVars
    <3>5. MemoryAhead' /\ FinalKept'
      BY <1>0, <2>1 DEF AuthorityOK, MemoryAhead, FinalKept, Final, authVars
    <3>6. told.month = Month(today + 1) => Month(today) = Month(today + 1)
      BY <3>1, <3>2, <3>3
    <3>7. MonthKept'
      BY <1>0, <2>1, <3>6 DEF AuthorityOK, MonthKept, MonthDone, authVars
    <3>8. DayAnchorTruthful'
      <4> SUFFICES ASSUME ~crossed' PROVE DayAnchorTruthful'
        BY DEF DayAnchorTruthful
      <4>1. ~crossed /\ DayAnchorTruthful
        BY <1>0, <2>1 DEF AuthorityOK
      <4>2. /\ mgr.day # 0 => startOf'[mgr.day] = startOf[mgr.day]
            /\ disk.mgr.day # 0 => startOf'[disk.mgr.day] = startOf[disk.mgr.day]
        BY <2>2, <3>2, <3>3
      <4> QED BY <2>1, <4>1, <4>2 DEF DayAnchorTruthful, authVars
    <3> QED BY <3>4, <3>5, <3>7, <3>8 DEF AuthorityOK
  <2>8. ASSUME NEW w \in Engines PROVE EngineOK(w)'
    <3>1. EngineOK(w)
      BY DEF RiskInv
    <3>2. period[w] \in Nat /\ period[w] <= today
      BY <1>0, <2>1 DEF EngineTypes
    <3>3. Prepared(w)'
      BY <2>1, <3>1 DEF EngineOK, Prepared, engineVars, authVars
    <3> SUFFICES ASSUME ~crossed' PROVE SnapshotTruthful(w)' /\ EntryWithinDailyLoss(w)'
      BY <3>3 DEF EngineOK
    <3>4. ~crossed /\ pc[w] \notin {"snapped", "acquired"}
      BY <2>1
    <3>5. SnapshotTruthful(w) /\ EntryWithinDailyLoss(w) /\ Prepared(w)
      BY <3>1, <3>4 DEF EngineOK
    <3>6. /\ pc'[w] = pc[w] /\ snap'[w] = snap[w] /\ period'[w] = period[w]
          /\ evidence'[w] = evidence[w] /\ activity' = activity
      BY <2>1 DEF engineVars, brokerVars
    <3>7. pc[w] \in {"observed", "asking", "ready", "admitted"} => startOf'[period[w]] = startOf[period[w]]
      BY <2>2, <3>2, <3>5 DEF Prepared
    <3>8. SnapshotTruthful(w)'
      BY <3>4, <3>5, <3>6, <3>7 DEF SnapshotTruthful
    <3>9. EntryWithinDailyLoss(w)'
      BY <3>5, <3>6, <3>7 DEF EntryWithinDailyLoss
    <3> QED BY <3>8, <3>9
  <2> QED BY <2>4, <2>5, <2>6, <2>7, <2>8, TypePartsNext DEF RiskInv
<1>3. CASE ChangeSettings
  <2>1. /\ challenge' \in BOOLEAN
        /\ UNCHANGED <<today, brokerVars, authVars, engineVars, startOf, history>>
    BY <1>3 DEF ChangeSettings
  <2>2. BalanceKept' /\ AuthorityOK' /\ \A u \in Engines : EngineOK(u)'
    BY <2>1, BalanceStands, AuthorityStands, EnginesStand DEF brokerVars, authVars, history
  <2>3. BrokerTypes' /\ AuthorityTypes' /\ EngineTypes' /\ HistoryTypes'
    BY <1>0, <2>1 DEF BrokerTypes, AuthorityTypes, EngineTypes, HistoryTypes, brokerVars, authVars,
                      engineVars, history
  <2> QED BY <2>2, <2>3, TypePartsNext DEF RiskInv
<1>4. CASE Crash
  <2>1. /\ loaded' = FALSE /\ mgr' = NoFile.mgr /\ pc' = [w \in Engines |-> "down"] /\ Upset
        /\ UNCHANGED <<today, balance, equity, activity, deals, challenge, disk, startOf, history>>
    BY <1>4 DEF Crash
  <2>2. NoFile.mgr \in Manager /\ NoFile.mgr.day = 0 /\ NoSnapshot \in Snapshot /\ today \in Nat
    BY <1>0, FreshManager, ManagerNumbers DEF BrokerTypes, Days
  <2>3. BrokerTypes'
    BY <1>0, <1>4 DEF Crash, BrokerTypes
  <2>4. AuthorityTypes'
    <3>1. upsets' \in 0..MaxUpsets
      BY <1>0, <2>1 DEF AuthorityTypes, Upset
    <3>2. loaded' \in BOOLEAN
      BY <2>1
    <3> QED BY <1>0, <2>1, <2>2, <3>1, <3>2 DEF AuthorityTypes
  <2>5. EngineTypes'
    <3>1. starting' \in [Engines -> BOOLEAN]
      BY <1>4 DEF Crash
    <3>2. 0 \in 0..today'
      BY <2>1, <2>2
    <3> QED BY <1>4, <2>1, <2>2, <3>1, <3>2 DEF Crash, EngineTypes
  <2>6. HistoryTypes' /\ BalanceKept'
    BY <1>0, <2>1, BalanceStands DEF HistoryTypes, history
  <2>7. AuthorityOK'
    BY <1>0, <2>1, <2>2 DEF AuthorityOK, DaysPassed, MemoryAhead, FinalKept, MonthKept, Final,
                            MonthDone, DayAnchorTruthful, history
  <2>8. \A w \in Engines : EngineOK(w)'
    BY <2>1, AtRest
  <2> QED BY <2>3, <2>4, <2>5, <2>6, <2>7, <2>8, TypePartsNext DEF RiskInv
<1> QED BY <1>1, <1>2, <1>3, <1>4 DEF Environment

\* Every step preserves the invariant.
LEMMA StepRisk == RiskInv /\ [Next]_vars => RiskInv'
<1> SUFFICES ASSUME RiskInv, [Next]_vars PROVE RiskInv'
  OBVIOUS
<1>1. CASE UNCHANGED vars
  <2>1. TypeOK'
    BY <1>1 DEF RiskInv, TypeOK, vars, brokerVars, authVars, engineVars, history
  <2>2. BalanceKept' /\ AuthorityOK' /\ \A u \in Engines : EngineOK(u)'
    BY <1>1, BalanceStands, AuthorityStands, EnginesStand DEF vars, brokerVars, authVars, history
  <2> QED BY <2>1, <2>2 DEF RiskInv
<1>2. CASE Next
  BY <1>2, LocalSteps, StartAcquireKeeps, PreparePeriodKeeps, GateKeeps, TradeKeeps,
     EnvironmentKeeps
  DEF Next, EngineStep
<1> QED BY <1>1, <1>2

\* The invariant holds in every state of every behaviour.
THEOREM Risk == Spec => []RiskInv
  BY InitRisk, StepRisk, PTL DEF Spec

\* Types, for every policy and every number of engines.
THEOREM RiskTypes == Spec => []TypeOK
<1>1. RiskInv => TypeOK
  BY DEF RiskInv
<1> QED BY <1>1, Risk, PTL

\* prepare_period never manufactures an anchor from a mid-day value: the anchor
\* in memory and the one in the checkpoint are the balance the account had when
\* their day began, whichever engines raced for the roll.
THEOREM AnchorIsTruthful == Spec => []DayAnchorTruthful
<1>1. RiskInv => DayAnchorTruthful
  BY DEF RiskInv, AuthorityOK
<1> QED BY <1>1, Risk, PTL

\* gate_and_size admits an entry only within the daily loss limit of the real
\* balance at the start of its day, for every limit.
THEOREM DailyLossIsEnforced == Spec => []DailyLossStopsEntries
<1>1. RiskInv => DailyLossStopsEntries
  BY DEF RiskInv, EngineOK, EntryWithinDailyLoss, DailyLossStopsEntries
<1> QED BY <1>1, Risk, PTL

\* A step either leaves the file alone or commits, to a loaded authority, a
\* manager with at least its peak and its breaker and with its policy.
LEMMA DiskStep ==
  ASSUME RiskInv, Next, disk' # disk
  PROVE  /\ loaded /\ disk'.present
         /\ disk'.mgr.peak >= mgr.peak /\ disk'.mgr.peak \in Int
         /\ mgr.breaker => disk'.mgr.breaker
         /\ disk'.mgr.challenge = mgr.challenge
<1> USE RiskConstants
<1>0. BrokerTypes /\ AuthorityTypes /\ EngineTypes /\ mgr \in Manager /\ mgr.peak \in Int
  BY TypeParts, ManagerNumbers DEF RiskInv, AuthorityTypes
<1>1. ASSUME NEW m \in Manager, NEW ok \in BOOLEAN, Commit(m, ok)
      PROVE  disk'.present /\ disk'.mgr = m /\ disk'.mgr.peak \in Int
  BY <1>1, ManagerNumbers DEF Commit
<1>2. ASSUME NEW w \in Engines, pc[w] \notin {"down", "snapped"}
      PROVE  loaded /\ snap[w] \in Snapshot /\ (pc[w] \in {"ready", "prepared"} => period[w] \in Days)
  BY <1>0, <1>2 DEF RiskInv, EngineOK, Prepared, EngineTypes, BrokerTypes, Days
<1>3. ASSUME NEW w \in Engines, PreparePeriod(w)
      PROVE  /\ loaded /\ disk'.present
             /\ disk'.mgr.peak >= mgr.peak /\ disk'.mgr.peak \in Int
             /\ mgr.breaker => disk'.mgr.breaker
             /\ disk'.mgr.challenge = mgr.challenge
  <2>1. PICK ok \in BOOLEAN : Commit(RollPeriods(mgr, period[w], snap[w]), ok)
    BY <1>3 DEF PreparePeriod
  <2>2. loaded /\ snap[w] \in Snapshot /\ period[w] \in Days
    BY <1>2, <1>3 DEF PreparePeriod
  <2> DEFINE r == RollPeriods(mgr, period[w], snap[w])
  <2>3. r \in Manager /\ r.challenge = mgr.challenge /\ r.peak >= mgr.peak /\ (mgr.breaker => r.breaker)
    BY <1>0, <2>2, RollEffect
  <2> HIDE DEF r
  <2>4. disk'.present /\ disk'.mgr = r /\ disk'.mgr.peak \in Int
    BY <1>1, <2>1, <2>3 DEF r
  <2> QED BY <2>2, <2>3, <2>4
<1>4. ASSUME NEW w \in Engines, GateAndSize(w)
      PROVE  /\ loaded /\ disk'.present
             /\ disk'.mgr.peak >= mgr.peak /\ disk'.mgr.peak \in Int
             /\ mgr.breaker => disk'.mgr.breaker
             /\ disk'.mgr.challenge = mgr.challenge
  <2>1. loaded /\ snap[w] \in Snapshot
    BY <1>2, <1>4 DEF GateAndSize
  <2> DEFINE seen == OnEquityUpdate(mgr, snap[w])
  <2>2. PICK ok \in BOOLEAN, other \in BOOLEAN, revenge \in BOOLEAN :
          Commit(Judged(seen, snap[w], Verdict(seen, snap[w], revenge, other)), ok)
    BY <1>4 DEF GateAndSize
  <2>3. /\ seen \in Manager /\ seen.challenge = mgr.challenge
        /\ seen.breaker = mgr.breaker /\ seen.peak >= mgr.peak
    BY <1>0, <2>1, OnEquityUpdateEffect
  <2> DEFINE j == Judged(seen, snap[w], Verdict(seen, snap[w], revenge, other))
  <2> HIDE DEF seen
  <2>4. /\ j \in Manager /\ j.challenge = seen.challenge /\ j.peak = seen.peak
        /\ seen.breaker => j.breaker
    BY <2>1, <2>3, JudgedEffect
  <2> HIDE DEF j
  <2>5. disk'.present /\ disk'.mgr = j /\ disk'.mgr.peak \in Int
    BY <1>1, <2>2, <2>4 DEF j
  <2> QED BY <2>1, <2>3, <2>4, <2>5
<1>5. ASSUME NEW w \in Engines, RecordClosedTrade(w)
      PROVE  /\ loaded /\ disk'.present
             /\ disk'.mgr.peak >= mgr.peak /\ disk'.mgr.peak \in Int
             /\ mgr.breaker => disk'.mgr.breaker
             /\ disk'.mgr.challenge = mgr.challenge
  BY <1>0, <1>1, <1>2, <1>5 DEF RecordClosedTrade
<1> QED
  BY <1>3, <1>4, <1>5
  DEF Next, EngineStep, Environment, StartSnapshot, StartAcquire, Acquire, StartPeriod, Stop,
      SamplePeriod, ObserveAccount, CheckPeriod, FetchEvidence, Submit, Abandon, PriceMoves, Close,
      CashFlow, NextDay, ChangeSettings, Crash, authVars

\* The checkpoint never forgives: no step of any engine, no failed write, no
\* restart and no change of the settings removes it, lowers the peak, clears the
\* breaker or reads it under another policy.
THEOREM CheckpointIsKept == Spec => CheckpointNeverForgives
<1>1. RiskInv /\ [Next]_vars =>
        [ disk.present =>
            /\ disk'.present
            /\ disk'.mgr.peak >= disk.mgr.peak
            /\ disk.mgr.breaker => disk'.mgr.breaker
            /\ disk'.mgr.challenge = disk.mgr.challenge ]_vars
  <2> SUFFICES ASSUME RiskInv, Next, disk.present
               PROVE  /\ disk'.present
                      /\ disk'.mgr.peak >= disk.mgr.peak
                      /\ disk.mgr.breaker => disk'.mgr.breaker
                      /\ disk'.mgr.challenge = disk.mgr.challenge
    OBVIOUS
  <2>1. disk.mgr.peak \in Int /\ mgr.peak \in Int
    BY TypeParts, ManagerNumbers DEF RiskInv, AuthorityTypes
  <2>2. CASE disk' = disk
    BY <2>1, <2>2
  <2>3. CASE disk' # disk
    <3>1. /\ loaded /\ disk'.present
          /\ disk'.mgr.peak >= mgr.peak /\ disk'.mgr.peak \in Int
          /\ mgr.breaker => disk'.mgr.breaker
          /\ disk'.mgr.challenge = mgr.challenge
      BY <2>3, DiskStep
    <3>2. MemoryAhead
      BY DEF RiskInv, AuthorityOK
    <3> QED BY <2>1, <3>1, <3>2 DEF MemoryAhead
  <2> QED BY <2>2, <2>3
<1> QED BY <1>1, Risk, PTL DEF Spec, CheckpointNeverForgives

\* An engine is admitted only by the gate, under a loaded authority prepared for
\* its day in which no latch is set.
LEMMA AdmittedByGate ==
  ASSUME RiskInv, Next, NEW w \in Engines, Admits(w)
  PROVE  loaded /\ mgr.day = period[w] /\ period[w] # 0 /\ ~mgr.breaker /\ ~mgr.target
<1>0. AuthorityTypes /\ EngineTypes /\ EngineOK(w)
  BY TypeParts DEF RiskInv
<1>1. ASSUME NEW u \in Engines, NEW to, to # "admitted", pc' = [pc EXCEPT ![u] = to]
      PROVE  FALSE
  BY <1>0, <1>1 DEF Admits, EngineTypes
<1>2. pc' # pc /\ pc' # [u \in Engines |-> "down"]
  BY DEF Admits
<1>3. ASSUME NEW u \in Engines, GateAndSize(u)
      PROVE  loaded /\ mgr.day = period[w] /\ period[w] # 0 /\ ~mgr.breaker /\ ~mgr.target
  <2> DEFINE seen == OnEquityUpdate(mgr, snap[u])
  <2>1. PICK other \in BOOLEAN, revenge \in BOOLEAN :
          /\ pc[u] = "prepared" /\ ~NeedsPeriod(mgr, period[u])
          /\ Verdict(seen, snap[u], revenge, other) = "ok"
          /\ pc' = [pc EXCEPT ![u] = "admitted"]
    BY <1>1, <1>3 DEF GateAndSize, Leave, Goto
  <2>2. u = w
    BY <1>0, <2>1 DEF Admits, EngineTypes
  <2>3. loaded /\ period[w] # 0 /\ mgr.day = period[w] /\ mgr \in Manager /\ snap[u] \in Snapshot
    BY <1>0, <2>1, <2>2 DEF EngineOK, Prepared, NeedsPeriod, AuthorityTypes, EngineTypes
  <2>4. seen \in Manager /\ seen.breaker = mgr.breaker /\ seen.target = mgr.target
    BY <2>3, OnEquityUpdateEffect
  <2> HIDE DEF seen
  <2>5. ~seen.breaker /\ ~seen.target
    BY <2>1, <2>4, VerdictOk
  <2> QED BY <2>3, <2>4, <2>5
<1> QED
  BY <1>1, <1>2, <1>3
  DEF Next, EngineStep, Environment, StartSnapshot, StartAcquire, Acquire, StartPeriod, Stop,
      SamplePeriod, ObserveAccount, CheckPeriod, FetchEvidence, PreparePeriod, Submit, Abandon,
      RecordClosedTrade, PriceMoves, Close, CashFlow, NextDay, ChangeSettings, Crash, Leave, Goto,
      engineVars

\* A latched refusal that was reported is final: the circuit breaker and the
\* challenge target for the account, the monthly target for the current month
\* unless an engine prepared a day before the authority's.
THEOREM LatchedIsFinal == Spec => LatchedRefusalIsFinal
<1>1. RiskInv /\ [Next]_vars =>
        [ \A w \in Engines : Admits(w) =>
            /\ ~told.final
            /\ ~rewound => told.month # Month(today) ]_vars
  <2> SUFFICES ASSUME RiskInv, Next, NEW w \in Engines, Admits(w)
               PROVE  /\ ~told.final
                      /\ ~rewound => told.month # Month(today)
    OBVIOUS
  <2>1. loaded /\ ~mgr.breaker /\ ~mgr.target
    BY AdmittedByGate
  <2>2. FinalKept /\ MonthKept
    BY DEF RiskInv, AuthorityOK
  <2> QED BY <2>1, <2>2 DEF FinalKept, MonthKept, Final, MonthDone
<1> QED BY <1>1, Risk, PTL DEF Spec, LatchedRefusalIsFinal
=============================================================================
