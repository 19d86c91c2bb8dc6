-------------------------- MODULE JobControlProofs --------------------------
(***************************************************************************)
(* TypeOK, LeaseCoversWork and ComputingIsShownAndStoppable of JobControl, *)
(* for every number of starts and of panics.  Neither safety property is   *)
(* inductive: a worker is covered by the lease because tokens are handed   *)
(* out once and every exit of a worker releases its own, and its slot is   *)
(* safe from late observers because it already names the new run when the  *)
(* child starts.  JobInv says where each part of a run can be.             *)
(***************************************************************************)
EXTENDS JobControl, TLAPS

\* A token that was not handed out yet belongs to nobody.
FreshTokens ==
  \A t \in Tokens : t >= nextToken => pc[t] = "none" /\ child[t] = "none" /\ watcher[t] = "none"

\* A computing child has a worker that drains it, or that panicked.
ChildIsDrained ==
  \A t \in Tokens : child[t] = "running" => pc[t] \in {"draining", "panicked"}

\* Native runs never enter the phases of the engines, and engine runs always
\* work for an engine and end with an outcome.
PhaseFitsRun ==
  \A t \in Tokens :
    /\ pc[t] \in {"computing", "finished"} => run[t].kind = "native"
    /\ pc[t] \in Live \ {"computing", "finished"} => phase[t] \in Engines
    /\ pc[t] \in {"ended", "panicked"} /\ run[t].kind # "native" => phase[t] \in Engines
    /\ pc[t] \in {"reporting", "reported"} => outcome[t] \in Outcomes
    /\ pc[t] = "ended" /\ run[t].kind # "native" => outcome[t] \in Outcomes

\* From install_engine until its terminal snapshot is applied, the slot of the
\* phase is the run's.
SlotIsInstalled ==
  \A t \in Tokens :
    pc[t] \in {"preparing", "draining"} =>
      engine[phase[t]] = [state |-> "Running", token |-> t, stoppable |-> TRUE]

\* What can be stopped has a run.
StoppableHasRun == \A k \in Engines : engine[k].stoppable => engine[k].token \in Tokens

\* The worker part of LeaseCoversWork; its other part follows from
\* ChildIsDrained.
WorkerHasLease == \A t \in Tokens : pc[t] \in Live => active = t /\ leaseKind = phase[t]

JobInv ==
  /\ TypeOK /\ FreshTokens /\ WorkerHasLease /\ ChildIsDrained /\ PhaseFitsRun
  /\ SlotIsInstalled /\ StoppableHasRun

EngineSlots ==
  [Engines -> [state : Outcomes \cup {"Idle", "Running"},
               token : Tokens \cup {None}, stoppable : BOOLEAN]]

\* Nothing runs at first.
LEMMA InitJob == Init => JobInv
<1> SUFFICES ASSUME Init PROVE JobInv
  OBVIOUS
<1> USE JobAssumption
<1>1. FALSE \in BOOLEAN
  OBVIOUS
<1>2. engine \in EngineSlots
  BY <1>1 DEF Init, EngineSlots
<1>3. native \in [shown : Tokens \cup {None}, over : BOOLEAN, flag : Tokens \cup {None}]
  BY <1>1 DEF Init
<1>4. TypeOK
  BY <1>2, <1>3 DEF Init, TypeOK, EngineSlots
<1>5. FreshTokens /\ WorkerHasLease /\ ChildIsDrained /\ PhaseFitsRun /\ SlotIsInstalled
  BY DEF Init, FreshTokens, WorkerHasLease, ChildIsDrained, PhaseFitsRun, SlotIsInstalled, Live
<1>6. StoppableHasRun
  BY DEF Init, StoppableHasRun
<1> QED BY <1>4, <1>5, <1>6 DEF JobInv

\* install_engine shows run t in slot k and leaves the other slot alone.
LEMMA InstallEffect ==
  ASSUME engine \in EngineSlots, StoppableHasRun,
         NEW k \in Engines, NEW t \in Tokens, Install(k, t)
  PROVE  /\ engine' \in EngineSlots /\ StoppableHasRun'
         /\ engine'[k] = [state |-> "Running", token |-> t, stoppable |-> TRUE]
         /\ \A j \in Engines \ {k} : engine'[j] = engine[j]
<1>1. [state |-> "Running", token |-> t, stoppable |-> TRUE]
        \in [state : Outcomes \cup {"Idle", "Running"},
             token : Tokens \cup {None}, stoppable : BOOLEAN]
  OBVIOUS
<1>2. /\ engine' \in EngineSlots
      /\ engine'[k] = [state |-> "Running", token |-> t, stoppable |-> TRUE]
      /\ \A j \in Engines \ {k} : engine'[j] = engine[j]
  BY <1>1 DEF Install, EngineSlots
<1>3. StoppableHasRun'
  BY <1>2 DEF StoppableHasRun
<1> QED BY <1>2, <1>3

\* update_engine_snapshot changes at most the slot k, and only when that slot
\* shows run t.
LEMMA UpdateEffect ==
  ASSUME engine \in EngineSlots, StoppableHasRun,
         NEW k \in Engines, NEW t \in Tokens, NEW o \in Outcomes, Update(k, t, o)
  PROVE  /\ engine' \in EngineSlots /\ StoppableHasRun'
         /\ \A j \in Engines : engine[j].token # t => engine'[j] = engine[j]
<1>1. CASE engine[k].token = t
  <2>1. engine' = [engine EXCEPT ![k] = [state |-> o, token |-> t, stoppable |-> FALSE]]
    BY <1>1 DEF Update
  <2>2. [state |-> o, token |-> t, stoppable |-> FALSE]
          \in [state : Outcomes \cup {"Idle", "Running"},
               token : Tokens \cup {None}, stoppable : BOOLEAN]
    OBVIOUS
  <2>3. engine' \in EngineSlots
    BY <2>1, <2>2 DEF EngineSlots
  <2>4. StoppableHasRun'
    BY <2>1 DEF EngineSlots, StoppableHasRun
  <2>5. \A j \in Engines : engine[j].token # t => engine'[j] = engine[j]
    BY <1>1, <2>1 DEF EngineSlots
  <2> QED BY <2>3, <2>4, <2>5
<1>2. CASE engine[k].token # t
  BY <1>2 DEF Update, StoppableHasRun
<1> QED BY <1>1, <1>2

\* There is at most one live worker: the lease names one run.
LEMMA OneWorker ==
  ASSUME WorkerHasLease, NEW t \in Tokens, pc[t] \in Live
  PROVE  active = t /\ \A u \in Tokens \ {t} : pc[u] \notin Live
  BY DEF WorkerHasLease

\* A step that leaves the lease, the workers, the children and the engine slots
\* alone, and touches no watcher of a token not handed out, keeps what JobInv
\* says beyond the types.
LEMMA QuietStep ==
  ASSUME JobInv, UNCHANGED <<leaseVars, workerVars, engine>>,
         \A u \in Tokens : watcher[u] = "none" => watcher'[u] = "none"
  PROVE  /\ FreshTokens' /\ WorkerHasLease' /\ ChildIsDrained' /\ PhaseFitsRun'
         /\ SlotIsInstalled' /\ StoppableHasRun'
<1>1. FreshTokens'
  BY DEF JobInv, FreshTokens, leaseVars, workerVars
<1>2. WorkerHasLease' /\ ChildIsDrained' /\ PhaseFitsRun'
  BY DEF JobInv, WorkerHasLease, ChildIsDrained, PhaseFitsRun, leaseVars, workerVars
<1>3. SlotIsInstalled' /\ StoppableHasRun'
  BY DEF JobInv, SlotIsInstalled, StoppableHasRun, workerVars
<1> QED BY <1>1, <1>2, <1>3

\* Taking the lease and spawning the worker.
LEMMA StartKeeps ==
  ASSUME JobInv, NEW r \in Runs, Start(r)
  PROVE  JobInv'
<1> USE JobAssumption DEF JobInv
<1>0. /\ active = None /\ nextToken \in Tokens /\ None \notin Tokens
      /\ active' = nextToken /\ leaseKind' = r.kind /\ nextToken' = nextToken + 1
      /\ UNCHANGED <<child, outcome, flagVars, admission, engine, native>>
  BY DEF Start, Tokens, None
<1>1. \A u \in Tokens : pc[u] \notin Live
  BY <1>0 DEF WorkerHasLease
<1>2. /\ run' = [run EXCEPT ![nextToken] = r]
      /\ phase' = [phase EXCEPT ![nextToken] = r.kind]
      /\ pc' = [pc EXCEPT ![nextToken] = IF r.kind = "native" THEN "computing" ELSE "spawned"]
  BY DEF Start, Goes
<1>3. r.kind \in Engines \cup {"native"}
  BY DEF Runs, Engines
<1>4. PICK w \in {"watching", "holder", "installing", "admission"} :
        watcher' = [watcher EXCEPT ![nextToken] = w]
  <2>1. CASE r.by = "observer"
    BY <2>1 DEF Start
  <2>2. CASE r.by = "holder"
    BY <2>2 DEF Start
  <2>3. CASE r.by = "handler" /\ r.kind = "native"
    BY <2>3 DEF Start
  <2>4. CASE r.by = "handler" /\ r.kind # "native"
    BY <2>4 DEF Start
  <2> QED BY <2>1, <2>2, <2>3, <2>4 DEF Runs
<1>5. TypeOK'
  <2>1. active' \in Tokens \cup {None} /\ nextToken' \in 1..(MaxToken + 1)
    BY <1>0 DEF TypeOK, Tokens
  <2>2. /\ run' \in [Tokens -> Runs \cup {NoRun}]
        /\ pc' \in [Tokens -> Live \cup {"none", "ended", "panicked"}]
        /\ phase' \in [Tokens -> Engines \cup {"native", "none"}]
        /\ leaseKind' \in Engines \cup {"native", "none"}
    BY <1>0, <1>2, <1>3 DEF TypeOK, Live
  <2>3. watcher' \in [Tokens -> {"none", "admission", "joining", "watching", "holder", "gone",
                             "installing", "relayRunning", "relayTerminal", "nativeJoin",
                             "done"}]
    BY <1>0, <1>4 DEF TypeOK
  <2> QED BY <1>0, <2>1, <2>2, <2>3 DEF TypeOK, flagVars
<1>6. FreshTokens'
  BY <1>0, <1>2, <1>4 DEF FreshTokens, TypeOK, Tokens
<1>7. WorkerHasLease'
  BY <1>0, <1>1, <1>2 DEF WorkerHasLease, TypeOK
<1>8. ChildIsDrained'
  BY <1>0, <1>2 DEF ChildIsDrained, FreshTokens, TypeOK, Tokens
<1>9. PhaseFitsRun'
  <2>1. \A u \in Tokens \ {nextToken} :
          pc'[u] = pc[u] /\ run'[u] = run[u] /\ phase'[u] = phase[u] /\ outcome'[u] = outcome[u]
    BY <1>0, <1>2 DEF TypeOK
  <2>2. /\ pc'[nextToken] = IF r.kind = "native" THEN "computing" ELSE "spawned"
        /\ run'[nextToken] = r /\ phase'[nextToken] = r.kind
    BY <1>0, <1>2 DEF TypeOK
  <2> QED BY <1>0, <1>3, <2>1, <2>2 DEF PhaseFitsRun, Live
<1>10. SlotIsInstalled' /\ StoppableHasRun'
  BY <1>0, <1>1, <1>2 DEF SlotIsInstalled, StoppableHasRun, TypeOK, Live
<1> QED BY <1>5, <1>6, <1>7, <1>8, <1>9, <1>10

\* A step of the live worker t that keeps the lease, the tokens and the runs:
\* what is left to show is about t alone.
LEMMA WorkerStepKeeps ==
  ASSUME JobInv, NEW t \in Tokens, pc[t] \in Live,
         NEW to \in Live \ {"computing"}, pc' = [pc EXCEPT ![t] = to],
         UNCHANGED <<active, nextToken, run, watcher, native, cancel>>,
         leaseKind' \in Engines \cup {"native", "none"}, leaseKind' = phase'[t],
         phase' \in [Tokens -> Engines \cup {"native", "none"}],
         child' \in [Tokens -> Outcomes \cup {"none", "running"}],
         outcome' \in [Tokens -> Outcomes \cup {"none"}],
         childCancel' \subseteq Tokens,
         admission' \in [Tokens -> {"none", "ok", "error"}],
         engine' \in EngineSlots, StoppableHasRun',
         \A u \in Tokens \ {t} :
           phase'[u] = phase[u] /\ child'[u] = child[u] /\ outcome'[u] = outcome[u],
         child'[t] = "running" => to = "draining",
         IF to = "finished" THEN run[t].kind = "native" ELSE phase'[t] \in Engines,
         to \in {"reporting", "reported"} => outcome'[t] \in Outcomes,
         to \in {"preparing", "draining"} =>
           engine'[phase'[t]] = [state |-> "Running", token |-> t, stoppable |-> TRUE]
  PROVE  JobInv'
<1> USE JobAssumption DEF JobInv
<1>1. active = t /\ \A u \in Tokens \ {t} : pc[u] \notin Live
  BY OneWorker
<1>2. pc'[t] = to /\ \A u \in Tokens \ {t} : pc'[u] = pc[u]
  BY DEF TypeOK
<1>3. TypeOK'
  <2>1. pc' \in [Tokens -> Live \cup {"none", "ended", "panicked"}]
    BY DEF TypeOK
  <2>2. engine' \in [Engines -> [state : Outcomes \cup {"Idle", "Running"},
                             token : Tokens \cup {None}, stoppable : BOOLEAN]]
    BY DEF EngineSlots
  <2> QED BY <2>1, <2>2 DEF TypeOK
<1>4. FreshTokens'
  <2>1. ~(t >= nextToken)
    BY DEF FreshTokens, Live
  <2> QED BY <1>2, <2>1 DEF FreshTokens
<1>5. WorkerHasLease'
  BY <1>1, <1>2 DEF WorkerHasLease
<1>6. ChildIsDrained'
  BY <1>2 DEF ChildIsDrained
<1>7. PhaseFitsRun'
  BY <1>2 DEF PhaseFitsRun, Live
<1>8. SlotIsInstalled'
  <2> SUFFICES ASSUME NEW u \in Tokens, pc'[u] \in {"preparing", "draining"}
               PROVE  engine'[phase'[u]] = [state |-> "Running", token |-> u, stoppable |-> TRUE]
    BY DEF SlotIsInstalled
  <2>1. u = t
    BY <1>1, <1>2 DEF Live
  <2> QED BY <1>2, <2>1
<1> QED BY <1>3, <1>4, <1>5, <1>6, <1>7, <1>8

\* Every step of the worker inside its run.
LEMMA WorkerKeeps ==
  ASSUME JobInv, NEW t \in Tokens,
         \/ InstallPhase(t) \/ Refuse(t) \/ StartChild(t) \/ DrainTerminal(t)
         \/ Abandon(t) \/ ContinueToTraining(t) \/ Report(t) \/ NativeEnds(t)
  PROVE  JobInv'
<1> USE DEF JobInv
<1>0. /\ engine \in EngineSlots
      /\ leaseKind \in Engines \cup {"native", "none"}
      /\ phase \in [Tokens -> Engines \cup {"native", "none"}]
      /\ child \in [Tokens -> Outcomes \cup {"none", "running"}]
      /\ outcome \in [Tokens -> Outcomes \cup {"none"}]
      /\ childCancel \subseteq Tokens
      /\ admission \in [Tokens -> {"none", "ok", "error"}]
  BY DEF TypeOK, EngineSlots
<1>a. pc[t] \in Live => leaseKind = phase[t] /\ (child[t] = "running" => pc[t] = "draining")
  BY DEF WorkerHasLease, ChildIsDrained, Live
<1>b. pc[t] \in Live \ {"computing", "finished"} => phase[t] \in Engines
  BY DEF PhaseFitsRun
<1>1. CASE InstallPhase(t)
  <2>1. /\ pc[t] = "spawned" /\ pc[t] \in Live /\ Install(phase[t], t)
        /\ pc' = [pc EXCEPT ![t] = "preparing"]
        /\ UNCHANGED <<leaseVars, run, phase, child, outcome, flagVars, admission, watcher, native>>
    BY <1>1 DEF InstallPhase, Goes, Live
  <2>2. /\ engine' \in EngineSlots /\ StoppableHasRun'
        /\ engine'[phase[t]] = [state |-> "Running", token |-> t, stoppable |-> TRUE]
    BY <1>0, <1>b, <2>1, InstallEffect
  <2> QED BY <1>0, <1>a, <1>b, <2>1, <2>2, WorkerStepKeeps DEF leaseVars, flagVars, Live
<1>2. CASE Refuse(t)
  <2>1. /\ pc[t] = "preparing" /\ pc[t] \in Live
        /\ outcome' = [outcome EXCEPT ![t] = "Unsuccessful"]
        /\ admission' \in [Tokens -> {"none", "ok", "error"}]
        /\ pc' = [pc EXCEPT ![t] = "reporting"]
        /\ UNCHANGED <<leaseVars, run, phase, child, flagVars, watcher, engine, native>>
    BY <1>2, <1>0 DEF Refuse, Admit, Goes, Live
  <2>2. StoppableHasRun'
    BY <2>1 DEF StoppableHasRun
  <2>3. outcome' \in [Tokens -> Outcomes \cup {"none"}] /\ outcome'[t] \in Outcomes
    BY <1>0, <2>1 DEF Outcomes
  <2> QED BY <1>0, <1>a, <1>b, <2>1, <2>2, <2>3, WorkerStepKeeps DEF leaseVars, flagVars, Live
<1>3. CASE StartChild(t)
  <2>1. /\ pc[t] = "preparing" /\ pc[t] \in Live
        /\ child' = [child EXCEPT ![t] = "running"]
        /\ admission' \in [Tokens -> {"none", "ok", "error"}]
        /\ pc' = [pc EXCEPT ![t] = "draining"]
        /\ UNCHANGED <<leaseVars, run, phase, outcome, flagVars, watcher, engine, native>>
    BY <1>3, <1>0 DEF StartChild, Admit, Goes, Live
  <2>2. StoppableHasRun'
    BY <2>1 DEF StoppableHasRun
  <2>3. engine[phase[t]] = [state |-> "Running", token |-> t, stoppable |-> TRUE]
    BY <2>1 DEF SlotIsInstalled
  <2> QED BY <1>0, <1>a, <1>b, <2>1, <2>2, <2>3, WorkerStepKeeps DEF leaseVars, flagVars, Live
<1>4. CASE DrainTerminal(t)
  <2>1. /\ pc[t] = "draining" /\ pc[t] \in Live /\ child[t] \in Outcomes
        /\ Update(phase[t], t, child[t])
        /\ outcome' = [outcome EXCEPT ![t] = child[t]]
        /\ child' = [child EXCEPT ![t] = "none"]
        /\ childCancel' = childCancel \ {t}
        /\ UNCHANGED <<leaseVars, run, phase, cancel, admission, watcher, native>>
    BY <1>4 DEF DrainTerminal, Live
  <2>2. PICK to \in {"continuing", "reporting"} : pc' = [pc EXCEPT ![t] = to]
    BY <1>4 DEF DrainTerminal, Goes
  <2>3. engine' \in EngineSlots /\ StoppableHasRun'
    BY <1>0, <1>b, <2>1, UpdateEffect DEF Live
  <2> QED BY <1>0, <1>a, <1>b, <2>1, <2>2, <2>3, WorkerStepKeeps DEF leaseVars, flagVars, Live
<1>5. CASE Abandon(t)
  <2>1. /\ pc[t] = "continuing" /\ pc[t] \in Live
        /\ outcome' = [outcome EXCEPT ![t] = "Unsuccessful"]
        /\ pc' = [pc EXCEPT ![t] = "reporting"]
        /\ UNCHANGED <<leaseVars, run, phase, child, flagVars, admission, watcher, engine, native>>
    BY <1>5 DEF Abandon, Goes, Live
  <2>2. StoppableHasRun'
    BY <2>1 DEF StoppableHasRun
  <2>3. outcome' \in [Tokens -> Outcomes \cup {"none"}] /\ outcome'[t] \in Outcomes
    BY <1>0, <2>1 DEF Outcomes
  <2> QED BY <1>0, <1>a, <1>b, <2>1, <2>2, <2>3, WorkerStepKeeps DEF leaseVars, flagVars, Live
<1>6. CASE ContinueToTraining(t)
  <2>1. /\ pc[t] = "continuing" /\ pc[t] \in Live
        /\ leaseKind' = "training" /\ phase' = [phase EXCEPT ![t] = "training"]
        /\ pc' = [pc EXCEPT ![t] = "spawned"]
        /\ UNCHANGED <<active, nextToken, run, child, outcome, flagVars, admission, watcher,
                       engine, native>>
    BY <1>6 DEF ContinueToTraining, Goes, Live
  <2>2. StoppableHasRun'
    BY <2>1 DEF StoppableHasRun
  <2>3. /\ phase' \in [Tokens -> Engines \cup {"native", "none"}]
        /\ phase'[t] = "training" /\ "training" \in Engines
    BY <1>0, <2>1 DEF Engines
  <2> QED BY <1>0, <1>a, <1>b, <2>1, <2>2, <2>3, WorkerStepKeeps DEF leaseVars, flagVars, Live
<1>7. CASE Report(t)
  <2>1. /\ pc[t] = "reporting" /\ pc[t] \in Live /\ Update(phase[t], t, outcome[t])
        /\ pc' = [pc EXCEPT ![t] = "reported"]
        /\ UNCHANGED <<leaseVars, run, phase, child, outcome, flagVars, admission, watcher, native>>
    BY <1>7 DEF Report, Goes, Live
  <2>2. outcome[t] \in Outcomes
    BY <2>1 DEF PhaseFitsRun
  <2>3. engine' \in EngineSlots /\ StoppableHasRun'
    BY <1>0, <1>b, <2>1, <2>2, UpdateEffect DEF Live
  <2> QED BY <1>0, <1>a, <1>b, <2>1, <2>2, <2>3, WorkerStepKeeps DEF leaseVars, flagVars, Live
<1>8. CASE NativeEnds(t)
  <2>1. /\ pc[t] = "computing" /\ pc[t] \in Live /\ pc' = [pc EXCEPT ![t] = "finished"]
        /\ UNCHANGED <<leaseVars, run, phase, child, outcome, flagVars, admission, watcher, engine,
                       native>>
    BY <1>8 DEF NativeEnds, Goes, Live
  <2>2. StoppableHasRun'
    BY <2>1 DEF StoppableHasRun
  <2>3. run[t].kind = "native"
    BY <2>1 DEF PhaseFitsRun
  <2> QED BY <1>0, <1>a, <2>1, <2>2, <2>3, WorkerStepKeeps DEF leaseVars, flagVars, Live
<1> QED BY <1>1, <1>2, <1>3, <1>4, <1>5, <1>6, <1>7, <1>8

\* The two ways out of a worker release the lease it holds, and only that one.
LEMMA ExitKeeps ==
  ASSUME JobInv, NEW t \in Tokens, End(t) \/ WorkerPanics(t)
  PROVE  JobInv'
<1> USE JobAssumption DEF JobInv
<1>1. PICK to \in {"ended", "panicked"} :
        /\ pc' = [pc EXCEPT ![t] = to]
        /\ to = "ended" => pc[t] \in {"reported", "finished"}
  BY DEF End, WorkerPanics, Goes
<1>2. /\ pc[t] \in Live /\ ReleaseLease(t)
      /\ admission' \in [Tokens -> {"none", "ok", "error"}]
      /\ UNCHANGED <<nextToken, run, phase, child, outcome, flagVars, watcher, engine, native>>
  BY DEF End, WorkerPanics, Admit, Live, TypeOK
<1>3. active = t /\ \A u \in Tokens \ {t} : pc[u] \notin Live
  BY <1>2, OneWorker
<1>4. active' = None /\ leaseKind' = "none"
  BY <1>2, <1>3 DEF ReleaseLease
<1>5. pc'[t] = to /\ \A u \in Tokens \ {t} : pc'[u] = pc[u]
  BY <1>1 DEF TypeOK
<1>6. \A u \in Tokens : pc'[u] \notin Live
  BY <1>3, <1>5 DEF Live
<1>7. TypeOK'
  <2>1. pc' \in [Tokens -> Live \cup {"none", "ended", "panicked"}]
    BY <1>1 DEF TypeOK
  <2> QED BY <1>2, <1>4, <2>1 DEF TypeOK, flagVars
<1>8. FreshTokens'
  <2>1. ~(t >= nextToken)
    BY <1>2 DEF FreshTokens, Live
  <2> QED BY <1>2, <1>5, <2>1 DEF FreshTokens
<1>9. WorkerHasLease'
  BY <1>6 DEF WorkerHasLease
<1>10. ChildIsDrained'
  BY <1>1, <1>2, <1>5 DEF ChildIsDrained
<1>11. PhaseFitsRun'
  <2>1. run[t].kind # "native" => phase[t] \in Engines
    BY <1>2 DEF PhaseFitsRun
  <2>2. to = "ended" /\ run[t].kind # "native" => outcome[t] \in Outcomes
    BY <1>1 DEF PhaseFitsRun
  <2> QED BY <1>2, <1>5, <1>6, <2>1, <2>2 DEF PhaseFitsRun, Live
<1>12. SlotIsInstalled' /\ StoppableHasRun'
  BY <1>2, <1>6 DEF SlotIsInstalled, StoppableHasRun, Live
<1> QED BY <1>7, <1>8, <1>9, <1>10, <1>11, <1>12

\* The end of a child is only an event for its worker.
LEMMA ChildEndsKeeps ==
  ASSUME JobInv, NEW t \in Tokens, ChildEnds(t)
  PROVE  JobInv'
<1> USE DEF JobInv
<1>1. PICK o \in Outcomes \cup {"none"} : child' = [child EXCEPT ![t] = o]
  BY DEF ChildEnds
<1>2. /\ child[t] = "running"
      /\ UNCHANGED <<leaseVars, run, pc, phase, outcome, flagVars, admission, watcher, engine, native>>
  BY DEF ChildEnds
<1>3. o # "running"
  BY DEF Outcomes
<1>4. TypeOK'
  BY <1>1, <1>2 DEF TypeOK, leaseVars, flagVars
<1>5. FreshTokens' /\ ChildIsDrained'
  BY <1>1, <1>2, <1>3 DEF FreshTokens, ChildIsDrained, TypeOK, leaseVars
<1>6. WorkerHasLease' /\ PhaseFitsRun' /\ SlotIsInstalled' /\ StoppableHasRun'
  BY <1>2 DEF WorkerHasLease, PhaseFitsRun, SlotIsInstalled, StoppableHasRun, leaseVars
<1> QED BY <1>4, <1>5, <1>6

\* A late observer writes only a slot that still shows its own run, which has
\* no worker any more.
LEMMA ObserveKeeps ==
  ASSUME JobInv, NEW t \in Tokens, Observe(t)
  PROVE  JobInv'
<1> USE DEF JobInv
<1>0. engine \in EngineSlots
  BY DEF TypeOK, EngineSlots
<1>1. /\ watcher[t] = "watching" /\ run[t].kind # "native" /\ pc[t] \in {"ended", "panicked"}
      /\ watcher' = [watcher EXCEPT ![t] = "done"]
      /\ UNCHANGED <<leaseVars, workerVars, flagVars, admission, native>>
  BY DEF Observe
<1>2. PICK o \in Outcomes : Update(phase[t], t, o)
  BY <1>1 DEF Observe, PhaseFitsRun, Outcomes
<1>3. phase[t] \in Engines
  BY <1>1 DEF PhaseFitsRun
<1>4. /\ engine' \in EngineSlots /\ StoppableHasRun'
      /\ \A j \in Engines : engine[j].token # t => engine'[j] = engine[j]
  BY <1>0, <1>2, <1>3, UpdateEffect
<1>5. TypeOK'
  <2>1. watcher' \in [Tokens -> {"none", "admission", "joining", "watching", "holder", "gone",
                             "installing", "relayRunning", "relayTerminal", "nativeJoin",
                             "done"}]
    BY <1>1 DEF TypeOK
  <2> QED BY <1>1, <1>4, <2>1 DEF TypeOK, EngineSlots, leaseVars, workerVars, flagVars
<1>6. FreshTokens'
  BY <1>1 DEF FreshTokens, TypeOK, leaseVars, workerVars
<1>7. WorkerHasLease' /\ ChildIsDrained' /\ PhaseFitsRun'
  BY <1>1 DEF WorkerHasLease, ChildIsDrained, PhaseFitsRun, leaseVars, workerVars
<1>8. SlotIsInstalled'
  <2> SUFFICES ASSUME NEW u \in Tokens, pc[u] \in {"preparing", "draining"}
               PROVE  engine'[phase[u]] = [state |-> "Running", token |-> u, stoppable |-> TRUE]
    BY <1>1 DEF SlotIsInstalled, workerVars
  <2>1. /\ u # t /\ phase[u] \in Engines
        /\ engine[phase[u]] = [state |-> "Running", token |-> u, stoppable |-> TRUE]
    BY <1>1 DEF SlotIsInstalled, PhaseFitsRun, Live
  <2>2. engine[phase[u]].token # t
    BY <2>1
  <2> QED BY <1>4, <2>1, <2>2
<1> QED BY <1>4, <1>5, <1>6, <1>7, <1>8

\* The other owners of handles, and the stops.
LEMMA OwnersKeep ==
  ASSUME JobInv,
         \/ \E t \in Tokens :
              \/ ForwardCancel(t) \/ Detach(t) \/ RejectAdmission(t) \/ AdmissionRefused(t)
              \/ InstallNative(t) \/ RelayRead(t) \/ RelayWrite(t) \/ NativeFinal(t)
              \/ Disconnect(t) \/ HolderCancels(t)
         \/ \E k \in Engines : Stop(k)
         \/ StopNative
  PROVE  JobInv'
<1> DEFINE Watchers == {"none", "admission", "joining", "watching", "holder", "gone",
                        "installing", "relayRunning", "relayTerminal", "nativeJoin", "done"}
           Natives == [shown : Tokens \cup {None}, over : BOOLEAN, flag : Tokens \cup {None}]
<1> USE DEF JobInv
<1>1. UNCHANGED <<leaseVars, workerVars, admission, engine>>
  BY DEF ForwardCancel, Detach, RejectAdmission, AdmissionRefused, InstallNative, RelayRead,
         RelayWrite, NativeFinal, Disconnect, HolderCancels, Stop, StopNative
<1>2. /\ watcher' \in [Tokens -> Watchers]
      /\ \A u \in Tokens : watcher[u] = "none" => watcher'[u] = "none"
  <2>1. CASE watcher' = watcher
    BY <2>1 DEF TypeOK
  <2>2. CASE \E t \in Tokens, w \in Watchers :
               watcher[t] # "none" /\ watcher' = [watcher EXCEPT ![t] = w]
    BY <2>2 DEF TypeOK
  <2> QED BY <2>1, <2>2 DEF ForwardCancel, Detach, RejectAdmission, AdmissionRefused, InstallNative,
                            RelayRead, RelayWrite, NativeFinal, Disconnect, HolderCancels, Stop, StopNative
<1>3. native' \in Natives
  <2>1. CASE native' = native
    BY <2>1 DEF TypeOK
  <2>2. ASSUME NEW t \in Tokens, NEW b \in BOOLEAN, NEW f \in Tokens \cup {None},
               native' = [shown |-> t, over |-> b, flag |-> f]
        PROVE  native' \in Natives
    BY <2>2
  <2>3. native.flag \in Tokens \cup {None}
    BY DEF TypeOK
  <2>4. ASSUME NEW t \in Tokens, InstallNative(t) PROVE native' \in Natives
    BY <2>2, <2>4 DEF InstallNative
  <2>5. ASSUME NEW t \in Tokens, NEW b \in BOOLEAN, UpdateNative(t, b) PROVE native' \in Natives
    <3>1. (IF b THEN None ELSE native.flag) \in Tokens \cup {None}
      BY <2>3
    <3> QED BY <2>2, <2>5, <3>1 DEF UpdateNative
  <2>6. ASSUME NEW t \in Tokens, RelayWrite(t) PROVE native' \in Natives
    <3>1. (watcher[t] = "relayTerminal") \in BOOLEAN
      OBVIOUS
    <3> QED BY <2>5, <2>6, <3>1 DEF RelayWrite
  <2>7. ASSUME NEW t \in Tokens, NativeFinal(t) PROVE native' \in Natives
    BY <2>5, <2>7 DEF NativeFinal
  <2> QED BY <2>1, <2>4, <2>6, <2>7
          DEF ForwardCancel, Detach, RejectAdmission, AdmissionRefused, RelayRead, Disconnect,
              HolderCancels, Stop, StopNative
<1>4. cancel' \subseteq Tokens /\ childCancel' \subseteq Tokens
  <2>1. ASSUME NEW k \in Engines, Stop(k)
        PROVE  childCancel' = childCancel /\ \E t \in Tokens : cancel' = cancel \cup {t}
    BY <2>1 DEF Stop, StoppableHasRun
  <2>2. ASSUME StopNative
        PROVE  childCancel' = childCancel /\ \E t \in Tokens : cancel' = cancel \cup {t}
    BY <2>2 DEF StopNative, TypeOK
  <2>3. \/ UNCHANGED flagVars
        \/ childCancel' = childCancel /\ \E t \in Tokens : cancel' = cancel \cup {t}
        \/ cancel' = cancel /\ \E t \in Tokens : childCancel' = childCancel \cup {t}
    BY <2>1, <2>2 DEF ForwardCancel, Detach, RejectAdmission, AdmissionRefused, InstallNative,
                      RelayRead, RelayWrite, NativeFinal, Disconnect, HolderCancels
  <2> QED BY <2>3 DEF TypeOK, flagVars
<1>5. TypeOK'
  BY <1>1, <1>2, <1>3, <1>4 DEF TypeOK, leaseVars, workerVars
<1> QED BY <1>1, <1>2, <1>5, QuietStep

\* Every step preserves the invariant.
LEMMA StepJob == JobInv /\ [Next]_vars => JobInv'
<1> SUFFICES ASSUME JobInv, [Next]_vars PROVE JobInv'
  OBVIOUS
<1>1. CASE UNCHANGED vars
  <2>1. TypeOK'
    BY <1>1 DEF JobInv, vars, TypeOK, leaseVars, workerVars, flagVars
  <2> QED BY <1>1, <2>1, QuietStep DEF JobInv, vars
<1>2. CASE Next
  BY <1>2, StartKeeps, WorkerKeeps, ExitKeeps, ChildEndsKeeps, ObserveKeeps, OwnersKeep
  DEF Next, WorkerStep, WatcherStep
<1> QED BY <1>1, <1>2

\* The invariant holds in every state of every behaviour.
THEOREM Job == Spec => []JobInv
  BY InitJob, StepJob, PTL DEF Spec

\* Types, for any number of starts.
THEOREM JobTypes == Spec => []TypeOK
<1>1. JobInv => TypeOK
  BY DEF JobInv
<1> QED BY <1>1, Job, PTL

\* At most one workload runs in the process, and it runs under the lease in
\* force, of its own kind, for any number of starts, panics and late observers,
\* also while a chained run goes from discovery to training.
THEOREM LeaseCovers == Spec => []LeaseCoversWork
<1>1. JobInv => LeaseCoversWork
  BY DEF JobInv, WorkerHasLease, ChildIsDrained, LeaseCoversWork, Live
<1> QED BY <1>1, Job, PTL

\* A discovery or training that computes under its worker is shown as running,
\* under its own token and with its stop connected, whatever the observers of
\* earlier runs still write into the slots.
THEOREM ShownAndStoppable == Spec => []ComputingIsShownAndStoppable
<1>1. JobInv => ComputingIsShownAndStoppable
  BY DEF JobInv, SlotIsInstalled, ComputingIsShownAndStoppable
<1> QED BY <1>1, Job, PTL
=============================================================================
