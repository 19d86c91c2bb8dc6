----------------------------- MODULE JobControl -----------------------------
(***************************************************************************)
(* Long jobs of the application: strategy discovery, model training and    *)
(* canonical native research.  A run owns the one process execution lease  *)
(* (process_execution_lease_v1.rs) and has up to three tasks: the worker,  *)
(* which holds the lease (typed_execution_v1.rs; for native research the   *)
(* blocking closure of canonical_native_discovery.rs), the child job that  *)
(* computes and sends events to the worker, and whoever keeps the handle:  *)
(* the HTTP handler until admission, then a detached observer, or a caller *)
(* that waits for the end (federation, validation, the headless pipeline). *)
(* The slots of server/state.rs are what the user sees and can stop.       *)
(*                                                                         *)
(* Progress events change neither the state nor the token nor the cancel   *)
(* flag of a slot that is running, and are left out for the legacy         *)
(* engines.  A start refused as Busy is a stuttering step.                 *)
(***************************************************************************)
EXTENDS Integers, FiniteSets

CONSTANTS
  MaxToken,   \* bound: lease tokens, that is starts that were not refused
  MaxPanics   \* bound: workers that panic

ASSUME JobAssumption == MaxToken \in Nat \ {0} /\ MaxPanics \in Nat

Tokens == 1..MaxToken
None   == 0   \* no token: real ones start at 1

Engines   == {"discovery", "training"}
Outcomes  == {"Succeeded", "Unsuccessful"}  \* degraded, failed or cancelled

\* Who starts what: the start endpoints, rediscovery, and the callers that keep
\* the handle; chain is training_after_success.
Runs ==
  { [kind |-> "discovery", chain |-> FALSE, by |-> "handler"],
    [kind |-> "training",  chain |-> FALSE, by |-> "handler"],
    [kind |-> "discovery", chain |-> TRUE,  by |-> "observer"],
    [kind |-> "discovery", chain |-> FALSE, by |-> "holder"],
    [kind |-> "discovery", chain |-> TRUE,  by |-> "holder"],
    [kind |-> "training",  chain |-> FALSE, by |-> "holder"],
    [kind |-> "native",    chain |-> FALSE, by |-> "handler"] }
NoRun == [kind |-> "none", chain |-> FALSE, by |-> "none"]

VARIABLES
  active,       \* token of the process execution lease in force, or None
  leaseKind,    \* ActiveProcessExecutionV1.kind
  nextToken,    \* next_token
  run,          \* what was started under each token
  pc,           \* where the worker of each run is
  phase,        \* the engine the run works for now, as its watch channel says
  child,        \* the computing job of the current phase, or its terminal event
  outcome,      \* the final snapshot of the run
  cancel,       \* runs whose root cancellation flag is requested
  childCancel,  \* runs whose child's flag is requested
  admission,    \* the admission oneshot of each run
  watcher,      \* where the owner of the handle is
  engine,       \* EngineSlot of discovery and of training
  native        \* CanonicalNativeResearchSlotV1

leaseVars  == <<active, leaseKind, nextToken>>
workerVars == <<run, pc, phase, child, outcome>>
flagVars   == <<cancel, childCancel>>
vars == <<leaseVars, workerVars, flagVars, admission, watcher, engine, native>>

Live == {"spawned", "preparing", "draining", "continuing", "reporting", "reported",
         "computing", "finished"}

TypeOK ==
  /\ active \in Tokens \cup {None}
  /\ leaseKind \in Engines \cup {"native", "none"}
  /\ nextToken \in 1..(MaxToken + 1)
  /\ run \in [Tokens -> Runs \cup {NoRun}]
  /\ pc \in [Tokens -> Live \cup {"none", "ended", "panicked"}]
  /\ phase \in [Tokens -> Engines \cup {"native", "none"}]
  /\ child \in [Tokens -> Outcomes \cup {"none", "running"}]
  /\ outcome \in [Tokens -> Outcomes \cup {"none"}]
  /\ cancel \subseteq Tokens /\ childCancel \subseteq Tokens
  /\ admission \in [Tokens -> {"none", "ok", "error"}]
  /\ watcher \in [Tokens -> {"none", "admission", "joining", "watching", "holder", "gone",
                             "installing", "relayRunning", "relayTerminal", "nativeJoin",
                             "done"}]
  /\ engine \in [Engines -> [state : Outcomes \cup {"Idle", "Running"},
                             token : Tokens \cup {None}, stoppable : BOOLEAN]]
  /\ native \in [shown : Tokens \cup {None}, over : BOOLEAN, flag : Tokens \cup {None}]

Init ==
  /\ active = None /\ leaseKind = "none" /\ nextToken = 1
  /\ run = [t \in Tokens |-> NoRun]
  /\ pc = [t \in Tokens |-> "none"]
  /\ phase = [t \in Tokens |-> "none"]
  /\ child = [t \in Tokens |-> "none"]
  /\ outcome = [t \in Tokens |-> "none"]
  /\ cancel = {} /\ childCancel = {}
  /\ admission = [t \in Tokens |-> "none"]
  /\ watcher = [t \in Tokens |-> "none"]
  /\ engine = [k \in Engines |-> [state |-> "Idle", token |-> None, stoppable |-> FALSE]]
  /\ native = [shown |-> None, over |-> FALSE, flag |-> None]
-----------------------------------------------------------------------------
(* Helpers.                                                                *)

Goes(t, to) == pc' = [pc EXCEPT ![t] = to]
Admit(t, answer) == admission' = [admission EXCEPT ![t] = answer]

\* Drop of the ProcessExecutionLeaseV1 with token t.
ReleaseLease(t) ==
  /\ active' = IF active = t THEN None ELSE active
  /\ leaseKind' = IF active = t THEN "none" ELSE leaseKind

\* install_engine: the slot shows a new run, which can be stopped.
Install(k, t) ==
  engine' = [engine EXCEPT ![k] = [state |-> "Running", token |-> t, stoppable |-> TRUE]]

\* Mutant: a late observation of an old run is applied to the slot of a new one.
UpdateAnyRun(k, t, o) ==
  engine' = [engine EXCEPT ![k] = [@ EXCEPT !.state = o, !.stoppable = FALSE]]

\* update_engine_snapshot with a terminal snapshot; another run's is ignored.
Update(k, t, o) ==
  engine' = IF engine[k].token = t
              THEN [engine EXCEPT ![k] = [state |-> o, token |-> t, stoppable |-> FALSE]]
              ELSE engine
-----------------------------------------------------------------------------
(* Starting a run: try_acquire_process_execution_lease_v1 and the spawn of *)
(* its worker, in one synchronous call.                                    *)

Start(r) ==
  LET t == nextToken
  IN  /\ active = None
      /\ nextToken \in Tokens
      /\ active' = t /\ leaseKind' = r.kind /\ nextToken' = t + 1
      /\ run' = [run EXCEPT ![t] = r]
      /\ phase' = [phase EXCEPT ![t] = r.kind]
      /\ Goes(t, IF r.kind = "native" THEN "computing" ELSE "spawned")
      /\ watcher' = [watcher EXCEPT ![t] =
           CASE r.by = "observer" -> "watching"
             [] r.by = "holder"   -> "holder"
             [] r.by = "handler"  -> IF r.kind = "native" THEN "installing" ELSE "admission"]
      /\ UNCHANGED <<child, outcome, flagVars, admission, engine, native>>
-----------------------------------------------------------------------------
(* The worker of a discovery or training run.                              *)

\* install_engine at the start of a phase.
InstallPhase(t) ==
  /\ pc[t] = "spawned"
  /\ Install(phase[t], t)
  /\ Goes(t, "preparing")
  /\ UNCHANGED <<leaseVars, run, phase, child, outcome, flagVars, admission, watcher, native>>

\* prepare_*_request_v1 or the start of the child fails or sees the cancel.
Refuse(t) ==
  /\ pc[t] = "preparing"
  /\ outcome' = [outcome EXCEPT ![t] = "Unsuccessful"]
  /\ Admit(t, IF admission[t] = "none" THEN "error" ELSE admission[t])
  /\ Goes(t, "reporting")
  /\ UNCHANGED <<leaseVars, run, phase, child, flagVars, watcher, engine, native>>

\* The request is prepared and start_*_job spawns the child with its own flag.
StartChild(t) ==
  /\ pc[t] = "preparing" /\ t \notin cancel
  /\ child' = [child EXCEPT ![t] = "running"]
  /\ Admit(t, "ok")
  /\ Goes(t, "draining")
  /\ UNCHANGED <<leaseVars, run, phase, outcome, flagVars, watcher, engine, native>>

\* Mutant: only the first phase of a run listens to the stop.
ForwardCancelDiscoveryOnly(t) ==
  /\ pc[t] = "draining" /\ phase[t] = "discovery"
  /\ t \in cancel \ childCancel
  /\ childCancel' = childCancel \cup {t}
  /\ UNCHANGED <<leaseVars, workerVars, cancel, admission, watcher, engine, native>>

\* drain_job_events_v1 looks at the root flag every 25 ms.
ForwardCancel(t) ==
  /\ pc[t] = "draining"
  /\ t \in cancel \ childCancel
  /\ childCancel' = childCancel \cup {t}
  /\ UNCHANGED <<leaseVars, workerVars, cancel, admission, watcher, engine, native>>

\* The child sends its terminal snapshot and returns, or panics and closes the
\* channel, which the worker turns into a failure; without a worker nobody reads.
ChildEnds(t) ==
  /\ child[t] = "running"
  /\ \E o \in Outcomes :
       child' = [child EXCEPT ![t] = IF pc[t] = "panicked" THEN "none" ELSE o]
  /\ UNCHANGED <<leaseVars, run, pc, phase, outcome, flagVars, admission, watcher, engine,
                 native>>

\* The terminal snapshot is applied, and the child's handle dropped; only success
\* goes on to the training of a chained run.
DrainTerminal(t) ==
  /\ pc[t] = "draining" /\ child[t] \in Outcomes
  /\ Update(phase[t], t, child[t])
  /\ outcome' = [outcome EXCEPT ![t] = child[t]]
  /\ child' = [child EXCEPT ![t] = "none"]
  /\ childCancel' = childCancel \ {t}
  /\ Goes(t, IF run[t].chain /\ phase[t] = "discovery" /\ child[t] = "Succeeded"
               THEN "continuing" ELSE "reporting")
  /\ UNCHANGED <<leaseVars, run, phase, cancel, admission, watcher, native>>

\* continue_discovery_training_v1 gives up: cancelled, or no usable handoff.
Abandon(t) ==
  /\ pc[t] = "continuing"
  /\ outcome' = [outcome EXCEPT ![t] = "Unsuccessful"]
  /\ Goes(t, "reporting")
  /\ UNCHANGED <<leaseVars, run, phase, child, flagVars, admission, watcher, engine, native>>

\* Mutant: the lease is dropped after discovery, to be taken again for training.
ContinueWithoutLease(t) ==
  /\ pc[t] = "continuing" /\ t \notin cancel
  /\ active' = None /\ leaseKind' = "none"
  /\ phase' = [phase EXCEPT ![t] = "training"]
  /\ Goes(t, "spawned")
  /\ UNCHANGED <<nextToken, run, child, outcome, flagVars, admission, watcher, engine, native>>

\* transition_discovery_to_training_v1: the same token, now for training.
ContinueToTraining(t) ==
  /\ pc[t] = "continuing" /\ t \notin cancel
  /\ leaseKind' = "training"
  /\ phase' = [phase EXCEPT ![t] = "training"]
  /\ Goes(t, "spawned")
  /\ UNCHANGED <<active, nextToken, run, child, outcome, flagVars, admission, watcher, engine,
                 native>>

\* persist_terminal_state_v1, before the terminal is sent.
Report(t) ==
  /\ pc[t] = "reporting"
  /\ Update(phase[t], t, outcome[t])
  /\ Goes(t, "reported")
  /\ UNCHANGED <<leaseVars, run, phase, child, outcome, flagVars, admission, watcher, native>>

\* The worker's future or closure returns and drops the lease.
End(t) ==
  /\ pc[t] \in {"reported", "finished"}
  /\ ReleaseLease(t)
  /\ Goes(t, "ended")
  /\ UNCHANGED <<nextToken, run, phase, child, outcome, flagVars, admission, watcher, engine,
                 native>>

\* A panic unwinds the worker: the lease and the admission sender are dropped;
\* a child, a task of its own, goes on.
WorkerPanics(t) ==
  /\ pc[t] \in Live
  /\ Cardinality({u \in Tokens : pc[u] = "panicked"}) < MaxPanics
  /\ ReleaseLease(t)
  /\ Admit(t, IF admission[t] = "none" THEN "error" ELSE admission[t])
  /\ Goes(t, "panicked")
  /\ UNCHANGED <<nextToken, run, phase, child, outcome, flagVars, watcher, engine, native>>
-----------------------------------------------------------------------------
(* The owners of the handles.                                              *)

\* The start endpoint has its admission and leaves the run to an observer.
Detach(t) ==
  /\ watcher[t] = "admission" /\ admission[t] = "ok"
  /\ watcher' = [watcher EXCEPT ![t] = "watching"]
  /\ UNCHANGED <<leaseVars, workerVars, flagVars, admission, engine, native>>

\* Another dataset generation was pinned: the run is cancelled and awaited.
RejectAdmission(t) ==
  /\ watcher[t] = "admission" /\ admission[t] = "ok" /\ run[t].kind = "discovery"
  /\ cancel' = cancel \cup {t}
  /\ watcher' = [watcher EXCEPT ![t] = "joining"]
  /\ UNCHANGED <<leaseVars, workerVars, childCancel, admission, engine, native>>

\* Admission was refused; the endpoint awaits the end and answers.
AdmissionRefused(t) ==
  /\ watcher[t] = "admission" /\ admission[t] = "error"
  /\ watcher' = [watcher EXCEPT ![t] = "joining"]
  /\ UNCHANGED <<leaseVars, workerVars, flagVars, admission, engine, native>>

\* The HTTP client goes away and the endpoint's future is dropped with the handle.
Disconnect(t) ==
  /\ watcher[t] \in {"admission", "installing"}
  /\ watcher' = [watcher EXCEPT ![t] = "gone"]
  /\ UNCHANGED <<leaseVars, workerVars, flagVars, admission, engine, native>>

\* The detached observer, after the worker was joined; a panic is a failure.
Observe(t) ==
  /\ watcher[t] = "watching" /\ run[t].kind # "native"
  /\ \/ pc[t] = "ended" /\ Update(phase[t], t, outcome[t])
     \/ pc[t] = "panicked" /\ Update(phase[t], t, "Unsuccessful")
  /\ watcher' = [watcher EXCEPT ![t] = "done"]
  /\ UNCHANGED <<leaseVars, workerVars, flagVars, admission, native>>

\* A timeout of the validation, the end of the federation worker, ctrl-c.
HolderCancels(t) ==
  /\ watcher[t] = "holder"
  /\ cancel' = cancel \cup {t}
  /\ UNCHANGED <<leaseVars, workerVars, childCancel, admission, watcher, engine, native>>

\* discovery_stop and training_stop: cancel_engine.
Stop(k) ==
  /\ engine[k].stoppable
  /\ cancel' = cancel \cup {engine[k].token}
  /\ UNCHANGED <<leaseVars, workerVars, childCancel, admission, watcher, engine, native>>
-----------------------------------------------------------------------------
(* Canonical native research.                                              *)

\* run_canonical_native_discovery_* returns; the watch channel has the terminal.
NativeEnds(t) ==
  /\ pc[t] = "computing"
  /\ Goes(t, "finished")
  /\ UNCHANGED <<leaseVars, run, phase, child, outcome, flagVars, admission, watcher, engine,
                 native>>

\* install_canonical_native_research_v1, awaited by the start endpoint.
InstallNative(t) ==
  /\ watcher[t] = "installing"
  /\ native' = [shown |-> t, over |-> FALSE, flag |-> t]
  /\ watcher' = [watcher EXCEPT ![t] = "watching"]
  /\ UNCHANGED <<leaseVars, workerVars, flagVars, admission, engine>>

\* The observer borrows the latest snapshot, or finds the channel closed ...
RelayRead(t) ==
  /\ watcher[t] = "watching" /\ run[t].kind = "native"
  /\ watcher' = [watcher EXCEPT ![t] =
       CASE pc[t] = "computing" -> "relayRunning"
         [] pc[t] = "panicked"  -> "nativeJoin"
         [] OTHER               -> "relayTerminal"]
  /\ UNCHANGED <<leaseVars, workerVars, flagVars, admission, engine, native>>

\* update_canonical_native_research_v1: no token is compared.
UpdateNative(t, over) ==
  native' = [shown |-> t, over |-> over, flag |-> IF over THEN None ELSE native.flag]

\* ... and writes it under the lock it had to wait for.
RelayWrite(t) ==
  /\ watcher[t] \in {"relayRunning", "relayTerminal"}
  /\ UpdateNative(t, watcher[t] = "relayTerminal")
  /\ watcher' = [watcher EXCEPT ![t] = IF @ = "relayRunning" THEN "watching" ELSE "nativeJoin"]
  /\ UNCHANGED <<leaseVars, workerVars, flagVars, admission, engine>>

\* The second terminal write, after the worker was joined.
NativeFinal(t) ==
  /\ watcher[t] = "nativeJoin" /\ pc[t] \in {"ended", "panicked"}
  /\ UpdateNative(t, TRUE)
  /\ watcher' = [watcher EXCEPT ![t] = "done"]
  /\ UNCHANGED <<leaseVars, workerVars, flagVars, admission, engine>>

\* cancel_canonical_native_research_exact_v1 for the token that is shown.
StopNative ==
  /\ native.shown # None /\ native.flag # None
  /\ cancel' = cancel \cup {native.flag}
  /\ UNCHANGED <<leaseVars, workerVars, childCancel, admission, watcher, engine, native>>
-----------------------------------------------------------------------------
WorkerStep(t) ==
  \/ InstallPhase(t) \/ Refuse(t) \/ StartChild(t) \/ ForwardCancel(t) \/ DrainTerminal(t)
  \/ Abandon(t) \/ ContinueToTraining(t) \/ Report(t) \/ End(t)

WatcherStep(t) ==
  \/ Detach(t) \/ RejectAdmission(t) \/ AdmissionRefused(t) \/ Observe(t)
  \/ InstallNative(t) \/ RelayRead(t) \/ RelayWrite(t) \/ NativeFinal(t)

Next ==
  \/ \E r \in Runs : Start(r)
  \/ \E t \in Tokens :
       \/ WorkerStep(t) \/ WatcherStep(t) \/ ChildEnds(t) \/ NativeEnds(t)
       \/ WorkerPanics(t) \/ Disconnect(t) \/ HolderCancels(t)
  \/ \E k \in Engines : Stop(k)
  \/ StopNative

Spec == Init /\ [][Next]_vars

\* The runtime polls ready tasks, and a computation that is told to stop does;
\* nothing says that one which is not told to ever ends.
Fairness ==
  \A t \in Tokens :
    /\ WF_vars(WorkerStep(t)) /\ WF_vars(WatcherStep(t))
    /\ WF_vars(t \in childCancel /\ ChildEnds(t))
    /\ WF_vars(t \in cancel /\ NativeEnds(t))

FairSpec == Spec /\ Fairness
-----------------------------------------------------------------------------
(***************************************************************************)
(* Properties.                                                             *)
(***************************************************************************)

\* One workload at a time: a worker, and a child whose worker has not panicked,
\* exist only under the lease in force, also while a chained run changes from
\* discovery to training ("Never reacquire between phases").
LeaseCoversWork ==
  \A t \in Tokens :
    /\ pc[t] \in Live => active = t /\ leaseKind = phase[t]
    /\ child[t] = "running" /\ pc[t] # "panicked" => active = t

\* As long as a discovery or a training computes under its worker, its slot says
\* so and /stop reaches it, whatever the observers of earlier runs still write.
ComputingIsShownAndStoppable ==
  \A t \in Tokens :
    child[t] = "running" /\ pc[t] = "draining" =>
      engine[phase[t]] = [state |-> "Running", token |-> t, stoppable |-> TRUE]

\* A stop of any run, in any phase, is carried out: the lease is released, so
\* that another run can start, and neither the discovery nor the training slot
\* shows the run as running any more, unless its worker panicked when nobody
\* observed it.
StopIsCarriedOut ==
  \A t \in Tokens :
    t \in cancel ~>
      /\ active # t
      /\ \/ \A k \in Engines : engine[k].token = t => engine[k].state # "Running"
         \/ pc[t] = "panicked" /\ watcher[t] # "watching"

\* The cancel of a native run stays active until its end: while it computes, once
\* it was installed, its slot shows it with its cancellation token.
NativeStopStaysActive ==
  \A t \in Tokens :
    pc[t] = "computing" /\ watcher[t] \in {"watching", "relayRunning"} =>
      native = [shown |-> t, over |-> FALSE, flag |-> t]
=============================================================================
