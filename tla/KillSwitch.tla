------------------------------ MODULE KillSwitch ------------------------------
(***************************************************************************)
(* The two halts that stop new positions of a risky-mode account           *)
(* (neoethos-app):                                                         *)
(*   - the kill switch, a timestamp in risky_mode_state.json that refuses  *)
(*     risky entries for a cooldown and survives restarts                  *)
(*     (app_services/risky_mode_persistence.rs), tripped by the engines    *)
(*     (live_trading.rs, run), cleared by the bridge poll                  *)
(*     (server/bridge.rs);                                                 *)
(*   - the margin halt, a sticky flag of the process that the watchdog     *)
(*     thread raises from what the broker says of the account              *)
(*     (app_services/margin_call.rs), and that also trips the kill switch. *)
(*                                                                         *)
(* The file has no lock: a trip and the clearing of an expired one are     *)
(* each a load followed by a save.  A trip overwrites whatever it loaded,  *)
(* so its load and its save are one step; the clearing decides on what it  *)
(* loaded, so it is two.                                                   *)
(***************************************************************************)
EXTENDS Integers

CONSTANTS
  Engines,      \* risky-mode live engines
  Operator,     \* manual, resting and sidecar orders
  Cooldown,     \* RISKY_MODE_KILL_SWITCH_COOLDOWN_MS, in ticks
  MaxFailures,  \* MAX_CONSECUTIVE_POLL_FAILURES
  MaxTime,      \* bound: the clock shows 1..MaxTime
  MaxUpsets     \* bound: failed writes, restarts, damaged or newer files

ASSUME KillSwitchConstants ==
  /\ Operator \notin Engines
  /\ Cooldown \in Nat \ {0}
  /\ MaxFailures \in Nat \ {0}
  /\ MaxTime \in Nat \ {0}
  /\ MaxUpsets \in Nat

VARIABLES
  now,       \* current_unix_ms
  file,      \* risky_mode_state.json: its kind and last_killed_at (0 for None)
  bridge,    \* "expired": clear_expired_kill_switch saw an expired trip
  broker,    \* what a poll of the margin status would find
  spawned,   \* SPAWNED
  watching,  \* the watchdog thread exists
  watchdog,  \* where the watchdog is: asleep or inside arm
  failures,  \* CONSECUTIVE_FAILURES, capped at MaxFailures
  slot,      \* halt_slot: the kind of the HaltReason
  halted,    \* HALTED
  pc,        \* where the entry of each engine and of the operator is
  upsets,    \* upsets so far
  lastTrip   \* history: the last trip saved while no clearing was under way

fileVars == <<file, bridge, lastTrip>>
haltVars == <<spawned, watching, watchdog, failures, slot, halted>>
vars == <<now, fileVars, broker, haltVars, pc, upsets>>

Actors == Engines \cup {Operator}
Reasons == {"BrokerUnreachable", "MarginCall", "UnparseableResponse"}

TypeOK ==
  /\ now \in 1..MaxTime
  /\ file \in [kind : {"none", "ok", "newer", "damaged"}, killed : 0..now]
  /\ bridge \in {"idle", "expired"}
  /\ broker \in {"unset", "healthy"} \cup Reasons
  /\ spawned \in BOOLEAN /\ watching \in BOOLEAN /\ halted \in BOOLEAN
  /\ watchdog \in {"asleep", "armNew", "armSame", "trip"}
  /\ failures \in 0..MaxFailures
  /\ slot \in {"none"} \cup Reasons
  /\ pc \in [Actors -> {"idle", "gated", "allowed", "sending"}]
  /\ upsets \in 0..MaxUpsets
  /\ lastTrip \in 0..now

Init ==
  /\ now = 1
  /\ file = [kind |-> "none", killed |-> 0]
  /\ bridge = "idle"
  /\ broker = "unset"
  /\ spawned = FALSE /\ watching = FALSE /\ watchdog = "asleep"
  /\ failures = 0 /\ slot = "none" /\ halted = FALSE
  /\ pc = [a \in Actors |-> "idle"]
  /\ upsets = 0 /\ lastTrip = 0
-----------------------------------------------------------------------------
(* risky_mode_persistence.rs                                               *)

Upset == upsets < MaxUpsets /\ upsets' = upsets + 1

\* load_risky_mode_state: no file and a newer schema both load as Ok(None).
Loaded == IF file.kind = "ok" THEN file.killed ELSE 0

Elapsed(t) == now - t

\* Mutant: a file that cannot be read counts as no trip.
CoolingFailOpen == Loaded # 0 /\ Elapsed(Loaded) < Cooldown

\* kill_switch_cooldown_remaining_secs is Some: unreadable means tripped.
Cooling == file.kind = "damaged" \/ (Loaded # 0 /\ Elapsed(Loaded) < Cooldown)

CooldownExpired == Loaded # 0 /\ Elapsed(Loaded) >= Cooldown

\* record_kill_switch_trip: a file that does not load, or a failed save, leaves
\* the file as it was; the caller only logs it.
RecordTrip ==
  \/ /\ file.kind # "damaged"
     /\ file' = [kind |-> "ok", killed |-> now]
     /\ lastTrip' = IF bridge = "idle" THEN now ELSE lastTrip
     /\ UNCHANGED upsets
  \/ file.kind = "damaged" /\ UNCHANGED <<file, lastTrip, upsets>>
  \/ Upset /\ UNCHANGED <<file, lastTrip>>

\* clear_expired_kill_switch up to its decision.
ClearCheck ==
  /\ bridge = "idle" /\ CooldownExpired
  /\ bridge' = "expired"
  /\ UNCHANGED <<now, file, lastTrip, broker, haltVars, pc, upsets>>

\* Its save, of the state it loaded without the timestamp.
ClearSave ==
  /\ bridge = "expired" /\ bridge' = "idle"
  /\ \/ file' = [kind |-> "ok", killed |-> 0] /\ UNCHANGED upsets
     \/ Upset /\ UNCHANGED file
  /\ UNCHANGED <<now, lastTrip, broker, haltVars, pc>>
-----------------------------------------------------------------------------
(* live_trading.rs: the risky entry of one engine.                         *)

\* The persisted cooldown is read before anything else is decided.
CooldownGate(w) ==
  /\ pc[w] = "idle" /\ ~Cooling
  /\ pc' = [pc EXCEPT ![w] = "gated"]
  /\ UNCHANGED <<now, fileVars, broker, haltVars, upsets>>

\* RiskyModeManager::check_trade_allowed at the end of the bar (LossLedger has
\* its ledgers): an account tier trips the kill switch, an order tier refuses
\* this order only; any other gate may end the bar too.
PresendCheck(w) ==
  /\ pc[w] = "gated"
  /\ \/ /\ pc' = [pc EXCEPT ![w] = "allowed"]
        /\ UNCHANGED <<fileVars, upsets>>
     \/ /\ pc' = [pc EXCEPT ![w] = "idle"]
        /\ UNCHANGED <<fileVars, upsets>>
     \/ /\ pc' = [pc EXCEPT ![w] = "idle"]
        /\ RecordTrip /\ UNCHANGED bridge
  /\ UNCHANGED <<now, broker, haltVars>>

\* ensure_spawned: one attempt per process, and the thread may not start.
EnsureSpawned ==
  \/ spawned /\ UNCHANGED <<spawned, watching, upsets>>
  \/ ~spawned /\ spawned' = TRUE /\ watching' = TRUE /\ UNCHANGED upsets
  \/ ~spawned /\ spawned' = TRUE /\ Upset /\ UNCHANGED watching

\* active_halt: the flag first, then the slot.
ActiveHalt == halted /\ slot # "none"

\* A manual order runs no risky-mode gate.
ManualOrder ==
  /\ pc[Operator] = "idle"
  /\ pc' = [pc EXCEPT ![Operator] = "allowed"]
  /\ UNCHANGED <<now, fileVars, broker, haltVars, upsets>>

\* ensure_entry_margin_halt_clear of submit_market_order_blocking and
\* prepare_new_order; an order needs a configured broker.
HaltCheck(a) ==
  /\ pc[a] = "allowed"
  /\ pc' = [pc EXCEPT ![a] = IF ActiveHalt \/ broker = "unset" THEN "idle" ELSE "sending"]
  /\ EnsureSpawned
  /\ UNCHANGED <<now, fileVars, broker, watchdog, failures, slot, halted>>

\* The order leaves, or a later check refuses it.
Send(a) ==
  /\ pc[a] = "sending"
  /\ pc' = [pc EXCEPT ![a] = "idle"]
  /\ UNCHANGED <<now, fileVars, broker, haltVars, upsets>>
-----------------------------------------------------------------------------
(* margin_call.rs: the watchdog thread.                                    *)

\* arm, its first part: the reason is stored; the same kind again trips nothing.
Arm(reason) ==
  /\ slot' = reason
  /\ watchdog' = IF slot = reason THEN "armSame" ELSE "armNew"

\* Mutant: a failed poll does not count towards the budget.
PollForgetsFailures ==
  /\ watching /\ watchdog = "asleep"
  /\ \/ broker = "unset" /\ UNCHANGED <<failures, slot, watchdog>>
     \/ broker = "healthy" /\ failures' = 0 /\ UNCHANGED <<slot, watchdog>>
     \/ broker = "MarginCall" /\ failures' = 0 /\ Arm(broker)
     \/ broker = "UnparseableResponse" /\ Arm(broker) /\ UNCHANGED failures
     \/ broker = "BrokerUnreachable" /\ failures' = 0 /\ UNCHANGED <<slot, watchdog>>
  /\ UNCHANGED <<now, fileVars, broker, spawned, watching, halted, pc, upsets>>

\* poll_once: an unreadable answer arms at once, an unreachable broker only
\* when the failure budget is spent; any readable answer resets the count.
Poll ==
  /\ watching /\ watchdog = "asleep"
  /\ \/ broker = "unset" /\ UNCHANGED <<failures, slot, watchdog>>
     \/ broker = "healthy" /\ failures' = 0 /\ UNCHANGED <<slot, watchdog>>
     \/ broker = "MarginCall" /\ failures' = 0 /\ Arm(broker)
     \/ broker = "UnparseableResponse" /\ Arm(broker) /\ UNCHANGED failures
     \/ /\ broker = "BrokerUnreachable" /\ failures + 1 < MaxFailures
        /\ failures' = failures + 1 /\ UNCHANGED <<slot, watchdog>>
     \/ /\ broker = "BrokerUnreachable" /\ failures + 1 >= MaxFailures
        /\ failures' = MaxFailures /\ Arm(broker)
  /\ UNCHANGED <<now, fileVars, broker, spawned, watching, halted, pc, upsets>>

\* arm, its second part: the flag.
RaiseFlag ==
  /\ watchdog \in {"armNew", "armSame"}
  /\ halted' = TRUE
  /\ watchdog' = IF watchdog = "armNew" THEN "trip" ELSE "asleep"
  /\ UNCHANGED <<now, fileVars, broker, spawned, watching, failures, slot, pc, upsets>>

\* arm, its last part: the durable half.
TripFromHalt ==
  /\ watchdog = "trip" /\ watchdog' = "asleep"
  /\ RecordTrip
  /\ UNCHANGED <<now, bridge, broker, spawned, watching, failures, slot, halted, pc>>
-----------------------------------------------------------------------------
(* The environment.                                                        *)

Tick ==
  /\ now < MaxTime /\ now' = now + 1
  /\ UNCHANGED <<fileVars, broker, haltVars, pc, upsets>>

\* The broker, the network or the credentials change.
BrokerChanges ==
  /\ broker' \in {"healthy"} \cup Reasons
  /\ broker' # broker
  /\ UNCHANGED <<now, fileVars, haltVars, pc, upsets>>

\* The process ends and starts again, perhaps as an older build that finds the
\* file of a newer one.
Restart ==
  /\ Upset
  /\ file' \in {file, IF file.kind = "ok" THEN [file EXCEPT !.kind = "newer"] ELSE file}
  /\ bridge' = "idle"
  /\ spawned' = FALSE /\ watching' = FALSE /\ watchdog' = "asleep"
  /\ failures' = 0 /\ slot' = "none" /\ halted' = FALSE
  /\ pc' = [a \in Actors |-> "idle"]
  /\ UNCHANGED <<now, broker, lastTrip>>

\* The file becomes unreadable.
Damage ==
  /\ Upset
  /\ file.kind \in {"ok", "newer"} /\ file' = [file EXCEPT !.kind = "damaged"]
  /\ UNCHANGED <<now, bridge, broker, haltVars, pc, lastTrip>>

\* The operator deletes the file, which lifts the kill switch.
DeleteFile ==
  /\ file.kind = "damaged" /\ file' = [kind |-> "none", killed |-> 0]
  /\ lastTrip' = 0
  /\ UNCHANGED <<now, bridge, broker, haltVars, pc, upsets>>

BridgeStep == ClearCheck \/ ClearSave
WatchdogStep == Poll \/ RaiseFlag \/ TripFromHalt
EngineStep(w) == CooldownGate(w) \/ PresendCheck(w)

Next ==
  \/ BridgeStep \/ WatchdogStep
  \/ \E w \in Engines : EngineStep(w)
  \/ ManualOrder \/ \E a \in Actors : HaltCheck(a) \/ Send(a)
  \/ Tick \/ BrokerChanges \/ Restart \/ Damage \/ DeleteFile

Spec == Init /\ [][Next]_vars

\* The watchdog thread polls for ever once it runs, and a blocking submit ends.
FairSpec ==
  Spec /\ WF_vars(WatchdogStep) /\ \A a \in Actors : WF_vars(Send(a))
-----------------------------------------------------------------------------
(***************************************************************************)
(* Properties.                                                             *)
(***************************************************************************)

\* After a trip was saved no engine passes the cooldown gate until the cooldown
\* is over, across restarts, damaged files, failed writes and the bridge's
\* clearing ("a tripped kill switch keeps refusing entries across restarts").
\* Two cases are not covered: a trip saved while the clearing of an older one is
\* between its load and its save (which erases it), and a file of a newer
\* schema (which loads as no file).
CooldownHolds ==
  [][ \A w \in Engines :
        pc[w] = "idle" /\ pc'[w] = "gated" /\ lastTrip # 0 /\ file.kind # "newer"
          => now - lastTrip >= Cooldown ]_vars

\* When the watchdog runs and the broker stays at margin call, unreadable or
\* unreachable, in any mixture, then orders by any route eventually stop going
\* out for good.
BadBrokerStopsOrders ==
  <>[](watching /\ broker \in Reasons) => <>[](\A a \in Actors : pc[a] # "sending")
=============================================================================
