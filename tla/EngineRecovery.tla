--------------------------- MODULE EngineRecovery --------------------------
(***************************************************************************)
(* Rollout engines that die and are replaced: RolloutHealthMonitor of      *)
(* slime/utils/health_monitor.py, ServerGroup and RolloutServer.recover of *)
(* slime/ray/rollout.py, and update_weights of megatron_utils/actor.py.    *)
(*                                                                         *)
(* Three parties share the list all_engines: the monitor, a thread of the  *)
(* rollout manager that checks the engines one after the other and clears  *)
(* the entry of one it kills; the manager, which fills cleared entries     *)
(* while the monitor is paused; and the ranks of the trainer, which each   *)
(* read the list and then broadcast to the engines on it together.         *)
(***************************************************************************)
EXTENDS Integers, FiniteSets, Functions

CONSTANTS
  Slots,        (* positions of all_engines: 1 .. n                        *)
  Ranks,        (* ranks of the trainer; 0 is the one that calls out       *)
  MaxRollouts,  (* bound: rollouts                                         *)
  MaxDeaths     (* bound: engines that crash or stop answering             *)

ASSUME EngineAssumption ==
  /\ Slots = 1 .. Cardinality(Slots) /\ IsFiniteSet(Slots) /\ Slots # {}
  /\ Ranks \subseteq Nat /\ 0 \in Ranks
  /\ {MaxRollouts, MaxDeaths} \subseteq Nat

VARIABLES
  engines,  (* all_engines: an actor, or None once the monitor killed it   *)
  actor,    (* every actor created: whether it answers, and its weights    *)
  numNew,   (* num_new_engines                                             *)
  rollout,  (* rollout_id of the manager, -1 before the first              *)
  step,     (* where the training loop is                                  *)
  dead,     (* dead_indices of the recovery in progress                    *)
  late,     (* deaths it cannot know of: "none", one the monitor is about  *)
            (* to record ("timed out"), or one not noticed ("unnoticed")   *)
  rank,     (* of every rank: where it is, and what it read                *)
  group,    (* actors in the broadcast group                               *)
  version,  (* weight_version of the trainer                               *)
  monitor,  (* the health monitor thread, with its copy of all_engines     *)
  deaths    (* deaths so far                                               *)

vars == << engines, actor, numNew, rollout, step, dead, late, rank, group,
           version, monitor, deaths >>

None == 0
Actors == DOMAIN actor
Listed == Range(engines) \ {None}
NewActor == [ up |-> TRUE, weights |-> 0 ]
NoEngines == [ i \in Slots |-> None ]
AtStart == [ at |-> "wait", new |-> 0, list |-> NoEngines ]

Init ==
  /\ engines = [ i \in Slots |-> i ]
  /\ actor = [ a \in Slots |-> NewActor ]
  /\ numNew = Cardinality(Slots)
  /\ rollout = -1 /\ step = "update"
  /\ dead = {} /\ late = "none"
  /\ rank = [ r \in Ranks |-> AtStart ]
  /\ group = {} /\ version = 0
  /\ monitor = [ at |-> "loop", paused |-> TRUE, wait |-> TRUE,
                 slot |-> None, list |-> NoEngines ]
  /\ deaths = 0

(***************************************************************************)
(* The engines and their monitor.                                          *)
(***************************************************************************)

(* An engine crashes or hangs.  A replacement may have come meanwhile.     *)
EngineDies(a) ==
  /\ deaths < MaxDeaths /\ a \in Listed /\ actor[a].up
  /\ step # "over"
  /\ actor' = [ actor EXCEPT ![a].up = FALSE ]
  /\ deaths' = deaths + 1
  /\ late' = IF step \in {"start", "init", "read"} THEN "unnoticed" ELSE late
  /\ UNCHANGED << engines, numNew, rollout, step, dead, rank, group, version,
                  monitor >>

MonitorStep(m) ==
  /\ monitor' = m
  /\ UNCHANGED << numNew, rollout, step, dead, late, rank, group, version,
                  deaths >>

(* A pass goes over the engines that are listed now.                       *)
Passing == [ monitor EXCEPT !.at = "next", !.slot = 1, !.list = engines,
                            !.wait = FALSE ]

BackToLoop == [ monitor EXCEPT !.at = "loop", !.slot = None,
                               !.list = NoEngines ]

(* Not paused: the first wait begins, or a pass over the engines.          *)
BeginPass ==
  /\ monitor.at = "loop" /\ ~monitor.paused
  /\ MonitorStep(IF monitor.wait THEN [ monitor EXCEPT !.at = "waiting" ]
                                 ELSE Passing)
  /\ UNCHANGED << engines, actor >>

(* The first wait is over; a pause during it, if still on, means waiting   *)
(* again.                                                                  *)
EndFirstWait ==
  /\ monitor.at = "waiting"
  /\ MonitorStep(IF monitor.paused THEN BackToLoop ELSE Passing)
  /\ UNCHANGED << engines, actor >>

(* The pause is looked at before each engine, not while one is checked.    *)
SendCheck ==
  /\ monitor.at = "next"
  /\ MonitorStep(
       IF monitor.paused \/ monitor.slot \notin Slots
       THEN BackToLoop
       ELSE IF monitor.list[monitor.slot] = None
       THEN [ monitor EXCEPT !.slot = @ + 1 ]
       ELSE [ monitor EXCEPT !.at = "checking" ])
  /\ UNCHANGED << engines, actor >>

CheckPasses ==
  /\ monitor.at = "checking" /\ actor[monitor.list[monitor.slot]].up
  /\ MonitorStep([ monitor EXCEPT !.at = "next", !.slot = @ + 1 ])
  /\ UNCHANGED << engines, actor >>

(* _kill_engine: the actor is shut down, then its entry is cleared.        *)
CheckFails ==
  /\ monitor.at = "checking" /\ ~actor[monitor.list[monitor.slot]].up
  /\ MonitorStep([ monitor EXCEPT !.at = "killing" ])
  /\ UNCHANGED << engines, actor >>

ClearEntry ==
  /\ monitor.at = "killing"
  /\ engines' = [ engines EXCEPT ![monitor.slot] = None ]
  /\ MonitorStep([ monitor EXCEPT !.at = "next", !.slot = @ + 1 ])
  /\ UNCHANGED actor

(***************************************************************************)
(* The training loop: generate, then update_weights.                       *)
(***************************************************************************)
StartGenerate ==
  /\ step = "updated" /\ rollout + 1 < MaxRollouts
  /\ rollout' = rollout + 1
  /\ step' = "generate"
  /\ monitor' = [ monitor EXCEPT !.paused = FALSE, !.wait = TRUE ]
  /\ UNCHANGED << engines, actor, numNew, dead, late, rank, group, version,
                  deaths >>

(* Requests go to whatever engines are up.                                 *)
EndGenerate ==
  /\ step = "generate" /\ \E a \in Listed : actor[a].up
  /\ step' = "update"
  /\ UNCHANGED << engines, actor, numNew, rollout, dead, late, rank, group,
                  version, monitor, deaths >>

BeingKilled == IF monitor.at = "killing" THEN {engines[monitor.slot]} ELSE {}

(* recover_updatable_engines: nothing is recovered before the first        *)
(* rollout.                                                                *)
BeginRecover ==
  /\ step = "update"
  /\ monitor' = [ monitor EXCEPT !.paused = TRUE ]
  /\ dead' = IF rollout = -1 THEN {} ELSE { i \in Slots : engines[i] = None }
  /\ late' = CASE \E a \in Listed \ BeingKilled : ~actor[a].up -> "unnoticed"
              [] OTHER -> IF BeingKilled # {} THEN "timed out" ELSE "none"
  /\ step' = IF rollout = -1 THEN "read" ELSE "start"
  /\ UNCHANGED << engines, actor, numNew, rollout, rank, group, version,
                  deaths >>

(* Bug: only one engine is replaced.                                       *)
BugStartEngines ==
  /\ step = "start"
  /\ LET empty == { i \in dead : \A j \in dead : i <= j }
         first == Cardinality(Actors) IN
       /\ engines' = [ i \in Slots |-> IF i \in empty THEN first + 1
                                                      ELSE engines[i] ]
       /\ actor' = [ a \in 1 .. first + Cardinality(empty) |->
                       IF a \in Actors THEN actor[a] ELSE NewActor ]
       /\ numNew' = Cardinality(dead)
  /\ step' = "init"
  /\ UNCHANGED << rollout, dead, late, rank, group, version, monitor, deaths >>

(* start_engines: an actor for every entry that is None by now.            *)
StartEngines ==
  /\ step = "start"
  /\ LET empty == { i \in Slots : engines[i] = None }
         first == Cardinality(Actors)
         rankOf(i) == Cardinality({ j \in empty : j <= i }) IN
       /\ engines' = [ i \in Slots |-> IF i \in empty THEN first + rankOf(i)
                                                      ELSE engines[i] ]
       /\ actor' = [ a \in 1 .. first + Cardinality(empty) |->
                       IF a \in Actors THEN actor[a] ELSE NewActor ]
       /\ numNew' = Cardinality(empty)
  /\ step' = "init"
  /\ UNCHANGED << rollout, dead, late, rank, group, version, monitor,
                  deaths >>

(* The replacements are up, unless their number is not that of dead.       *)
EndRecover ==
  /\ step = "init"
  /\ step' = IF numNew = Cardinality(dead) THEN "read" ELSE "over"
  /\ UNCHANGED << engines, actor, numNew, rollout, dead, late, rank, group,
                  version, monitor, deaths >>

(* Bug: num_new_engines is cleared as soon as rank 0 has read it.          *)
BugReadEngines(r) ==
  /\ step = "read" /\ rank[r].at = "wait"
  /\ rank' = [ rank EXCEPT ![r] =
       [ at |-> IF numNew > 0 THEN "connect" ELSE "send",
         new |-> numNew, list |-> engines ] ]
  /\ numNew' = IF r = 0 THEN 0 ELSE numNew
  /\ UNCHANGED << engines, actor, rollout, step, dead, late, group, version,
                  monitor, deaths >>

(* get_updatable_engines_and_lock, by every rank for itself.               *)
ReadEngines(r) ==
  /\ step = "read" /\ rank[r].at = "wait"
  /\ rank' = [ rank EXCEPT ![r] =
       [ at |-> IF numNew > 0 THEN "connect" ELSE "send",
         new |-> numNew, list |-> engines ] ]
  /\ UNCHANGED << engines, actor, numNew, rollout, step, dead, late, group,
                  version, monitor, deaths >>

Answers(l) == \A i \in Slots : l[i] # None /\ actor[l[i]].up

(* Every rank that has to connect is there: the group is rebuilt from the  *)
(* list of rank 0, then num_new_engines is cleared.                        *)
(* Bug: new engines do not join a group that exists.                       *)
BugGroupAfter(l) == IF group = {} THEN Range(l) ELSE group
GroupAfter(l) == Range(l)

Together(p) == \A r \in Ranks : rank[r].at = p

Connect ==
  /\ step = "read" /\ Together("connect")
  /\ IF Answers(rank[0].list)
     THEN /\ group' = GroupAfter(rank[0].list)
          /\ numNew' = 0
          /\ rank' = [ r \in Ranks |-> [ rank[r] EXCEPT !.at = "send" ] ]
          /\ UNCHANGED step
     ELSE /\ step' = "over"
          /\ UNCHANGED << group, numNew, rank >>
  /\ UNCHANGED << engines, actor, rollout, dead, late, version, monitor,
                  deaths >>

(* The broadcast reaches the members of the group, and fails if an engine  *)
(* of the list is gone.                                                    *)
Broadcast ==
  /\ step = "read" /\ Together("send")
  /\ IF Answers(rank[0].list)
     THEN /\ version' = version + 1
          /\ actor' = [ a \in Actors |-> IF a \in group
                          THEN [ actor[a] EXCEPT !.weights = version + 1 ]
                          ELSE actor[a] ]
          /\ rank' = [ r \in Ranks |-> AtStart ]
          /\ step' = "updated"
     ELSE /\ step' = "over"
          /\ UNCHANGED << version, actor, rank >>
  /\ UNCHANGED << engines, numNew, rollout, dead, late, group, monitor,
                  deaths >>

Next ==
  \/ \E a \in Actors : EngineDies(a)
  \/ BeginPass \/ EndFirstWait \/ SendCheck \/ CheckPasses \/ CheckFails
  \/ ClearEntry
  \/ StartGenerate \/ EndGenerate \/ BeginRecover \/ StartEngines
  \/ EndRecover \/ Connect \/ Broadcast
  \/ \E r \in Ranks : ReadEngines(r)

Spec == Init /\ [][Next]_vars

(***************************************************************************)
(* Properties.                                                             *)
(***************************************************************************)

(* No engine that answers requests serves other weights than the last      *)
(* broadcast, replacements included: they start from the checkpoint on     *)
(* disk and join the group before the next rollout.                        *)
ServesCurrentWeights ==
  step \in {"updated", "generate"} =>
    \A a \in Listed : actor[a].up => actor[a].weights = version

(* Whether to connect is a collective decision: the ranks that have read   *)
(* num_new_engines agree, or some wait at a barrier the others never reach. *)
RanksAgree ==
  \A r, q \in Ranks : rank[r].at # "wait" /\ rank[q].at # "wait" =>
    rank[r].at = rank[q].at

(* An update fails only because of a death that was not on record when its *)
(* recovery began.                                                         *)
RecordedDeathIsSurvived == step = "over" => late # "none"

(* "If a heartbeat times out, the unhealthy SGLang server is stopped.      *)
(* After the current rollout round completes, slime restarts the server    *)
(* and updates it": an update fails only because of a death no heartbeat   *)
(* had noticed.                                                            *)
TimedOutIsRestarted == step = "over" => late = "unnoticed"
=============================================================================
