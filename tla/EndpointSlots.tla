--------------------------- MODULE EndpointSlots ---------------------------
(***************************************************************************)
(* The reservations of inference capacity of                               *)
(* slime/train_agent/collect_naive_rollout_async.py.                       *)
(*                                                                         *)
(* A dispatched group runs M sibling branches, each against an engine      *)
(* endpoint that _ENDPOINT_INFLIGHT counts it on.  A worker process, on    *)
(* another node, leaves a marker file for every branch whose policy part   *)
(* is over; the driver finds the markers later and gives the reservation   *)
(* back before the group as a whole returns, to dispatch other groups.     *)
(* The same reservations are given back by the harvest of the group, by    *)
(* the end of the run, by validation for its own, and forgotten by a       *)
(* restart, while the markers stay on the disk.                            *)
(*                                                                         *)
(* What a group is worth, and which source it samples, is NaiveCollector's *)
(* matter: here a group is its _TASK_INDEX.                                *)
(***************************************************************************)
EXTENDS Integers, FiniteSets

CONSTANTS
  Endpoints,       (* (host, port) pairs, in their order                   *)
  M,               (* SWE_AGENT_NAIVE_M                                    *)
  MaxPending,      (* SWE_AGENT_NAIVE_MAX_PENDING                          *)
  MaxTail,         (* SWE_AGENT_NAIVE_MAX_TAIL_PENDING                     *)
  Rows,            (* validation rollouts of one evaluation                *)
  ProcessWorkers,  (* SWE_AGENT_VALIDATION_PROCESS_WORKERS                 *)
  MaxTasks,        (* bound: tasks dispatched                              *)
  MaxRollouts      (* bound: generate_rollout calls                        *)

ASSUME SlotsAssumption ==
  /\ Endpoints \subseteq Nat /\ IsFiniteSet(Endpoints) /\ Endpoints # {}
  /\ {M, MaxPending, ProcessWorkers, MaxTasks, MaxRollouts}
       \subseteq Nat \ {0}
  /\ {MaxTail, Rows} \subseteq Nat

VARIABLES
  open,      (* FALSE once the run is over                                 *)
  rid,       (* rollout id of the generate_rollout in progress             *)
  next,      (* _TASK_INDEX                                                *)
  inflight,  (* _ENDPOINT_INFLIGHT                                         *)
  task,      (* _PENDING: task index to what is known of the task          *)
  replay,    (* _REPLAY_PENDING_TASKS                                      *)
  eval,      (* outstanding validation rollouts, with their endpoints      *)
  ready,     (* marker files: << rollout, task, branch >>                  *)
  saved      (* the newest checkpoint                                      *)

vars == << open, rid, next, inflight, task, replay, eval, ready, saved >>

Branches == 1 .. M
Pending == DOMAIN task

(* Of a task, slot and released are the driver's, over and returned the    *)
(* worker's: the branches that are over in the worker's current run of the *)
(* task, and whether that run returned.                                    *)
NewTask(slots) ==
  [ rid |-> rid, slot |-> slots, released |-> {}, over |-> {},
    returned |-> FALSE, retried |-> FALSE ]

Snapshot(r) == [ rid |-> r, next |-> next, tasks |-> Pending \cup replay ]

Init ==
  /\ open = TRUE
  /\ rid = 0 /\ next = 1
  /\ inflight = [ e \in Endpoints |-> 0 ]
  /\ task = << >> /\ replay = {} /\ eval = << >>
  /\ ready = {}
  /\ saved = Snapshot(0)

(* Definitions named "Bug..." are plausible slips in the definition that    *)
(* follows them.  Nothing uses them: PROJECT.json names the property that  *)
(* each of them would break.                                               *)
-----------------------------------------------------------------------------
Least(load) ==
  CHOOSE e \in Endpoints :
    \A f \in Endpoints : load[e] < load[f] \/ (load[e] = load[f] /\ e <= f)

(* _pick_least_loaded_endpoints: each pick counts for the next one.        *)
Picks(n, load) ==
  LET after[i \in 0 .. n] ==
        IF i = 0 THEN load
        ELSE [ after[i - 1] EXCEPT ![Least(after[i - 1])] = @ + 1 ]
  IN  [ i \in 1 .. n |-> Least(after[i - 1]) ]

Uses(picks, e) == Cardinality({ i \in DOMAIN picks : picks[i] = e })

Reserve(load, picks) ==
  [ e \in Endpoints |-> load[e] + Uses(picks, e) ]

(* _release_endpoints never goes below zero.  "held" is a set of pairs of  *)
(* a task and one of its branches.                                         *)
Unreserve(load, held) ==
  [ e \in Endpoints |->
      LET n == Cardinality({ h \in held : task[h[1]].slot[h[2]] = e })
      IN  IF load[e] < n THEN 0 ELSE load[e] - n ]

(* The reservations of these tasks that no marker has released.            *)
Held(tasks) ==
  UNION { { << t, b >> : b \in Branches \ task[t].released } : t \in tasks }

Markers(r, t) == { << r, t, b >> : b \in Branches }

(* _refresh_branch_slots: what it finds, and the tasks and loads it leaves.*)
Found(t) == { b \in Branches : << task[t].rid, t, b >> \in ready }
Freed == { h \in Held(Pending) : h[2] \in Found(h[1]) }
FreshTask == [ t \in Pending |->
                 [ task[t] EXCEPT !.released = @ \cup Found(t) ] ]
FreshLoad == Unreserve(inflight, Freed)

Active == Cardinality(Held(Pending))
FreshActive == Active - Cardinality(Freed)
-----------------------------------------------------------------------------
(* The driver runs one thing at a time; while validation is outstanding it *)
(* waits for that.                                                         *)
Driving == open /\ eval = << >>

(* A round that dispatches nothing, or a poll that finds no finished group,*)
(* still looks at the markers.                                             *)
Refresh ==
  /\ Driving /\ replay = {}
  /\ Freed # {}
  /\ task' = FreshTask
  /\ inflight' = FreshLoad
  /\ UNCHANGED << open, rid, next, replay, eval, ready, saved >>

(* One round of _submit_until_full that dispatches a group, whatever the   *)
(* group is (a new source or a retry: both have a new index).              *)
Dispatch ==
  /\ Driving /\ replay = {}
  /\ Cardinality(Pending) < MaxPending + MaxTail
  /\ FreshActive < MaxPending * M
  /\ next <= MaxTasks
  /\ LET picks == Picks(M, FreshLoad)
     IN  /\ task' = [ t \in Pending \cup {next} |->
                        IF t = next THEN NewTask(picks) ELSE FreshTask[t] ]
         /\ inflight' = Reserve(FreshLoad, picks)
  /\ ready' = ready \ Markers(rid, next)
  /\ next' = next + 1
  /\ UNCHANGED << open, rid, replay, eval, saved >>

BugHarvestReleasesAll ==
  /\ Driving /\ replay = {}
  /\ \E reaped \in SUBSET { t \in Pending : task[t].returned } \ {{}} :
       /\ task' = [ t \in Pending \ reaped |-> FreshTask[t] ]
       /\ inflight' = Unreserve(inflight, Freed \cup (reaped \X Branches))
       /\ ready' = ready \ UNION { Markers(task[t].rid, t) : t \in reaped }
  /\ UNCHANGED << open, rid, next, replay, eval, saved >>

(* _harvest_ready: the markers first, then each group that has returned.   *)
(* What they had not released is, and their markers are removed.           *)
Harvest ==
  /\ Driving /\ replay = {}
  /\ \E reaped \in SUBSET { t \in Pending : task[t].returned } \ {{}} :
       /\ task' = [ t \in Pending \ reaped |-> FreshTask[t] ]
       /\ inflight' = Unreserve(inflight, Freed \cup Held(reaped))
       /\ ready' = ready \ UNION { Markers(task[t].rid, t) : t \in reaped }
  /\ UNCHANGED << open, rid, next, replay, eval, saved >>

(* generate_rollout returns.  The driver may save a checkpoint before it   *)
(* makes the next call.                                                    *)
EndGenerate ==
  /\ Driving /\ replay = {}
  /\ rid < MaxRollouts - 1
  /\ rid' = rid + 1
  /\ saved' \in { saved, Snapshot(rid + 1) }
  /\ UNCHANGED << open, next, inflight, task, replay, eval, ready >>

(* discard_terminal_source_work: the run is over.                          *)
Discard ==
  /\ Driving
  /\ open' = FALSE
  /\ inflight' = Unreserve(inflight, Held(Pending))
  /\ ready' = ready \ UNION { Markers(task[t].rid, t) : t \in Pending }
  /\ task' = << >> /\ replay' = {}
  /\ UNCHANGED << rid, next, eval, saved >>
-----------------------------------------------------------------------------
(* generate_validation_rollout, at a boundary, over whatever training has  *)
(* in flight: all rows reserve an endpoint, then the batches are awaited   *)
(* in order, and each releases its own, whether it failed or not.  This is *)
(* the pass RolloutManager.eval runs in its own process.  With evaluation  *)
(* by source attempt the pass runs in an actor, AsyncValidationManager,    *)
(* and its endpoints are counted there: for the training side, Rows is 0.  *)
BeginEval ==
  /\ Driving
  /\ Rows > 0
  /\ eval' = Picks(Rows, inflight)
  /\ inflight' = Reserve(inflight, eval')
  /\ UNCHANGED << open, rid, next, task, replay, ready, saved >>

NextBatch ==
  LET head == CHOOSE r \in DOMAIN eval : \A s \in DOMAIN eval : r <= s
  IN  { r \in DOMAIN eval :
          (r % ProcessWorkers) = (head % ProcessWorkers) }

EndBatch ==
  /\ open /\ eval # << >>
  /\ eval' = [ r \in DOMAIN eval \ NextBatch |-> eval[r] ]
  /\ inflight' = [ e \in Endpoints |->
       LET n == Cardinality({ r \in NextBatch : eval[r] = e })
       IN  IF inflight[e] < n THEN 0 ELSE inflight[e] - n ]
  /\ UNCHANGED << open, rid, next, task, replay, ready, saved >>
-----------------------------------------------------------------------------
(* The worker.  A branch is over: its policy part ended, or met a policy   *)
(* mismatch, and left a marker; or its attempts are used up, and it leaves *)
(* none.                                                                   *)
BranchOver(t, b, marked) ==
  /\ t \in Pending /\ ~ task[t].returned
  /\ b \notin task[t].over
  /\ task' = [ task EXCEPT ![t].over = @ \cup {b} ]
  /\ ready' = IF marked THEN ready \cup {<< task[t].rid, t, b >>} ELSE ready
  /\ UNCHANGED << open, rid, next, inflight, replay, eval, saved >>

(* The worker's result is the group's, with every branch over, or an       *)
(* exception of its set-up, before any branch began.                       *)
TaskReturns(t) ==
  /\ t \in Pending /\ ~ task[t].returned
  /\ task[t].over \in {{}, Branches}
  /\ task' = [ task EXCEPT ![t].returned = TRUE ]
  /\ UNCHANGED << open, rid, next, inflight, replay, eval, ready, saved >>

(* The process pool broke and _submit_with_rebuild submits the same task   *)
(* once more (see WorkerPool): all of its branches run again.              *)
WorkerRetries(t) ==
  /\ t \in Pending /\ ~ task[t].returned /\ ~ task[t].retried
  /\ task' = [ task EXCEPT ![t].over = {}, ![t].retried = TRUE ]
  /\ UNCHANGED << open, rid, next, inflight, replay, eval, ready, saved >>
-----------------------------------------------------------------------------
(* The job dies; load_checkpoint_state_dict keeps no reservation.  The     *)
(* workers are gone, their markers are not.                                *)
CrashAndLoad ==
  /\ open
  /\ rid' = saved.rid /\ next' = saved.next
  /\ inflight' = [ e \in Endpoints |-> 0 ]
  /\ task' = << >> /\ eval' = << >>
  /\ replay' = saved.tasks
  /\ UNCHANGED << open, ready, saved >>

BugReplayKeepsMarkers ==
  /\ Driving /\ replay # {}
  /\ LET place(t) == Cardinality({ s \in replay : s < t })
         picks == Picks(M * Cardinality(replay), inflight)
     IN  /\ task' = [ t \in replay |->
               NewTask([ b \in Branches |-> picks[M * place(t) + b] ]) ]
         /\ inflight' = Reserve(inflight, picks)
  /\ replay' = {}
  /\ UNCHANGED << open, rid, next, eval, ready, saved >>

(* _replay_checkpoint_pending_tasks: all of them at once, in order, under  *)
(* the index each had.                                                     *)
Replay ==
  /\ Driving /\ replay # {}
  /\ LET place(t) == Cardinality({ s \in replay : s < t })
         picks == Picks(M * Cardinality(replay), inflight)
     IN  /\ task' = [ t \in replay |->
               NewTask([ b \in Branches |-> picks[M * place(t) + b] ]) ]
         /\ inflight' = Reserve(inflight, picks)
  /\ ready' = ready \ UNION { Markers(rid, t) : t \in replay }
  /\ replay' = {}
  /\ UNCHANGED << open, rid, next, eval, saved >>

Next ==
  \/ Refresh \/ Dispatch \/ Harvest \/ EndGenerate \/ Discard
  \/ BeginEval \/ EndBatch
  \/ \E t \in 1 .. MaxTasks :
       \/ \E b \in Branches, marked \in BOOLEAN : BranchOver(t, b, marked)
       \/ TaskReturns(t) \/ WorkerRetries(t)
  \/ CrashAndLoad \/ Replay

Spec == Init /\ [][Next]_vars

-----------------------------------------------------------------------------
TypeOK ==
  /\ open \in BOOLEAN
  /\ rid \in 0 .. MaxRollouts - 1
  /\ next \in 1 .. MaxTasks + 1
  /\ inflight \in [ Endpoints -> Nat ]
  /\ Pending \subseteq 1 .. next - 1
  /\ \A t \in Pending :
       task[t] \in
         [ rid : 0 .. MaxRollouts - 1, slot : [ Branches -> Endpoints ],
           released : SUBSET Branches, over : SUBSET Branches,
           returned : BOOLEAN, retried : BOOLEAN ]
  /\ replay \subseteq 1 .. next - 1
  /\ DOMAIN eval \subseteq 1 .. Rows
  /\ \A r \in DOMAIN eval : eval[r] \in Endpoints
  /\ ready \subseteq (0 .. MaxRollouts - 1) \X (1 .. MaxTasks) \X Branches
  /\ saved \in [ rid : 0 .. MaxRollouts - 1, next : 1 .. MaxTasks + 1,
                 tasks : SUBSET (1 .. MaxTasks) ]

(* An endpoint's count is exactly the reservations on it that nothing gave *)
(* back: whichever of markers, harvest, end of run, validation and restart *)
(* comes first for a reservation, it is given back once, so that no engine *)
(* looks loaded for ever or idle while it is not.  The max(0, ...) of      *)
(* _release_endpoints never hides a double release.                        *)
SlotsConserved ==
  \A e \in Endpoints :
    inflight[e] =
      Cardinality({ h \in Held(Pending) : task[h[1]].slot[h[2]] = e })
        + Cardinality({ r \in DOMAIN eval : eval[r] = e })

(* The markers a task is released by are its own: those that an abandoned  *)
(* life of the job left under the same rollout and index count for nothing.*)
ReleasedIsOver ==
  \A t \in Pending :
    task[t].retried \/ task[t].released \subseteq task[t].over

(* _refresh_branch_slots: "only the exact completed policy branch is       *)
(* released" - no release before the branch is over, also of a task that   *)
(* the worker runs again.                                                  *)
OnlyCompletedIsReleased ==
  [][ \A t \in Pending \cap DOMAIN task' :
        task'[t].released \ task[t].released \subseteq task[t].over ]_vars

=============================================================================
