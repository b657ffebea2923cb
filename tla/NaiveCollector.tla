--------------------------- MODULE NaiveCollector ---------------------------
(***************************************************************************)
(* The speculative rollout collector of                                    *)
(* slime/train_agent/collect_naive_rollout_async.py.                       *)
(*                                                                         *)
(* One generate_rollout call has to return Batch accepted source groups    *)
(* for the optimizer.  The collector keeps more groups in flight than it   *)
(* needs and carries the rest over to later calls, subject to the stale=1  *)
(* contract: a group may be at most one weight update behind its consumer. *)
(* Worker results arrive in any order and with any outcome; the driver     *)
(* updates the weights between two calls, under groups still in flight;    *)
(* and the job can die at any point and resume from its last checkpoint.   *)
(*                                                                         *)
(* Source groups are numbered in draw order, so "source" is both the       *)
(* group's identity and its place in the dataset (see DataSource).         *)
(***************************************************************************)
EXTENDS Integers, FiniteSets

CONSTANTS
  Budget,        (* --train-instance-budget                               *)
  Interval,      (* --eval-instance-interval                              *)
  Batch,         (* SWE_AGENT_NAIVE_MIN_READY_GROUPS                      *)
  MaxPending,    (* SWE_AGENT_NAIVE_MAX_PENDING                           *)
  MaxTail,       (* SWE_AGENT_NAIVE_MAX_TAIL_PENDING                      *)
  NumRollout,    (* --num-rollout: optimizer updates at most              *)
  ResampleLimit, (* zero-variance resamples of one source; 3 in the code  *)
  RequireExhaustion (* --require-train-instance-budget-exhaustion         *)

ASSUME CollectorAssumption ==
  /\ {Budget, Interval, Batch, MaxPending, NumRollout} \subseteq Nat \ {0}
  /\ {MaxTail, ResampleLimit} \subseteq Nat
  /\ RequireExhaustion \in BOOLEAN

VARIABLES
  pc,         (* where generate_rollout, or the driver around it, stands  *)
  rid,        (* rollout id of the current or next generate_rollout       *)
  version,    (* checkpoint id of the committed weights; -1 is the base   *)
  cursor,     (* sample_group_index of the data source                    *)
  scheduled,  (* last_validation_scheduled_attempt of the data source     *)
  pending,    (* _PENDING: dispatched groups                              *)
  replay,     (* _REPLAY_PENDING_TASKS: restored, not yet redispatched    *)
  retry,      (* _SOURCE_RETRY_TASKS: to be dispatched again              *)
  buffer,     (* _BUFFER: valid groups waiting to be trained              *)
  exhausted,  (* _SOURCE_BUDGET_EXHAUSTED                                 *)
  partial,    (* _VALIDATION_PARTIAL_STATE: what a boundary interrupted   *)
  tally,      (* this call's carried-in, attempted, invalid and filtered  *)
  accepted,   (* sources handed to the optimizer                          *)
  closed,     (* sources given up: invalid, filtered or dropped at the end*)
  saved       (* the newest checkpoint                                    *)

collectorVars ==
  << pending, replay, retry, buffer, exhausted, partial, tally >>
vars ==
  << pc, rid, version, cursor, scheduled, collectorVars, accepted, closed,
     saved >>

NoPartial == [ groups |-> -1, tasks |-> -1 ]
NewTally(carried) ==
  [ carriedIn |-> carried, attempted |-> 0, invalid |-> 0, filtered |-> 0 ]

(* checkpoint_task_descriptor: what survives of a task when it is queued   *)
(* for another try.                                                        *)
Descriptor(t) == [ src |-> t.src, resample |-> t.resample ]

(* A dispatched task is stamped with its rollout and policy version.       *)
(* "mixed" records that the weights changed while it was running.          *)
Dispatched(d) ==
  [ src |-> d.src, resample |-> d.resample, rid |-> rid, ver |-> version,
    mixed |-> FALSE ]

(* Definitions named "Bug..." are plausible slips in the definition that    *)
(* follows them.  Nothing uses them: PROJECT.json names the property that  *)
(* each of them would break.                                               *)

Sources(S) == { t.src : t \in S }

(* checkpoint_policy_stale_lag: before update r, checkpoint r-1 is current.*)
StaleLag(t) == (rid - 1) - t.ver

BugStaleAfterTwo(t) == t.rid < rid - 2 \/ StaleLag(t) > 2

Stale(t) == t.rid < rid - 1 \/ StaleLag(t) > 1

(* No N+1 optimizer batch can use speculative work on the last rollout.    *)
TailPending == IF rid + 1 >= NumRollout THEN 0 ELSE MaxTail

BoundaryAt(attempted) == (attempted \div Interval) * Interval
BoundaryPending == BoundaryAt(cursor) > scheduled

BugLiveWithoutPending == replay \cup retry

(* Every group that is neither buffered nor decided.                       *)
LiveTasks == { Descriptor(t) : t \in pending } \cup replay \cup retry

(* checkpoint_state_dict together with the data source's own cursor.       *)
CheckpointState ==
  [ rid |-> rid, cursor |-> cursor, scheduled |-> scheduled,
    buffer |-> buffer, exhausted |-> exhausted, partial |-> partial,
    tasks |-> LiveTasks, accepted |-> accepted, closed |-> closed ]

Init ==
  /\ pc = "idle" /\ rid = 0 /\ version = -1
  /\ cursor = 0 /\ scheduled = 0
  /\ pending = {} /\ replay = {} /\ retry = {} /\ buffer = {}
  /\ exhausted = FALSE /\ partial = NoPartial /\ tally = NewTally(0)
  /\ accepted = {} /\ closed = {}
  /\ saved = CheckpointState

-----------------------------------------------------------------------------
(* generate_rollout, from its entry to the first harvest: _drop_stale_-    *)
(* buffer sends stale groups back to be sampled again, and the tasks of a  *)
(* restored checkpoint are dispatched under the resumed policy.            *)
Enter(newTally) ==
  LET stale == { t \in buffer : Stale(t) }
  IN  /\ buffer' = buffer \ stale
      /\ retry' = retry \cup { Descriptor(t) : t \in stale }
      /\ pending' = pending \cup { Dispatched(d) : d \in replay }
      /\ replay' = {}
      /\ tally' = newTally
      /\ pc' = "harvest"

(* With a batch in hand the driver prefetches the next one, unless the     *)
(* budget was met exactly: that batch is the last (see DiscardTerminal).   *)
TerminalBatch == pc = "batch" /\ RequireExhaustion /\ cursor = Budget

StartGenerate ==
  /\ pc \in {"idle", "batch"}
  /\ rid < NumRollout
  /\ ~ TerminalBatch
  /\ Enter(NewTally(Cardinality({ t \in buffer : ~ Stale(t) })))
  /\ UNCHANGED << rid, version, cursor, scheduled, exhausted, partial,
                  accepted, closed, saved >>

BugResumeResetsTally ==
  /\ pc = "boundary"
  /\ scheduled' = BoundaryAt(cursor)
  /\ Enter(NewTally(0))
  /\ UNCHANGED << rid, version, cursor, exhausted, partial, accepted,
                  closed, saved >>

(* The manager has scheduled the boundary and calls generate_rollout again *)
(* with the same rollout id; the call's statistics continue.               *)
ResumeGenerate ==
  /\ pc = "boundary"
  /\ scheduled' = BoundaryAt(cursor)
  /\ Enter(tally)
  /\ UNCHANGED << rid, version, cursor, exhausted, partial, accepted,
                  closed, saved >>

-----------------------------------------------------------------------------
(* _harvest_ready takes a finished task out of _PENDING and decides on it. *)
Reap(t) ==
  /\ pc = "harvest"
  /\ pending' = pending \ {t}
  /\ UNCHANGED << pc, rid, version, cursor, scheduled, replay, exhausted,
                  partial, accepted, saved >>

BugStaleIsDropped(t) ==
  /\ Reap(t)
  /\ UNCHANGED << retry, buffer, tally, closed >>

(* A stale result, or one that reports PolicyVersionMismatch, is sampled   *)
(* again and is not counted as an attempt.                                 *)
ReapStale(t) ==
  /\ Reap(t)
  /\ retry' = retry \cup { Descriptor(t) }
  /\ UNCHANGED << buffer, tally, closed >>

ReapInvalid(t) ==
  /\ ~ Stale(t)
  /\ Reap(t)
  /\ tally' = [ tally EXCEPT !.attempted = @ + 1, !.invalid = @ + 1 ]
  /\ closed' = closed \cup {t.src}
  /\ UNCHANGED << retry, buffer >>

(* The dynamic filter rejects a group; one without reward variance is      *)
(* sampled again a few times before its source is given up.                *)
ReapFiltered(t, zeroVariance) ==
  /\ ~ Stale(t)
  /\ Reap(t)
  /\ tally' = [ tally EXCEPT !.attempted = @ + 1, !.filtered = @ + 1 ]
  /\ IF zeroVariance /\ t.resample < ResampleLimit
     THEN /\ retry' = retry \cup
                {[ Descriptor(t) EXCEPT !.resample = @ + 1 ]}
          /\ UNCHANGED closed
     ELSE /\ closed' = closed \cup {t.src}
          /\ UNCHANGED retry
  /\ UNCHANGED buffer

ReapValid(t) ==
  /\ ~ Stale(t)
  /\ Reap(t)
  /\ tally' = [ tally EXCEPT !.attempted = @ + 1 ]
  /\ buffer' = buffer \cup {t}
  /\ UNCHANGED << retry, closed >>

(* Nothing more is ready, or the poll timed out.                           *)
EndHarvest ==
  /\ pc = "harvest"
  /\ pc' = "submit"
  /\ UNCHANGED << rid, version, cursor, scheduled, collectorVars, accepted,
                  closed, saved >>

-----------------------------------------------------------------------------
(* _submit_until_full: one round of its loop per step.  The dispatch is    *)
(* never refused here: see CommittedIsServed in PolicyVersion.             *)
Room == Cardinality(pending) < MaxPending + TailPending

SourcesLeft == cursor < Budget

WantsFresh ==
  /\ Room
  /\ retry = {}
  /\ Cardinality(buffer) + Cardinality(pending) < Batch + TailPending
  /\ ~ exhausted

SubmitRetry ==
  /\ pc = "submit"
  /\ Room
  /\ \E d \in retry :
       /\ retry' = retry \ {d}
       /\ pending' = pending \cup { Dispatched(d) }
  /\ UNCHANGED << pc, rid, version, cursor, scheduled, replay, buffer,
                  exhausted, partial, tally, accepted, closed, saved >>

SubmitFresh ==
  /\ pc = "submit"
  /\ WantsFresh
  /\ ~ BoundaryPending
  /\ SourcesLeft
  /\ pending' = pending \cup
       { Dispatched([ src |-> cursor, resample |-> 0 ]) }
  /\ cursor' = cursor + 1
  /\ UNCHANGED << pc, rid, version, scheduled, replay, retry, buffer,
                  exhausted, partial, tally, accepted, closed, saved >>

BugCountsOnlyQueued ==
  [ groups |-> Cardinality(buffer), tasks |-> Cardinality(retry) ]

PreservedCounts ==
  [ groups |-> Cardinality(buffer),
    tasks  |-> Cardinality(pending) + Cardinality(retry) ]

(* _preserve_and_raise_validation                                          *)
RaiseBoundary ==
  /\ pc' = "boundary"
  /\ partial' = PreservedCounts
  /\ UNCHANGED << rid, version, cursor, scheduled, pending, replay, retry,
                  buffer, exhausted, tally, accepted, closed, saved >>

SubmitHitsBoundary ==
  /\ pc = "submit"
  /\ WantsFresh
  /\ BoundaryPending
  /\ RaiseBoundary

BugBudgetNotNoted ==
  /\ pc = "submit"
  /\ WantsFresh
  /\ ~ BoundaryPending
  /\ ~ SourcesLeft
  /\ pc' = "check"
  /\ UNCHANGED << rid, version, cursor, scheduled, collectorVars, accepted,
                  closed, saved >>

SubmitHitsBudget ==
  /\ pc = "submit"
  /\ WantsFresh
  /\ ~ BoundaryPending
  /\ ~ SourcesLeft
  /\ exhausted' = TRUE
  /\ pc' = "check"
  /\ UNCHANGED << rid, version, cursor, scheduled, pending, replay, retry,
                  buffer, partial, tally, accepted, closed, saved >>

(* The loop ends when it is full.  With MaxPending or more groups in       *)
(* flight it also ends when their unfinished branches use up the branch    *)
(* capacity, which depends on how far each group got.                      *)
EndSubmit ==
  /\ pc = "submit"
  /\ \/ Cardinality(pending) >= MaxPending
     \/ retry = {} /\ ~ WantsFresh
  /\ pc' = "check"
  /\ UNCHANGED << rid, version, cursor, scheduled, collectorVars, accepted,
                  closed, saved >>

-----------------------------------------------------------------------------
(* The bottom of generate_rollout's loop.                                  *)
KeepWaiting ==
  /\ pc = "check"
  /\ Cardinality(buffer) < Batch
  /\ pending # {}
  /\ pc' = "harvest"
  /\ UNCHANGED << rid, version, cursor, scheduled, collectorVars, accepted,
                  closed, saved >>

(* Nothing in flight can complete the batch and no source is left: the     *)
(* partial buffer is dropped and the run ends.                             *)
StopAtBudget ==
  /\ pc = "check"
  /\ Cardinality(buffer) < Batch
  /\ pending = {}
  /\ exhausted
  /\ pc' = "stopped"
  /\ closed' = closed \cup Sources(buffer)
  /\ buffer' = {}
  /\ partial' = NoPartial
  /\ UNCHANGED << rid, version, cursor, scheduled, pending, replay, retry,
                  exhausted, tally, accepted, saved >>

(* The batch is full, but attempt N itself was a validation boundary.      *)
FullBatchHitsBoundary ==
  /\ pc = "check"
  /\ Cardinality(buffer) >= Batch
  /\ BoundaryPending
  /\ RaiseBoundary

BugPopsEverything == {buffer}

(* _pop_groups shuffles the buffer and takes the first Batch groups.       *)
Selections == { S \in SUBSET buffer : Cardinality(S) = Batch }

ReturnBatch ==
  /\ pc = "check"
  /\ Cardinality(buffer) >= Batch
  /\ ~ BoundaryPending
  /\ \E selected \in Selections :
       /\ buffer' = buffer \ selected
       /\ accepted' = accepted \cup Sources(selected)
  /\ partial' = NoPartial
  /\ pc' = "returned"
  /\ UNCHANGED << rid, version, cursor, scheduled, pending, replay, retry,
                  exhausted, tally, closed, saved >>

-----------------------------------------------------------------------------
(* The driver, train_async._train_instance_attempt_control.  With the      *)
(* prefetched batch rid in hand it finishes update rid-1 and broadcasts    *)
(* those weights, under whatever the collector still has in flight.        *)
UpdateWeights ==
  /\ pc = "returned"
  /\ version' = rid - 1
  /\ pending' = { [ t EXCEPT !.mixed = @ \/ version # rid - 1 ]
                    : t \in pending }
  /\ rid' = rid + 1
  /\ pc' = "batch"
  /\ UNCHANGED << cursor, scheduled, replay, retry, buffer, exhausted,
                  partial, tally, accepted, closed, saved >>

TerminalWork == Sources(pending \cup replay \cup retry \cup buffer)

(* discard_terminal_source_work: the batch in hand is the last one.        *)
DiscardTerminal ==
  /\ TerminalBatch
  /\ closed' = closed \cup TerminalWork
  /\ pending' = {} /\ replay' = {} /\ retry' = {} /\ buffer' = {}
  /\ partial' = NoPartial
  /\ pc' = "stopped"
  /\ UNCHANGED << rid, version, cursor, scheduled, exhausted, tally,
                  accepted, saved >>

(* The driver stages this state before it launches the next call and       *)
(* commits it once the model is durable.  A crash in between falls back to *)
(* the older checkpoint, as if this step had not been taken.               *)
Checkpoint ==
  /\ pc \in {"batch", "stopped"}
  /\ ~ TerminalBatch
  /\ saved' = CheckpointState
  /\ UNCHANGED << pc, rid, version, cursor, scheduled, collectorVars,
                  accepted, closed >>

(* The restored model is what the engines are given first.                 *)
LoadedVersion == saved.rid - 1

(* The job dies, at any point, and load_checkpoint_state_dict restores the *)
(* checkpoint.                                                             *)
CrashAndLoad ==
  /\ rid' = saved.rid
  /\ version' = LoadedVersion
  /\ cursor' = saved.cursor
  /\ scheduled' = saved.scheduled
  /\ pending' = {}
  /\ replay' = saved.tasks
  /\ retry' = {}
  /\ buffer' = saved.buffer
  /\ exhausted' = saved.exhausted
  /\ partial' = saved.partial
  /\ tally' = NewTally(0)
  /\ accepted' = saved.accepted
  /\ closed' = saved.closed
  /\ pc' = "idle"
  /\ UNCHANGED saved

Harvest ==
  \E t \in pending :
    \/ ReapStale(t) \/ ReapInvalid(t) \/ ReapValid(t)
    \/ \E zeroVariance \in BOOLEAN : ReapFiltered(t, zeroVariance)

Collect ==
  \/ StartGenerate \/ ResumeGenerate
  \/ Harvest \/ EndHarvest
  \/ SubmitRetry \/ SubmitFresh \/ SubmitHitsBoundary \/ SubmitHitsBudget
  \/ EndSubmit
  \/ KeepWaiting \/ StopAtBudget \/ FullBatchHitsBoundary \/ ReturnBatch
  \/ UpdateWeights \/ DiscardTerminal

Next == Collect \/ Checkpoint \/ CrashAndLoad

Spec == Init /\ [][Next]_vars

(* Every branch runs under a wall-clock limit, so workers answer, and a    *)
(* group that keeps being dispatched is at some point neither stale nor    *)
(* mismatched.  The job is not killed for ever.                            *)
FairSpec ==
  /\ Spec
  /\ WF_vars(Collect)
  /\ SF_vars(Harvest)
  /\ SF_vars(\E t \in pending : ReapInvalid(t) \/ ReapValid(t))
  /\ <>[][~ CrashAndLoad]_vars

-----------------------------------------------------------------------------
Groups == 0 .. Budget - 1
Descriptors == [ src : Groups, resample : 0 .. ResampleLimit ]
Tasks ==
  [ src : Groups, resample : 0 .. ResampleLimit, rid : 0 .. NumRollout,
    ver : -1 .. NumRollout, mixed : BOOLEAN ]

(* Every variable holds a value of its kind.                               *)
TypeOK ==
  /\ pc \in {"idle", "harvest", "submit", "check", "boundary", "returned",
             "batch", "stopped"}
  /\ rid \in 0 .. NumRollout
  /\ version \in -1 .. NumRollout
  /\ cursor \in 0 .. Budget
  /\ scheduled \in 0 .. Budget
  /\ pending \subseteq Tasks
  /\ buffer \subseteq Tasks
  /\ replay \subseteq Descriptors
  /\ retry \subseteq Descriptors
  /\ exhausted \in BOOLEAN
  /\ partial \in [ groups : Int, tasks : Int ]
  /\ tally \in [ carriedIn : Nat, attempted : Nat, invalid : Nat,
                 filtered : Nat ]
  /\ accepted \subseteq Groups
  /\ closed \subseteq Groups
  /\ saved \in
       [ rid : 0 .. NumRollout, cursor : 0 .. Budget,
         scheduled : 0 .. Budget, buffer : SUBSET Tasks,
         exhausted : BOOLEAN, partial : {NoPartial},
         tasks : SUBSET Descriptors, accepted : SUBSET Groups,
         closed : SUBSET Groups ]

(* The sets in a family do not overlap and together are the sources drawn. *)
Partitions(family, drawn) ==
  /\ \A i, j \in DOMAIN family : i # j => family[i] \cap family[j] = {}
  /\ UNION { family[i] : i \in DOMAIN family } = 0 .. drawn - 1

OneTaskPerSource(S) == \A t, u \in S : t.src = u.src => t = u

(* Every source instance drawn is in exactly one place: in flight, queued  *)
(* to be sampled again, buffered, trained, or given up.  None is lost and  *)
(* none can be trained twice, however often it goes stale or is replayed.  *)
ExactlyOnce ==
  /\ Partitions(<< Sources(pending), Sources(replay), Sources(retry),
                   Sources(buffer), accepted, closed >>, cursor)
  /\ OneTaskPerSource(pending) /\ OneTaskPerSource(buffer)
  /\ OneTaskPerSource(replay) /\ OneTaskPerSource(retry)

(* The same holds for what a checkpoint would restore.                     *)
CheckpointExactlyOnce ==
  /\ Partitions(<< Sources(saved.tasks), Sources(saved.buffer),
                   saved.accepted, saved.closed >>, saved.cursor)
  /\ OneTaskPerSource(saved.tasks) /\ OneTaskPerSource(saved.buffer)

(* The stale=1 contract, and more: when a batch is selected every group in *)
(* the buffer was sampled by one version of the weights, the one its       *)
(* samples are labelled with, and that is at most one update old.          *)
FreshBatch ==
  pc = "check" =>
    \A t \in buffer : /\ ~ t.mixed
                      /\ StaleLag(t) \in 0 .. 1
                      /\ t.rid \in rid - 1 .. rid

(* "observed policy weights from the future" cannot happen.                *)
NoFuturePolicy == \A t \in pending \cup buffer : StaleLag(t) >= 0

(* group_outcome_stats: what an update took in equals what it put out,     *)
(* across every interruption by a validation boundary.                     *)
UpdateConserved ==
  pc = "returned" =>
    tally.carriedIn + tally.attempted
      = Batch + tally.invalid + tally.filtered + Cardinality(buffer)

(* The RuntimeErrors of _validation_partial_resume_state are unreachable:  *)
(* on re-entry nothing is dropped and nothing replayed, so the counts that *)
(* were preserved still match; and no checkpoint ever holds such a state.  *)
BoundaryResumable ==
  /\ pc = "boundary" =>
       /\ cursor = BoundaryAt(cursor)
       /\ \A t \in buffer : ~ Stale(t)
       /\ partial = [ groups |-> Cardinality(buffer),
                      tasks |-> Cardinality(pending) + Cardinality(replay)
                                  + Cardinality(retry) ]
  /\ pc \in {"idle", "batch", "stopped"} => partial = NoPartial

(* The run ends: at its budget or at its last permitted update.            *)
Terminates == <>(pc = "stopped" \/ rid = NumRollout)

-----------------------------------------------------------------------------
(* The collector keeps the ledger of source instances: where a group waits *)
(* makes no difference to it.                                              *)
Ledger ==
  INSTANCE SourceLedger WITH
    drawn   <- cursor,
    trained <- accepted,
    dropped <- closed,
    durable <- << saved.cursor, saved.accepted, saved.closed >>

(* Every step of the collector, of its driver and of a restart is a step   *)
(* of the ledger or changes nothing in it: batches of exactly Batch open   *)
(* instances, no instance trained after it was given up, and a restart     *)
(* that rewinds cursor, trained and dropped together.                      *)
KeepsLedger == Ledger!Spec

=============================================================================
