--------------------------- MODULE LanesCollector ---------------------------
(***************************************************************************)
(* The rollout collector of slime/train_agent/collect_lanes_rollout_async. *)
(*                                                                         *)
(* It differs from NaiveCollector in what it collects and in what it       *)
(* promises.  One task explores one source instance and yields up to two   *)
(* groups, a root and a beam group, each with a fate of its own.  A task   *)
(* gives its inference capacity back at the policy boundary of             *)
(* ParallelSearch while hosted judging goes on, so capacity and work in    *)
(* flight are two numbers.  A call prefetches for the next one after its   *)
(* batch was popped, and meets the validation boundary there too.  What is *)
(* stale is given up, not sampled again.                                   *)
(***************************************************************************)
EXTENDS Integers, Sequences, FiniteSets, SequencesExt

CONSTANTS
  Budget,        (* --train-instance-budget                               *)
  Interval,      (* --eval-instance-interval                              *)
  Batch,         (* --rollout-batch-size, in groups                       *)
  OverSampling,  (* --over-sampling-batch-size, in groups                 *)
  MaxPending,    (* SWE_AGENT_LANES_MAX_PENDING                           *)
  Overlap,       (* SWE_AGENT_LANES_MAX_LANE_C_PENDING                    *)
  NumRollout,    (* --num-rollout: optimizer updates at most              *)
  ResampleLimit, (* _MAX_VARIANCE_GROUP_ATTEMPTS - 1; 3 in the code       *)
  Kinds,         (* groups of an instance: root, and beam with depth2     *)
  RequireExhaustion (* --require-train-instance-budget-exhaustion         *)

ASSUME LanesAssumption ==
  /\ {Budget, Interval, Batch, MaxPending, NumRollout} \subseteq Nat \ {0}
  /\ {Overlap, ResampleLimit, OverSampling} \subseteq Nat
  /\ OverSampling >= Batch
  /\ Kinds \in { {"root"}, {"root", "beam"} }
  /\ RequireExhaustion \in BOOLEAN

VARIABLES
  pc,         (* where generate_rollout, or the driver around it, stands  *)
  rid,        (* rollout id of the current or next generate_rollout       *)
  version,    (* checkpoint id of the committed weights; -1 is the base   *)
  cursor,     (* sample_group_index of the data source                    *)
  scheduled,  (* last_validation_scheduled_attempt of the data source     *)
  pending,    (* _PENDING: dispatched tasks                               *)
  replay,     (* _REPLAY_PENDING_TASKS: restored, not yet dispatched      *)
  resample,   (* _VARIANCE_RESAMPLE_TASKS, a queue                        *)
  buffer,     (* _BUFFER: valid groups, first in first out                *)
  exhausted,  (* _SOURCE_BUDGET_EXHAUSTED                                 *)
  boundary,   (* _SOURCE_VALIDATION_ERROR: its boundary, 0 for none       *)
  partial,    (* _VALIDATION_PARTIAL_STATE: what a boundary interrupted   *)
  accepted,   (* groups, <<source, kind>>, handed to the optimizer        *)
  closed,     (* groups given up: invalid, filtered, skipped or dropped   *)
  saved       (* the newest checkpoint                                    *)

work == << pending, replay, resample, buffer >>
vars == << pc, rid, version, cursor, scheduled, work, exhausted, boundary,
           partial, accepted, closed, saved >>

NoPartial == [ rid |-> -1, boundary |-> 0, groups |-> <<>>, tasks |-> -1 ]

(* checkpoint_task_descriptor: what is asked for, without its routes.      *)
Descriptor(t) == [ src |-> t.src, kinds |-> t.kinds, attempt |-> t.attempt ]

(* "mixed" records that the weights changed while the task was running,    *)
(* "active" that it still holds policy endpoints.                          *)
Dispatched(d) ==
  [ src |-> d.src, kinds |-> d.kinds, attempt |-> d.attempt, rid |-> rid,
    ver |-> version, mixed |-> FALSE, active |-> TRUE ]

Buffered(t, kind) ==
  [ src |-> t.src, kind |-> kind, rid |-> t.rid, ver |-> t.ver,
    mixed |-> t.mixed ]

(* _expected_usage_group_specs: the groups a task has to account for.      *)
Expected(t) == { t.src } \X t.kinds
ExpectedOf(S) == UNION { Expected(t) : t \in S }
GroupsOf(buf) == { << b.src, b.kind >> : b \in ToSet(buf) }

(* Definitions named "Bug..." are plausible slips in the definition that    *)
(* follows them; nothing uses them.                                        *)

StaleLag(t) == (rid - 1) - t.ver

BugStale(t) == t.rid < rid - 2 \/ StaleLag(t) > 2

Stale(t) == t.rid < rid - 1 \/ StaleLag(t) > 1

BoundaryAt(attempted) == (attempted \div Interval) * Interval

(* _pending_validation_boundary, and the test of get_samples.              *)
BoundaryPending == BoundaryAt(cursor) > scheduled

Live == { Descriptor(t) : t \in pending } \cup replay \cup ToSet(resample)

(* checkpoint_state_dict, and the data source's cursor.                    *)
CheckpointState ==
  [ rid |-> rid, cursor |-> cursor, scheduled |-> scheduled,
    buffer |-> buffer, exhausted |-> exhausted, boundary |-> boundary,
    partial |-> partial, tasks |-> Live, accepted |-> accepted,
    closed |-> closed ]

Init ==
  /\ pc = "idle" /\ rid = 0 /\ version = -1
  /\ cursor = 0 /\ scheduled = 0
  /\ pending = {} /\ replay = {} /\ resample = <<>> /\ buffer = <<>>
  /\ exhausted = FALSE /\ boundary = 0 /\ partial = NoPartial
  /\ accepted = {} /\ closed = {}
  /\ saved = CheckpointState

-----------------------------------------------------------------------------
BufferKinds(buf) == [ i \in DOMAIN buf |-> buf[i].kind ]

BugPreserve(raised) ==
  /\ pc' = "boundary"
  /\ boundary' = raised
  /\ partial' = [ rid |-> rid, boundary |-> raised,
                  groups |-> BufferKinds(buffer'),
                  tasks |-> Cardinality(pending') ]

(* _preserve_and_raise_validation                                          *)
Preserve(raised) ==
  /\ pc' = "boundary"
  /\ boundary' = raised
  /\ partial' = [ rid |-> rid, boundary |-> raised,
                  groups |-> BufferKinds(buffer'),
                  tasks |-> Cardinality(pending') + Len(resample) ]

(* A saved boundary is forgotten once its validation is scheduled.         *)
OpenBoundary == IF scheduled' >= boundary THEN 0 ELSE boundary

(* _drop_stale_buffer                                                      *)
FreshBuffer ==
  LET kept[n \in 0 .. Len(buffer)] ==
        IF n = 0 THEN << >>
        ELSE IF Stale(buffer[n]) THEN kept[n - 1]
        ELSE Append(kept[n - 1], buffer[n])
  IN  kept[Len(buffer)]

(* _replay_checkpoint_pending_tasks: all at once, whatever the caps.       *)
Replayed == { Dispatched(d) : d \in replay }

(* generate_rollout up to its first harvest: stale groups leave the buffer *)
(* for good, restored tasks are all dispatched under the resumed policy,   *)
(* and a boundary left over from the last call is raised before a carried  *)
(* batch can be trained past it.                                           *)
Enter ==
  /\ buffer' = FreshBuffer
  /\ closed' = closed \cup (GroupsOf(buffer) \ GroupsOf(FreshBuffer))
  /\ pending' = pending \cup Replayed
  /\ replay' = {}
  /\ IF OpenBoundary # 0
     THEN Preserve(OpenBoundary)
     ELSE IF BoundaryAt(cursor) > scheduled'
     THEN Preserve(BoundaryAt(cursor))
     ELSE /\ pc' = "harvest"
          /\ boundary' = 0
          /\ UNCHANGED partial
  /\ UNCHANGED << rid, version, cursor, resample, exhausted, accepted,
                  saved >>

(* See NaiveCollector: the batch in hand is the last one.                  *)
TerminalBatch == pc = "batch" /\ RequireExhaustion /\ cursor = Budget

StartGenerate ==
  /\ pc \in {"idle", "batch"}
  /\ rid < NumRollout
  /\ ~ TerminalBatch
  /\ UNCHANGED scheduled
  /\ Enter

(* The manager has scheduled the boundary and calls again with the same    *)
(* rollout id.                                                             *)
ResumeGenerate ==
  /\ pc = "boundary"
  /\ scheduled' = BoundaryAt(cursor)
  /\ Enter

-----------------------------------------------------------------------------
(* The policy boundary of a task, marked by its worker and noticed by      *)
(* _refresh_policy_slots when the collector next looks.                    *)
PolicyDone(t) ==
  /\ pc \in {"harvest", "submit", "prefetch"}
  /\ t.active
  /\ pending' = (pending \ {t}) \cup {[ t EXCEPT !.active = FALSE ]}
  /\ UNCHANGED << pc, rid, version, cursor, scheduled, replay, resample,
                  buffer, exhausted, boundary, partial, accepted, closed,
                  saved >>

Reap(t) ==
  /\ pc = "harvest"
  /\ pending' = pending \ {t}
  /\ UNCHANGED << pc, rid, version, cursor, scheduled, replay, exhausted,
                  boundary, partial, accepted, saved >>

(* A stale result is never looked at, and its groups are given up.         *)
ReapStale(t) ==
  /\ Stale(t)
  /\ Reap(t)
  /\ closed' = closed \cup Expected(t)
  /\ UNCHANGED << resample, buffer >>

(* The root group of a result comes before its beam group.                 *)
InOrder(S) ==
  IF S = {"root", "beam"} THEN << "root", "beam" >>
  ELSE IF S = {} THEN << >>
  ELSE << CHOOSE k \in S : TRUE >>

BugResampleOf(t, kind) ==
  [ src |-> t.src, kinds |-> t.kinds, attempt |-> t.attempt + 1 ]

(* A group without reward variance is sampled again, on its own.           *)
ResampleOf(t, kind) ==
  [ src |-> t.src, kinds |-> {kind}, attempt |-> t.attempt + 1 ]

(* What a worker's run of ParallelSearch comes back with, group by group.  *)
Outcomes(t) == [ t.kinds -> {"valid", "no variance", "given up"} ]

(* The groups of a result: valid ones are buffered; those the dynamic      *)
(* filter rejects for want of variance are sampled again while attempts    *)
(* are left; the rest, be it filtered, skipped by the topology, missing or *)
(* invalid, and all of a failed task, is given up.                         *)
ReapResult(t) ==
  \E outcome \in Outcomes(t) :
    LET valid == { k \in t.kinds : outcome[k] = "valid" }
        again == { k \in t.kinds : /\ outcome[k] = "no variance"
                                   /\ t.attempt < ResampleLimit }
    IN  /\ ~ Stale(t)
        /\ Reap(t)
        /\ buffer' = buffer \o
             [ i \in DOMAIN InOrder(valid) |-> Buffered(t, InOrder(valid)[i]) ]
        /\ resample' = resample \o
             [ i \in DOMAIN InOrder(again) |->
                 ResampleOf(t, InOrder(again)[i]) ]
        /\ closed' = closed \cup
             ({ t.src } \X (t.kinds \ (valid \cup again)))

(* Nothing more is ready, or the poll timed out.                           *)
EndHarvest ==
  /\ pc = "harvest"
  /\ pc' = IF Len(buffer) >= Batch THEN "check" ELSE "submit"
  /\ UNCHANGED << rid, version, cursor, scheduled, work, exhausted, boundary,
                  partial, accepted, closed, saved >>

-----------------------------------------------------------------------------
(* _submit_until_full, one round of its loop per step.  It runs while a    *)
(* batch is collected, and once more after it was popped.                  *)
Submitting == pc \in {"submit", "prefetch"}

Active == Cardinality({ t \in pending : t.active })

Room == Active < MaxPending /\ Cardinality(pending) < MaxPending + Overlap

(* The average number of groups of an instance so far is somewhere between *)
(* one and the number of kinds.                                            *)
MayWantMore == Len(buffer) + Active < OverSampling
MayBeEnough == Len(buffer) + Active * Cardinality(Kinds) >= OverSampling

(* Resamples are submitted even when no fresh instance may be drawn.       *)
MaySubmit ==
  /\ Room /\ MayWantMore
  /\ resample # <<>> \/ (~ exhausted /\ boundary = 0)

SubmitResample ==
  /\ Submitting
  /\ MaySubmit
  /\ resample # <<>>
  /\ pending' = pending \cup { Dispatched(Head(resample)) }
  /\ resample' = Tail(resample)
  /\ UNCHANGED << pc, rid, version, cursor, scheduled, replay, buffer,
                  exhausted, boundary, partial, accepted, closed, saved >>

Draws == Submitting /\ MaySubmit /\ resample = <<>>

(* An instance without a direct rubric is skipped where it is drawn.       *)
SubmitFresh(eligible) ==
  /\ Draws
  /\ ~ BoundaryPending
  /\ cursor < Budget
  /\ cursor' = cursor + 1
  /\ IF eligible
     THEN /\ pending' = pending \cup
               { Dispatched([ src |-> cursor, kinds |-> Kinds,
                              attempt |-> 0 ]) }
          /\ UNCHANGED closed
     ELSE /\ closed' = closed \cup ({cursor} \X Kinds)
          /\ UNCHANGED pending
  /\ UNCHANGED << pc, rid, version, scheduled, replay, resample, buffer,
                  exhausted, boundary, partial, accepted, saved >>

SubmitHitsBoundary ==
  /\ Draws
  /\ BoundaryPending
  /\ boundary' = BoundaryAt(cursor)
  /\ UNCHANGED << pc, rid, version, cursor, scheduled, work, exhausted,
                  partial, accepted, closed, saved >>

SubmitHitsBudget ==
  /\ Draws
  /\ ~ BoundaryPending
  /\ cursor >= Budget
  /\ exhausted' = TRUE
  /\ UNCHANGED << pc, rid, version, cursor, scheduled, work, boundary,
                  partial, accepted, closed, saved >>

(* The loop is left.  A boundary it met interrupts the batch being         *)
(* collected; behind a popped batch it waits for the next call.            *)
EndSubmit ==
  /\ Submitting
  /\ ~ MaySubmit \/ MayBeEnough
  /\ IF pc = "submit" /\ boundary # 0
     THEN UNCHANGED work /\ Preserve(boundary)
     ELSE /\ pc' = IF pc = "submit" THEN "check" ELSE "returned"
          /\ UNCHANGED << work, boundary, partial >>
  /\ UNCHANGED << rid, version, cursor, scheduled, exhausted, accepted,
                  closed, saved >>

-----------------------------------------------------------------------------
(* The bottom of generate_rollout's loop.                                  *)
KeepWaiting ==
  /\ pc = "check"
  /\ Len(buffer) < Batch
  /\ pending # {} \/ resample # <<>>
  /\ pc' = "harvest"
  /\ UNCHANGED << rid, version, cursor, scheduled, work, exhausted, boundary,
                  partial, accepted, closed, saved >>

(* The budget is used up short of a batch, which is dropped.               *)
StopAtBudget ==
  /\ pc = "check"
  /\ Len(buffer) < Batch
  /\ pending = {} /\ resample = <<>>
  /\ exhausted
  /\ pc' = "stopped"
  /\ closed' = closed \cup GroupsOf(buffer)
  /\ buffer' = <<>>
  /\ partial' = NoPartial
  /\ UNCHANGED << rid, version, cursor, scheduled, pending, replay, resample,
                  exhausted, boundary, accepted, saved >>

BatchReady == pc = "check" /\ Len(buffer) >= Batch

(* The last group of the batch may come from attempt N, 2N, ... itself.    *)
FullBatchHitsBoundary ==
  /\ BatchReady
  /\ BoundaryPending
  /\ UNCHANGED work
  /\ Preserve(BoundaryAt(cursor))
  /\ UNCHANGED << rid, version, cursor, scheduled, exhausted, accepted,
                  closed, saved >>

BugPopBatch ==
  /\ BatchReady
  /\ accepted' = accepted \cup GroupsOf(SubSeq(buffer, 1, Batch))
  /\ buffer' = SubSeq(buffer, Batch + 1, Len(buffer))
  /\ partial' = NoPartial
  /\ pc' = "prefetch"
  /\ UNCHANGED << rid, version, cursor, scheduled, pending, replay, resample,
                  exhausted, boundary, closed, saved >>

PopBatch ==
  /\ BatchReady
  /\ ~ BoundaryPending
  /\ accepted' = accepted \cup GroupsOf(SubSeq(buffer, 1, Batch))
  /\ buffer' = SubSeq(buffer, Batch + 1, Len(buffer))
  /\ partial' = NoPartial
  /\ pc' = "prefetch"
  /\ UNCHANGED << rid, version, cursor, scheduled, pending, replay, resample,
                  exhausted, boundary, closed, saved >>

-----------------------------------------------------------------------------
(* The driver (see NaiveCollector): with batch rid in hand it finishes     *)
(* update rid-1 and broadcasts those weights, under what is in flight.     *)
UpdateWeights ==
  /\ pc = "returned"
  /\ version' = rid - 1
  /\ pending' = { [ t EXCEPT !.mixed = @ \/ version # rid - 1 ]
                    : t \in pending }
  /\ rid' = rid + 1
  /\ pc' = "batch"
  /\ UNCHANGED << cursor, scheduled, replay, resample, buffer, exhausted,
                  boundary, partial, accepted, closed, saved >>

(* discard_terminal_source_work                                            *)
DiscardTerminal ==
  /\ TerminalBatch
  /\ closed' = closed \cup ExpectedOf(Live) \cup GroupsOf(buffer)
  /\ pending' = {} /\ replay' = {} /\ resample' = <<>> /\ buffer' = <<>>
  /\ partial' = NoPartial
  /\ pc' = "stopped"
  /\ UNCHANGED << rid, version, cursor, scheduled, exhausted, boundary,
                  accepted, saved >>

Checkpoint ==
  /\ pc \in {"batch", "stopped"}
  /\ ~ TerminalBatch
  /\ saved' = CheckpointState
  /\ UNCHANGED << pc, rid, version, cursor, scheduled, work, exhausted,
                  boundary, partial, accepted, closed >>

(* The job dies, and load_checkpoint_state_dict restores the checkpoint:   *)
(* queued resamples become tasks to replay.                                *)
CrashAndLoad ==
  /\ rid' = saved.rid
  /\ version' = saved.rid - 1
  /\ cursor' = saved.cursor
  /\ scheduled' = saved.scheduled
  /\ pending' = {}
  /\ replay' = saved.tasks
  /\ resample' = <<>>
  /\ buffer' = saved.buffer
  /\ exhausted' = saved.exhausted
  /\ boundary' = saved.boundary
  /\ partial' = saved.partial
  /\ accepted' = saved.accepted
  /\ closed' = saved.closed
  /\ pc' = "idle"
  /\ UNCHANGED saved

Harvest == \E t \in pending : ReapStale(t) \/ ReapResult(t)

Collect ==
  \/ StartGenerate \/ ResumeGenerate
  \/ Harvest \/ EndHarvest
  \/ SubmitResample \/ SubmitHitsBoundary \/ SubmitHitsBudget \/ EndSubmit
  \/ \E eligible \in BOOLEAN : SubmitFresh(eligible)
  \/ KeepWaiting \/ StopAtBudget \/ FullBatchHitsBoundary \/ PopBatch
  \/ UpdateWeights \/ DiscardTerminal

Next ==
  \/ Collect \/ Checkpoint \/ CrashAndLoad
  \/ \E t \in pending : PolicyDone(t)

Spec == Init /\ [][Next]_vars

-----------------------------------------------------------------------------
(* The sets in a family do not overlap and together are these groups.      *)
Partitions(family, groups) ==
  /\ \A i, j \in DOMAIN family : i # j => family[i] \cap family[j] = {}
  /\ UNION { family[i] : i \in DOMAIN family } = groups

Drawn(n) == (0 .. n - 1) \X Kinds

NoOverlap(S) ==
  \A t, u \in S : t # u => Expected(t) \cap Expected(u) = {}

(* Every group of every instance drawn is in exactly one place: in flight, *)
(* waiting to be sampled again, buffered, trained, or given up, whatever   *)
(* became of its sibling; and so it is in what a checkpoint restores.      *)
GroupsConserved ==
  /\ Partitions(<< ExpectedOf(pending), ExpectedOf(replay),
                   ExpectedOf(ToSet(resample)), GroupsOf(buffer), accepted,
                   closed >>, Drawn(cursor))
  /\ NoOverlap(pending) /\ NoOverlap(replay) /\ NoOverlap(ToSet(resample))
  /\ Cardinality(GroupsOf(buffer)) = Len(buffer)
  /\ Cardinality(ToSet(resample)) = Len(resample)
  /\ Partitions(<< ExpectedOf(saved.tasks), GroupsOf(saved.buffer),
                   saved.accepted, saved.closed >>, Drawn(saved.cursor))

(* The stale=1 contract: what a batch is taken from was sampled by one     *)
(* version of the weights, at most one update old, though groups wait in   *)
(* the buffer from call to call and nothing looks again at the pop.        *)
LaneBatchFresh ==
  pc = "check" =>
    \A b \in ToSet(buffer) : /\ ~ b.mixed
                             /\ StaleLag(b) \in 0 .. 1
                             /\ b.rid \in rid - 1 .. rid

(* "validation still occurs exactly at the configured attempted-instance   *)
(* axis": no batch is popped while an attempt drawn so far has crossed a   *)
(* boundary that is not scheduled, however the boundary was met - by a     *)
(* draw, by a prefetch of the call before, or not at all.                  *)
NoTrainingPastBoundary ==
  [][ accepted' \subseteq accepted \/ BoundaryAt(cursor) <= scheduled ]_vars

(* The RuntimeErrors of _validation_partial_resume_state are unreachable.  *)
PartialResumable ==
  /\ pc = "boundary" =>
       /\ partial.rid = rid
       /\ partial.boundary = boundary
       /\ boundary <= BoundaryAt(cursor)
       /\ \A b \in ToSet(buffer) : ~ Stale(b)
       /\ partial.groups = BufferKinds(buffer)
       /\ partial.tasks = Cardinality(pending) + Cardinality(replay)
                            + Len(resample)
  /\ pc \in {"idle", "batch", "stopped"} => partial = NoPartial

=============================================================================
