---------------------------- MODULE UsageLedger -----------------------------
(***************************************************************************)
(* The request ledger of a run (swe_agent/usage.py) and those who write    *)
(* and read it: worker processes append one event per model request, the   *)
(* naive collector appends one disposition per group, and a metrics        *)
(* tracker in the collector's process adds both up, through crashes and    *)
(* resumes from a checkpoint that remembers a position of the file.        *)
(*                                                                         *)
(* Appends are whole lines under a file lock.  A request counts as one     *)
(* token.  The collector's own control is that of NaiveCollector; here it  *)
(* decides freely, and what each decision writes is what is modelled.      *)
(***************************************************************************)
EXTENDS Integers, Sequences, FiniteSets, SequencesExt

CONSTANTS
  NumSources,  (* source instances of the run                             *)
  Batch,       (* groups of an update                                     *)
  MaxTries,    (* bound: samples of one source after its first            *)
  MaxRequests, (* bound: model requests of the run                        *)
  MaxLives,    (* bound: job incarnations                                 *)
  None

ASSUME LedgerAssumption ==
  /\ {NumSources, Batch, MaxRequests, MaxLives} \subseteq Nat \ {0}
  /\ MaxTries \in Nat
  /\ None \notin Nat

Sources == 1 .. NumSources

(* usage_group_id: the attempt nonce, the source and its retry counters.   *)
(* The rollout id in it follows from them.                                 *)
Groups == [ source : Sources, life : 1 .. MaxLives, try : 0 .. MaxTries ]

VARIABLES
  pc,        (* "idle", "generate" or "stopped"                           *)
  life,      (* SLURM_RESTART_COUNT + 1                                   *)
  cursor,    (* sources drawn                                             *)
  pending,   (* tasks in worker processes                                 *)
  strays,    (* cancelled tasks whose process has not noticed             *)
  replay,    (* _REPLAY_PENDING_TASKS                                     *)
  retry,     (* _SOURCE_RETRY_TASKS                                       *)
  buffer,    (* tasks of the groups in _BUFFER                            *)
  ledger,    (* the events of usage.jsonl                                 *)
  window,    (* _RESUME_HISTORY_END_OFFSET                                *)
  tracker,   (* _USAGE_TRACKER                                            *)
  saved,     (* the collector's part of the newest checkpoint             *)
  orphaned   (* history: events of a life after its last checkpoint       *)

collector == << cursor, pending, strays, replay, retry, buffer >>
vars == << pc, life, collector, ledger, window, tracker, saved, orphaned >>

NoCheckpoint == [ cursor |-> 0, tasks |-> {}, buffer |-> {}, offset |-> None ]

Init ==
  /\ pc = "idle" /\ life = 1 /\ cursor = 0
  /\ pending = {} /\ strays = {} /\ replay = {} /\ retry = {} /\ buffer = {}
  /\ ledger = <<>> /\ window = None /\ tracker = None
  /\ saved = NoCheckpoint /\ orphaned = {}

-----------------------------------------------------------------------------
(* UsageMetricsTracker.  "dropped" stands for every outcome that it counts *)
(* as a drop: dropped, filtered, invalid.                                  *)

IsDropped(d) == d = "dropped"
Cost(n, d) == IF IsDropped(d) THEN n ELSE 0

BugLateRequestForgotten(t, e) ==
  [ t EXCEPT !.tokens[e.group] = @ + 1 ]

(* A request after its group's disposition counts by that disposition ...  *)
ApplyRequest(t, e) ==
  [ t EXCEPT !.tokens[e.group] = @ + 1,
             !.dropped = @ + Cost(1, t.disposition[e.group]) ]

(* ... and a disposition moves all the group has cost so far.              *)
ApplyDisposition(t, e) ==
  LET n == t.tokens[e.group]
  IN  [ t EXCEPT !.disposition[e.group] = e.as,
                 !.dropped = @ + Cost(n, e.as)
                               - Cost(n, t.disposition[e.group]) ]

(* The group and the outcome of an event decide what it changes.           *)
Apply(t, e) ==
  IF e.kind = "request" THEN ApplyRequest(t, e) ELSE ApplyDisposition(t, e)

(* _read_new_events of a file, up to a position.  The events seen are the  *)
(* lines read.                                                             *)
Read(t, file, end) ==
  LET after[k \in t.offset .. end] ==
        IF k = t.offset THEN t ELSE Apply(after[k - 1], file[k])
  IN  [ after[end] EXCEPT !.offset = end,
                          !.seen = @ \cup (t.offset + 1 .. end) ]

ReadTo(t, end) == Read(t, ledger, end)

EmptyTracker ==
  [ offset |-> 0, seen |-> {}, dropped |-> 0,
    tokens |-> [ g \in Groups |-> 0 ],
    disposition |-> [ g \in Groups |-> "none" ] ]

(* A tracker of a resumed job reads the durable prefix and skips to the    *)
(* end of the file; without a checkpoint it starts at the beginning.       *)
NewTracker ==
  IF window = None
  THEN EmptyTracker
  ELSE [ ReadTo(EmptyTracker, window) EXCEPT !.offset = Len(ledger) ]

(* ensure_usage_tracking                                                   *)
Tracked == IF tracker = None THEN NewTracker ELSE tracker

Requests == { k \in DOMAIN ledger : ledger[k].kind = "request" }

Request(g) == [ kind |-> "request", group |-> g, as |-> "none" ]
Disposition(g, d) == [ kind |-> "disposition", group |-> g, as |-> d ]

(* Every group gets a line; their order makes no difference.               *)
Dispositions(groups, d) ==
  LET order == SetToSeq(groups)
  IN  [ k \in DOMAIN order |-> Disposition(order[k], d) ]

(* record_usage_disposition makes the tracker before it writes.            *)
Dispose(groups, d) ==
  /\ ledger' = ledger \o Dispositions(groups, d)
  /\ tracker' = IF groups = {} THEN tracker ELSE Tracked

-----------------------------------------------------------------------------
(* The worker processes.                                                   *)

(* A task that runs with its accounting off has no ledger.                 *)
Accounted(t) == ~ t.quiet

SendRequest ==
  \E t \in pending \cup strays :
    /\ Accounted(t)
    /\ Cardinality(Requests) < MaxRequests
    /\ ledger' = Append(ledger, Request(t.group))
    /\ UNCHANGED << pc, life, collector, window, tracker, saved, orphaned >>

-----------------------------------------------------------------------------
(* Tasks.  One keeps the group of its last dispatch until the next.        *)

Task(group, quiet) ==
  [ group |-> group, try |-> group.try, quiet |-> quiet ]

GroupOf(source, try) == [ source |-> source, life |-> life, try |-> try ]

BugReplayIsCharged(t) == Task(GroupOf(t.group.source, t.try), FALSE)

(* "Re-execution is a checkpoint retry and must not be charged a second    *)
(* time."                                                                  *)
Replayed(t) == Task(GroupOf(t.group.source, t.try), TRUE)

Resampled(t) == Task(GroupOf(t.group.source, t.try), FALSE)

(* _queue_source_retry                                                     *)
Again(t) == [ t EXCEPT !.try = @ + 1 ]

GroupsOf(tasks) == { t.group : t \in tasks }

-----------------------------------------------------------------------------
(* The collector.  What it decides about a group is left open here, when   *)
(* it may decide is not.                                                   *)

BugReplayNotSettled(stale) == GroupsOf(stale)

(* The groups that end before a call dispatches anything.                  *)
EndedAtEntry(stale) == GroupsOf(stale \cup replay)

(* generate_rollout up to its loop: _drop_stale_buffer, then the tasks of  *)
(* the checkpoint run again in groups of their own.                        *)
StartGenerate ==
  /\ pc \in {"idle", "batch"}
  /\ \E stale \in SUBSET { t \in buffer : t.try < MaxTries } :
       /\ buffer' = buffer \ stale
       /\ retry' = retry \cup { Again(t) : t \in stale }
       /\ pending' = pending \cup { Replayed(t) : t \in replay }
       /\ replay' = {}
       /\ Dispose(EndedAtEntry(stale), "dropped")
  /\ pc' = "generate"
  /\ UNCHANGED << life, cursor, strays, window, saved, orphaned >>

(* _submit_until_full: sources to sample again before fresh ones.          *)
Submit ==
  /\ pc = "generate"
  /\ \/ \E t \in retry :
          /\ retry' = retry \ {t}
          /\ pending' = pending \cup { Resampled(t) }
          /\ UNCHANGED cursor
     \/ /\ retry = {} /\ cursor < NumSources
        /\ cursor' = cursor + 1
        /\ pending' = pending \cup { Task(GroupOf(cursor + 1, 0), FALSE) }
        /\ UNCHANGED retry
  /\ tracker' = Tracked
  /\ UNCHANGED << pc, life, strays, replay, buffer, ledger, window, saved,
                  orphaned >>

(* _harvest_ready: the task has finished, so nothing more of it is sent.   *)
Reap(t) ==
  /\ pc = "generate"
  /\ t \in pending
  /\ pending' = pending \ {t}
  /\ UNCHANGED << pc, life, cursor, strays, replay, window, saved, orphaned >>

(* "stale", or "filtered" for want of variance.                            *)
HarvestAgain(t) ==
  /\ t.try < MaxTries
  /\ Reap(t)
  /\ retry' = retry \cup { Again(t) }
  /\ Dispose({ t.group }, "dropped")
  /\ UNCHANGED buffer

(* "invalid", or "filtered" for good.                                      *)
HarvestRejected(t) ==
  /\ Reap(t)
  /\ Dispose({ t.group }, "dropped")
  /\ UNCHANGED << retry, buffer >>

(* A valid group stays undecided until an optimizer batch takes it.        *)
HarvestValid(t) ==
  /\ Reap(t)
  /\ buffer' = buffer \cup {t}
  /\ UNCHANGED << retry, ledger, tracker >>

(* usage_metrics() of a heartbeat                                          *)
Peek ==
  /\ pc = "generate"
  /\ tracker' = ReadTo(Tracked, Len(ledger))
  /\ tracker' # tracker
  /\ UNCHANGED << pc, life, collector, ledger, window, saved, orphaned >>

(* A full batch passed every check: its groups are accepted, and           *)
(* usage_metrics(commit_update=True) reads them.                           *)
ReturnBatch ==
  /\ pc = "generate"
  /\ \E selected \in SUBSET buffer :
       /\ Cardinality(selected) = Batch
       /\ buffer' = buffer \ selected
       /\ LET written == ledger \o Dispositions(GroupsOf(selected), "accepted")
          IN  /\ ledger' = written
              /\ tracker' = Read(Tracked, written, Len(written))
  /\ pc' = "batch"
  /\ UNCHANGED << life, cursor, pending, strays, replay, retry, window,
                  saved, orphaned >>

(* _drop_incomplete_source_budget_buffer                                   *)
StopAtBudget ==
  /\ pc = "generate"
  /\ cursor = NumSources /\ pending = {} /\ retry = {}
  /\ Cardinality(buffer) < Batch
  /\ Dispose(GroupsOf(buffer), "dropped")
  /\ buffer' = {}
  /\ pc' = "stopped"
  /\ UNCHANGED << life, cursor, pending, strays, replay, retry, window, saved,
                  orphaned >>

(* discard_terminal_source_work: ray.cancel does not wait for the tasks.   *)
DiscardTerminal ==
  /\ pc = "batch"
  /\ cursor = NumSources
  /\ Dispose(GroupsOf(pending \cup buffer), "dropped")
  /\ strays' = strays \cup pending
  /\ pending' = {} /\ replay' = {} /\ retry' = {} /\ buffer' = {}
  /\ pc' = "stopped"
  /\ UNCHANGED << life, cursor, window, saved, orphaned >>

-----------------------------------------------------------------------------
(* A whole number of lines, because writers are kept out while it is read. *)
LedgerOffset == Len(ledger)

(* checkpoint_state_dict, taken between two calls.                         *)
Checkpoint ==
  /\ pc \in {"batch", "stopped"}
  /\ tracker' = Tracked
  /\ saved' = [ cursor |-> cursor, buffer |-> buffer, offset |-> LedgerOffset,
                tasks |-> pending \cup replay \cup retry ]
  /\ UNCHANGED << pc, life, collector, ledger, window, orphaned >>

(* restore_usage_tracking_checkpoint                                       *)
ResumeWindow == saved.offset

(* The job dies with its workers and a new one resumes: what was appended  *)
(* since the checkpoint is work that the new job does again.               *)
CrashAndLoad ==
  /\ life < MaxLives
  /\ life' = life + 1
  /\ orphaned' = orphaned \cup
       { k \in DOMAIN ledger : saved.offset = None \/ k > saved.offset }
  /\ cursor' = saved.cursor /\ buffer' = saved.buffer
  /\ replay' = saved.tasks
  /\ pending' = {} /\ strays' = {} /\ retry' = {}
  /\ window' = ResumeWindow
  /\ tracker' = None
  /\ pc' = "idle"
  /\ UNCHANGED << ledger, saved >>

(* After the run has ended nothing is left to happen.                      *)
Done == pc = "stopped" /\ life = MaxLives /\ UNCHANGED vars

Harvest ==
  \E t \in pending : HarvestAgain(t) \/ HarvestRejected(t) \/ HarvestValid(t)

Next ==
  \/ SendRequest \/ StartGenerate \/ Submit \/ Harvest \/ Peek \/ ReturnBatch
  \/ StopAtBudget \/ DiscardTerminal \/ Checkpoint \/ CrashAndLoad \/ Done

Spec == Init /\ [][Next]_vars

-----------------------------------------------------------------------------
(* Properties.                                                             *)

DispositionsOf(g, read) ==
  { k \in read : ledger[k].kind = "disposition" /\ ledger[k].group = g }

(* The outcome of a group as a reader of these lines knows it.             *)
Outcome(g, read) ==
  LET said == DispositionsOf(g, read)
  IN  IF said = {} THEN "none"
      ELSE ledger[CHOOSE k \in said : \A j \in said : j <= k].as

(* The dropped tokens the tracker reports are the requests it has read of  *)
(* groups whose latest outcome it has read is a drop: whatever order they  *)
(* come in (a cancelled task sends on after its group was dropped), after  *)
(* any number of changes of mind, and over any number of resumes.          *)
DroppedCostExact ==
  tracker # None =>
    tracker.dropped =
      Cardinality({ k \in tracker.seen \cap Requests :
                      IsDropped(Outcome(ledger[k].group, tracker.seen)) })

(* No attempt at a source is charged twice, by the job that ran it and by  *)
(* a later one that replays it: of the requests that a resumed job may     *)
(* build on, those of one attempt belong to one group.                     *)
ChargedOnce ==
  \A j, k \in Requests \ orphaned :
    LET g == ledger[j].group  h == ledger[k].group
    IN  g.source = h.source /\ g.try = h.try => g = h

(* When the run has ended, every group that cost anything has an outcome:  *)
(* no path through retries, replays, the partial tail and the terminal     *)
(* discard loses one.                                                      *)
SettledAtStop ==
  pc = "stopped" =>
    \A k \in Requests \ orphaned :
      Outcome(ledger[k].group, DOMAIN ledger \ orphaned) # "none"
=============================================================================
