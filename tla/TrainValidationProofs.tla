----------------------- MODULE TrainValidationProofs ------------------------
(***************************************************************************)
(* Proofs about TrainValidation for every dataset size, budget, interval   *)
(* and validation mode.                                                    *)
(***************************************************************************)
EXTENDS TrainValidation, TLAPS

-----------------------------------------------------------------------------
(* Facts about validation boundaries.                                      *)

(* A boundary is the last one at or before its cursor.                     *)
LEMMA BoundaryRange ==
  ASSUME NEW n \in Nat
  PROVE  /\ BoundaryAt(n) \in Nat
         /\ BoundaryAt(n) <= n
         /\ n < BoundaryAt(n) + Interval
<1>1. n \div Interval \in Nat
  BY DataSourceAssumption
<1>2. n = (n \div Interval) * Interval + (n % Interval)
      /\ n % Interval \in 0 .. Interval - 1
  BY DataSourceAssumption
<1>3. (n \div Interval) * Interval \in Nat
  BY <1>1, DataSourceAssumption
<1> QED
  BY <1>2, <1>3, DataSourceAssumption DEF BoundaryAt

(* One more instance stays in the same interval or is itself a boundary.   *)
LEMMA BoundaryStep ==
  ASSUME NEW n \in Nat
  PROVE  BoundaryAt(n + 1) = BoundaryAt(n) \/ BoundaryAt(n + 1) = n + 1
<1> DEFINE p == n \div Interval
           q == (n + 1) \div Interval
<1>1. p \in Nat /\ q \in Nat
  BY DataSourceAssumption
<1>2. /\ p * Interval <= n
      /\ n < p * Interval + Interval
      /\ q * Interval <= n + 1
      /\ n + 1 < q * Interval + Interval
  <2>1. n + 1 \in Nat
    OBVIOUS
  <2> QED
    BY <2>1, BoundaryRange DEF BoundaryAt
<1> HIDE DEF p, q
<1>3. q <= p + 1
  <2> SUFFICES ASSUME q >= p + 2 PROVE FALSE
    BY <1>1
  <2>1. q * Interval >= (p + 2) * Interval
    BY <1>1, DataSourceAssumption
  <2>2. (p + 2) * Interval = p * Interval + Interval + Interval
    BY <1>1, DataSourceAssumption
  <2> QED
    BY <1>1, <1>2, <2>1, <2>2, DataSourceAssumption
<1>4. q >= p
  <2> SUFFICES ASSUME q + 1 <= p PROVE FALSE
    BY <1>1
  <2>1. (q + 1) * Interval <= p * Interval
    BY <1>1, DataSourceAssumption
  <2>2. (q + 1) * Interval = q * Interval + Interval
    BY <1>1, DataSourceAssumption
  <2> QED
    BY <1>1, <1>2, <2>1, <2>2, DataSourceAssumption
<1>5. CASE q = p
  BY <1>5 DEF BoundaryAt, p, q
<1>6. CASE q = p + 1
  <2>1. q * Interval = p * Interval + Interval
    BY <1>1, <1>6, DataSourceAssumption
  <2>2. q * Interval = n + 1
    BY <1>1, <1>2, <2>1, DataSourceAssumption
  <2> QED
    BY <2>2 DEF BoundaryAt, q
<1> QED
  BY <1>1, <1>3, <1>4, <1>5, <1>6

-----------------------------------------------------------------------------
(* The inductive invariant.  BoundariesExact alone is not inductive: that  *)
(* polling never acknowledges more than was scheduled needs RefsScheduled, *)
(* and that a restart in deferred mode finds nothing to acknowledge needs  *)
(* DeferSettled.                                                           *)
RefsScheduled == \A a \in refs : a <= scheduled

Accounted == completed < scheduled => scheduled \in refs

DeferSettled ==
  Defer => /\ scheduled = completed
           /\ staged.scheduled = staged.completed
           /\ saved.scheduled = saved.completed

DrainScheduled == pc = "drain" => scheduled = sample_group_index

IInv ==
  /\ TypeOK
  /\ BoundariesExact
  /\ SamePromptAfterRestart
  /\ RefsScheduled
  /\ Accounted
  /\ DeferSettled
  /\ DrainScheduled

(* The same facts about the cursor in memory, field by field.              *)
LiveOK ==
  /\ sample_group_index \in 0 .. Budget
  /\ sample_offset \in 0 .. DatasetSize
  /\ epoch_id \in Nat
  /\ scheduled \in 0 .. Budget
  /\ completed \in 0 .. Budget
  /\ completed <= scheduled
  /\ scheduled <= sample_group_index
  /\ BoundaryPending => BoundaryAt(sample_group_index) = sample_group_index
  /\ sample_group_index = epoch_id * DatasetSize + sample_offset

FileOK(c) == c \in Cursors /\ CursorsOrdered(c) /\ PromptAt(c)

(* The cursor in memory is as good as a file that holds it.                *)
LEMMA LiveFields ==
  LiveOK <=> FileOK(CheckpointState)
BY DEF LiveOK, FileOK, CheckpointState, Cursors, CursorsOrdered, PromptAt,
       BoundaryPending

(* The same after a step.                                                  *)
LEMMA LiveFieldsPrime ==
  LiveOK' <=> FileOK(CheckpointState')
BY DEF LiveOK, FileOK, CheckpointState, Cursors, CursorsOrdered, PromptAt,
       BoundaryPending

(* IInv in the form the step proofs use.                                   *)
LEMMA IInvParts ==
  IInv <=> /\ LiveOK /\ FileOK(staged) /\ FileOK(saved)
           /\ pc \in {"idle", "generate", "poll", "drain", "done"}
           /\ refs \subseteq 1 .. Budget
           /\ finished \subseteq refs
           /\ RefsScheduled /\ Accounted /\ DeferSettled /\ DrainScheduled
BY LiveFields
   DEF IInv, TypeOK, BoundariesExact, SamePromptAfterRestart, FileOK

(* The same after a step.                                                  *)
LEMMA IInvPartsPrime ==
  IInv' <=> /\ LiveOK' /\ FileOK(staged') /\ FileOK(saved')
            /\ pc' \in {"idle", "generate", "poll", "drain", "done"}
            /\ refs' \subseteq 1 .. Budget
            /\ finished' \subseteq refs'
            /\ RefsScheduled' /\ Accounted' /\ DeferSettled'
            /\ DrainScheduled'
BY LiveFieldsPrime
   DEF IInv, TypeOK, BoundariesExact, SamePromptAfterRestart, FileOK

-----------------------------------------------------------------------------
(* What the pieces of the actions do to the invariant.                     *)

(* Acknowledging up to the scheduled cursor is harmless.                   *)
LEMMA AcknowledgeOK ==
  ASSUME LiveOK, completed' \in completed .. scheduled,
         sample_group_index' = sample_group_index,
         sample_offset' = sample_offset,
         epoch_id' = epoch_id,
         scheduled' = scheduled
  PROVE  LiveOK'
<1>1. completed' \in 0 .. Budget /\ completed' <= scheduled
  BY DataSourceAssumption DEF LiveOK
<1>2. BoundaryPending' <=> BoundaryPending
  BY DEF BoundaryPending
<1> QED
  BY <1>1, <1>2, Zenon DEF LiveOK

(* Polling moves the acknowledged cursor forward, never past what was      *)
(* scheduled, and forgets only boundaries it has acknowledged.             *)
LEMMA PollOK ==
  ASSUME IInv, Poll,
         UNCHANGED << sample_group_index, sample_offset, epoch_id,
                      scheduled >>
  PROVE  /\ LiveOK'
         /\ refs' \subseteq refs
         /\ finished' \subseteq refs'
         /\ RefsScheduled' /\ Accounted'
         /\ Defer => scheduled' = completed'
<1>1. completed' \in completed .. scheduled
  BY IInvParts DEF LiveOK, Poll, Reapable, RefsScheduled
<1>2. LiveOK'
  <2>1. /\ sample_group_index' = sample_group_index
        /\ sample_offset' = sample_offset
        /\ epoch_id' = epoch_id
        /\ scheduled' = scheduled
    OBVIOUS
  <2> QED
    BY <1>1, <2>1, AcknowledgeOK, IInvParts
<1>3. refs' \subseteq refs /\ finished' \subseteq refs' /\ RefsScheduled'
  BY IInvParts DEF Poll, Reapable, RefsScheduled
<1>4. Accounted'
  BY <1>1, IInvParts DEF Poll, Reapable, Accounted, LiveOK
<1>5. Defer => scheduled' = completed'
  BY <1>1, IInvParts DEF DeferSettled, LiveOK
<1> QED
  BY <1>2, <1>3, <1>4, <1>5

(* Scheduling the current cursor keeps the cursors in order.               *)
LEMMA ScheduleOK ==
  ASSUME IInv, sample_group_index \in 1 .. Budget,
         ScheduleTrainValidation(sample_group_index)
  PROVE  /\ LiveOK'
         /\ scheduled' = sample_group_index
         /\ refs' \subseteq 1 .. Budget
         /\ finished' \subseteq refs'
         /\ RefsScheduled' /\ Accounted'
         /\ Defer => scheduled' = completed'
<1>1. scheduled' = sample_group_index /\ sample_group_index' = sample_group_index
  BY IInvParts DEF LiveOK, ScheduleTrainValidation, Later
<1>2. \/ /\ ~ Defer
         /\ refs' = refs \cup {sample_group_index}
         /\ completed' = completed
      \/ /\ completed' = sample_group_index
         /\ refs' = refs
  BY <1>1, IInvParts DEF LiveOK, ScheduleTrainValidation, Later
<1>3. LiveOK'
  BY <1>1, <1>2, IInvParts, BoundaryRange
     DEF LiveOK, ScheduleTrainValidation, BoundaryPending
<1>4. refs' \subseteq 1 .. Budget /\ finished' \subseteq refs'
  BY <1>2, IInvParts DEF ScheduleTrainValidation
<1>5. RefsScheduled' /\ Accounted'
  BY <1>1, <1>2, IInvParts DEF RefsScheduled, Accounted, LiveOK
<1> QED
  BY <1>1, <1>2, <1>3, <1>4, <1>5

(* Drawing one instance neither jumps over a boundary nor tears the epoch  *)
(* and the offset apart.                                                   *)
LEMMA DrawOK ==
  ASSUME IInv, GetSamples(1)
  PROVE  LiveOK'
<1>1. /\ sample_group_index' = sample_group_index + 1
      /\ sample_group_index' \in 0 .. Budget
      /\ scheduled' = scheduled /\ completed' = completed
  BY IInvParts, DataSourceAssumption DEF LiveOK, GetSamples, BudgetExhausted
<1>2. BoundaryPending' => BoundaryAt(sample_group_index')
                            = sample_group_index'
  BY <1>1, IInvParts, BoundaryStep DEF LiveOK, GetSamples, BoundaryPending
<1>3. /\ sample_offset' \in 0 .. DatasetSize
      /\ epoch_id' \in Nat
      /\ sample_group_index' = epoch_id' * DatasetSize + sample_offset'
  <2>1. CASE sample_offset + 1 <= DatasetSize
    BY <1>1, <2>1, IInvParts, DataSourceAssumption DEF LiveOK, GetSamples
  <2>2. CASE ~ sample_offset + 1 <= DatasetSize
    <3>1. sample_offset = DatasetSize
      BY <2>2, IInvParts, DataSourceAssumption DEF LiveOK
    <3>2. sample_offset' = 1 /\ epoch_id' = epoch_id + 1
      BY <2>2, <3>1, DataSourceAssumption DEF GetSamples
    <3>3. (epoch_id + 1) * DatasetSize = epoch_id * DatasetSize + DatasetSize
      BY IInvParts, DataSourceAssumption DEF LiveOK
    <3> QED
      BY <1>1, <3>1, <3>2, <3>3, IInvParts, DataSourceAssumption DEF LiveOK
  <2> QED
    BY <2>1, <2>2
<1> QED
  BY <1>1, <1>2, <1>3, IInvParts DEF LiveOK

-----------------------------------------------------------------------------
(* A fresh run starts in the strengthened invariant.                       *)
LEMMA InitOK == Init => IInv
<1> SUFFICES ASSUME Init PROVE IInv
  OBVIOUS
<1>1. BoundaryAt(0) = 0
  BY DataSourceAssumption, BoundaryRange DEF BoundaryAt
<1>2. LiveOK
  BY <1>1, DataSourceAssumption DEF Init, SourceInit, LiveOK, BoundaryPending
<1>3. staged = CheckpointState /\ saved = CheckpointState
  BY DEF Init
<1>4. FileOK(staged) /\ FileOK(saved)
  BY <1>2, <1>3, LiveFields
<1>5. DeferSettled
  BY <1>3 DEF DeferSettled, CheckpointState, Init, SourceInit
<1>6. RefsScheduled /\ Accounted /\ DrainScheduled
  BY DEF RefsScheduled, Accounted, DrainScheduled, Init, SourceInit
<1>7. pc = "idle" /\ refs = {} /\ finished = {}
  BY DEF Init
<1> QED
  BY <1>2, <1>4, <1>5, <1>6, <1>7, IInvParts

(* An action that leaves both files alone only has to account for the      *)
(* cursor in memory and for the manager's own state.                       *)
LEMMA FilesKept ==
  ASSUME IInv, UNCHANGED durableVars, LiveOK',
         pc' \in {"idle", "generate", "poll", "drain", "done"},
         refs' \subseteq 1 .. Budget, finished' \subseteq refs',
         RefsScheduled', Accounted', DrainScheduled',
         Defer => scheduled' = completed'
  PROVE  IInv'
<1>1. staged' = staged /\ saved' = saved
  BY DEF durableVars
<1>2. FileOK(staged') /\ FileOK(saved')
  BY <1>1, IInvParts
<1>3. DeferSettled'
  BY <1>1, IInvParts DEF DeferSettled
<1> QED
  BY <1>2, <1>3, IInvPartsPrime

(* ... and nothing at all when the cursor and the passes stay as they are. *)
LEMMA OnlyControlMoves ==
  ASSUME IInv, UNCHANGED << sourceVars, refs, finished, durableVars >>,
         pc' \in {"idle", "generate", "poll", "done"}
  PROVE  IInv'
<1>1. /\ sample_group_index' = sample_group_index
      /\ sample_offset' = sample_offset
      /\ epoch_id' = epoch_id
      /\ scheduled' = scheduled
      /\ completed' = completed
      /\ refs' = refs
      /\ finished' = finished
      /\ UNCHANGED durableVars
  BY DEF sourceVars
<1>2. LiveOK'
  BY <1>1, IInvParts DEF LiveOK, BoundaryPending
<1>3. RefsScheduled' /\ Accounted' /\ DrainScheduled'
  BY <1>1, IInvParts DEF RefsScheduled, Accounted, DrainScheduled
<1>4. Defer => scheduled' = completed'
  BY <1>1, IInvParts DEF DeferSettled
<1>5. refs' \subseteq 1 .. Budget /\ finished' \subseteq refs'
  BY <1>1, IInvParts
<1> QED
  BY <1>1, <1>2, <1>3, <1>4, <1>5, FilesKept

(* Every step of the manager, the driver, the validation actor and a       *)
(* restart keeps the strengthened invariant: one step per action.          *)
LEMMA NextOK == IInv /\ [Next]_vars => IInv'
<1> SUFFICES ASSUME IInv, [Next]_vars PROVE IInv'
  OBVIOUS
<1> USE DEF Next, ManagerStep
<1>1. CASE StartGenerate
  BY <1>1, PollOK, FilesKept, IInvParts DEF StartGenerate, DrainScheduled
<1>2. CASE Draw
  <2>1. LiveOK' /\ UNCHANGED << scheduled, completed >>
    BY <1>2, DrawOK DEF Draw, GetSamples
  <2>2. /\ pc' = pc /\ pc = "generate"
        /\ refs' = refs /\ finished' = finished
        /\ UNCHANGED durableVars
    BY <1>2 DEF Draw, managerVars
  <2>3. RefsScheduled' /\ Accounted' /\ DrainScheduled'
    BY <2>1, <2>2, IInvParts DEF RefsScheduled, Accounted, DrainScheduled
  <2> QED
    BY <2>1, <2>2, <2>3, FilesKept, IInvParts DEF DeferSettled
<1>3. CASE ReachBoundary
  <2>1. sample_group_index \in 1 .. Budget
    BY <1>3, IInvParts DEF ReachBoundary, BoundaryPending, LiveOK
  <2>2. ScheduleTrainValidation(sample_group_index)
    BY <1>3 DEF ReachBoundary
  <2>3. pc' = "generate" /\ UNCHANGED durableVars
    BY <1>3 DEF ReachBoundary
  <2> QED
    BY <2>1, <2>2, <2>3, ScheduleOK, FilesKept DEF DrainScheduled
<1>4. CASE ReturnBatch
  BY <1>4, PollOK, FilesKept, IInvParts DEF ReturnBatch, DrainScheduled
<1>5. CASE ReturnBudgetSignal
  BY <1>5, OnlyControlMoves DEF ReturnBudgetSignal
<1>6. CASE SkipDrain
  BY <1>6, OnlyControlMoves DEF SkipDrain
<1>7. CASE StartDrain
  BY <1>7, PollOK, FilesKept, IInvParts DEF StartDrain, DrainScheduled
<1>8. CASE ScheduleFinal
  <2>1. pc' = "drain" /\ UNCHANGED durableVars
    BY <1>8 DEF ScheduleFinal
  <2>2. CASE sample_group_index > completed /\ sample_group_index \notin refs
    <3>1. sample_group_index \in 1 .. Budget
      BY <2>2, IInvParts DEF LiveOK
    <3>2. ScheduleTrainValidation(sample_group_index)
      BY <1>8, <2>2 DEF ScheduleFinal
    <3>3. DrainScheduled'
      BY <3>1, <3>2, ScheduleOK
         DEF DrainScheduled, ScheduleTrainValidation
    <3> QED
      BY <2>1, <3>1, <3>2, <3>3, ScheduleOK, FilesKept
  <2>3. CASE ~ (sample_group_index > completed
                /\ sample_group_index \notin refs)
    <3>1. /\ sample_group_index' = sample_group_index
          /\ sample_offset' = sample_offset
          /\ epoch_id' = epoch_id
          /\ scheduled' = scheduled
          /\ completed' = completed
          /\ refs' = refs
          /\ finished' = finished
      BY <1>8, <2>3 DEF ScheduleFinal, sourceVars
    <3>2. scheduled = sample_group_index
      BY <2>3, IInvParts DEF LiveOK, RefsScheduled
    <3>3. LiveOK'
      BY <3>1, IInvParts DEF LiveOK, BoundaryPending
    <3>4. RefsScheduled' /\ Accounted' /\ DrainScheduled'
      BY <3>1, <3>2, IInvParts DEF RefsScheduled, Accounted, DrainScheduled
    <3> QED
      BY <2>1, <3>1, <3>3, <3>4, FilesKept, IInvParts DEF DeferSettled
  <2> QED
    BY <2>2, <2>3
<1>9. CASE DrainOne
  <2>1. PICK a \in refs :
          /\ \A b \in refs : a <= b
          /\ MayAcknowledge(a, scheduled)
          /\ completed' = Later(completed, a)
          /\ refs' = refs \ {a}
          /\ finished' = finished \ {a}
    BY <1>9 DEF DrainOne
  <2>2. /\ sample_group_index' = sample_group_index
        /\ sample_offset' = sample_offset
        /\ epoch_id' = epoch_id
        /\ scheduled' = scheduled
        /\ pc' = "drain" /\ pc = "drain"
        /\ UNCHANGED durableVars
    BY <1>9 DEF DrainOne
  <2>3. completed' \in completed .. scheduled /\ a <= completed'
    BY <2>1, IInvParts DEF LiveOK, RefsScheduled, Later
  <2>4. LiveOK'
    BY <2>2, <2>3, AcknowledgeOK, IInvParts
  <2>5. RefsScheduled' /\ Accounted' /\ DrainScheduled'
    BY <2>1, <2>2, <2>3, IInvParts
       DEF RefsScheduled, Accounted, DrainScheduled, LiveOK
  <2>6. refs' \subseteq 1 .. Budget /\ finished' \subseteq refs'
    BY <2>1, IInvParts
  <2>7. Defer => scheduled' = completed'
    BY <2>2, <2>3, IInvParts DEF DeferSettled, LiveOK
  <2> QED
    BY <2>2, <2>4, <2>5, <2>6, <2>7, FilesKept
<1>10. CASE FinishDrain
  BY <1>10, OnlyControlMoves DEF FinishDrain
<1>11. CASE Stage
  <2>1. /\ UNCHANGED << sourceVars, pc, refs, finished, saved >>
        /\ staged' = CheckpointState
    BY <1>11 DEF Stage
  <2>2. LiveOK' /\ FileOK(staged') /\ FileOK(saved')
    BY <2>1, IInvParts, LiveFields
       DEF LiveOK, BoundaryPending, sourceVars
  <2>3. DeferSettled'
    BY <2>1, IInvParts DEF DeferSettled, CheckpointState, sourceVars
  <2>4. RefsScheduled' /\ Accounted' /\ DrainScheduled'
    BY <2>1, IInvParts
       DEF RefsScheduled, Accounted, DrainScheduled, sourceVars
  <2> QED
    BY <2>1, <2>2, <2>3, <2>4, IInvParts, IInvPartsPrime
<1>12. CASE Commit
  <2>1. /\ UNCHANGED << sourceVars, pc, refs, finished, staged >>
        /\ saved' = staged
    BY <1>12 DEF Commit
  <2>2. LiveOK' /\ FileOK(staged') /\ FileOK(saved')
    BY <2>1, IInvParts DEF LiveOK, BoundaryPending, sourceVars
  <2>3. DeferSettled'
    BY <2>1, IInvParts DEF DeferSettled, sourceVars
  <2>4. RefsScheduled' /\ Accounted' /\ DrainScheduled'
    BY <2>1, IInvParts
       DEF RefsScheduled, Accounted, DrainScheduled, sourceVars
  <2> QED
    BY <2>1, <2>2, <2>3, <2>4, IInvParts, IInvPartsPrime
<1>13. CASE FinishValidation
  <2>1. /\ UNCHANGED << sourceVars, pc, refs, durableVars >>
        /\ finished' \subseteq refs
    BY <1>13, IInvParts DEF FinishValidation
  <2>2. LiveOK'
    BY <2>1, IInvParts DEF LiveOK, BoundaryPending, sourceVars
  <2>3. RefsScheduled' /\ Accounted' /\ DrainScheduled'
    BY <2>1, IInvParts
       DEF RefsScheduled, Accounted, DrainScheduled, sourceVars
  <2>4. Defer => scheduled' = completed'
    BY <2>1, IInvParts DEF DeferSettled, sourceVars
  <2> QED
    BY <2>1, <2>2, <2>3, <2>4, FilesKept, IInvParts
<1>14. CASE CrashAndLoad
  <2>1. /\ sample_group_index' = saved.sample_group_index
        /\ sample_offset' = saved.sample_offset
        /\ epoch_id' = saved.epoch_id
        /\ scheduled' = saved.scheduled
        /\ pc' = "idle" /\ refs' = {} /\ finished' = {}
        /\ staged' = saved /\ saved' = saved
    BY <1>14 DEF CrashAndLoad, LoadSource
  <2>2. FileOK(saved)
    BY IInvParts
  <2>3. completed' = saved.scheduled
    BY <1>14, <2>2, IInvParts
       DEF CrashAndLoad, DeferSettled, FileOK, Cursors, CursorsOrdered
  <2>4. LiveOK'
    BY <2>1, <2>2, <2>3
       DEF LiveOK, FileOK, Cursors, CursorsOrdered, PromptAt, BoundaryPending
  <2>5. DeferSettled'
    BY <2>1, <2>3, IInvParts DEF DeferSettled
  <2>6. RefsScheduled' /\ Accounted' /\ DrainScheduled'
    BY <2>1, <2>2, <2>3
       DEF RefsScheduled, Accounted, DrainScheduled, FileOK, Cursors
  <2> QED
    BY <2>1, <2>2, <2>4, <2>5, <2>6, IInvPartsPrime
<1>15. CASE UNCHANGED vars
  <2>1. /\ UNCHANGED << sourceVars, refs, finished, durableVars >>
        /\ pc' = pc
    BY <1>15 DEF vars, managerVars
  <2>2. CASE pc = "drain"
    <3>1. LiveOK'
      BY <2>1, IInvParts DEF LiveOK, BoundaryPending, sourceVars
    <3>2. RefsScheduled' /\ Accounted' /\ DrainScheduled'
      BY <2>1, IInvParts
         DEF RefsScheduled, Accounted, DrainScheduled, sourceVars
    <3>3. Defer => scheduled' = completed'
      BY <2>1, IInvParts DEF DeferSettled, sourceVars
    <3> QED
      BY <2>1, <3>1, <3>2, <3>3, FilesKept, IInvParts
  <2> QED
    BY <2>1, <2>2, OnlyControlMoves, IInvParts
<1> QED
  BY <1>1, <1>2, <1>3, <1>4, <1>5, <1>6, <1>7, <1>8, <1>9, <1>10, <1>11,
     <1>12, <1>13, <1>14, <1>15

-----------------------------------------------------------------------------
(* The strengthened invariant holds in every run.                          *)
THEOREM Invariance == Spec => []IInv
<1>1. Init => IInv
  BY InitOK
<1>2. IInv /\ [Next]_vars => IInv'
  BY NextOK
<1> QED
  BY <1>1, <1>2, PTL DEF Spec

(* Type correctness.                                                       *)
THEOREM TypeCorrectness == Spec => []TypeOK
<1>1. IInv => TypeOK
  BY DEF IInv
<1> QED
  BY <1>1, Invariance, PTL

(* No run and no restart breaks the order of the cursors or draws an       *)
(* instance behind a boundary that was not scheduled: the ValueErrors of   *)
(* mark_validation_scheduled, acknowledge_validation and load, and the     *)
(* "exact source cursor" RuntimeError of generate, are unreachable.        *)
THEOREM CursorOrder == Spec => []BoundariesExact
<1>1. IInv => BoundariesExact
  BY DEF IInv
<1> QED
  BY <1>1, Invariance, PTL

(* A restart continues the dataset at the prompt the cursor names, in the  *)
(* epoch whose shuffle it belongs to.                                      *)
THEOREM PromptOrder == Spec => []SamePromptAfterRestart
<1>1. IInv => SamePromptAfterRestart
  BY DEF IInv
<1> QED
  BY <1>1, Invariance, PTL

(* generate() can schedule every boundary it is stopped by.                *)
THEOREM NoSpinOnBoundary == Spec => []BoundaryCanBeScheduled
<1>1. IInv => BoundaryCanBeScheduled
  <2> SUFFICES ASSUME IInv, pc = "generate", BoundaryPending
               PROVE  /\ BoundaryAt(sample_group_index) > completed
                      /\ BoundaryAt(sample_group_index) \notin refs
    BY DEF BoundaryCanBeScheduled
  <2>1. BoundaryAt(sample_group_index) > scheduled
        /\ BoundaryAt(sample_group_index) \in Nat
    BY IInvParts, BoundaryRange DEF BoundaryPending, LiveOK
  <2> QED
    BY <2>1, IInvParts DEF LiveOK, RefsScheduled
<1> QED
  BY <1>1, Invariance, PTL

(* The final drain ends with the requested cursor acknowledged.            *)
THEOREM DrainComplete == Spec => []DrainReachesCursor
<1>1. IInv => DrainReachesCursor
  BY IInvParts
     DEF DrainReachesCursor, DrainScheduled, Accounted, LiveOK
<1> QED
  BY <1>1, Invariance, PTL

(* No step dispatches a boundary at or below the highest one scheduled in  *)
(* the restored history: old validation is not replayed under newer        *)
(* weights.                                                                *)
THEOREM ValidationOnce == Spec => NoReplayedValidation
<1>1. IInv /\ [Next]_vars => [\A a \in refs' \ refs : a > scheduled]_vars
  <2> SUFFICES ASSUME IInv, Next, NEW a \in refs', a \notin refs
               PROVE  a > scheduled
    OBVIOUS
  <2>1. CASE ReachBoundary
    <3>1. a = BoundaryAt(sample_group_index)
      BY <2>1 DEF ReachBoundary, ScheduleTrainValidation
    <3> QED
      BY <2>1, <3>1 DEF ReachBoundary, BoundaryPending
  <2>2. CASE ScheduleFinal
    <3>1. sample_group_index > completed /\ sample_group_index \notin refs
      BY <2>2 DEF ScheduleFinal
    <3>2. a = sample_group_index
      BY <2>2, <3>1 DEF ScheduleFinal, ScheduleTrainValidation
    <3> QED
      BY <3>1, <3>2, IInvParts DEF Accounted, LiveOK
  <2>3. CASE StartGenerate \/ ReturnBatch \/ StartDrain
    BY <2>3 DEF StartGenerate, ReturnBatch, StartDrain, Poll
  <2>4. CASE Draw \/ ReturnBudgetSignal \/ SkipDrain \/ DrainOne
             \/ FinishDrain \/ Stage \/ Commit \/ FinishValidation
    BY <2>4 DEF Draw, managerVars, ReturnBudgetSignal, SkipDrain, DrainOne,
       FinishDrain, Stage, Commit, FinishValidation
  <2>5. CASE CrashAndLoad
    BY <2>5 DEF CrashAndLoad
  <2> QED
    BY <2>1, <2>2, <2>3, <2>4, <2>5 DEF Next, ManagerStep
<1> QED
  BY <1>1, Invariance, PTL DEF Spec, NoReplayedValidation

=============================================================================
