------------------------ MODULE NaiveCollectorProofs ------------------------
(***************************************************************************)
(* Proofs about NaiveCollector for every budget, interval, batch size,     *)
(* lookahead, number of updates and resample limit.                        *)
(***************************************************************************)
EXTENDS NaiveCollector, FiniteSetTheorems, TLAPS

-----------------------------------------------------------------------------
(* Facts about sets of tasks and the sources they belong to.               *)

(* Two sets of tasks have together the sources of each.                    *)
LEMMA SourcesUnion ==
  ASSUME NEW S, NEW T
  PROVE  Sources(S \cup T) = Sources(S) \cup Sources(T)
BY DEF Sources

(* Taking tasks away takes their sources away and no other.                *)
LEMMA SourcesMinus ==
  ASSUME NEW S, NEW T \in SUBSET S, OneTaskPerSource(S)
  PROVE  /\ Sources(S \ T) = Sources(S) \ Sources(T)
         /\ Sources(T) \subseteq Sources(S)
         /\ OneTaskPerSource(S \ T) /\ OneTaskPerSource(T)
BY DEF Sources, OneTaskPerSource

(* The same for one task.                                                  *)
LEMMA SourcesRemove ==
  ASSUME NEW S, NEW t \in S, OneTaskPerSource(S)
  PROVE  /\ Sources(S \ {t}) = Sources(S) \ {t.src}
         /\ t.src \in Sources(S)
         /\ OneTaskPerSource(S \ {t})
BY DEF Sources, OneTaskPerSource

(* A task of a new source can be added.                                    *)
LEMMA SourcesAdd ==
  ASSUME NEW S, NEW t, OneTaskPerSource(S), t.src \notin Sources(S)
  PROVE  /\ Sources(S \cup {t}) = Sources(S) \cup {t.src}
         /\ OneTaskPerSource(S \cup {t})
BY DEF Sources, OneTaskPerSource

(* Sets of tasks without a common source can be merged.                    *)
LEMMA OneTaskUnion ==
  ASSUME NEW S, NEW T, OneTaskPerSource(S), OneTaskPerSource(T),
         Sources(S) \cap Sources(T) = {}
  PROVE  OneTaskPerSource(S \cup T)
BY DEF Sources, OneTaskPerSource

(* Queueing a set of tasks keeps their sources ...                         *)
LEMMA DescriptorSources ==
  ASSUME NEW S, OneTaskPerSource(S)
  PROVE  /\ Sources({ Descriptor(t) : t \in S }) = Sources(S)
         /\ OneTaskPerSource({ Descriptor(t) : t \in S })
<1> DEFINE D == { Descriptor(t) : t \in S }
<1>1. \A t : Descriptor(t).src = t.src
  BY DEF Descriptor
<1>2. Sources(D) = Sources(S)
  BY <1>1 DEF Sources
<1>3. OneTaskPerSource(D)
  BY <1>1 DEF OneTaskPerSource
<1> QED
  BY <1>2, <1>3

(* ... and so does dispatching them ...                                    *)
LEMMA DispatchedSources ==
  ASSUME NEW S, OneTaskPerSource(S)
  PROVE  /\ Sources({ Dispatched(d) : d \in S }) = Sources(S)
         /\ OneTaskPerSource({ Dispatched(d) : d \in S })
<1> DEFINE D == { Dispatched(d) : d \in S }
<1>1. \A d : Dispatched(d).src = d.src
  BY DEF Dispatched
<1>2. Sources(D) = Sources(S)
  BY <1>1 DEF Sources
<1>3. OneTaskPerSource(D)
  BY <1>1 DEF OneTaskPerSource
<1> QED
  BY <1>2, <1>3

(* ... and a weight update under them.                                     *)
Under(t, b) == [ t EXCEPT !.mixed = @ \/ b ]

LEMMA MixedSources ==
  ASSUME NEW S \in SUBSET Tasks, OneTaskPerSource(S), NEW b
  PROVE  /\ Sources({ Under(t, b) : t \in S }) = Sources(S)
         /\ OneTaskPerSource({ Under(t, b) : t \in S })
<1> DEFINE M == { Under(t, b) : t \in S }
<1>1. \A t \in S : Under(t, b).src = t.src
  BY DEF Tasks, Under
<1>2. Sources(M) = Sources(S)
  BY <1>1 DEF Sources
<1>3. OneTaskPerSource(M)
  BY <1>1 DEF OneTaskPerSource
<1> QED
  BY <1>2, <1>3

(* What a finite set of tasks is turned into is finite.                    *)
LEMMA FiniteRange ==
  ASSUME NEW S, NEW T, NEW f \in [ S -> T ], IsFiniteSet(S),
         \A y \in T : \E x \in S : f[x] = y
  PROVE  IsFiniteSet(T)
<1>1. f \in Surjection(S, T)
  BY DEF Surjection
<1> QED
  BY <1>1, FS_Surjection

-----------------------------------------------------------------------------
(* ExactlyOnce, spelled out.                                               *)
Disjoint(A, B) == A \cap B = {}

InFlight == Sources(pending)
Replayed == Sources(replay)
Retried  == Sources(retry)
Buffered == Sources(buffer)

PairwiseDisjoint ==
  /\ Disjoint(InFlight, Replayed) /\ Disjoint(InFlight, Retried)
  /\ Disjoint(InFlight, Buffered) /\ Disjoint(InFlight, accepted)
  /\ Disjoint(InFlight, closed) /\ Disjoint(Replayed, Retried)
  /\ Disjoint(Replayed, Buffered) /\ Disjoint(Replayed, accepted)
  /\ Disjoint(Replayed, closed) /\ Disjoint(Retried, Buffered)
  /\ Disjoint(Retried, accepted) /\ Disjoint(Retried, closed)
  /\ Disjoint(Buffered, accepted) /\ Disjoint(Buffered, closed)
  /\ Disjoint(accepted, closed)

Placed ==
  InFlight \cup Replayed \cup Retried \cup Buffered \cup accepted \cup closed

OneTaskEach ==
  /\ OneTaskPerSource(pending) /\ OneTaskPerSource(replay)
  /\ OneTaskPerSource(retry) /\ OneTaskPerSource(buffer)

(* Six sets partition the sources drawn.                                   *)
LEMMA SixPartition ==
  ASSUME NEW A, NEW B, NEW C, NEW D, NEW E, NEW F, NEW n
  PROVE  Partitions(<< A, B, C, D, E, F >>, n) <=>
           /\ Disjoint(A, B) /\ Disjoint(A, C) /\ Disjoint(A, D)
           /\ Disjoint(A, E) /\ Disjoint(A, F) /\ Disjoint(B, C)
           /\ Disjoint(B, D) /\ Disjoint(B, E) /\ Disjoint(B, F)
           /\ Disjoint(C, D) /\ Disjoint(C, E) /\ Disjoint(C, F)
           /\ Disjoint(D, E) /\ Disjoint(D, F) /\ Disjoint(E, F)
           /\ A \cup B \cup C \cup D \cup E \cup F = 0 .. n - 1
<1> DEFINE s == << A, B, C, D, E, F >>
<1>1. DOMAIN s = {1, 2, 3, 4, 5, 6}
  OBVIOUS
<1>2. s[1] = A /\ s[2] = B /\ s[3] = C /\ s[4] = D /\ s[5] = E /\ s[6] = F
  OBVIOUS
<1> HIDE DEF s
<1>3. UNION { s[i] : i \in DOMAIN s }
        = A \cup B \cup C \cup D \cup E \cup F
  <2>1. { s[i] : i \in DOMAIN s } = {A, B, C, D, E, F}
    BY <1>1, <1>2
  <2> QED
    BY <2>1
<1>4. (\A i, j \in DOMAIN s : i # j => s[i] \cap s[j] = {}) <=>
           /\ Disjoint(A, B) /\ Disjoint(A, C) /\ Disjoint(A, D)
           /\ Disjoint(A, E) /\ Disjoint(A, F) /\ Disjoint(B, C)
           /\ Disjoint(B, D) /\ Disjoint(B, E) /\ Disjoint(B, F)
           /\ Disjoint(C, D) /\ Disjoint(C, E) /\ Disjoint(C, F)
           /\ Disjoint(D, E) /\ Disjoint(D, F) /\ Disjoint(E, F)
  BY <1>1, <1>2 DEF Disjoint
<1> QED
  BY <1>3, <1>4 DEF Partitions, s

(* Four sets partition the sources drawn.                                  *)
LEMMA FourPartition ==
  ASSUME NEW A, NEW B, NEW C, NEW D, NEW n
  PROVE  Partitions(<< A, B, C, D >>, n) <=>
           /\ Disjoint(A, B) /\ Disjoint(A, C) /\ Disjoint(A, D)
           /\ Disjoint(B, C) /\ Disjoint(B, D) /\ Disjoint(C, D)
           /\ A \cup B \cup C \cup D = 0 .. n - 1
<1> DEFINE s == << A, B, C, D >>
<1>1. DOMAIN s = {1, 2, 3, 4}
  OBVIOUS
<1>2. s[1] = A /\ s[2] = B /\ s[3] = C /\ s[4] = D
  OBVIOUS
<1> HIDE DEF s
<1>3. UNION { s[i] : i \in DOMAIN s } = A \cup B \cup C \cup D
  <2>1. { s[i] : i \in DOMAIN s } = {A, B, C, D}
    BY <1>1, <1>2
  <2> QED
    BY <2>1
<1>4. (\A i, j \in DOMAIN s : i # j => s[i] \cap s[j] = {}) <=>
           /\ Disjoint(A, B) /\ Disjoint(A, C) /\ Disjoint(A, D)
           /\ Disjoint(B, C) /\ Disjoint(B, D) /\ Disjoint(C, D)
  BY <1>1, <1>2 DEF Disjoint
<1> QED
  BY <1>3, <1>4 DEF Partitions, s

(* The six places a source can be in.                                      *)
LEMMA Places ==
  ExactlyOnce <=> /\ PairwiseDisjoint
                  /\ Placed = 0 .. cursor - 1
                  /\ OneTaskEach
BY SixPartition
   DEF ExactlyOnce, PairwiseDisjoint, Placed, OneTaskEach, InFlight,
       Replayed, Retried, Buffered

-----------------------------------------------------------------------------
(* The inductive invariant, in three parts.                                *)

(* Types, with what they need: tasks are finitely many, a running call has *)
(* an update to collect for, and nothing is preserved outside a call.      *)
FiniteWork ==
  /\ IsFiniteSet(pending) /\ IsFiniteSet(replay)
  /\ IsFiniteSet(retry) /\ IsFiniteSet(buffer)
  /\ IsFiniteSet(saved.tasks) /\ IsFiniteSet(saved.buffer)

InCall == pc \in {"harvest", "submit", "check", "boundary", "returned"}

CallHasUpdate ==
  /\ InCall => rid < NumRollout
  /\ pc \in {"idle", "returned", "batch", "stopped"} => partial = NoPartial

TypeInv == TypeOK /\ FiniteWork /\ CallHasUpdate

(* Where the sources are, in memory and in the newest checkpoint.          *)
OnceInv == ExactlyOnce /\ CheckpointExactlyOnce

(* How old a group can be.  A group under which the weights changed is at  *)
(* least two versions behind by the time anyone looks at it.               *)
Labelled(t) == t.ver <= version /\ t.rid <= rid

FreshInv ==
  /\ version <= rid - 1
  /\ \A t \in pending : Labelled(t) /\ (t.mixed => StaleLag(t) > 1)
  /\ \A t \in buffer : Labelled(t) /\ ~ t.mixed
  /\ pc \in {"harvest", "submit", "check"} => \A t \in buffer : ~ Stale(t)
  /\ \A t \in saved.buffer :
       t.ver <= saved.rid - 1 /\ t.rid <= saved.rid /\ ~ t.mixed

IInv == TypeInv /\ OnceInv /\ FreshInv

-----------------------------------------------------------------------------
(* Types.                                                                  *)
Tallies == [ carriedIn : Nat, attempted : Nat, invalid : Nat, filtered : Nat ]

(* A dispatched descriptor is a task.                                      *)
LEMMA DispatchedType ==
  ASSUME TypeOK, NEW d \in Descriptors
  PROVE  Dispatched(d) \in Tasks
BY DEF TypeOK, Descriptors, Tasks, Dispatched

(* A task under which the weights changed is a task.                       *)
LEMMA UnderType ==
  ASSUME NEW t \in Tasks, NEW b \in BOOLEAN
  PROVE  Under(t, b) \in Tasks
<1>1. CASE b
  BY <1>1 DEF Under, Tasks
<1>2. CASE ~ b
  <2>1. t.mixed \in BOOLEAN
    BY DEF Tasks
  <2>2. Under(t, b) = t
    BY <1>2, <2>1 DEF Under, Tasks
  <2> QED
    BY <2>2
<1> QED
  BY <1>1, <1>2

(* What is queued is a descriptor.                                         *)
LEMMA DescriptorType ==
  ASSUME NEW t \in Tasks
  PROVE  Descriptor(t) \in Descriptors
BY DEF Descriptors, Tasks, Descriptor

(* Sources of tasks are groups.                                            *)
LEMMA SourcesType ==
  ASSUME NEW S, S \subseteq Tasks \/ S \subseteq Descriptors
  PROVE  Sources(S) \subseteq Groups
BY DEF Sources, Tasks, Descriptors

(* Entering the collector keeps the types of everything it moves.          *)
LEMMA EnterType ==
  ASSUME TypeInv, NEW newTally \in Tallies, Enter(newTally)
  PROVE  /\ pending' \subseteq Tasks /\ replay' \subseteq Descriptors
         /\ retry' \subseteq Descriptors /\ buffer' \subseteq Tasks
         /\ IsFiniteSet(pending') /\ IsFiniteSet(replay')
         /\ IsFiniteSet(retry') /\ IsFiniteSet(buffer')
         /\ tally' \in Tallies /\ pc' = "harvest"
<1> DEFINE stale == { t \in buffer : Stale(t) }
           S == { Descriptor(t) : t \in stale }
           D == { Dispatched(d) : d \in replay }
<1>1. /\ buffer' = buffer \ stale /\ retry' = retry \cup S
      /\ pending' = pending \cup D /\ replay' = {}
      /\ tally' = newTally /\ pc' = "harvest"
  BY DEF Enter
<1>2. stale \subseteq buffer
  OBVIOUS
<1> HIDE DEF stale
<1>3. IsFiniteSet(stale) /\ IsFiniteSet(buffer \ stale)
  BY <1>2, FS_Subset DEF TypeInv, FiniteWork
<1>4. IsFiniteSet(S)
  <2> DEFINE f == [ t \in stale |-> Descriptor(t) ]
  <2>1. f \in [ stale -> S ] /\ \A y \in S : \E x \in stale : f[x] = y
    OBVIOUS
  <2> HIDE DEF f, S
  <2> QED
    BY <1>3, <2>1, FiniteRange
<1>5. IsFiniteSet(D)
  <2> DEFINE f == [ d \in replay |-> Dispatched(d) ]
  <2>1. f \in [ replay -> D ] /\ \A y \in D : \E x \in replay : f[x] = y
    OBVIOUS
  <2> HIDE DEF f, D
  <2> QED
    BY <2>1, FiniteRange DEF TypeInv, FiniteWork
<1>6. S \subseteq Descriptors
  BY <1>2, DescriptorType DEF TypeInv, TypeOK
<1>7. D \subseteq Tasks
  BY DispatchedType DEF TypeInv, TypeOK
<1> HIDE DEF S, D
<1>8. IsFiniteSet(pending \cup D) /\ IsFiniteSet(retry \cup S)
  BY <1>4, <1>5, FS_Union DEF TypeInv, FiniteWork
<1>9. IsFiniteSet({})
  BY FS_EmptySet
<1> QED
  BY <1>1, <1>3, <1>6, <1>7, <1>8, <1>9 DEF TypeInv, TypeOK

(* The first state has the types.                                          *)
LEMMA TypeInit == Init => TypeInv
<1> SUFFICES ASSUME Init PROVE TypeInv
  OBVIOUS
<1>1. LiveTasks = {}
  BY DEF Init, LiveTasks
<1>2. IsFiniteSet({})
  BY FS_EmptySet
<1>3. TypeOK
  <2>1. saved = [ rid |-> 0, cursor |-> 0, scheduled |-> 0, buffer |-> {},
                  exhausted |-> FALSE, partial |-> NoPartial, tasks |-> {},
                  accepted |-> {}, closed |-> {} ]
    BY <1>1 DEF Init, CheckpointState
  <2>2. NumRollout \in Nat \ {0} /\ Budget \in Nat \ {0}
    BY CollectorAssumption
  <2>3. saved \in
         [ rid : 0 .. NumRollout, cursor : 0 .. Budget,
           scheduled : 0 .. Budget, buffer : SUBSET Tasks,
           exhausted : BOOLEAN, partial : {NoPartial},
           tasks : SUBSET Descriptors, accepted : SUBSET Groups,
           closed : SUBSET Groups ]
    BY <2>1, <2>2
  <2>4. /\ partial \in [ groups : Int, tasks : Int ]
        /\ tally \in [ carriedIn : Nat, attempted : Nat, invalid : Nat,
                       filtered : Nat ]
    BY DEF Init, NoPartial, NewTally
  <2>5. /\ pc = "idle" /\ rid = 0 /\ version = -1 /\ cursor = 0
        /\ scheduled = 0 /\ pending = {} /\ replay = {} /\ retry = {}
        /\ buffer = {} /\ exhausted = FALSE /\ accepted = {} /\ closed = {}
    BY DEF Init
  <2>6. 0 \in 0 .. NumRollout /\ -1 \in -1 .. NumRollout /\ 0 \in 0 .. Budget
    BY <2>2
  <2> QED
    BY <2>3, <2>4, <2>5, <2>6 DEF TypeOK
<1>4. FiniteWork
  BY <1>1, <1>2 DEF Init, FiniteWork, CheckpointState
<1>5. CallHasUpdate
  BY DEF Init, CallHasUpdate, InCall
<1> QED
  BY <1>3, <1>4, <1>5 DEF TypeInv

(* A harvest keeps the types: one step per verdict.                        *)
LEMMA HarvestType ==
  ASSUME TypeInv, Harvest
  PROVE  TypeInv'
<1>1. PICK t \in pending :
        \/ ReapStale(t) \/ ReapInvalid(t) \/ ReapValid(t)
        \/ \E z \in BOOLEAN : ReapFiltered(t, z)
  BY DEF Harvest
<1>2. Reap(t)
  BY <1>1 DEF ReapStale, ReapInvalid, ReapValid, ReapFiltered
<1>3. t \in Tasks /\ Descriptor(t) \in Descriptors /\ t.src \in Groups
  BY DescriptorType DEF TypeInv, TypeOK, Tasks
<1>4. pending' \subseteq Tasks /\ IsFiniteSet(pending')
  BY <1>2, FS_RemoveElement DEF Reap, TypeInv, TypeOK, FiniteWork
<1>5. retry' \subseteq Descriptors /\ IsFiniteSet(retry')
  <2>1. CASE UNCHANGED retry
    BY <2>1 DEF TypeInv, TypeOK, FiniteWork
  <2>2. CASE retry' = retry \cup {Descriptor(t)}
    BY <2>2, <1>3, FS_AddElement DEF TypeInv, TypeOK, FiniteWork
  <2>3. CASE /\ t.resample < ResampleLimit
             /\ retry' = retry \cup
                  {[ Descriptor(t) EXCEPT !.resample = @ + 1 ]}
    <3>1. [ Descriptor(t) EXCEPT !.resample = @ + 1 ] \in Descriptors
      BY <2>3, <1>3, CollectorAssumption DEF Descriptor, Descriptors, Tasks
    <3> QED
      BY <2>3, <3>1, FS_AddElement DEF TypeInv, TypeOK, FiniteWork
  <2> QED
    BY <1>1, <2>1, <2>2, <2>3
       DEF ReapStale, ReapInvalid, ReapValid, ReapFiltered
<1>6. buffer' \subseteq Tasks /\ IsFiniteSet(buffer')
  <2>1. CASE UNCHANGED buffer
    BY <2>1 DEF TypeInv, TypeOK, FiniteWork
  <2>2. CASE buffer' = buffer \cup {t}
    BY <2>2, <1>3, FS_AddElement DEF TypeInv, TypeOK, FiniteWork
  <2> QED
    BY <1>1, <2>1, <2>2 DEF ReapStale, ReapInvalid, ReapValid, ReapFiltered
<1>7. tally' \in Tallies
  <2>1. tally \in Tallies
    BY DEF TypeInv, TypeOK, Tallies
  <2>2. \/ tally' = tally
        \/ tally' = [ tally EXCEPT !.attempted = @ + 1 ]
        \/ tally' = [ tally EXCEPT !.attempted = @ + 1, !.invalid = @ + 1 ]
        \/ tally' = [ tally EXCEPT !.attempted = @ + 1, !.filtered = @ + 1 ]
    BY <1>1 DEF ReapStale, ReapInvalid, ReapValid, ReapFiltered
  <2>3. /\ tally.attempted + 1 \in Nat /\ tally.invalid + 1 \in Nat
        /\ tally.filtered + 1 \in Nat
    BY <2>1 DEF Tallies
  <2>4. CASE tally' = [ tally EXCEPT !.attempted = @ + 1 ]
    BY <2>1, <2>3, <2>4, Zenon DEF Tallies
  <2>5. CASE tally' =
               [ tally EXCEPT !.attempted = @ + 1, !.invalid = @ + 1 ]
    BY <2>1, <2>3, <2>5, Zenon DEF Tallies
  <2>6. CASE tally' =
               [ tally EXCEPT !.attempted = @ + 1, !.filtered = @ + 1 ]
    BY <2>1, <2>3, <2>6, Zenon DEF Tallies
  <2> QED
    BY <2>1, <2>2, <2>4, <2>5, <2>6
<1>8. closed' \subseteq Groups
  BY <1>1, <1>3 DEF ReapStale, ReapInvalid, ReapValid, ReapFiltered,
                    TypeInv, TypeOK
<1> QED
  BY <1>2, <1>4, <1>5, <1>6, <1>7, <1>8
     DEF Reap, TypeInv, TypeOK, FiniteWork, CallHasUpdate, InCall, Tallies

(* A dispatch keeps the types.                                             *)
LEMMA SubmitType ==
  ASSUME TypeInv, SubmitRetry \/ SubmitFresh
  PROVE  TypeInv'
<1>1. CASE SubmitRetry
  <2>1. PICK d \in retry : /\ retry' = retry \ {d}
                           /\ pending' = pending \cup { Dispatched(d) }
    BY <1>1 DEF SubmitRetry
  <2>2. Dispatched(d) \in Tasks
    BY DispatchedType DEF TypeInv, TypeOK
  <2>3. IsFiniteSet(pending') /\ IsFiniteSet(retry')
    BY <2>1, FS_AddElement, FS_RemoveElement DEF TypeInv, FiniteWork
  <2> QED
    BY <1>1, <2>1, <2>2, <2>3
       DEF SubmitRetry, TypeInv, TypeOK, FiniteWork, CallHasUpdate, InCall
<1>2. CASE SubmitFresh
  <2> DEFINE d == [ src |-> cursor, resample |-> 0 ]
  <2>1. cursor \in 0 .. Budget - 1 /\ cursor + 1 \in 0 .. Budget
    BY <1>2, CollectorAssumption DEF SubmitFresh, SourcesLeft, TypeInv, TypeOK
  <2>2. d \in Descriptors
    BY <2>1, CollectorAssumption DEF Descriptors, Groups
  <2>3. Dispatched(d) \in Tasks
    BY <2>2, DispatchedType DEF TypeInv
  <2>4. pending' = pending \cup { Dispatched(d) }
    BY <1>2 DEF SubmitFresh
  <2>5. IsFiniteSet(pending')
    BY <2>4, FS_AddElement DEF TypeInv, FiniteWork
  <2> QED
    BY <1>2, <2>1, <2>3, <2>4, <2>5
       DEF SubmitFresh, TypeInv, TypeOK, FiniteWork, CallHasUpdate, InCall
<1> QED
  BY <1>1, <1>2

(* Every step keeps the types: one step per action.                        *)
LEMMA TypeNext == TypeInv /\ [Next]_vars => TypeInv'
<1> SUFFICES ASSUME TypeInv, [Next]_vars PROVE TypeInv'
  OBVIOUS
<1>1. CASE StartGenerate
  <2>1. NewTally(Cardinality({ t \in buffer : ~ Stale(t) })) \in Tallies
    <3>1. IsFiniteSet({ t \in buffer : ~ Stale(t) })
      BY FS_Subset DEF TypeInv, FiniteWork
    <3> QED
      BY <3>1, FS_CardinalityType DEF NewTally, Tallies
  <2> QED
    BY <1>1, <2>1, EnterType
       DEF StartGenerate, TypeInv, TypeOK, FiniteWork, CallHasUpdate,
           InCall, Tallies
<1>2. CASE ResumeGenerate
  <2>1. tally \in Tallies
    BY DEF TypeInv, TypeOK, Tallies
  <2>2. BoundaryAt(cursor) \in 0 .. Budget
    <3>1. cursor \in Nat /\ cursor <= Budget /\ Interval \in Nat \ {0}
      BY CollectorAssumption DEF TypeInv, TypeOK
    <3>2. cursor \div Interval \in Nat
      BY <3>1
    <3>3. cursor = (cursor \div Interval) * Interval + (cursor % Interval)
          /\ cursor % Interval \in Nat
      BY <3>1
    <3>4. (cursor \div Interval) * Interval \in Nat
      BY <3>1, <3>2
    <3> QED
      BY <3>1, <3>3, <3>4, CollectorAssumption DEF BoundaryAt
  <2> QED
    BY <1>2, <2>1, <2>2, EnterType
       DEF ResumeGenerate, TypeInv, TypeOK, FiniteWork, CallHasUpdate,
           InCall, Tallies
<1>3. CASE Harvest
  BY <1>3, HarvestType
<1>4. CASE SubmitRetry \/ SubmitFresh
  BY <1>4, SubmitType
<1>5. CASE EndHarvest \/ EndSubmit \/ KeepWaiting
  BY <1>5 DEF EndHarvest, EndSubmit, KeepWaiting, collectorVars, TypeInv,
              TypeOK, FiniteWork, CallHasUpdate, InCall
<1>6. CASE SubmitHitsBoundary \/ FullBatchHitsBoundary
  <2>1. RaiseBoundary /\ InCall
    BY <1>6 DEF SubmitHitsBoundary, FullBatchHitsBoundary, InCall
  <2>2. PreservedCounts \in [ groups : Int, tasks : Int ]
    BY FS_CardinalityType DEF PreservedCounts, TypeInv, FiniteWork
  <2> QED
    BY <2>1, <2>2 DEF RaiseBoundary, TypeInv, TypeOK, FiniteWork,
                      CallHasUpdate, InCall
<1>7. CASE SubmitHitsBudget
  BY <1>7 DEF SubmitHitsBudget, TypeInv, TypeOK, FiniteWork, CallHasUpdate,
              InCall
<1>8. CASE StopAtBudget
  <2>1. closed' \subseteq Groups
    BY <1>8, SourcesType DEF StopAtBudget, TypeInv, TypeOK
  <2> QED
    BY <1>8, <2>1, FS_EmptySet
       DEF StopAtBudget, TypeInv, TypeOK, FiniteWork, CallHasUpdate, InCall,
           NoPartial
<1>9. CASE ReturnBatch
  <2>1. PICK selected \in Selections :
          /\ buffer' = buffer \ selected
          /\ accepted' = accepted \cup Sources(selected)
    BY <1>9 DEF ReturnBatch
  <2>2. selected \subseteq Tasks
    BY DEF Selections, TypeInv, TypeOK
  <2>3. accepted' \subseteq Groups
    BY <2>1, <2>2, SourcesType DEF TypeInv, TypeOK
  <2>4. IsFiniteSet(buffer')
    BY <2>1, FS_Subset DEF TypeInv, FiniteWork
  <2> QED
    BY <1>9, <2>1, <2>3, <2>4
       DEF ReturnBatch, TypeInv, TypeOK, FiniteWork, CallHasUpdate, InCall,
           NoPartial
<1>10. CASE UpdateWeights
  <2> DEFINE b == version # rid - 1
             M == { Under(t, b) : t \in pending }
             f == [ t \in pending |-> Under(t, b) ]
  <2>1. pending' = M
    BY <1>10 DEF UpdateWeights, Under
  <2>2. M \subseteq Tasks
    BY UnderType DEF TypeInv, TypeOK
  <2>3. IsFiniteSet(M)
    <3>1. f \in [ pending -> M ] /\ \A y \in M : \E x \in pending : f[x] = y
      OBVIOUS
    <3> HIDE DEF f, M
    <3> QED
      BY <3>1, FiniteRange DEF TypeInv, FiniteWork
  <2>4. rid' \in 0 .. NumRollout /\ version' \in -1 .. NumRollout
    BY <1>10, CollectorAssumption
       DEF UpdateWeights, TypeInv, TypeOK, CallHasUpdate, InCall
  <2>5. /\ pc = "returned" /\ pc' = "batch"
        /\ UNCHANGED << cursor, scheduled, replay, retry, buffer, exhausted,
                         partial, tally, accepted, closed, saved >>
    BY <1>10 DEF UpdateWeights
  <2> HIDE DEF b, M
  <2> QED
    BY <2>1, <2>2, <2>3, <2>4, <2>5
       DEF TypeInv, TypeOK, FiniteWork, CallHasUpdate, InCall
<1>11. CASE DiscardTerminal
  <2>1. TerminalWork \subseteq Groups
    BY DEF TerminalWork, Sources, TypeInv, TypeOK, Tasks, Descriptors
  <2> QED
    BY <1>11, <2>1, FS_EmptySet
       DEF DiscardTerminal, TypeInv, TypeOK, FiniteWork, CallHasUpdate,
           InCall, NoPartial
<1>12. CASE Checkpoint
  <2>1. LiveTasks \subseteq Descriptors
    BY DescriptorType DEF LiveTasks, TypeInv, TypeOK
  <2>2. IsFiniteSet(LiveTasks)
    <3> DEFINE D == { Descriptor(t) : t \in pending }
               f == [ t \in pending |-> Descriptor(t) ]
    <3>1. f \in [ pending -> D ] /\ \A y \in D : \E x \in pending : f[x] = y
      OBVIOUS
    <3>2. LiveTasks = D \cup replay \cup retry
      BY DEF LiveTasks
    <3> HIDE DEF f, D
    <3>3. IsFiniteSet(D)
      BY <3>1, FiniteRange DEF TypeInv, FiniteWork
    <3> QED
      BY <3>2, <3>3, FS_Union DEF TypeInv, FiniteWork
  <2>3. partial = NoPartial
    BY <1>12 DEF Checkpoint, TypeInv, CallHasUpdate
  <2>4. saved' = [ rid |-> rid, cursor |-> cursor, scheduled |-> scheduled,
                   buffer |-> buffer, exhausted |-> exhausted,
                   partial |-> partial, tasks |-> LiveTasks,
                   accepted |-> accepted, closed |-> closed ]
    BY <1>12 DEF Checkpoint, CheckpointState
  <2>5. saved' \in
         [ rid : 0 .. NumRollout, cursor : 0 .. Budget,
           scheduled : 0 .. Budget, buffer : SUBSET Tasks,
           exhausted : BOOLEAN, partial : {NoPartial},
           tasks : SUBSET Descriptors, accepted : SUBSET Groups,
           closed : SUBSET Groups ]
    BY <2>1, <2>3, <2>4 DEF TypeInv, TypeOK
  <2>6. IsFiniteSet(saved.tasks') /\ IsFiniteSet(saved.buffer')
    BY <2>2, <2>4 DEF TypeInv, FiniteWork
  <2> QED
    BY <1>12, <2>5, <2>6
       DEF Checkpoint, collectorVars, TypeInv, TypeOK, FiniteWork,
           CallHasUpdate, InCall
<1>13. CASE CrashAndLoad
  <2>1. LoadedVersion \in -1 .. NumRollout
    BY CollectorAssumption DEF LoadedVersion, TypeInv, TypeOK
  <2>2. NewTally(0) \in Tallies
    BY DEF NewTally, Tallies
  <2>3. NoPartial \in [ groups : Int, tasks : Int ]
    BY DEF NoPartial
  <2>4. /\ saved.rid \in 0 .. NumRollout /\ saved.cursor \in 0 .. Budget
        /\ saved.scheduled \in 0 .. Budget /\ saved.buffer \subseteq Tasks
        /\ saved.exhausted \in BOOLEAN /\ saved.partial = NoPartial
        /\ saved.tasks \subseteq Descriptors
        /\ saved.accepted \subseteq Groups /\ saved.closed \subseteq Groups
    BY DEF TypeInv, TypeOK
  <2> QED
    BY <1>13, <2>1, <2>2, <2>3, <2>4, FS_EmptySet
       DEF CrashAndLoad, TypeInv, TypeOK, FiniteWork, CallHasUpdate, InCall,
           Tallies
<1>14. CASE UNCHANGED vars
  BY <1>14 DEF vars, collectorVars, TypeInv, TypeOK, FiniteWork,
               CallHasUpdate, InCall
<1> QED
  BY <1>1, <1>2, <1>3, <1>4, <1>5, <1>6, <1>7, <1>8, <1>9, <1>10, <1>11,
     <1>12, <1>13, <1>14 DEF Next, Collect

-----------------------------------------------------------------------------
(* Every source in one place.                                              *)

(* No source is drawn at first, so none is anywhere.                       *)
LEMMA OnceInit == Init => OnceInv
<1> SUFFICES ASSUME Init PROVE OnceInv
  OBVIOUS
<1>1. /\ pending = {} /\ replay = {} /\ retry = {} /\ buffer = {}
      /\ accepted = {} /\ closed = {} /\ cursor = 0
  BY DEF Init
<1>2. Sources({}) = {} /\ OneTaskPerSource({}) /\ 0 .. 0 - 1 = {}
  BY DEF Sources, OneTaskPerSource
<1>3. ExactlyOnce
  BY <1>1, <1>2, Places
     DEF PairwiseDisjoint, Disjoint, Placed, OneTaskEach, InFlight, Replayed,
         Retried, Buffered
<1>4. /\ saved.tasks = {} /\ saved.buffer = {} /\ saved.accepted = {}
      /\ saved.closed = {} /\ saved.cursor = 0
  BY <1>1 DEF Init, CheckpointState, LiveTasks
<1>5. CheckpointExactlyOnce
  BY <1>2, <1>4, FourPartition DEF CheckpointExactlyOnce, Disjoint
<1> QED
  BY <1>3, <1>5 DEF OnceInv

(* The same after a step.                                                  *)
LEMMA PlacesPrime ==
  ExactlyOnce' <=> /\ PairwiseDisjoint'
                   /\ Placed' = 0 .. cursor' - 1
                   /\ OneTaskEach'
BY SixPartition
   DEF ExactlyOnce, PairwiseDisjoint, Placed, OneTaskEach, InFlight,
       Replayed, Retried, Buffered

(* Entering the collector moves stale groups to the retry queue and        *)
(* restored ones into flight.                                              *)
LEMMA EnterOnce ==
  ASSUME ExactlyOnce, NEW newTally, Enter(newTally),
         UNCHANGED << cursor, accepted, closed >>
  PROVE  ExactlyOnce'
<1> DEFINE stale == { t \in buffer : Stale(t) }
           S == { Descriptor(t) : t \in stale }
           D == { Dispatched(d) : d \in replay }
<1>1. /\ buffer' = buffer \ stale /\ retry' = retry \cup S
      /\ pending' = pending \cup D /\ replay' = {}
  BY DEF Enter
<1>2. stale \in SUBSET buffer
  OBVIOUS
<1> HIDE DEF stale
<1>3. /\ OneTaskEach /\ PairwiseDisjoint /\ Placed = 0 .. cursor - 1
  BY Places
<1>4. /\ Buffered' = Buffered \ Sources(stale)
      /\ Sources(stale) \subseteq Buffered
      /\ OneTaskPerSource(buffer') /\ OneTaskPerSource(stale)
  BY <1>1, <1>2, <1>3, SourcesMinus DEF OneTaskEach, Buffered
<1>5. Sources(S) = Sources(stale) /\ OneTaskPerSource(S)
  BY <1>4, DescriptorSources
<1>6. Sources(D) = Replayed /\ OneTaskPerSource(D)
  BY <1>3, DispatchedSources DEF OneTaskEach, Replayed
<1> HIDE DEF S, D
<1>7. Retried' = Retried \cup Sources(stale) /\ OneTaskPerSource(retry')
  BY <1>1, <1>3, <1>4, <1>5, SourcesUnion, OneTaskUnion
     DEF OneTaskEach, Retried, PairwiseDisjoint, Disjoint
<1>8. InFlight' = InFlight \cup Replayed /\ OneTaskPerSource(pending')
  BY <1>1, <1>3, <1>6, SourcesUnion, OneTaskUnion
     DEF OneTaskEach, InFlight, PairwiseDisjoint, Disjoint
<1>9. Replayed' = {} /\ OneTaskPerSource(replay')
  BY <1>1 DEF Replayed, Sources, OneTaskPerSource
<1>10. OneTaskEach'
  BY <1>4, <1>7, <1>8, <1>9 DEF OneTaskEach
<1>11. PairwiseDisjoint'
  BY <1>3, <1>4, <1>7, <1>8, <1>9 DEF PairwiseDisjoint, Disjoint
<1>12. Placed' = 0 .. cursor' - 1
  BY <1>3, <1>4, <1>7, <1>8, <1>9 DEF Placed
<1> QED
  BY <1>10, <1>11, <1>12, PlacesPrime

(* A harvested group goes to one of three places.                          *)
LEMMA HarvestOnce ==
  ASSUME ExactlyOnce, Harvest
  PROVE  ExactlyOnce'
<1>1. PICK t \in pending :
        \/ ReapStale(t) \/ ReapInvalid(t) \/ ReapValid(t)
        \/ \E z \in BOOLEAN : ReapFiltered(t, z)
  BY DEF Harvest
<1>2. /\ pending' = pending \ {t}
      /\ UNCHANGED << cursor, replay, accepted >>
  BY <1>1 DEF ReapStale, ReapInvalid, ReapValid, ReapFiltered, Reap
<1>3. OneTaskEach /\ PairwiseDisjoint /\ Placed = 0 .. cursor - 1
  BY Places
<1>4. /\ InFlight' = InFlight \ {t.src} /\ t.src \in InFlight
      /\ OneTaskPerSource(pending')
  BY <1>2, <1>3, SourcesRemove DEF OneTaskEach, InFlight
<1>5. Replayed' = Replayed /\ OneTaskPerSource(replay')
  BY <1>2, <1>3 DEF Replayed, OneTaskEach
<1>6. t.src \notin Retried /\ t.src \notin Buffered
  BY <1>3, <1>4 DEF PairwiseDisjoint, Disjoint
<1>7. CASE /\ \E d : d.src = t.src /\ retry' = retry \cup {d}
           /\ UNCHANGED << buffer, closed >>
  <2>1. PICK d : d.src = t.src /\ retry' = retry \cup {d}
    BY <1>7
  <2>2. Retried' = Retried \cup {t.src} /\ OneTaskPerSource(retry')
    BY <2>1, <1>3, <1>6, SourcesAdd DEF OneTaskEach, Retried
  <2>3. Buffered' = Buffered /\ OneTaskPerSource(buffer')
    BY <1>3, <1>7 DEF Buffered, OneTaskEach
  <2>4. PairwiseDisjoint' /\ Placed' = 0 .. cursor' - 1
    BY <1>2, <1>3, <1>4, <1>5, <1>7, <2>2, <2>3
       DEF PairwiseDisjoint, Disjoint, Placed
  <2> QED
    BY <1>4, <1>5, <2>2, <2>3, <2>4, PlacesPrime DEF OneTaskEach
<1>8. CASE buffer' = buffer \cup {t} /\ UNCHANGED << retry, closed >>
  <2>1. Buffered' = Buffered \cup {t.src} /\ OneTaskPerSource(buffer')
    BY <1>3, <1>6, <1>8, SourcesAdd DEF OneTaskEach, Buffered
  <2>2. Retried' = Retried /\ OneTaskPerSource(retry')
    BY <1>3, <1>8 DEF Retried, OneTaskEach
  <2>3. PairwiseDisjoint' /\ Placed' = 0 .. cursor' - 1
    BY <1>2, <1>3, <1>4, <1>5, <1>8, <2>1, <2>2
       DEF PairwiseDisjoint, Disjoint, Placed
  <2> QED
    BY <1>4, <1>5, <2>1, <2>2, <2>3, PlacesPrime DEF OneTaskEach
<1>9. CASE closed' = closed \cup {t.src} /\ UNCHANGED << retry, buffer >>
  <2>1. /\ Retried' = Retried /\ OneTaskPerSource(retry')
        /\ Buffered' = Buffered /\ OneTaskPerSource(buffer')
    BY <1>3, <1>9 DEF Retried, Buffered, OneTaskEach
  <2>2. PairwiseDisjoint' /\ Placed' = 0 .. cursor' - 1
    BY <1>2, <1>3, <1>4, <1>5, <1>9, <2>1
       DEF PairwiseDisjoint, Disjoint, Placed
  <2> QED
    BY <1>4, <1>5, <2>1, <2>2, PlacesPrime DEF OneTaskEach
<1>10. /\ Descriptor(t).src = t.src
       /\ [ Descriptor(t) EXCEPT !.resample = @ + 1 ].src = t.src
  BY DEF Descriptor
<1> QED
  BY <1>1, <1>7, <1>8, <1>9, <1>10
     DEF ReapStale, ReapInvalid, ReapValid, ReapFiltered

(* A dispatch moves a queued source into flight or draws a new one.        *)
LEMMA SubmitOnce ==
  ASSUME TypeOK, ExactlyOnce, SubmitRetry \/ SubmitFresh
  PROVE  ExactlyOnce'
<1>1. OneTaskEach /\ PairwiseDisjoint /\ Placed = 0 .. cursor - 1
  BY Places
<1>2. UNCHANGED << replay, buffer, accepted, closed >>
  BY DEF SubmitRetry, SubmitFresh
<1>3. /\ Replayed' = Replayed /\ OneTaskPerSource(replay')
      /\ Buffered' = Buffered /\ OneTaskPerSource(buffer')
  BY <1>1, <1>2 DEF Replayed, Buffered, OneTaskEach
<1>4. \A d : Dispatched(d).src = d.src
  BY DEF Dispatched
<1>5. CASE SubmitRetry
  <2>1. PICK d \in retry : /\ retry' = retry \ {d}
                           /\ pending' = pending \cup { Dispatched(d) }
    BY <1>5 DEF SubmitRetry
  <2>2. /\ Retried' = Retried \ {d.src} /\ d.src \in Retried
        /\ OneTaskPerSource(retry')
    BY <1>1, <2>1, SourcesRemove DEF Retried, OneTaskEach
  <2>3. d.src \notin InFlight
    BY <1>1, <2>2 DEF PairwiseDisjoint, Disjoint
  <2>4. InFlight' = InFlight \cup {d.src} /\ OneTaskPerSource(pending')
    BY <1>1, <1>4, <2>1, <2>3, SourcesAdd DEF InFlight, OneTaskEach
  <2>5. cursor' = cursor
    BY <1>5 DEF SubmitRetry
  <2>6. PairwiseDisjoint' /\ Placed' = 0 .. cursor' - 1
    BY <1>1, <1>2, <1>3, <2>2, <2>4, <2>5
       DEF PairwiseDisjoint, Disjoint, Placed
  <2> QED
    BY <1>3, <2>2, <2>4, <2>6, PlacesPrime DEF OneTaskEach
<1>6. CASE SubmitFresh
  <2> DEFINE d == [ src |-> cursor, resample |-> 0 ]
  <2>1. /\ pending' = pending \cup { Dispatched(d) }
        /\ cursor' = cursor + 1 /\ retry' = retry
    BY <1>6 DEF SubmitFresh
  <2>2. d.src = cursor
    OBVIOUS
  <2> HIDE DEF d
  <2>3. cursor \in Nat
    BY CollectorAssumption DEF TypeOK
  <2>4. cursor \notin Placed /\ 0 .. cursor' - 1 = Placed \cup {cursor}
    BY <1>1, <2>1, <2>3
  <2>5. InFlight' = InFlight \cup {cursor} /\ OneTaskPerSource(pending')
    <3>1. Dispatched(d).src = cursor /\ cursor \notin Sources(pending)
      BY <1>4, <2>2, <2>4 DEF InFlight, Placed
    <3> QED
      BY <1>1, <2>1, <3>1, SourcesAdd DEF InFlight, OneTaskEach
  <2>6. Retried' = Retried /\ OneTaskPerSource(retry')
    BY <1>1, <2>1 DEF Retried, OneTaskEach
  <2>7. PairwiseDisjoint'
    BY <1>1, <1>2, <1>3, <2>4, <2>5, <2>6
       DEF PairwiseDisjoint, Disjoint, Placed
  <2>8. Placed' = 0 .. cursor' - 1
    BY <1>2, <1>3, <2>4, <2>5, <2>6 DEF Placed
  <2> QED
    BY <1>3, <2>5, <2>6, <2>7, <2>8, PlacesPrime DEF OneTaskEach
<1> QED
  BY <1>5, <1>6

(* The buffer is emptied into the batch or given up.                       *)
LEMMA BufferOnce ==
  ASSUME ExactlyOnce, StopAtBudget \/ ReturnBatch
  PROVE  ExactlyOnce'
<1>1. OneTaskEach /\ PairwiseDisjoint /\ Placed = 0 .. cursor - 1
  BY Places
<1>2. UNCHANGED << cursor, pending, replay, retry >>
  BY DEF StopAtBudget, ReturnBatch
<1>3. PICK S \in SUBSET buffer :
        /\ buffer' = buffer \ S
        /\ \/ closed' = closed \cup Sources(S) /\ UNCHANGED accepted
           \/ accepted' = accepted \cup Sources(S) /\ UNCHANGED closed
  <2>1. CASE StopAtBudget
    <3>1. /\ buffer' = buffer \ buffer /\ UNCHANGED accepted
          /\ closed' = closed \cup Sources(buffer)
      BY <2>1 DEF StopAtBudget
    <3> QED
      BY <3>1
  <2>2. CASE ReturnBatch
    BY <2>2 DEF ReturnBatch, Selections
  <2> QED
    BY <2>1, <2>2
<1>4. /\ Buffered' = Buffered \ Sources(S) /\ Sources(S) \subseteq Buffered
      /\ OneTaskPerSource(buffer')
  BY <1>1, <1>3, SourcesMinus DEF Buffered, OneTaskEach
<1>5. InFlight' = InFlight /\ Replayed' = Replayed /\ Retried' = Retried
  BY <1>2 DEF InFlight, Replayed, Retried
<1>6. PairwiseDisjoint'
  BY <1>1, <1>3, <1>4, <1>5 DEF PairwiseDisjoint, Disjoint
<1>7. Placed' = 0 .. cursor' - 1
  BY <1>1, <1>2, <1>3, <1>4, <1>5 DEF Placed
<1>8. OneTaskEach'
  BY <1>1, <1>2, <1>4 DEF OneTaskEach
<1> QED
  BY <1>6, <1>7, <1>8, PlacesPrime

(* A weight update does not move anything.                                 *)
LEMMA UpdateOnce ==
  ASSUME TypeOK, ExactlyOnce, UpdateWeights
  PROVE  ExactlyOnce'
<1> DEFINE b == version # rid - 1
<1>1. OneTaskEach /\ PairwiseDisjoint /\ Placed = 0 .. cursor - 1
  BY Places
<1>2. UNCHANGED << cursor, replay, retry, buffer, accepted, closed >>
  BY DEF UpdateWeights
<1>3. pending' = { Under(t, b) : t \in pending }
  BY DEF UpdateWeights, Under
<1> HIDE DEF b
<1>4. InFlight' = InFlight /\ OneTaskPerSource(pending')
  BY <1>1, <1>3, MixedSources DEF InFlight, OneTaskEach, TypeOK
<1>5. Replayed' = Replayed /\ Retried' = Retried /\ Buffered' = Buffered
  BY <1>2 DEF Replayed, Retried, Buffered
<1>6. PairwiseDisjoint' /\ Placed' = 0 .. cursor' - 1
  BY <1>1, <1>2, <1>4, <1>5 DEF PairwiseDisjoint, Disjoint, Placed
<1>7. OneTaskEach'
  BY <1>1, <1>2, <1>4 DEF OneTaskEach
<1> QED
  BY <1>6, <1>7, PlacesPrime

(* The work left behind a terminal batch is given up, all of it.           *)
LEMMA DiscardOnce ==
  ASSUME ExactlyOnce, DiscardTerminal
  PROVE  ExactlyOnce'
<1>1. PairwiseDisjoint /\ Placed = 0 .. cursor - 1
  BY Places
<1>2. /\ pending' = {} /\ replay' = {} /\ retry' = {} /\ buffer' = {}
      /\ closed' = closed \cup TerminalWork
      /\ UNCHANGED << cursor, accepted >>
  BY DEF DiscardTerminal
<1>3. TerminalWork = InFlight \cup Replayed \cup Retried \cup Buffered
  BY DEF TerminalWork, InFlight, Replayed, Retried, Buffered, Sources
<1>4. Sources({}) = {} /\ OneTaskPerSource({})
  BY DEF Sources, OneTaskPerSource
<1>5. /\ InFlight' = {} /\ Replayed' = {} /\ Retried' = {}
      /\ Buffered' = {} /\ OneTaskEach'
  BY <1>2, <1>4 DEF InFlight, Replayed, Retried, Buffered, OneTaskEach
<1>6. PairwiseDisjoint' /\ Placed' = 0 .. cursor' - 1
  BY <1>1, <1>2, <1>3, <1>5 DEF PairwiseDisjoint, Disjoint, Placed
<1> QED
  BY <1>5, <1>6, PlacesPrime

(* The checkpoint, spelled out.                                            *)
SavedTasks == Sources(saved.tasks)
SavedBuffer == Sources(saved.buffer)

LEMMA SavedPlaces ==
  CheckpointExactlyOnce <=>
    /\ Disjoint(SavedTasks, SavedBuffer)
    /\ Disjoint(SavedTasks, saved.accepted)
    /\ Disjoint(SavedTasks, saved.closed)
    /\ Disjoint(SavedBuffer, saved.accepted)
    /\ Disjoint(SavedBuffer, saved.closed)
    /\ Disjoint(saved.accepted, saved.closed)
    /\ SavedTasks \cup SavedBuffer \cup saved.accepted \cup saved.closed
         = 0 .. saved.cursor - 1
    /\ OneTaskPerSource(saved.tasks) /\ OneTaskPerSource(saved.buffer)
BY FourPartition DEF CheckpointExactlyOnce, SavedTasks, SavedBuffer

(* The same after a step.                                                  *)
LEMMA SavedPlacesPrime ==
  CheckpointExactlyOnce' <=>
    /\ Disjoint(SavedTasks', SavedBuffer')
    /\ Disjoint(SavedTasks', saved.accepted')
    /\ Disjoint(SavedTasks', saved.closed')
    /\ Disjoint(SavedBuffer', saved.accepted')
    /\ Disjoint(SavedBuffer', saved.closed')
    /\ Disjoint(saved.accepted', saved.closed')
    /\ SavedTasks' \cup SavedBuffer' \cup saved.accepted' \cup saved.closed'
         = 0 .. saved.cursor' - 1
    /\ OneTaskPerSource(saved.tasks') /\ OneTaskPerSource(saved.buffer')
BY FourPartition DEF CheckpointExactlyOnce, SavedTasks, SavedBuffer

(* What is written keeps every source: the three places a task can be in   *)
(* become one list.                                                        *)
LEMMA CheckpointOnce ==
  ASSUME ExactlyOnce, Checkpoint
  PROVE  CheckpointExactlyOnce'
<1> DEFINE D == { Descriptor(t) : t \in pending }
<1>1. OneTaskEach /\ PairwiseDisjoint /\ Placed = 0 .. cursor - 1
  BY Places
<1>2. /\ saved'.tasks = D \cup replay \cup retry /\ saved'.buffer = buffer
      /\ saved'.accepted = accepted /\ saved'.closed = closed
      /\ saved'.cursor = cursor
  BY DEF Checkpoint, CheckpointState, LiveTasks
<1>3. Sources(D) = InFlight /\ OneTaskPerSource(D)
  BY <1>1, DescriptorSources DEF OneTaskEach, InFlight
<1> HIDE DEF D
<1>4. /\ Sources(D \cup replay) = InFlight \cup Replayed
      /\ OneTaskPerSource(D \cup replay)
  BY <1>1, <1>3, SourcesUnion, OneTaskUnion
     DEF Replayed, OneTaskEach, PairwiseDisjoint, Disjoint
<1>5. SavedTasks' = InFlight \cup Replayed \cup Retried
  BY <1>2, <1>4, SourcesUnion DEF SavedTasks, Retried
<1>6. OneTaskPerSource(saved.tasks')
  <2>1. Sources(D \cup replay) \cap Sources(retry) = {}
    BY <1>1, <1>4 DEF PairwiseDisjoint, Disjoint, Retried
  <2> QED
    BY <1>1, <1>2, <1>4, <2>1, OneTaskUnion DEF OneTaskEach
<1>7. SavedBuffer' = Buffered /\ OneTaskPerSource(saved.buffer')
  BY <1>1, <1>2 DEF SavedBuffer, Buffered, OneTaskEach
<1> QED
  BY <1>1, <1>2, <1>5, <1>6, <1>7, SavedPlacesPrime
     DEF PairwiseDisjoint, Disjoint, Placed

(* ... and what is restored is what was written.                           *)
LEMMA LoadOnce ==
  ASSUME CheckpointExactlyOnce, CrashAndLoad
  PROVE  ExactlyOnce'
<1>1. /\ pending' = {} /\ replay' = saved.tasks /\ retry' = {}
      /\ buffer' = saved.buffer /\ accepted' = saved.accepted
      /\ closed' = saved.closed /\ cursor' = saved.cursor
  BY DEF CrashAndLoad
<1>2. Sources({}) = {} /\ OneTaskPerSource({})
  BY DEF Sources, OneTaskPerSource
<1>3. /\ InFlight' = {} /\ Replayed' = SavedTasks /\ Retried' = {}
      /\ Buffered' = SavedBuffer
  BY <1>1, <1>2
     DEF InFlight, Replayed, Retried, Buffered, SavedTasks, SavedBuffer
<1>4. OneTaskEach'
  BY <1>1, <1>2, SavedPlaces DEF OneTaskEach
<1>5. PairwiseDisjoint' /\ Placed' = 0 .. cursor' - 1
  BY <1>1, <1>3, SavedPlaces DEF PairwiseDisjoint, Disjoint, Placed
<1> QED
  BY <1>4, <1>5, PlacesPrime

(* Every step keeps every source in one place: one step per action.        *)
LEMMA OnceNext == TypeInv /\ OnceInv /\ [Next]_vars => OnceInv'
<1> SUFFICES ASSUME TypeInv, OnceInv, [Next]_vars PROVE OnceInv'
  OBVIOUS
<1>1. TypeOK /\ ExactlyOnce /\ CheckpointExactlyOnce
  BY DEF TypeInv, OnceInv
<1>2. ASSUME UNCHANGED saved PROVE CheckpointExactlyOnce'
  BY <1>1, <1>2 DEF CheckpointExactlyOnce
<1>3. ASSUME UNCHANGED << cursor, pending, replay, retry, buffer, accepted,
                          closed >>
      PROVE  ExactlyOnce'
  BY <1>1, <1>3 DEF ExactlyOnce
<1>4. CASE StartGenerate \/ ResumeGenerate
  <2>1. PICK newTally : Enter(newTally)
    BY <1>4 DEF StartGenerate, ResumeGenerate
  <2>2. UNCHANGED << cursor, accepted, closed, saved >>
    BY <1>4 DEF StartGenerate, ResumeGenerate
  <2> QED
    BY <1>1, <1>2, <2>1, <2>2, EnterOnce DEF OnceInv
<1>5. CASE Harvest
  <2>1. UNCHANGED saved
    BY <1>5 DEF Harvest, ReapStale, ReapInvalid, ReapValid, ReapFiltered,
                Reap
  <2> QED
    BY <1>1, <1>2, <1>5, <2>1, HarvestOnce DEF OnceInv
<1>6. CASE SubmitRetry \/ SubmitFresh
  <2>1. UNCHANGED saved
    BY <1>6 DEF SubmitRetry, SubmitFresh
  <2> QED
    BY <1>1, <1>2, <1>6, <2>1, SubmitOnce DEF OnceInv
<1>7. CASE \/ EndHarvest \/ EndSubmit \/ KeepWaiting \/ SubmitHitsBudget
           \/ SubmitHitsBoundary \/ FullBatchHitsBoundary
  BY <1>2, <1>3, <1>7
     DEF EndHarvest, EndSubmit, KeepWaiting, SubmitHitsBudget,
         SubmitHitsBoundary, FullBatchHitsBoundary, RaiseBoundary,
         collectorVars, OnceInv
<1>8. CASE StopAtBudget \/ ReturnBatch
  <2>1. UNCHANGED saved
    BY <1>8 DEF StopAtBudget, ReturnBatch
  <2> QED
    BY <1>1, <1>2, <1>8, <2>1, BufferOnce DEF OnceInv
<1>9. CASE UpdateWeights
  <2>1. UNCHANGED saved
    BY <1>9 DEF UpdateWeights
  <2> QED
    BY <1>1, <1>2, <1>9, <2>1, UpdateOnce DEF OnceInv
<1>10. CASE DiscardTerminal
  <2>1. UNCHANGED saved
    BY <1>10 DEF DiscardTerminal
  <2> QED
    BY <1>1, <1>2, <1>10, <2>1, DiscardOnce DEF OnceInv
<1>11. CASE Checkpoint
  <2>1. UNCHANGED << cursor, pending, replay, retry, buffer, accepted,
                     closed >>
    BY <1>11 DEF Checkpoint, collectorVars
  <2> QED
    BY <1>1, <1>3, <1>11, <2>1, CheckpointOnce DEF OnceInv
<1>12. CASE CrashAndLoad
  <2>1. UNCHANGED saved
    BY <1>12 DEF CrashAndLoad
  <2> QED
    BY <1>1, <1>2, <1>12, <2>1, LoadOnce DEF OnceInv
<1>13. CASE UNCHANGED vars
  BY <1>2, <1>3, <1>13 DEF vars, collectorVars, OnceInv
<1> QED
  BY <1>4, <1>5, <1>6, <1>7, <1>8, <1>9, <1>10, <1>11, <1>12, <1>13
     DEF Next, Collect

-----------------------------------------------------------------------------
(* How old a group can be.                                                 *)

(* The first state has no group.                                           *)
LEMMA FreshInit == Init => FreshInv
<1> SUFFICES ASSUME Init PROVE FreshInv
  OBVIOUS
<1>1. pending = {} /\ buffer = {} /\ version <= rid - 1
  BY DEF Init
<1>2. saved.buffer = {}
  BY <1>1 DEF Init, CheckpointState
<1> QED
  BY <1>1, <1>2 DEF FreshInv

(* The verdict on a group's age is about numbers.                          *)
LEMMA AgeTypes ==
  ASSUME TypeOK
  PROVE  /\ rid \in Nat /\ version \in Int /\ saved.rid \in Nat
         /\ \A t \in pending \cup buffer \cup saved.buffer :
              t.ver \in Int /\ t.rid \in Nat /\ t.mixed \in BOOLEAN
<1>1. \A t \in Tasks : t.ver \in Int /\ t.rid \in Nat /\ t.mixed \in BOOLEAN
  BY CollectorAssumption DEF Tasks
<1>2. rid \in Nat /\ version \in Int
  BY CollectorAssumption DEF TypeOK
<1>3. saved.rid \in 0 .. NumRollout /\ saved.buffer \subseteq Tasks
  BY DEF TypeOK
<1>4. saved.rid \in Nat
  BY <1>3, CollectorAssumption
<1> QED
  BY <1>1, <1>2, <1>3, <1>4 DEF TypeOK

(* A dispatched group carries the labels of the moment.                    *)
LEMMA DispatchedAge ==
  ASSUME TypeOK, NEW d
  PROVE  /\ Dispatched(d).ver = version /\ Dispatched(d).rid = rid
         /\ Dispatched(d).mixed = FALSE /\ Labelled(Dispatched(d))
<1>1. /\ Dispatched(d).ver = version /\ Dispatched(d).rid = rid
      /\ Dispatched(d).mixed = FALSE
  BY DEF Dispatched
<1> QED
  BY <1>1, AgeTypes DEF Labelled

(* Every step keeps the labels honest: one step per action.                *)
LEMMA FreshNext == TypeOK /\ FreshInv /\ [Next]_vars => FreshInv'
<1> SUFFICES ASSUME TypeOK, FreshInv, [Next]_vars PROVE FreshInv'
  OBVIOUS
<1>1. ASSUME UNCHANGED << rid, version, saved >>,
             \A t \in pending' : \/ t \in pending
                                 \/ Labelled(t) /\ t.mixed = FALSE,
             \A t \in buffer' : \/ t \in buffer
                                \/ Labelled(t) /\ ~ t.mixed,
             pc' \in {"harvest", "submit", "check"} =>
               \A t \in buffer' : ~ Stale(t)
      PROVE  FreshInv'
  BY <1>1 DEF FreshInv, Labelled, Stale, StaleLag
<1>2. CASE StartGenerate \/ ResumeGenerate
  <2>1. PICK newTally : Enter(newTally)
    BY <1>2 DEF StartGenerate, ResumeGenerate
  <2>2. UNCHANGED << rid, version, saved >>
    BY <1>2 DEF StartGenerate, ResumeGenerate
  <2>3. \A t \in buffer' : t \in buffer /\ ~ Stale(t)
    BY <2>1 DEF Enter
  <2>4. \A t \in pending' : t \in pending \/ \E d : t = Dispatched(d)
    BY <2>1 DEF Enter
  <2> QED
    BY <1>1, <2>2, <2>3, <2>4, DispatchedAge
<1>3. CASE Harvest
  <2>1. PICK t \in pending :
          \/ ReapStale(t) \/ ReapInvalid(t) \/ ReapValid(t)
          \/ \E z \in BOOLEAN : ReapFiltered(t, z)
    BY <1>3 DEF Harvest
  <2>2. /\ pending' = pending \ {t} /\ pc = "harvest" /\ pc' = pc
        /\ UNCHANGED << rid, version, saved >>
    BY <2>1 DEF ReapStale, ReapInvalid, ReapValid, ReapFiltered, Reap
  <2>3. \/ buffer' = buffer
        \/ buffer' = buffer \cup {t} /\ ~ Stale(t)
    BY <2>1 DEF ReapStale, ReapInvalid, ReapValid, ReapFiltered
  <2>4. ~ Stale(t) => ~ t.mixed
    BY AgeTypes DEF FreshInv, Stale, StaleLag
  <2>5. Labelled(t)
    BY DEF FreshInv
  <2>6. \A u \in buffer : ~ Stale(u)
    BY <2>2 DEF FreshInv
  <2> QED
    BY <1>1, <2>2, <2>3, <2>4, <2>5, <2>6
<1>4. CASE SubmitRetry \/ SubmitFresh
  <2>1. /\ pc = "submit" /\ buffer' = buffer
        /\ UNCHANGED << rid, version, saved >>
    BY <1>4 DEF SubmitRetry, SubmitFresh
  <2>2. \A t \in pending' : t \in pending \/ \E d : t = Dispatched(d)
    BY <1>4 DEF SubmitRetry, SubmitFresh
  <2>3. \A t \in buffer : ~ Stale(t)
    BY <2>1 DEF FreshInv
  <2> QED
    BY <1>1, <2>1, <2>2, <2>3, DispatchedAge
<1>5. CASE \/ EndHarvest \/ EndSubmit \/ KeepWaiting \/ SubmitHitsBudget
           \/ SubmitHitsBoundary \/ FullBatchHitsBoundary
  <2>1. /\ pc \in {"harvest", "submit", "check"}
        /\ UNCHANGED << rid, version, saved, pending, buffer >>
    BY <1>5
       DEF EndHarvest, EndSubmit, KeepWaiting, SubmitHitsBudget,
           SubmitHitsBoundary, FullBatchHitsBoundary, RaiseBoundary,
           collectorVars
  <2>2. \A t \in buffer : ~ Stale(t)
    BY <2>1 DEF FreshInv
  <2> QED
    BY <1>1, <2>1, <2>2
<1>6. CASE StopAtBudget \/ ReturnBatch \/ DiscardTerminal
  <2>1. /\ buffer' \subseteq buffer /\ pending' \subseteq pending
        /\ pc' \in {"stopped", "returned"}
        /\ UNCHANGED << rid, version, saved >>
    BY <1>6 DEF StopAtBudget, ReturnBatch, DiscardTerminal
  <2> QED
    BY <1>1, <2>1
<1>7. CASE UpdateWeights
  <2>1. /\ version' = rid - 1 /\ rid' = rid + 1 /\ pc' = "batch"
        /\ UNCHANGED << buffer, saved >>
    BY <1>7 DEF UpdateWeights
  <2>2. pending' = { Under(t, version # rid - 1) : t \in pending }
    BY <1>7 DEF UpdateWeights, Under
  <2>3. version <= rid - 1
    BY DEF FreshInv
  <2>4. ASSUME NEW t \in pending
        PROVE  LET u == Under(t, version # rid - 1)
               IN  /\ u.ver <= rid - 1 /\ u.rid <= rid + 1
                   /\ u.mixed => rid - u.ver > 1
    <3> DEFINE u == Under(t, version # rid - 1)
    <3>1. u.ver = t.ver /\ u.rid = t.rid
          /\ (u.mixed <=> t.mixed \/ version # rid - 1)
      <4>1. t \in Tasks
        BY DEF TypeOK
      <4> QED
        BY <4>1 DEF Under, Tasks
    <3> HIDE DEF u
    <3>2. /\ t.ver <= version /\ t.rid <= rid
          /\ t.mixed => rid - 1 - t.ver > 1
      BY DEF FreshInv, Labelled, StaleLag
    <3>3. t.ver \in Int /\ t.rid \in Nat /\ rid \in Nat /\ version \in Int
      BY AgeTypes
    <3> QED
      BY <2>3, <3>1, <3>2, <3>3 DEF u
  <2>5. \A t \in buffer : t.ver <= rid - 1 /\ t.rid <= rid + 1 /\ ~ t.mixed
    BY <2>3, AgeTypes DEF FreshInv, Labelled
  <2>6. rid - 1 <= rid + 1 - 1 /\ rid \in Nat
    BY AgeTypes
  <2> QED
    BY <2>1, <2>2, <2>4, <2>5, <2>6 DEF FreshInv, Labelled, StaleLag
<1>8. CASE Checkpoint
  <2>1. /\ saved'.rid = rid /\ saved'.buffer = buffer
        /\ UNCHANGED << pc, rid, version, pending, buffer >>
    BY <1>8 DEF Checkpoint, CheckpointState, collectorVars
  <2>2. \A t \in buffer : t.ver <= rid - 1 /\ t.rid <= rid /\ ~ t.mixed
    BY AgeTypes DEF FreshInv, Labelled
  <2> QED
    BY <2>1, <2>2 DEF FreshInv, Labelled, Stale, StaleLag
<1>9. CASE CrashAndLoad
  <2>1. /\ rid' = saved.rid /\ version' = saved.rid - 1 /\ pending' = {}
        /\ buffer' = saved.buffer /\ pc' = "idle" /\ UNCHANGED saved
    BY <1>9 DEF CrashAndLoad, LoadedVersion
  <2>2. saved.rid - 1 <= saved.rid - 1
    BY AgeTypes
  <2> QED
    BY <2>1, <2>2 DEF FreshInv, Labelled
<1>10. CASE UNCHANGED vars
  BY <1>10 DEF vars, collectorVars, FreshInv, Labelled, Stale, StaleLag
<1> QED
  BY <1>2, <1>3, <1>4, <1>5, <1>6, <1>7, <1>8, <1>9, <1>10 DEF Next, Collect

-----------------------------------------------------------------------------
(* The strengthened invariant holds in every run.                          *)
THEOREM Invariance == Spec => []IInv
<1>1. Init => IInv
  BY TypeInit, OnceInit, FreshInit DEF IInv
<1>2. IInv /\ [Next]_vars => IInv'
  BY TypeNext, OnceNext, FreshNext DEF IInv, TypeInv
<1> QED
  BY <1>1, <1>2, PTL DEF Spec

(* Type correctness.                                                       *)
THEOREM TypeCorrectness == Spec => []TypeOK
<1>1. IInv => TypeOK
  BY DEF IInv, TypeInv
<1> QED
  BY <1>1, Invariance, PTL

(* Every source instance that was drawn is in exactly one place, however   *)
(* often its group went stale, was filtered, interrupted by a boundary or  *)
(* replayed after a crash: no result is lost and none is trained twice.    *)
THEOREM SourcesExactlyOnce == Spec => []ExactlyOnce
<1>1. IInv => ExactlyOnce
  BY DEF IInv, OnceInv
<1> QED
  BY <1>1, Invariance, PTL

(* ... and the same of what load_checkpoint_state_dict would restore.      *)
THEOREM SavedExactlyOnce == Spec => []CheckpointExactlyOnce
<1>1. IInv => CheckpointExactlyOnce
  BY DEF IInv, OnceInv
<1> QED
  BY <1>1, Invariance, PTL

(* The stale=1 contract: when generate_rollout selects its batch, every    *)
(* group of the buffer was sampled by one version of the weights, at most  *)
(* one update old.                                                         *)
THEOREM BatchIsFresh == Spec => []FreshBatch
<1>1. IInv => FreshBatch
  <2> SUFFICES ASSUME IInv, pc = "check", NEW t \in buffer
               PROVE  /\ ~ t.mixed /\ StaleLag(t) \in 0 .. 1
                      /\ t.rid \in rid - 1 .. rid
    BY DEF FreshBatch
  <2>1. /\ ~ t.mixed /\ t.ver <= version /\ t.rid <= rid
        /\ version <= rid - 1 /\ ~ Stale(t)
    BY DEF IInv, FreshInv, Labelled
  <2>2. t.ver \in Int /\ t.rid \in Nat /\ rid \in Nat /\ version \in Int
    BY AgeTypes DEF IInv, TypeInv
  <2> QED
    BY <2>1, <2>2 DEF Stale, StaleLag
<1> QED
  BY <1>1, Invariance, PTL

(* No group was ever sampled by weights from the future, also after the    *)
(* run went back to an older checkpoint.                                   *)
THEOREM PolicyNotFromFuture == Spec => []NoFuturePolicy
<1>1. IInv => NoFuturePolicy
  <2> SUFFICES ASSUME IInv, NEW t \in pending \cup buffer
               PROVE  StaleLag(t) >= 0
    BY DEF NoFuturePolicy
  <2>1. t.ver <= version /\ version <= rid - 1
    BY DEF IInv, FreshInv, Labelled
  <2>2. t.ver \in Int /\ rid \in Nat /\ version \in Int
    BY AgeTypes DEF IInv, TypeInv
  <2> QED
    BY <2>1, <2>2 DEF StaleLag
<1> QED
  BY <1>1, Invariance, PTL

-----------------------------------------------------------------------------
(* What a call counts and what a validation boundary preserves: a second   *)
(* invariant, inductive only on top of the first.                          *)

(* group_outcome_stats at any point of a call, with n groups still to go   *)
(* out in its batch.                                                       *)
Balanced(n) ==
  tally.carriedIn + tally.attempted
    = n + tally.invalid + tally.filtered + Cardinality(buffer)

CountInv ==
  /\ pc \in {"harvest", "submit", "check", "boundary"} => Balanced(0)
  /\ pc = "returned" => Balanced(Batch)

(* A boundary is noticed at the draw that reaches it.                      *)
OnBoundary(drawn, upTo) ==
  BoundaryAt(drawn) > upTo => drawn = BoundaryAt(drawn)

NothingStale == \A t \in buffer : ~ Stale(t)

ResumeInv ==
  /\ OnBoundary(cursor, scheduled)
  /\ OnBoundary(saved.cursor, saved.scheduled)
  /\ InCall => replay = {}
  /\ pc = "boundary" => /\ BoundaryPending
                        /\ NothingStale
                        /\ partial = PreservedCounts

CallInv == CountInv /\ ResumeInv

(* Products of natural numbers grow with their factors.                    *)
LEMMA Multiples ==
  ASSUME NEW a \in Nat, NEW b \in Nat, NEW k \in Nat
  PROVE  /\ a * k \in Nat
         /\ (a + 1) * k = a * k + k
         /\ a <= b => a * k <= b * k
<1>1. a * k \in Nat /\ (a + 1) * k = a * k + k
  OBVIOUS
<1>2. ASSUME a <= b PROVE a * k <= b * k
  <2>1. PICK d \in Nat : b = a + d
    <3>1. b - a \in Nat /\ b = a + (b - a)
      BY <1>2
    <3> QED
      BY <3>1
  <2>2. (a + d) * k = a * k + d * k /\ d * k \in Nat
    OBVIOUS
  <2> QED
    BY <1>1, <2>1, <2>2
<1> QED
  BY <1>1, <1>2

(* A number lies in the interval its quotient names.                       *)
LEMMA Quotient ==
  ASSUME NEW n \in Nat, NEW k \in Nat \ {0}
  PROVE  /\ n \div k \in Nat
         /\ (n \div k) * k <= n
         /\ n < (n \div k) * k + k
<1>1. n \div k \in Nat
  OBVIOUS
<1>2. n = (n \div k) * k + (n % k) /\ n % k \in 0 .. k - 1
  OBVIOUS
<1>3. (n \div k) * k \in Nat
  BY <1>1
<1> QED
  BY <1>1, <1>2, <1>3

(* The next draw reaches a boundary or stays in its interval.              *)
LEMMA BoundaryStep ==
  ASSUME NEW n \in Nat
  PROVE  /\ BoundaryAt(n) \in Nat
         /\ BoundaryAt(n + 1) = BoundaryAt(n) \/ BoundaryAt(n + 1) = n + 1
<1> DEFINE p == n \div Interval
           q == (n + 1) \div Interval
<1>1. Interval \in Nat \ {0} /\ n + 1 \in Nat
  BY CollectorAssumption
<1>2. /\ p \in Nat /\ p * Interval <= n /\ n < p * Interval + Interval
      /\ q \in Nat /\ q * Interval <= n + 1
      /\ n + 1 < q * Interval + Interval
  BY <1>1, Quotient
<1>3. BoundaryAt(n) = p * Interval /\ BoundaryAt(n + 1) = q * Interval
  BY DEF BoundaryAt
<1> HIDE DEF p, q
<1>4. p * Interval \in Nat /\ q * Interval \in Nat
  BY <1>1, <1>2, Multiples
<1>5. q >= p
  <2> SUFFICES ASSUME q + 1 <= p PROVE FALSE
    BY <1>2
  <2>1. q + 1 \in Nat /\ q \in Nat /\ p \in Nat /\ Interval \in Nat
    BY <1>1, <1>2
  <2>2. (q + 1) * Interval <= p * Interval
    BY <2>1, Multiples
  <2>3. (q + 1) * Interval = q * Interval + Interval
    BY <2>1, Multiples
  <2> QED
    BY <1>1, <1>2, <1>4, <2>2, <2>3
<1>6. CASE q >= p + 1
  <2>1. p + 1 \in Nat /\ q \in Nat /\ p \in Nat /\ Interval \in Nat
    BY <1>1, <1>2
  <2>2. (p + 1) * Interval <= q * Interval
    BY <1>6, <2>1, Multiples
  <2>3. (p + 1) * Interval = p * Interval + Interval
    BY <2>1, Multiples
  <2>4. q * Interval = n + 1
    BY <1>1, <1>2, <1>4, <2>2, <2>3
  <2> QED
    BY <1>3, <1>4, <2>4
<1>7. CASE q = p
  BY <1>3, <1>4, <1>7
<1> QED
  BY <1>2, <1>5, <1>6, <1>7

(* The four counters are numbers, and so is the size of the buffer.        *)
LEMMA CountTypes ==
  ASSUME TypeInv
  PROVE  /\ tally.carriedIn \in Nat /\ tally.attempted \in Nat
         /\ tally.invalid \in Nat /\ tally.filtered \in Nat
         /\ Cardinality(buffer) \in Nat /\ Batch \in Nat
BY FS_CardinalityType, CollectorAssumption DEF TypeInv, TypeOK, FiniteWork

(* A group in flight is not in the buffer.                                 *)
LEMMA FlyingNotBuffered ==
  ASSUME ExactlyOnce, NEW t \in pending
  PROVE  t \notin buffer
<1>1. Disjoint(InFlight, Buffered)
  BY Places DEF PairwiseDisjoint
<1> QED
  BY <1>1 DEF Disjoint, InFlight, Buffered, Sources

(* The first state.                                                        *)
LEMMA CallInit == Init => CallInv
<1> SUFFICES ASSUME Init PROVE CallInv
  OBVIOUS
<1>1. saved.cursor = 0 /\ saved.scheduled = 0
  BY DEF Init, CheckpointState
<1>2. 0 \div Interval = 0
  BY CollectorAssumption
<1>3. BoundaryAt(0) = 0
  BY <1>2, CollectorAssumption DEF BoundaryAt
<1> QED
  BY <1>1, <1>3 DEF Init, CallInv, CountInv, ResumeInv, OnBoundary, InCall

(* A call starts balanced ...                                              *)
LEMMA StartCount ==
  ASSUME TypeInv, StartGenerate
  PROVE  CountInv'
<1> DEFINE kept == { t \in buffer : ~ Stale(t) }
<1>1. /\ pc' = "harvest" /\ buffer' = buffer \ { t \in buffer : Stale(t) }
      /\ tally' = NewTally(Cardinality(kept))
  BY DEF StartGenerate, Enter
<1>2. buffer' = kept
  BY <1>1
<1> HIDE DEF kept
<1>3. IsFiniteSet(kept)
  BY FS_Subset DEF kept, TypeInv, FiniteWork
<1>4. Cardinality(kept) \in Nat
  BY <1>3, FS_CardinalityType
<1>5. /\ tally'.carriedIn = Cardinality(kept) /\ tally'.attempted = 0
      /\ tally'.invalid = 0 /\ tally'.filtered = 0
  BY <1>1 DEF NewTally
<1> QED
  BY <1>1, <1>2, <1>4, <1>5 DEF CountInv, Balanced

(* ... and a resumed one stays so, because nothing in its buffer is stale. *)
LEMMA ResumeCount ==
  ASSUME CountInv, ResumeInv, ResumeGenerate
  PROVE  CountInv'
<1>1. /\ pc = "boundary" /\ pc' = "harvest" /\ tally' = tally
      /\ buffer' = buffer \ { t \in buffer : Stale(t) }
  BY DEF ResumeGenerate, Enter
<1>2. buffer' = buffer
  BY <1>1 DEF ResumeInv, NothingStale
<1>3. Balanced(0)
  BY <1>1 DEF CountInv
<1> QED
  BY <1>1, <1>2, <1>3 DEF CountInv, Balanced

(* One more on each side.                                                  *)
LEMMA BothSides ==
  ASSUME NEW c \in Nat, NEW a \in Nat, NEW i \in Nat, NEW f \in Nat,
         NEW b \in Nat, c + a = 0 + i + f + b
  PROVE  /\ c + (a + 1) = 0 + (i + 1) + f + b
         /\ c + (a + 1) = 0 + i + (f + 1) + b
         /\ c + (a + 1) = 0 + i + f + (b + 1)
OBVIOUS

(* A verdict adds as much to one side as to the other.                     *)
LEMMA HarvestCount ==
  ASSUME TypeInv, ExactlyOnce, CountInv, Harvest
  PROVE  CountInv'
<1>1. PICK t \in pending :
        \/ ReapStale(t) \/ ReapInvalid(t) \/ ReapValid(t)
        \/ \E z \in BOOLEAN : ReapFiltered(t, z)
  BY DEF Harvest
<1>2. pc = "harvest" /\ pc' = pc
  BY <1>1 DEF ReapStale, ReapInvalid, ReapValid, ReapFiltered, Reap
<1>3. Balanced(0)
  BY <1>2 DEF CountInv
<1>4. tally \in Tallies
  BY DEF TypeInv, TypeOK, Tallies
<1> SUFFICES Balanced(0)'
  BY <1>2 DEF CountInv
<1>5. LET c == tally.carriedIn
          a == tally.attempted
          i == tally.invalid
          f == tally.filtered
          b == Cardinality(buffer)
      IN  /\ c + (a + 1) = 0 + (i + 1) + f + b
          /\ c + (a + 1) = 0 + i + (f + 1) + b
          /\ c + (a + 1) = 0 + i + f + (b + 1)
  BY <1>3, CountTypes, BothSides DEF Balanced
<1>6. CASE ReapStale(t)
  BY <1>3, <1>6 DEF ReapStale, Balanced
<1>7. CASE ReapInvalid(t)
  <2>1. /\ buffer' = buffer
        /\ tally' = [ tally EXCEPT !.attempted = @ + 1, !.invalid = @ + 1 ]
    BY <1>7 DEF ReapInvalid
  <2>2. /\ tally'.carriedIn = tally.carriedIn
        /\ tally'.attempted = tally.attempted + 1
        /\ tally'.invalid = tally.invalid + 1
        /\ tally'.filtered = tally.filtered
    BY <1>4, <2>1 DEF Tallies
  <2>3. Cardinality(buffer') = Cardinality(buffer)
    BY <2>1
  <2> QED
    BY <1>5, <2>2, <2>3 DEF Balanced
<1>8. CASE \E z \in BOOLEAN : ReapFiltered(t, z)
  <2>1. /\ buffer' = buffer
        /\ tally' = [ tally EXCEPT !.attempted = @ + 1, !.filtered = @ + 1 ]
    BY <1>8 DEF ReapFiltered
  <2>2. /\ tally'.carriedIn = tally.carriedIn
        /\ tally'.attempted = tally.attempted + 1
        /\ tally'.invalid = tally.invalid
        /\ tally'.filtered = tally.filtered + 1
    BY <1>4, <2>1 DEF Tallies
  <2>3. Cardinality(buffer') = Cardinality(buffer)
    BY <2>1
  <2> QED
    BY <1>5, <2>2, <2>3 DEF Balanced
<1>9. CASE ReapValid(t)
  <2>1. /\ buffer' = buffer \cup {t}
        /\ tally' = [ tally EXCEPT !.attempted = @ + 1 ]
    BY <1>9 DEF ReapValid
  <2>2. /\ tally'.carriedIn = tally.carriedIn
        /\ tally'.attempted = tally.attempted + 1
        /\ tally'.invalid = tally.invalid
        /\ tally'.filtered = tally.filtered
    BY <1>4, <2>1 DEF Tallies
  <2>3. Cardinality(buffer') = Cardinality(buffer) + 1
    BY <2>1, FlyingNotBuffered, FS_AddElement DEF TypeInv, FiniteWork
  <2> QED
    BY <1>5, <2>2, <2>3 DEF Balanced
<1> QED
  BY <1>1, <1>6, <1>7, <1>8, <1>9

(* The batch that goes out is counted.                                     *)
LEMMA ReturnCount ==
  ASSUME TypeInv, CountInv, ReturnBatch
  PROVE  CountInv'
<1>1. PICK S \in Selections : buffer' = buffer \ S
  BY DEF ReturnBatch
<1>2. pc = "check" /\ pc' = "returned" /\ tally' = tally
  BY DEF ReturnBatch
<1>3. S \subseteq buffer /\ Cardinality(S) = Batch
  BY <1>1 DEF Selections
<1>4. IsFiniteSet(buffer)
  BY DEF TypeInv, FiniteWork
<1>5. Cardinality(buffer \ S) = Cardinality(buffer) - Batch
  <2>1. buffer \cap S = S
    BY <1>3
  <2> QED
    BY <1>3, <1>4, <2>1, FS_Difference
<1>6. Balanced(0)
  BY <1>2 DEF CountInv
<1>7. Balanced(Batch)'
  BY <1>1, <1>2, <1>5, <1>6, CountTypes DEF Balanced
<1> QED
  BY <1>2, <1>7 DEF CountInv

(* Every step keeps the counts: one step per action.                       *)
LEMMA CountNext ==
  ASSUME IInv, CallInv, [Next]_vars
  PROVE  CountInv'
<1> USE DEF IInv, CallInv
<1>1. CASE StartGenerate
  BY <1>1, StartCount
<1>2. CASE ResumeGenerate
  BY <1>2, ResumeCount
<1>3. CASE Harvest
  BY <1>3, HarvestCount DEF OnceInv
<1>4. CASE \/ EndHarvest \/ EndSubmit \/ KeepWaiting \/ SubmitRetry
           \/ SubmitFresh \/ SubmitHitsBudget \/ SubmitHitsBoundary
           \/ FullBatchHitsBoundary
  <2>1. /\ pc \in {"harvest", "submit", "check"}
        /\ pc' \in {"harvest", "submit", "check", "boundary"}
        /\ tally' = tally /\ buffer' = buffer
    BY <1>4
       DEF EndHarvest, EndSubmit, KeepWaiting, SubmitRetry, SubmitFresh,
           SubmitHitsBudget, SubmitHitsBoundary, FullBatchHitsBoundary,
           RaiseBoundary, collectorVars
  <2> QED
    BY <2>1 DEF CountInv, Balanced
<1>5. CASE ReturnBatch
  BY <1>5, ReturnCount
<1>6. CASE \/ StopAtBudget \/ UpdateWeights \/ DiscardTerminal
           \/ Checkpoint \/ CrashAndLoad
  <2>1. pc' \in {"idle", "batch", "stopped"}
    BY <1>6
       DEF StopAtBudget, UpdateWeights, DiscardTerminal, Checkpoint,
           CrashAndLoad
  <2> QED
    BY <2>1 DEF CountInv
<1>7. CASE UNCHANGED vars
  BY <1>7 DEF vars, collectorVars, CountInv, Balanced
<1> QED
  BY <1>1, <1>2, <1>3, <1>4, <1>5, <1>6, <1>7 DEF Next, Collect

(* Every step keeps what a resumed call relies on: one step per action.    *)
LEMMA ResumeNext ==
  ASSUME IInv, CallInv, [Next]_vars
  PROVE  ResumeInv'
<1>1. ResumeInv /\ cursor \in Nat /\ scheduled \in Nat
  BY CollectorAssumption DEF IInv, TypeInv, TypeOK, CallInv
<1>2. ASSUME UNCHANGED << cursor, scheduled, saved >>,
             pc' \in {"harvest", "submit", "check", "returned"},
             replay' = {}
      PROVE  ResumeInv'
  BY <1>1, <1>2 DEF ResumeInv, OnBoundary, BoundaryAt
<1>3. CASE StartGenerate
  BY <1>2, <1>3 DEF StartGenerate, Enter
<1>4. CASE ResumeGenerate
  <2>1. /\ scheduled' = BoundaryAt(cursor) /\ cursor' = cursor
        /\ pc' = "harvest" /\ replay' = {} /\ saved' = saved
    BY <1>4 DEF ResumeGenerate, Enter
  <2>2. ~ (BoundaryAt(cursor) > BoundaryAt(cursor))
    BY <1>1, BoundaryStep
  <2> QED
    BY <1>1, <2>1, <2>2 DEF ResumeInv, OnBoundary, BoundaryAt
<1>5. CASE \/ Harvest \/ EndHarvest \/ SubmitRetry \/ SubmitHitsBudget
           \/ EndSubmit \/ KeepWaiting \/ ReturnBatch
  <2>1. /\ pc \in {"harvest", "submit", "check"}
        /\ pc' \in {"harvest", "submit", "check", "returned"}
        /\ UNCHANGED << cursor, scheduled, saved, replay >>
    BY <1>5
       DEF Harvest, ReapStale, ReapInvalid, ReapValid, ReapFiltered, Reap,
           EndHarvest, SubmitRetry, SubmitHitsBudget, EndSubmit,
           KeepWaiting, ReturnBatch, collectorVars
  <2>2. replay = {}
    BY <1>1, <2>1 DEF ResumeInv, InCall
  <2> QED
    BY <1>2, <2>1, <2>2
<1>6. CASE SubmitFresh
  <2>1. /\ pc = "submit" /\ pc' = pc /\ ~ BoundaryPending
        /\ cursor' = cursor + 1
        /\ UNCHANGED << scheduled, saved, replay >>
    BY <1>6 DEF SubmitFresh
  <2>2. replay = {}
    BY <1>1, <2>1 DEF ResumeInv, InCall
  <2>3. BoundaryAt(cursor) <= scheduled
    BY <1>1, <2>1, BoundaryStep DEF BoundaryPending
  <2>4. OnBoundary(cursor + 1, scheduled)
    BY <1>1, <2>3, BoundaryStep DEF OnBoundary
  <2>5. OnBoundary(cursor, scheduled)'
    BY <2>1, <2>4 DEF OnBoundary, BoundaryAt
  <2> QED
    BY <1>1, <2>1, <2>2, <2>5 DEF ResumeInv, OnBoundary, BoundaryAt
<1>7. CASE SubmitHitsBoundary \/ FullBatchHitsBoundary
  <2>1. /\ pc \in {"submit", "check"} /\ BoundaryPending
        /\ partial' = PreservedCounts
        /\ UNCHANGED << rid, version, cursor, scheduled, pending, replay,
                        retry, buffer, saved >>
    BY <1>7
       DEF SubmitHitsBoundary, FullBatchHitsBoundary, RaiseBoundary
  <2>2. replay = {}
    BY <1>1, <2>1 DEF ResumeInv, InCall
  <2>3. NothingStale
    BY <2>1 DEF IInv, FreshInv, NothingStale
  <2>4. BoundaryPending' /\ NothingStale' /\ partial' = PreservedCounts'
    BY <2>1, <2>3
       DEF BoundaryPending, BoundaryAt, NothingStale, Stale, StaleLag,
           PreservedCounts
  <2> QED
    BY <1>1, <2>1, <2>2, <2>4 DEF ResumeInv, OnBoundary, BoundaryAt
<1>8. CASE StopAtBudget \/ UpdateWeights \/ DiscardTerminal
  <2>1. /\ pc' \in {"batch", "stopped"}
        /\ UNCHANGED << cursor, scheduled, saved >>
    BY <1>8 DEF StopAtBudget, UpdateWeights, DiscardTerminal
  <2> QED
    BY <1>1, <2>1 DEF ResumeInv, OnBoundary, BoundaryAt, InCall
<1>9. CASE Checkpoint
  <2>1. /\ saved'.cursor = cursor /\ saved'.scheduled = scheduled
        /\ pc \in {"batch", "stopped"}
        /\ UNCHANGED << pc, cursor, scheduled >>
    BY <1>9 DEF Checkpoint, CheckpointState
  <2> QED
    BY <1>1, <2>1 DEF ResumeInv, OnBoundary, BoundaryAt, InCall
<1>10. CASE CrashAndLoad
  <2>1. /\ cursor' = saved.cursor /\ scheduled' = saved.scheduled
        /\ pc' = "idle" /\ saved' = saved
    BY <1>10 DEF CrashAndLoad
  <2> QED
    BY <1>1, <2>1 DEF ResumeInv, OnBoundary, BoundaryAt, InCall
<1>11. CASE UNCHANGED vars
  BY <1>1, <1>11
     DEF vars, collectorVars, ResumeInv, OnBoundary, BoundaryAt, InCall,
         BoundaryPending, NothingStale, Stale, StaleLag, PreservedCounts
<1> QED
  BY <1>3, <1>4, <1>5, <1>6, <1>7, <1>8, <1>9, <1>10, <1>11
     DEF Next, Collect

(* The second invariant holds in every run.                                *)
LEMMA CallInvariance == Spec => []CallInv
<1>1. IInv /\ CallInv /\ [Next]_vars => CallInv'
  BY CountNext, ResumeNext DEF CallInv
<1> QED
  BY <1>1, CallInit, Invariance, PTL DEF Spec

(* group_outcome_stats: when a batch is returned, the groups carried in    *)
(* and attempted are those returned, given up and carried over, however    *)
(* often a validation boundary interrupted the call.                       *)
THEOREM UpdatesConserved == Spec => []UpdateConserved
<1>1. IInv /\ CallInv => UpdateConserved
  BY CountTypes DEF IInv, CallInv, CountInv, Balanced, UpdateConserved
<1> QED
  BY <1>1, Invariance, CallInvariance, PTL

(* The RuntimeErrors of _validation_partial_resume_state are unreachable:  *)
(* a call that a boundary interrupted finds what it preserved.             *)
THEOREM BoundariesResumable == Spec => []BoundaryResumable
<1>1. IInv /\ CallInv => BoundaryResumable
  <2> SUFFICES ASSUME IInv, CallInv PROVE BoundaryResumable
    OBVIOUS
  <2>1. ASSUME pc = "boundary"
        PROVE  /\ cursor = BoundaryAt(cursor)
               /\ NothingStale
               /\ partial = [ groups |-> Cardinality(buffer),
                              tasks |-> Cardinality(pending)
                                          + Cardinality(replay)
                                          + Cardinality(retry) ]
    <3>1. /\ cursor = BoundaryAt(cursor) /\ NothingStale
          /\ replay = {} /\ partial = PreservedCounts
      BY <2>1 DEF CallInv, ResumeInv, OnBoundary, BoundaryPending, InCall
    <3>2. /\ Cardinality(replay) = 0
          /\ Cardinality(pending) \in Nat
      BY <3>1, FS_EmptySet, FS_CardinalityType DEF IInv, TypeInv, FiniteWork
    <3>3. Cardinality(pending) + Cardinality(replay) = Cardinality(pending)
      BY <3>2
    <3> QED
      BY <3>1, <3>3, Zenon DEF PreservedCounts
  <2>2. pc \in {"idle", "batch", "stopped"} => partial = NoPartial
    BY DEF IInv, TypeInv, CallHasUpdate
  <2> QED
    BY <2>1, <2>2 DEF BoundaryResumable, NothingStale
<1> QED
  BY <1>1, Invariance, CallInvariance, PTL

-----------------------------------------------------------------------------
(* NaiveCollector implements SourceLedger.                                 *)

(* Groups and their sources are equally many.                              *)
LEMMA SourcesCount ==
  ASSUME NEW S, IsFiniteSet(S), OneTaskPerSource(S)
  PROVE  Cardinality(Sources(S)) = Cardinality(S)
<1> DEFINE f == [ t \in S |-> t.src ]
<1>1. f \in [ S -> Sources(S) ]
  BY DEF Sources
<1>2. \A t, u \in S : f[t] = f[u] => t = u
  BY DEF OneTaskPerSource
<1>3. \A g \in Sources(S) : \E t \in S : f[t] = g
  BY DEF Sources
<1> HIDE DEF f
<1>4. f \in Bijection(S, Sources(S))
  BY <1>1, <1>2, <1>3 DEF Bijection, Injection, Surjection, IsInjective
<1> QED
  BY <1>4, FS_Bijection DEF ExistsBijection

(* The ledger counts as the collector does.                                *)
LEMMA SameCardinality == \A S : Ledger!Cardinality(S) = Cardinality(S)
BY DEF Cardinality, Ledger!Cardinality, IsFiniteSet, Ledger!IsFiniteSet

(* The run starts with an empty ledger.                                    *)
LEMMA LedgerInit == Init => Ledger!Init
BY DEF Init, CheckpointState, Ledger!Init, Ledger!ledger

(* A source that waits somewhere is open.                                  *)
LEMMA WaitingIsOpen ==
  ASSUME ExactlyOnce
  PROVE  InFlight \cup Replayed \cup Retried \cup Buffered \subseteq Ledger!Open
BY Places DEF Ledger!Open, PairwiseDisjoint, Disjoint, Placed

(* Every step is a step of the ledger or invisible to it: one step per     *)
(* action.                                                                 *)
LEMMA LedgerNext ==
  IInv /\ [Next]_vars => [Ledger!Next]_(Ledger!vars)
<1> SUFFICES ASSUME IInv, [Next]_vars
             PROVE  Ledger!Next \/ UNCHANGED Ledger!vars
  OBVIOUS
<1>1. TypeInv /\ TypeOK /\ ExactlyOnce
  BY DEF IInv, TypeInv, OnceInv
<1>2. ASSUME UNCHANGED << cursor, accepted, closed, saved >>
      PROVE  UNCHANGED Ledger!vars
  BY <1>2 DEF Ledger!vars, Ledger!ledger
<1>3. ASSUME NEW S \in SUBSET Ledger!Open, closed' = closed \cup S,
             UNCHANGED << cursor, accepted, saved >>
      PROVE  Ledger!Next
  BY <1>3 DEF Ledger!Next, Ledger!Drop
<1>4. CASE \/ StartGenerate \/ ResumeGenerate \/ EndHarvest \/ SubmitRetry
           \/ SubmitHitsBoundary \/ SubmitHitsBudget \/ EndSubmit
           \/ KeepWaiting \/ FullBatchHitsBoundary \/ UpdateWeights
           \/ UNCHANGED vars
  BY <1>2, <1>4
     DEF StartGenerate, ResumeGenerate, EndHarvest, SubmitRetry,
         SubmitHitsBoundary, SubmitHitsBudget, EndSubmit, KeepWaiting,
         FullBatchHitsBoundary, RaiseBoundary, UpdateWeights, vars
<1>5. CASE Harvest
  <2>1. PICK t \in pending :
          \/ ReapStale(t) \/ ReapInvalid(t) \/ ReapValid(t)
          \/ \E z \in BOOLEAN : ReapFiltered(t, z)
    BY <1>5 DEF Harvest
  <2>2. UNCHANGED << cursor, accepted, saved >>
    BY <2>1 DEF ReapStale, ReapInvalid, ReapValid, ReapFiltered, Reap
  <2>3. closed' = closed \/ closed' = closed \cup {t.src}
    BY <2>1 DEF ReapStale, ReapInvalid, ReapValid, ReapFiltered
  <2>4. {t.src} \in SUBSET Ledger!Open
    BY <1>1, WaitingIsOpen DEF InFlight, Sources
  <2> QED
    BY <1>2, <1>3, <2>2, <2>3, <2>4
<1>6. CASE SubmitFresh
  <2>1. cursor < Budget /\ cursor' = cursor + 1
        /\ UNCHANGED << accepted, closed, saved >>
    BY <1>6 DEF SubmitFresh, SourcesLeft
  <2> QED
    BY <2>1 DEF Ledger!Next, Ledger!Draw
<1>7. CASE StopAtBudget
  <2>1. Buffered \in SUBSET Ledger!Open
    BY <1>1, WaitingIsOpen
  <2> QED
    BY <1>3, <1>7, <2>1 DEF StopAtBudget, Buffered
<1>8. CASE DiscardTerminal
  <2>1. TerminalWork = InFlight \cup Replayed \cup Retried \cup Buffered
    BY DEF TerminalWork, InFlight, Replayed, Retried, Buffered, Sources
  <2>2. TerminalWork \in SUBSET Ledger!Open
    BY <1>1, <2>1, WaitingIsOpen
  <2> QED
    BY <1>3, <1>8, <2>2 DEF DiscardTerminal
<1>9. CASE ReturnBatch
  <2>1. PICK selected \in SUBSET buffer :
          /\ Cardinality(selected) = Batch
          /\ accepted' = accepted \cup Sources(selected)
    BY <1>9 DEF ReturnBatch, Selections
  <2>2. OneTaskPerSource(selected) /\ Sources(selected) \subseteq Buffered
    BY <1>1, Places DEF OneTaskEach, OneTaskPerSource, Buffered, Sources
  <2>3. IsFiniteSet(selected)
    BY <1>1, FS_Subset DEF TypeInv, FiniteWork
  <2>4. Cardinality(Sources(selected)) = Batch
    BY <2>1, <2>2, <2>3, SourcesCount
  <2>5. Sources(selected) \in SUBSET Ledger!Open
    BY <1>1, <2>2, WaitingIsOpen
  <2>6. UNCHANGED << cursor, closed, saved >>
    BY <1>9 DEF ReturnBatch
  <2> QED
    BY <2>1, <2>4, <2>5, <2>6, SameCardinality DEF Ledger!Next, Ledger!Train
<1>10. CASE Checkpoint
  <2>1. /\ saved'.cursor = cursor /\ saved'.accepted = accepted
        /\ saved'.closed = closed /\ UNCHANGED << cursor, accepted, closed >>
    BY <1>10 DEF Checkpoint, CheckpointState
  <2> QED
    BY <2>1 DEF Ledger!Next, Ledger!Save, Ledger!ledger
<1>11. CASE CrashAndLoad
  <2>1. /\ cursor' = saved.cursor /\ accepted' = saved.accepted
        /\ closed' = saved.closed /\ UNCHANGED saved
    BY <1>11 DEF CrashAndLoad
  <2> QED
    BY <2>1 DEF Ledger!Next, Ledger!Restart
<1> QED
  BY <1>4, <1>5, <1>6, <1>7, <1>8, <1>9, <1>10, <1>11 DEF Next, Collect

(* The collector, with its queues, its driver and its restarts, implements *)
(* the ledger of source instances: they are drawn in order up to the       *)
(* budget, trained in batches of exactly Batch or given up, never both,    *)
(* and a restart rewinds the whole ledger to the newest checkpoint.        *)
THEOREM ImplementsLedger == Spec => KeepsLedger
<1>1. Init => Ledger!Init
  BY LedgerInit
<1>2. IInv /\ [Next]_vars => [Ledger!Next]_(Ledger!vars)
  BY LedgerNext
<1> QED
  BY <1>1, <1>2, Invariance, PTL DEF Spec, KeepsLedger, Ledger!Spec

=============================================================================
