------------------------ MODULE EngineRecoveryProofs -----------------------
(***************************************************************************)
(* Theorems about the engines: EngineRecovery, for any number of engines,  *)
(* ranks, rollouts and deaths; and PolicyVersion, for any number of        *)
(* engines, rollout processes, updates and lives of the job.               *)
(***************************************************************************)
EXTENDS EngineRecovery, PolicyVersion, FiniteSetTheorems, TLAPS

Steps == {"update", "start", "init", "read", "updated", "generate", "over"}

Lates == {"none", "timed out", "unnoticed"}

Actor == [ up : BOOLEAN, weights : Nat ]

RankState == [ at : {"wait", "connect", "send"}, new : Nat,
               list : [Slots -> Nat] ]

MonitorState ==
  [ at : {"loop", "waiting", "next", "checking", "killing"},
    paused : BOOLEAN, wait : BOOLEAN, slot : Nat, list : [Slots -> Nat] ]

TypeInv ==
  /\ engines \in [Slots -> Nat]
  /\ \A i \in Slots : engines[i] # None => engines[i] \in Actors
  /\ \E n \in Nat : actor \in [1 .. n -> Actor]
  /\ numNew \in Nat
  /\ rollout \in Int /\ rollout >= -1
  /\ step \in Steps
  /\ dead \subseteq Slots
  /\ late \in Lates
  /\ rank \in [Ranks -> RankState]
  /\ version \in Nat
  /\ monitor \in MonitorState

(* numNew is zero from a broadcast to the next recovery, and while ranks   *)
(* read it it says what they decided.                                      *)
CountInv ==
  /\ step \in {"updated", "generate", "start"} => numNew = 0
  /\ step = "update" /\ rollout # -1 => numNew = 0
  /\ step \notin {"read", "over"} => \A r \in Ranks : rank[r].at = "wait"
  /\ \A r \in Ranks : /\ rank[r].at = "send" => numNew = 0
                      /\ rank[r].at = "connect" => numNew > 0

(* Without new engines everyone listed is in the group.  The list rank 0   *)
(* has read differs from all_engines by cleared entries only.              *)
GroupInv ==
  /\ numNew = 0 =>
       \A i \in Slots : engines[i] # None => engines[i] \in group
  /\ rank[0].at = "send" =>
       \A i \in Slots : rank[0].list[i] # None => rank[0].list[i] \in group
  /\ step = "read" /\ rank[0].at # "wait" =>
       \A i \in Slots : engines[i] \in {rank[0].list[i], None}

(* The monitor's copy still tells the truth about the entries it has not   *)
(* come to: only the monitor clears entries, and only those are refilled.  *)
MonitorInv ==
  /\ monitor.at \in {"checking", "killing"} =>
       monitor.slot \in Slots /\ monitor.list[monitor.slot] # None
  /\ monitor.at \in {"next", "checking", "killing"} =>
       \A i \in Slots : i >= monitor.slot /\ monitor.list[i] # None =>
         engines[i] = monitor.list[i]

(* Until the first rollout the monitor is paused and nothing is cleared.   *)
FirstInv ==
  rollout = -1 =>
    /\ monitor.at = "loop" /\ monitor.paused
    /\ step \notin {"start", "init", "generate"}
    /\ \A i \in Slots : engines[i] # None

(* As long as every death is on record, whoever is listed is up, nobody is *)
(* being killed, and the count of dead entries is right.                   *)
SurvivalInv ==
  /\ step \in {"start", "init", "read"} /\ late = "none" =>
       /\ \A i \in Slots : engines[i] # None => actor[engines[i]].up
       /\ monitor.at # "killing"
  /\ step = "start" /\ late = "none" =>
       dead = { i \in Slots : engines[i] = None }
  /\ step = "init" /\ late = "none" => numNew = Cardinality(dead)
  /\ step \in {"init", "read"} /\ late = "none" =>
       \A i \in Slots : engines[i] # None
  /\ RecordedDeathIsSurvived

IInv ==
  /\ TypeInv /\ CountInv /\ GroupInv /\ MonitorInv /\ FirstInv
  /\ SurvivalInv /\ ServesCurrentWeights

-----------------------------------------------------------------------------
(***************************************************************************)
(* Facts used throughout.                                                  *)
(***************************************************************************)

LEMMA SlotsArePositive ==
  IsFiniteSet(Slots) /\ Slots \subseteq Nat \ {0} /\ Slots # {}
<1>1. Cardinality(Slots) \in Nat
  BY EngineAssumption, FS_CardinalityType
<1> QED BY <1>1, EngineAssumption

(* Listed, slot by slot.                                                   *)
LEMMA ListedBySlot ==
  ASSUME TypeInv
  PROVE  /\ \A a \in Listed : a # None /\ \E i \in Slots : engines[i] = a
         /\ \A i \in Slots : engines[i] # None => engines[i] \in Listed
         /\ Listed \subseteq Actors
BY DEF TypeInv, Listed, Range

LEMMA ActorTypes ==
  ASSUME TypeInv
  PROVE  /\ \E n \in Nat : Actors = 1 .. n
         /\ \A a \in Actors : actor[a] \in Actor
         /\ actor = [ a \in Actors |-> actor[a] ]
BY DEF TypeInv, Actors

LEMMA InitHolds == Init => IInv
<1> SUFFICES ASSUME Init PROVE IInv
  OBVIOUS
<1>1. Cardinality(Slots) \in Nat /\ Cardinality(Slots) # 0
  BY EngineAssumption, FS_CardinalityType, FS_EmptySet
<1>2. Slots \subseteq Nat \ {0} /\ NoEngines \in [Slots -> Nat]
  BY SlotsArePositive DEF NoEngines, None
<1>3. actor \in [1 .. Cardinality(Slots) -> Actor] /\ Actors = Slots
  BY EngineAssumption DEF Init, NewActor, Actor, Actors
<1>4. TypeInv
  BY <1>1, <1>2, <1>3 DEF Init, TypeInv, Steps, Lates, RankState, AtStart,
                          MonitorState, None
<1>5. CountInv /\ GroupInv /\ MonitorInv /\ FirstInv /\ SurvivalInv
  BY <1>1, <1>2, EngineAssumption
     DEF Init, CountInv, GroupInv, MonitorInv, FirstInv, SurvivalInv,
         AtStart, None, RecordedDeathIsSurvived
<1>6. ServesCurrentWeights
  BY DEF Init, ServesCurrentWeights
<1> QED BY <1>4, <1>5, <1>6 DEF IInv

-----------------------------------------------------------------------------
(***************************************************************************)
(* The engines and their monitor.                                          *)
(***************************************************************************)

(* Steps that move the monitor alone, and do not begin a kill.             *)
LEMMA MonitorMoves ==
  ASSUME IInv, NEW m, MonitorStep(m), UNCHANGED << engines, actor >>,
         m \in MonitorState,
         MonitorInv', FirstInv', SurvivalInv'
  PROVE  IInv'
<1>1. TypeInv'
  BY DEF IInv, TypeInv, MonitorStep, Actors
<1>2. CountInv' /\ GroupInv' /\ ServesCurrentWeights'
  BY DEF IInv, CountInv, GroupInv, ServesCurrentWeights, MonitorStep, Listed
<1> QED BY <1>1, <1>2 DEF IInv

LEMMA PassingType ==
  ASSUME TypeInv
  PROVE  Passing \in MonitorState /\ BackToLoop \in MonitorState
<1>1. NoEngines \in [Slots -> Nat]
  BY DEF NoEngines, None
<1> QED BY <1>1 DEF TypeInv, MonitorState, Passing, BackToLoop, None

(* The monitor moves on to the next slot.                                  *)
LEMMA NextSlotType ==
  ASSUME monitor \in MonitorState
  PROVE  /\ [ monitor EXCEPT !.at = "next", !.slot = @ + 1 ] \in MonitorState
         /\ [ monitor EXCEPT !.slot = @ + 1 ] \in MonitorState
         /\ [ monitor EXCEPT !.at = "checking" ] \in MonitorState
         /\ [ monitor EXCEPT !.at = "killing" ] \in MonitorState
         /\ monitor.slot \in Nat
<1>1. monitor.slot \in Nat /\ monitor.slot + 1 \in Nat
  BY DEF MonitorState
<1> QED BY <1>1, Zenon DEF MonitorState

LEMMA BeginPassHolds ==
  ASSUME IInv, BeginPass
  PROVE  IInv'
<1> DEFINE m == IF monitor.wait THEN [ monitor EXCEPT !.at = "waiting" ]
                                ELSE Passing
<1>1. MonitorStep(m) /\ UNCHANGED << engines, actor >> /\ ~monitor.paused
  BY DEF BeginPass
<1>2. m \in MonitorState /\ monitor \in MonitorState
  BY PassingType DEF IInv, TypeInv, MonitorState
<1>3. MonitorInv'
  BY <1>1, <1>2 DEF IInv, MonitorInv, MonitorStep, Passing, MonitorState
<1>4. FirstInv'
  BY <1>1 DEF IInv, FirstInv, MonitorStep
<1>5. monitor'.at # "killing"
  BY <1>1, <1>2 DEF MonitorStep, MonitorState, Passing
<1>6. SurvivalInv'
  BY <1>1, <1>5 DEF IInv, SurvivalInv, RecordedDeathIsSurvived, MonitorStep
<1> HIDE DEF m
<1> QED BY <1>1, <1>2, <1>3, <1>4, <1>6, MonitorMoves

LEMMA EndFirstWaitHolds ==
  ASSUME IInv, EndFirstWait
  PROVE  IInv'
<1> DEFINE m == IF monitor.paused THEN BackToLoop ELSE Passing
<1>1. /\ MonitorStep(m) /\ UNCHANGED << engines, actor >>
      /\ monitor.at = "waiting"
  BY DEF EndFirstWait
<1>2. m \in MonitorState /\ monitor \in MonitorState
  BY PassingType DEF IInv, TypeInv
<1>3. MonitorInv'
  BY <1>1, <1>2 DEF IInv, MonitorInv, MonitorStep, Passing, BackToLoop,
                    MonitorState
<1>4. FirstInv'
  BY <1>1 DEF IInv, FirstInv, MonitorStep
<1>5. monitor'.at # "killing"
  BY <1>1, <1>2 DEF MonitorStep, MonitorState, Passing, BackToLoop
<1>6. SurvivalInv'
  BY <1>1, <1>5 DEF IInv, SurvivalInv, RecordedDeathIsSurvived, MonitorStep
<1> HIDE DEF m
<1> QED BY <1>1, <1>2, <1>3, <1>4, <1>6, MonitorMoves

LEMMA SendCheckHolds ==
  ASSUME IInv, SendCheck
  PROVE  IInv'
<1> DEFINE m == IF monitor.paused \/ monitor.slot \notin Slots
                THEN BackToLoop
                ELSE IF monitor.list[monitor.slot] = None
                THEN [ monitor EXCEPT !.slot = @ + 1 ]
                ELSE [ monitor EXCEPT !.at = "checking" ]
<1>1. /\ MonitorStep(m) /\ UNCHANGED << engines, actor >>
      /\ monitor.at = "next"
  BY DEF SendCheck
<1>2. m \in MonitorState /\ monitor \in MonitorState
  BY PassingType, NextSlotType DEF IInv, TypeInv
<1>3. MonitorInv'
  BY <1>1, <1>2, SlotsArePositive
     DEF IInv, MonitorInv, MonitorStep, BackToLoop, MonitorState
<1>4. FirstInv'
  BY <1>1 DEF IInv, FirstInv, MonitorStep
<1>5. monitor'.at # "killing"
  BY <1>1, <1>2 DEF MonitorStep, MonitorState, BackToLoop
<1>6. SurvivalInv'
  BY <1>1, <1>5 DEF IInv, SurvivalInv, RecordedDeathIsSurvived, MonitorStep
<1> HIDE DEF m
<1> QED BY <1>1, <1>2, <1>3, <1>4, <1>6, MonitorMoves

LEMMA CheckPassesHolds ==
  ASSUME IInv, CheckPasses
  PROVE  IInv'
<1> DEFINE m == [ monitor EXCEPT !.at = "next", !.slot = @ + 1 ]
<1>1. /\ MonitorStep(m) /\ UNCHANGED << engines, actor >>
      /\ monitor.at = "checking"
  BY DEF CheckPasses
<1>2. m \in MonitorState /\ monitor \in MonitorState
  BY NextSlotType DEF IInv, TypeInv
<1>3. MonitorInv'
  BY <1>1, <1>2, SlotsArePositive
     DEF IInv, MonitorInv, MonitorStep, MonitorState
<1>4. FirstInv'
  BY <1>1 DEF IInv, FirstInv, MonitorStep
<1>5. monitor'.at # "killing"
  BY <1>1, <1>2 DEF MonitorStep, MonitorState
<1>6. SurvivalInv'
  BY <1>1, <1>5 DEF IInv, SurvivalInv, RecordedDeathIsSurvived, MonitorStep
<1> HIDE DEF m
<1> QED BY <1>1, <1>2, <1>3, <1>4, <1>6, MonitorMoves

(* The engine under check is listed: during a recovery that knows of every *)
(* death it is up, and no kill begins.                                     *)
LEMMA CheckFailsHolds ==
  ASSUME IInv, CheckFails
  PROVE  IInv'
<1> DEFINE m == [ monitor EXCEPT !.at = "killing" ]
<1>1. /\ MonitorStep(m) /\ UNCHANGED << engines, actor >>
      /\ monitor.at = "checking"
      /\ ~actor[monitor.list[monitor.slot]].up
  BY DEF CheckFails
<1>2. m \in MonitorState /\ monitor \in MonitorState
  BY DEF IInv, TypeInv, MonitorState
<1>3. MonitorInv'
  BY <1>1, <1>2, SlotsArePositive
     DEF IInv, MonitorInv, MonitorStep, MonitorState
<1>4. FirstInv'
  BY <1>1 DEF IInv, FirstInv, MonitorStep
<1>5. /\ monitor.slot \in Slots /\ engines[monitor.slot] # None
      /\ ~actor[engines[monitor.slot]].up
  BY <1>1, SlotsArePositive DEF IInv, MonitorInv
<1>6. ~(step \in {"start", "init", "read"} /\ late = "none")
  BY <1>5 DEF IInv, SurvivalInv
<1>7. SurvivalInv'
  BY <1>1, <1>6 DEF IInv, SurvivalInv, RecordedDeathIsSurvived, MonitorStep
<1> HIDE DEF m
<1> QED BY <1>1, <1>2, <1>3, <1>4, <1>7, MonitorMoves

LEMMA ClearEntryHolds ==
  ASSUME IInv, ClearEntry
  PROVE  IInv'
<1>1. /\ MonitorStep([ monitor EXCEPT !.at = "next", !.slot = @ + 1 ])
      /\ UNCHANGED actor /\ monitor.at = "killing"
      /\ engines' = [ engines EXCEPT ![monitor.slot] = None ]
  BY DEF ClearEntry
<1>2. monitor \in MonitorState /\ monitor.slot \in Slots
  BY <1>1 DEF IInv, TypeInv, MonitorInv
<1>3. \A i \in Slots : /\ engines'[i] \in {engines[i], None}
                       /\ i # monitor.slot => engines'[i] = engines[i]
  BY <1>1, <1>2 DEF IInv, TypeInv
<1>4. TypeInv'
  <2>1. monitor' \in MonitorState
    BY <1>1, <1>2, NextSlotType DEF MonitorStep
  <2>2. engines' \in [Slots -> Nat]
    BY <1>1 DEF IInv, TypeInv, None
  <2> QED BY <1>1, <1>3, <2>1, <2>2 DEF IInv, TypeInv, MonitorStep, Actors
<1>5. CountInv'
  BY <1>1 DEF IInv, CountInv, MonitorStep
<1>6. GroupInv'
  BY <1>1, <1>3 DEF IInv, GroupInv, MonitorStep
<1>7. MonitorInv'
  BY <1>1, <1>2, <1>3, SlotsArePositive
     DEF IInv, MonitorInv, MonitorStep, MonitorState
<1>8. FirstInv'
  BY <1>1 DEF IInv, FirstInv, MonitorStep
<1>9. SurvivalInv'
  BY <1>1 DEF IInv, SurvivalInv, RecordedDeathIsSurvived, MonitorStep
<1>10. Listed' \subseteq Listed
  BY <1>3, <1>4 DEF IInv, TypeInv, Listed, Range, None
<1>11. ServesCurrentWeights'
  BY <1>1, <1>10 DEF IInv, ServesCurrentWeights, MonitorStep
<1> QED BY <1>4, <1>5, <1>6, <1>7, <1>8, <1>9, <1>11 DEF IInv

LEMMA EngineDiesHolds ==
  ASSUME IInv, NEW a \in Actors, EngineDies(a)
  PROVE  IInv'
<1>1. \A b \in Actors : /\ actor'[b].weights = actor[b].weights
                        /\ b # a => actor'[b] = actor[b]
                        /\ actor'[b] \in Actor
                        /\ ~actor'[a].up
  BY ActorTypes DEF IInv, EngineDies, Actor
<1>2. \E n \in Nat : actor' \in [1 .. n -> Actor]
  BY ActorTypes DEF IInv, TypeInv, EngineDies, Actor
<1>3. Actors' = Actors
  BY DEF EngineDies, Actors
<1>4. TypeInv'
  BY <1>2, <1>3 DEF IInv, TypeInv, EngineDies, Lates
<1>5. CountInv' /\ GroupInv' /\ MonitorInv' /\ FirstInv'
  BY DEF IInv, CountInv, GroupInv, MonitorInv, FirstInv, EngineDies
<1>6. SurvivalInv'
  BY DEF IInv, SurvivalInv, RecordedDeathIsSurvived, EngineDies
<1>7. ServesCurrentWeights'
  <2>1. Listed' = Listed /\ Listed \subseteq Actors
    BY ListedBySlot DEF IInv, EngineDies, Listed
  <2> QED BY <1>1, <2>1 DEF IInv, ServesCurrentWeights, EngineDies
<1> QED BY <1>4, <1>5, <1>6, <1>7 DEF IInv

-----------------------------------------------------------------------------
(***************************************************************************)
(* The training loop.                                                      *)
(***************************************************************************)

LEMMA StartGenerateHolds ==
  ASSUME IInv, StartGenerate
  PROVE  IInv'
<1>1. monitor' = [ monitor EXCEPT !.paused = FALSE, !.wait = TRUE ]
      /\ monitor \in MonitorState
  BY DEF IInv, TypeInv, StartGenerate
<1>2. /\ monitor' \in MonitorState /\ monitor'.at = monitor.at
      /\ monitor'.slot = monitor.slot /\ monitor'.list = monitor.list
  BY <1>1 DEF MonitorState
<1>3. TypeInv'
  BY <1>2 DEF IInv, TypeInv, StartGenerate, Steps, Actors
<1>4. CountInv' /\ GroupInv'
  BY DEF IInv, CountInv, GroupInv, StartGenerate
<1>5. MonitorInv'
  BY <1>2 DEF IInv, MonitorInv, StartGenerate
<1>6. FirstInv'
  BY DEF IInv, TypeInv, FirstInv, StartGenerate
<1>7. SurvivalInv'
  BY DEF IInv, SurvivalInv, RecordedDeathIsSurvived, StartGenerate
<1>8. ServesCurrentWeights'
  BY DEF IInv, ServesCurrentWeights, StartGenerate, Listed
<1> QED BY <1>3, <1>4, <1>5, <1>6, <1>7, <1>8 DEF IInv

LEMMA EndGenerateHolds ==
  ASSUME IInv, EndGenerate
  PROVE  IInv'
<1>1. TypeInv'
  BY DEF IInv, TypeInv, EndGenerate, Steps, Actors
<1>2. CountInv' /\ GroupInv' /\ MonitorInv' /\ FirstInv'
  BY DEF IInv, CountInv, GroupInv, MonitorInv, FirstInv, EndGenerate
<1>3. SurvivalInv' /\ ServesCurrentWeights'
  BY DEF IInv, SurvivalInv, RecordedDeathIsSurvived, ServesCurrentWeights,
         EndGenerate
<1> QED BY <1>1, <1>2, <1>3 DEF IInv

(* What late = "none" says when a recovery begins.                         *)
LEMMA NoneIsLate ==
  ASSUME IInv, BeginRecover, late' = "none"
  PROVE  /\ monitor.at # "killing"
         /\ \A i \in Slots : engines[i] # None => actor[engines[i]].up
<1>1. /\ ~ \E a \in Listed \ BeingKilled : ~actor[a].up
      /\ BeingKilled = {}
  BY DEF BeginRecover
<1> QED BY <1>1, ListedBySlot DEF IInv, BeingKilled

LEMMA BeginRecoverHolds ==
  ASSUME IInv, BeginRecover
  PROVE  IInv'
<1>1. monitor' = [ monitor EXCEPT !.paused = TRUE ]
      /\ monitor \in MonitorState
  BY DEF IInv, TypeInv, BeginRecover
<1>2. /\ monitor' \in MonitorState /\ monitor'.at = monitor.at
      /\ monitor'.slot = monitor.slot /\ monitor'.list = monitor.list
      /\ monitor'.paused
  BY <1>1 DEF MonitorState
<1>3. step = "update" /\ step' = IF rollout = -1 THEN "read" ELSE "start"
  BY DEF BeginRecover
<1>4. dead' = IF rollout = -1 THEN {} ELSE { i \in Slots : engines[i] = None }
  BY DEF BeginRecover
<1>5. TypeInv'
  BY <1>2, <1>3, <1>4 DEF IInv, TypeInv, BeginRecover, Steps, Lates, Actors
<1>6. CountInv' /\ GroupInv'
  BY <1>3, EngineAssumption DEF IInv, CountInv, GroupInv, BeginRecover
<1>7. MonitorInv' /\ FirstInv'
  BY <1>2, <1>3 DEF IInv, MonitorInv, FirstInv, BeginRecover
<1>8. SurvivalInv'
  <2>1. late' = "none" =>
          /\ monitor'.at # "killing"
          /\ \A i \in Slots : engines[i] # None => actor[engines[i]].up
    BY <1>2, NoneIsLate
  <2>2. UNCHANGED << engines, actor, numNew, rollout >>
    BY DEF BeginRecover
  <2> QED BY <1>3, <1>4, <2>1, <2>2
          DEF IInv, SurvivalInv, FirstInv, RecordedDeathIsSurvived
<1>9. ServesCurrentWeights'
  BY <1>3 DEF ServesCurrentWeights
<1> QED BY <1>5, <1>6, <1>7, <1>8, <1>9 DEF IInv

LEMMA EndRecoverHolds ==
  ASSUME IInv, EndRecover
  PROVE  IInv'
<1>1. TypeInv'
  BY DEF IInv, TypeInv, EndRecover, Steps, Actors
<1>2. CountInv' /\ GroupInv' /\ MonitorInv' /\ FirstInv'
  BY EngineAssumption
     DEF IInv, CountInv, GroupInv, MonitorInv, FirstInv, EndRecover
<1>3. SurvivalInv' /\ ServesCurrentWeights'
  BY DEF IInv, SurvivalInv, RecordedDeathIsSurvived, ServesCurrentWeights,
         EndRecover
<1> QED BY <1>1, <1>2, <1>3 DEF IInv

(* The numbers start_engines gives to the empty entries.                   *)
LEMMA RankInSet ==
  ASSUME NEW S \in SUBSET Slots, NEW i \in S
  PROVE  /\ Cardinality({ j \in S : j <= i }) \in 1 .. Cardinality(S)
         /\ Cardinality(S) \in Nat
<1> DEFINE below == { j \in S : j <= i }
<1>1. IsFiniteSet(S) /\ Cardinality(S) \in Nat
  BY SlotsArePositive, FS_Subset, FS_CardinalityType
<1>2. /\ IsFiniteSet(below) /\ Cardinality(below) \in Nat
      /\ Cardinality(below) <= Cardinality(S)
  BY <1>1, FS_Subset, FS_CardinalityType
<1>3. i \in below
  BY SlotsArePositive
<1>4. Cardinality(below) # 0
  BY <1>2, <1>3, FS_EmptySet
<1> QED BY <1>1, <1>2, <1>4

LEMMA StartEnginesHolds ==
  ASSUME IInv, StartEngines
  PROVE  IInv'
<1> DEFINE empty == { i \in Slots : engines[i] = None }
           first == Cardinality(Actors)
           rankOf(i) == Cardinality({ j \in empty : j <= i })
<1>1. /\ step = "start" /\ step' = "init"
      /\ engines' = [ i \in Slots |-> IF i \in empty THEN first + rankOf(i)
                                                     ELSE engines[i] ]
      /\ actor' = [ a \in 1 .. first + Cardinality(empty) |->
                      IF a \in Actors THEN actor[a] ELSE NewActor ]
      /\ numNew' = Cardinality(empty)
      /\ UNCHANGED << rollout, dead, late, rank, group, version, monitor,
                      deaths >>
  BY DEF StartEngines
<1>2. first \in Nat /\ Actors = 1 .. first
  <2>1. PICK n \in Nat : Actors = 1 .. n
    BY ActorTypes DEF IInv
  <2>2. Cardinality(Actors) = n
    BY <2>1, FS_Interval
  <2> QED BY <2>1, <2>2
<1>3. Cardinality(empty) \in Nat
  BY SlotsArePositive, FS_Subset, FS_CardinalityType
<1>4. \A i \in empty : rankOf(i) \in 1 .. Cardinality(empty)
  BY RankInSet
<1>5. Cardinality(empty) = 0 => empty = {}
  BY SlotsArePositive, FS_Subset, FS_EmptySet
<1> HIDE DEF first, rankOf
<1>6. /\ \A i \in empty :
           engines'[i] \in first + 1 .. first + Cardinality(empty)
      /\ \A i \in Slots \ empty : engines'[i] = engines[i]
      /\ engines' \in [Slots -> Nat]
  <2>1. \A i \in Slots : engines[i] \in Nat
    BY DEF IInv, TypeInv
  <2>2. \A i \in empty :
          /\ engines'[i] = first + rankOf(i)
          /\ first + rankOf(i) \in first + 1 .. first + Cardinality(empty)
    BY <1>1, <1>2, <1>3, <1>4
  <2>3. \A i \in Slots \ empty : engines'[i] = engines[i]
    BY <1>1
  <2>4. first + 1 .. first + Cardinality(empty) \subseteq Nat
    BY <1>2, <1>3
  <2>5. engines' = [ i \in Slots |-> engines'[i] ]
    BY <1>1
  <2> HIDE DEF empty
  <2>6. \A i \in Slots : engines'[i] \in Nat
    BY <2>1, <2>2, <2>3, <2>4
  <2> QED BY <2>2, <2>3, <2>5, <2>6
<1>7. /\ Actors' = 1 .. first + Cardinality(empty)
      /\ Actors \subseteq Actors'
      /\ \A a \in Actors : actor'[a] = actor[a]
      /\ \A a \in Actors' \ Actors : actor'[a] = NewActor
  <2>1. Actors' = 1 .. first + Cardinality(empty)
    BY <1>1 DEF Actors
  <2> HIDE DEF empty
  <2>2. Actors \subseteq Actors'
    BY <1>2, <1>3, <2>1
  <2>3. \A a \in Actors' :
          actor'[a] = IF a \in Actors THEN actor[a] ELSE NewActor
    BY <1>1, <2>1
  <2> QED BY <2>1, <2>2, <2>3
<1>8. TypeInv'
  <2>1. \A i \in Slots : engines'[i] # None => engines'[i] \in Actors'
    BY <1>2, <1>3, <1>6, <1>7 DEF IInv, TypeInv
  <2>2. actor' \in [1 .. first + Cardinality(empty) -> Actor]
    BY <1>1, ActorTypes DEF IInv, NewActor, Actor
  <2>3. first + Cardinality(empty) \in Nat
    BY <1>2, <1>3
  <2> QED BY <1>1, <1>3, <1>6, <2>1, <2>2, <2>3
          DEF IInv, TypeInv, Steps
<1>9. CountInv'
  BY <1>1 DEF IInv, CountInv
<1>10. GroupInv'
  <2>1. numNew = 0 /\ rank[0].at = "wait"
    BY <1>1, EngineAssumption DEF IInv, CountInv
  <2>2. numNew' = 0 => \A i \in Slots : engines'[i] = engines[i]
    BY <1>1, <1>5, <1>6
  <2> QED BY <1>1, <2>1, <2>2 DEF IInv, GroupInv
<1>11. MonitorInv'
  BY <1>1, <1>6, SlotsArePositive DEF IInv, MonitorInv
<1>12. FirstInv'
  BY <1>1 DEF IInv, FirstInv
<1>13. SurvivalInv'
  <2>1. \A i \in Slots : engines'[i] # None
    BY <1>2, <1>3, <1>6 DEF None
  <2>2. ASSUME late = "none"
        PROVE  /\ \A i \in Slots : actor'[engines'[i]].up
               /\ monitor.at # "killing"
               /\ dead = empty
    <3>1. /\ \A i \in Slots : engines[i] # None => actor[engines[i]].up
          /\ monitor.at # "killing" /\ dead = empty
      BY <1>1, <2>2 DEF IInv, SurvivalInv
    <3>2. ASSUME NEW i \in empty
          PROVE  actor'[engines'[i]].up
      BY <1>2, <1>3, <1>6, <1>7, <3>2 DEF NewActor
    <3>3. ASSUME NEW i \in Slots \ empty
          PROVE  actor'[engines'[i]].up
      BY <1>6, <1>7, <3>1, <3>3 DEF IInv, TypeInv
    <3> QED BY <3>1, <3>2, <3>3
  <2> QED BY <1>1, <2>1, <2>2 DEF IInv, SurvivalInv, RecordedDeathIsSurvived
<1>14. ServesCurrentWeights'
  BY <1>1 DEF ServesCurrentWeights
<1> QED BY <1>8, <1>9, <1>10, <1>11, <1>12, <1>13, <1>14 DEF IInv

-----------------------------------------------------------------------------
(***************************************************************************)
(* The ranks of the trainer.                                               *)
(***************************************************************************)

LEMMA ReadEnginesHolds ==
  ASSUME IInv, NEW r \in Ranks, ReadEngines(r)
  PROVE  IInv'
<1> DEFINE read == [ at |-> IF numNew > 0 THEN "connect" ELSE "send",
                     new |-> numNew, list |-> engines ]
<1>1. /\ step = "read" /\ rank[r].at = "wait"
      /\ rank' = [ rank EXCEPT ![r] = read ]
      /\ UNCHANGED << engines, actor, numNew, rollout, step, dead, late,
                      group, version, monitor, deaths >>
  BY DEF ReadEngines
<1>2. /\ read \in RankState /\ read.list = engines
      /\ read.at = "send" => numNew = 0
      /\ read.at = "connect" => numNew > 0
  BY DEF IInv, TypeInv, RankState
<1> HIDE DEF read
<1>3. /\ rank'[r] = read
      /\ \A q \in Ranks \ {r} : rank'[q] = rank[q]
      /\ rank' \in [Ranks -> RankState]
  BY <1>1, <1>2 DEF IInv, TypeInv
<1>4. TypeInv'
  BY <1>1, <1>3 DEF IInv, TypeInv, Actors
<1>5. CountInv'
  BY <1>1, <1>2, <1>3 DEF IInv, CountInv
<1>6. GroupInv'
  <2>1. rank'[0] = rank[0] \/ rank'[0] = read
    BY <1>3, EngineAssumption
  <2> QED BY <1>1, <1>2, <2>1 DEF IInv, GroupInv
<1>7. MonitorInv' /\ FirstInv' /\ SurvivalInv'
  BY <1>1 DEF IInv, MonitorInv, FirstInv, SurvivalInv,
              RecordedDeathIsSurvived
<1>8. ServesCurrentWeights'
  BY <1>1 DEF ServesCurrentWeights
<1> QED BY <1>4, <1>5, <1>6, <1>7, <1>8 DEF IInv

(* With every death on record the engines rank 0 has read all answer.      *)
LEMMA AllAnswer ==
  ASSUME IInv, step = "read", late = "none", rank[0].at # "wait"
  PROVE  Answers(rank[0].list)
<1>1. ASSUME NEW i \in Slots
      PROVE  rank[0].list[i] # None /\ actor[rank[0].list[i]].up
  <2>1. engines[i] # None /\ engines[i] = rank[0].list[i]
    BY DEF IInv, SurvivalInv, GroupInv
  <2> QED BY <2>1 DEF IInv, SurvivalInv
<1> QED BY <1>1 DEF Answers

LEMMA UpdateFails ==
  ASSUME IInv, step = "read", rank[0].at # "wait",
         ~Answers(rank[0].list), step' = "over",
         UNCHANGED << engines, actor, numNew, rollout, dead, late, rank,
                      group, version, monitor, deaths >>
  PROVE  IInv'
<1>1. late # "none"
  BY AllAnswer
<1>2. TypeInv' /\ CountInv' /\ GroupInv' /\ MonitorInv'
  BY DEF IInv, TypeInv, CountInv, GroupInv, MonitorInv, Steps, Actors
<1>3. FirstInv' /\ SurvivalInv' /\ ServesCurrentWeights'
  BY <1>1 DEF IInv, FirstInv, SurvivalInv, RecordedDeathIsSurvived,
              ServesCurrentWeights
<1> QED BY <1>2, <1>3 DEF IInv

LEMMA ConnectHolds ==
  ASSUME IInv, Connect
  PROVE  IInv'
<1>1. /\ step = "read" /\ \A r \in Ranks : rank[r].at = "connect"
      /\ 0 \in Ranks
      /\ UNCHANGED << engines, actor, rollout, dead, late, version, monitor,
                      deaths >>
  BY EngineAssumption DEF Connect, Together
<1>2. CASE ~Answers(rank[0].list)
  BY <1>1, <1>2, UpdateFails DEF Connect
<1>3. CASE Answers(rank[0].list)
  <2>1. /\ group' = Range(rank[0].list) /\ numNew' = 0 /\ step' = step
        /\ rank' = [ r \in Ranks |-> [ rank[r] EXCEPT !.at = "send" ] ]
    BY <1>3 DEF Connect, GroupAfter
  <2>2. /\ \A r \in Ranks : /\ rank'[r] \in RankState
                            /\ rank'[r].at = "send"
                            /\ rank'[r].list = rank[r].list
        /\ rank' \in [Ranks -> RankState]
    BY <2>1 DEF IInv, TypeInv, RankState
  <2>3. \A i \in Slots : rank[0].list[i] \in group'
    BY <1>1, <2>1 DEF IInv, TypeInv, RankState, Range
  <2>4. \A i \in Slots : engines[i] \in {rank[0].list[i], None}
    BY <1>1 DEF IInv, GroupInv
  <2>5. TypeInv'
    BY <1>1, <2>1, <2>2 DEF IInv, TypeInv, Actors
  <2>6. CountInv'
    BY <1>1, <2>1, <2>2 DEF IInv, CountInv
  <2>7. GroupInv'
    BY <1>1, <2>1, <2>2, <2>3, <2>4 DEF GroupInv
  <2>8. MonitorInv' /\ FirstInv' /\ SurvivalInv'
    BY <1>1, <2>1 DEF IInv, MonitorInv, FirstInv, SurvivalInv,
                      RecordedDeathIsSurvived
  <2>9. ServesCurrentWeights'
    BY <1>1, <2>1 DEF ServesCurrentWeights
  <2> QED BY <2>5, <2>6, <2>7, <2>8, <2>9 DEF IInv
<1> QED BY <1>2, <1>3

(* Everyone listed is in the group by now, so everyone gets the weights.   *)
LEMMA BroadcastHolds ==
  ASSUME IInv, Broadcast
  PROVE  IInv'
<1>1. /\ step = "read" /\ \A r \in Ranks : rank[r].at = "send"
      /\ 0 \in Ranks
      /\ UNCHANGED << engines, numNew, rollout, dead, late, group, monitor,
                      deaths >>
  BY EngineAssumption DEF Broadcast, Together
<1>2. CASE ~Answers(rank[0].list)
  BY <1>1, <1>2, UpdateFails DEF Broadcast
<1>3. CASE Answers(rank[0].list)
  <2>1. /\ version' = version + 1 /\ step' = "updated"
        /\ rank' = [ r \in Ranks |-> AtStart ]
        /\ actor' = [ a \in Actors |-> IF a \in group
                        THEN [ actor[a] EXCEPT !.weights = version + 1 ]
                        ELSE actor[a] ]
    BY <1>3 DEF Broadcast
  <2>2. NoEngines \in [Slots -> Nat] /\ AtStart \in RankState
    BY DEF NoEngines, None, AtStart, RankState
  <2>3. Actors' = Actors /\ version + 1 \in Nat
    BY <2>1 DEF IInv, TypeInv, Actors
  <2>4. \A a \in Actors :
          /\ actor'[a] \in Actor
          /\ a \in group => actor'[a].weights = version'
    BY <2>1, <2>3, ActorTypes DEF IInv, Actor
  <2>5. TypeInv'
    <3>1. \E n \in Nat : actor' \in [1 .. n -> Actor]
      BY <2>1, <2>4, ActorTypes DEF IInv
    <3> QED BY <1>1, <2>1, <2>2, <2>3, <3>1 DEF IInv, TypeInv, Steps
  <2>6. numNew = 0
    BY <1>1 DEF IInv, CountInv
  <2>7. CountInv' /\ GroupInv'
    BY <1>1, <2>1, <2>6 DEF IInv, CountInv, GroupInv, AtStart
  <2>8. MonitorInv' /\ FirstInv' /\ SurvivalInv'
    BY <1>1, <2>1 DEF IInv, MonitorInv, FirstInv, SurvivalInv,
                      RecordedDeathIsSurvived
  <2>9. Listed \subseteq Actors \cap group
    BY <2>6, ListedBySlot DEF IInv, GroupInv
  <2>10. ServesCurrentWeights'
    BY <1>1, <2>4, <2>9 DEF ServesCurrentWeights, Listed
  <2> QED BY <2>5, <2>7, <2>8, <2>10 DEF IInv
<1> QED BY <1>2, <1>3

-----------------------------------------------------------------------------
LEMMA NextHolds == IInv /\ [Next]_vars => IInv'
<1> SUFFICES ASSUME IInv, [Next]_vars
             PROVE  IInv'
  OBVIOUS
<1>1. CASE \E a \in Actors : EngineDies(a)
  BY <1>1, EngineDiesHolds
<1>2. CASE BeginPass \/ EndFirstWait \/ SendCheck \/ CheckPasses
             \/ CheckFails \/ ClearEntry
  BY <1>2, BeginPassHolds, EndFirstWaitHolds, SendCheckHolds,
     CheckPassesHolds, CheckFailsHolds, ClearEntryHolds
<1>3. CASE StartGenerate \/ EndGenerate \/ BeginRecover \/ StartEngines
             \/ EndRecover
  BY <1>3, StartGenerateHolds, EndGenerateHolds, BeginRecoverHolds,
     StartEnginesHolds, EndRecoverHolds
<1>4. CASE Connect \/ Broadcast \/ \E r \in Ranks : ReadEngines(r)
  BY <1>4, ConnectHolds, BroadcastHolds, ReadEnginesHolds
<1>5. CASE UNCHANGED vars
  BY <1>5 DEF vars, IInv, TypeInv, CountInv, GroupInv, MonitorInv, FirstInv,
              SurvivalInv, RecordedDeathIsSurvived, ServesCurrentWeights,
              Listed, Actors
<1> QED BY <1>1, <1>2, <1>3, <1>4, <1>5 DEF Next

LEMMA Invariant == Spec => []IInv
BY InitHolds, NextHolds, PTL DEF Spec

(* Every engine that answers between an update and the next one has the    *)
(* weights of that update: clearing, refilling and reading all_engines     *)
(* concurrently leaves no listed engine outside the broadcast group.       *)
THEOREM CurrentWeights == Spec => []ServesCurrentWeights
BY Invariant, PTL DEF IInv

(* No two ranks of the trainer decide differently whether to reconnect.    *)
THEOREM RanksDecideAlike == Spec => []RanksAgree
<1>1. IInv => RanksAgree
  BY DEF IInv, TypeInv, CountInv, RanksAgree, RankState
<1> QED BY <1>1, Invariant, PTL

(* An update that fails met a death that was not on record when its        *)
(* recovery began.                                                         *)
THEOREM OnlyUnrecordedDeathsStop == Spec => []RecordedDeathIsSurvived
<1>1. IInv => RecordedDeathIsSurvived
  BY DEF IInv, SurvivalInv
<1> QED BY <1>1, Invariant, PTL
-----------------------------------------------------------------------------
(* PolicyVersion.  The weights that the engines serve, whichever of them   *)
(* are alive, are those that the version file names.                       *)

(* While the job is up it is about to serve, or serves, the weights of the *)
(* update before the call or of the one before that, and from the          *)
(* announcement to the commit the file is the driver's.                    *)
DriverInv ==
  /\ pc # "down" => target \in {rid - 1, rid - 2} /\ target \in Versions
  /\ pc \in {"broadcast", "commit"} =>
       file.updating /\ file.target = target /\ file.transition = mine
  /\ pc = "broadcast" => paused
  /\ pc \in {"commit", "generate"} =>
       \A e \in Engines : weights[e] = target
  /\ pc = "generate" => ~ file.updating /\ file.committed = target

(* Weights of this life are no older than the pin of a rollout in flight,  *)
(* and no newer than the update that is being made, whenever the engines   *)
(* answer.                                                                 *)
RolloutInv ==
  \A w \in Rollouts : rollouts[w].st # "none" =>
    /\ pc # "down"
    /\ target = rid - 1 => pc = "generate" /\ rollouts[w].pin = target
    /\ rollouts[w].pin \in Versions /\ rollouts[w].pin <= target
    /\ \A v \in rollouts[w].used : rollouts[w].pin <= v /\ v <= target
    /\ paused \/ \A e \in Engines :
         /\ weights[e] \in Versions
         /\ rollouts[w].pin <= weights[e] /\ weights[e] <= target

(* What a rollout returns has tokens; what training accepts is pure.       *)
ResultInv ==
  \A w \in Rollouts :
    /\ rollouts[w].st = "finished" => rollouts[w].used # {}
    /\ rollouts[w].st = "accepted" /\ ~ rollouts[w].validation =>
         rollouts[w].used = {rollouts[w].pin}

PolicyInv == PolicyTypeOK /\ DriverInv /\ RolloutInv /\ ResultInv

-----------------------------------------------------------------------------
USE DEF NoVersion, Versions

Record == [ st : {"none", "idle", "finished", "accepted", "rejected"}
                   \cup Engines,
            validation : BOOLEAN, pin : Versions \cup {NoVersion},
            rid : 0 .. NumRollout - 1, used : SUBSET Versions ]

LEMMA NoRolloutRecord ==
  NoRollout \in Record /\ NoRollout.st = "none"
<1>1. 0 \in 0 .. NumRollout - 1
  BY PolicyAssumption
<1> QED
  BY <1>1 DEF NoRollout, Record

LEMMA PolicyInitially ==
  PolicyInit => PolicyInv
<1> SUFFICES ASSUME PolicyInit PROVE PolicyInv
  OBVIOUS
<1>1. \A w \in Rollouts : rollouts[w].st = "none" /\ rollouts[w] \in Record
  BY NoRolloutRecord DEF PolicyInit
<1>2. PolicyTypeOK
  <2>1. rollouts \in [ Rollouts -> Record ]
    BY NoRolloutRecord DEF PolicyInit
  <2>2. 1 \in 1 .. MaxLives /\ 0 \in 0 .. NumRollout - 1
    BY PolicyAssumption
  <2> QED
    BY <2>1, <2>2 DEF PolicyInit, PolicyTypeOK, Record
<1>3. DriverInv /\ RolloutInv /\ ResultInv
  BY <1>1 DEF PolicyInit, DriverInv, RolloutInv, ResultInv
<1> QED
  BY <1>2, <1>3 DEF PolicyInv

(* The rollout processes leave the driver, the file and the engines alone. *)
LEMMA RolloutsOnly ==
  ASSUME NEW w \in Rollouts, Rollout(w)
  PROVE  /\ UNCHANGED << driverVars, file, weights, paused >>
         /\ \A q \in Rollouts \ {w} :
              PolicyTypeOK => rollouts'[q] = rollouts[q]
  BY DEF Rollout, Dispatch, RequestStart,
         RequestComplete, Finish, Accept, Retire,
         PolicyTypeOK, Reject

(* What one rollout process does to its own record.                        *)
LEMMA RolloutRecord ==
  ASSUME PolicyInv,
         NEW w \in Rollouts, Rollout(w)
  PROVE  /\ rollouts' \in [ Rollouts -> Record ]
         /\ \/ rollouts'[w].st = "none"
            \/ /\ rollouts[w].st = "none" /\ pc = "generate"
               /\ rollouts'[w].st = "idle" /\ rollouts'[w].used = {}
               /\ rollouts'[w].pin = target
            \/ /\ rollouts[w].st # "none"
               /\ rollouts'[w].pin = rollouts[w].pin
               /\ \/ rollouts'[w].used = rollouts[w].used
                  \/ ~ paused /\ \E e \in Engines :
                       rollouts'[w].used = rollouts[w].used \cup {weights[e]}
         /\ rollouts'[w].st = "finished" => rollouts'[w].used # {}
         /\ rollouts'[w].st = "accepted" /\ ~ rollouts'[w].validation =>
              rollouts'[w].used = {rollouts'[w].pin}
<1> USE DEF PolicyInv, PolicyTypeOK, Record
<1> DEFINE r == rollouts[w]
<1>1. CASE Dispatch(w)
  BY <1>1, PolicyAssumption DEF Dispatch, Dispatchable,
         DriverInv
<1>2. CASE RequestStart(w)
  <2>1. /\ r.st = "idle" /\ ~ paused
    BY <1>2 DEF RequestStart
  <2>2. CASE Reject(w)
    BY <2>1, <2>2 DEF Reject
  <2>3. CASE \E e \in Engines : rollouts' = [ rollouts EXCEPT
               ![w].st = e, ![w].used = @ \cup {weights[e]} ]
    <3>1. PICK e \in Engines : rollouts' = [ rollouts EXCEPT
               ![w].st = e, ![w].used = @ \cup {weights[e]} ]
      BY <2>3
    <3>2. weights[e] \in Versions
      BY <2>1 DEF RolloutInv
    <3>3. e \notin { "none", "finished", "accepted" }
      BY PolicyAssumption
    <3> QED
      BY <2>1, <3>1, <3>2, <3>3
  <2> QED
    BY <1>2, <2>2, <2>3 DEF RequestStart
<1>3. CASE RequestComplete(w)
  <2>1. /\ r.st \in Engines /\ ~ paused
        /\ r.st # "none"
    BY <1>3, PolicyAssumption DEF RequestComplete
  <2>2. CASE Reject(w)
    BY <2>1, <2>2 DEF Reject
  <2>3. CASE rollouts' = [ rollouts EXCEPT
               ![w].used = @ \cup {weights[rollouts[w].st]}, ![w].st = "idle" ]
    <3>1. weights[r.st] \in Versions
      BY <2>1 DEF RolloutInv
    <3> QED
      BY <2>1, <2>3, <3>1
  <2> QED
    BY <1>3, <2>2, <2>3 DEF RequestComplete
<1>4. CASE Finish(w)
  BY <1>4 DEF Finish
<1>5. CASE Accept(w)
  <2>1. /\ r.st = "finished"
        /\ rollouts' = [ rollouts EXCEPT ![w].st = "accepted" ]
    BY <1>5 DEF Accept
  <2>2. r.used # {}
    BY <2>1 DEF ResultInv
  <2>3. ASSUME ~ r.validation
        PROVE  r.used = {r.pin}
    <3>1. pc = "generate" /\ ~ Stale(r)
      BY <1>5, <2>3 DEF Accept
    <3>2. r.pin \in Versions /\ r.pin >= rid - 2
      BY <2>1, <3>1 DEF RolloutInv, Stale, Lag
    <3>3. r.pin = target
      <4>1. /\ target = rid - 1 => r.pin = target
            /\ r.pin <= target
        BY <2>1 DEF RolloutInv
      <4>2. target \in {rid - 1, rid - 2}
        BY <3>1 DEF DriverInv
      <4> QED
        BY <3>2, <4>1, <4>2
    <3>4. \A v \in r.used : v \in Versions /\ r.pin <= v /\ v <= target
      BY <2>1 DEF RolloutInv
    <3>5. \A v \in r.used : v = r.pin
      BY <3>2, <3>3, <3>4
    <3> QED
      BY <2>2, <3>5
  <2> QED
    BY <2>1, <2>3
<1>6. CASE Retire(w)
  BY <1>6, PolicyAssumption DEF Retire, NoRollout
<1> QED
  BY <1>1, <1>2, <1>3, <1>4, <1>5, <1>6 DEF Rollout

LEMMA TypeStep ==
  PolicyInv /\ [PolicyNext]_policyVars => PolicyTypeOK'
<1> SUFFICES ASSUME PolicyInv, [PolicyNext]_policyVars PROVE PolicyTypeOK'
  OBVIOUS
<1> USE PolicyAssumption DEF PolicyInv, PolicyTypeOK, driverVars
<1>1. CASE Start
  BY <1>1 DEF Start
<1>2. CASE BeginUpdate
  <2>1. /\ target \in Versions \cup {NoVersion}
        /\ file.transition + 1 \in Nat
    OBVIOUS
  <2>2. /\ file' = [ file EXCEPT !.target = target, !.updating = TRUE,
                                !.transition = file.transition + 1 ]
        /\ mine' = file.transition + 1 /\ paused' = TRUE
        /\ pc' = "broadcast"
        /\ UNCHANGED << life, rid, target, weights, rollouts >>
    BY <1>2 DEF BeginUpdate
  <2> QED
    BY <2>1, <2>2, Zenon
<1>3. CASE SendWeights
  BY <1>3 DEF SendWeights
<1>4. CASE ContinueGeneration
  BY <1>4 DEF ContinueGeneration
<1>5. CASE FailUpdate
  BY <1>5 DEF FailUpdate
<1>6. CASE CommitUpdate
  BY <1>6 DEF CommitUpdate
<1>7. CASE EndGeneration
  BY <1>7 DEF EndGeneration
<1>8. ASSUME NEW w \in Rollouts, Rollout(w)
      PROVE  PolicyTypeOK'
  BY <1>8, RolloutsOnly, RolloutRecord DEF Record
<1>9. CASE Crash
  <2>1. rollouts' \in [ Rollouts -> Record ]
    BY <1>9, NoRolloutRecord DEF Crash
  <2>2. life' \in 1 .. MaxLives
    BY <1>9 DEF Crash
  <2> QED
    BY <1>9, <2>1, <2>2 DEF Crash, Record
<1>10. CASE UNCHANGED policyVars
  BY <1>10 DEF policyVars
<1> QED
  BY <1>1, <1>2, <1>3, <1>4, <1>5, <1>6, <1>7, <1>8, <1>9, <1>10
  DEF PolicyNext, Driver

LEMMA DriverStep ==
  PolicyInv /\ [PolicyNext]_policyVars => DriverInv'
<1> SUFFICES ASSUME PolicyInv, [PolicyNext]_policyVars PROVE DriverInv'
  OBVIOUS
<1> USE PolicyAssumption DEF PolicyInv, PolicyTypeOK, DriverInv,
       driverVars
<1>1. CASE Start
  BY <1>1 DEF Start
<1>2. CASE BeginUpdate
  BY <1>2 DEF BeginUpdate
<1>3. CASE SendWeights
  BY <1>3 DEF SendWeights
<1>4. CASE ContinueGeneration
  BY <1>4 DEF ContinueGeneration
<1>5. CASE FailUpdate
  BY <1>5 DEF FailUpdate
<1>6. CASE CommitUpdate
  BY <1>6 DEF CommitUpdate, MayCommit
<1>7. CASE EndGeneration
  BY <1>7 DEF EndGeneration
<1>8. ASSUME NEW w \in Rollouts, Rollout(w)
      PROVE  DriverInv'
  BY <1>8, RolloutsOnly
<1>9. CASE Crash
  BY <1>9 DEF Crash
<1>10. CASE UNCHANGED policyVars
  BY <1>10 DEF policyVars
<1> QED
  BY <1>1, <1>2, <1>3, <1>4, <1>5, <1>6, <1>7, <1>8, <1>9, <1>10
  DEF PolicyNext, Driver

LEMMA RolloutStep ==
  PolicyInv /\ [PolicyNext]_policyVars => RolloutInv'
<1> SUFFICES ASSUME PolicyInv, [PolicyNext]_policyVars PROVE RolloutInv'
  OBVIOUS
<1> USE PolicyAssumption DEF PolicyInv, PolicyTypeOK, DriverInv,
       RolloutInv, driverVars
<1>1. CASE Start
  BY <1>1 DEF Start
<1>2. CASE BeginUpdate
  BY <1>2 DEF BeginUpdate
<1>3. CASE SendWeights
  BY <1>3 DEF SendWeights
<1>4. CASE ContinueGeneration
  BY <1>4 DEF ContinueGeneration
<1>5. CASE FailUpdate
  BY <1>5 DEF FailUpdate
<1>6. CASE CommitUpdate
  BY <1>6 DEF CommitUpdate
<1>7. CASE EndGeneration
  BY <1>7 DEF EndGeneration
<1>8. ASSUME NEW w \in Rollouts, Rollout(w)
      PROVE  RolloutInv'
  BY <1>8, RolloutsOnly, RolloutRecord
<1>9. CASE Crash
  BY <1>9 DEF Crash, NoRollout
<1>10. CASE UNCHANGED policyVars
  BY <1>10 DEF policyVars
<1> QED
  BY <1>1, <1>2, <1>3, <1>4, <1>5, <1>6, <1>7, <1>8, <1>9, <1>10
  DEF PolicyNext, Driver

LEMMA ResultStep ==
  PolicyInv /\ [PolicyNext]_policyVars => ResultInv'
<1> SUFFICES ASSUME PolicyInv, [PolicyNext]_policyVars PROVE ResultInv'
  OBVIOUS
<1> USE DEF PolicyInv, ResultInv
<1>1. CASE Driver
  BY <1>1
  DEF Driver, Start, BeginUpdate, SendWeights,
      ContinueGeneration, FailUpdate, CommitUpdate,
      EndGeneration
<1>2. ASSUME NEW w \in Rollouts, Rollout(w)
      PROVE  ResultInv'
  BY <1>2, RolloutsOnly, RolloutRecord
<1>3. CASE Crash
  BY <1>3 DEF Crash, NoRollout
<1>4. CASE UNCHANGED policyVars
  BY <1>4 DEF policyVars
<1> QED
  BY <1>1, <1>2, <1>3, <1>4 DEF PolicyNext

LEMMA PolicyInvariance == PolicySpec => []PolicyInv
<1>1. PolicyInit => PolicyInv
  BY PolicyInitially
<1>2. PolicyInv /\ [PolicyNext]_policyVars => PolicyInv'
  BY TypeStep, DriverStep, RolloutStep, ResultStep DEF PolicyInv
<1> QED
  BY <1>1, <1>2, PTL DEF PolicySpec

(* Every variable holds a value of its kind.                               *)
THEOREM PolicyTypes == PolicySpec => []PolicyTypeOK
<1>1. PolicyInv => PolicyTypeOK
  BY DEF PolicyInv
<1> QED
  BY <1>1, PolicyInvariance, PTL

(* commit_policy_weight_update names only weights that every engine serves *)
(* when generate() is called, whatever failed, crashed and restarted       *)
(* before.                                                                 *)
THEOREM CommittedWeightsServed == PolicySpec => []CommittedIsServed
<1>1. PolicyInv => CommittedIsServed
  BY DEF PolicyInv, PolicyTypeOK, DriverInv, CommittedIsServed,
         Dispatchable
<1> QED
  BY <1>1, PolicyInvariance, PTL

(* The checks of assert_policy_staleness around a request and of           *)
(* _harvest_ready together keep groups with tokens of two versions out of  *)
(* training.                                                               *)
THEOREM TrainingGroupsPure == PolicySpec => []AcceptedGroupIsPure
<1>1. PolicyInv => AcceptedGroupIsPure
  BY DEF PolicyInv, ResultInv, AcceptedGroupIsPure
<1> QED
  BY <1>1, PolicyInvariance, PTL
=============================================================================
