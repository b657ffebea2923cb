------------------------ MODULE CheckpointStoreProofs -----------------------
(***************************************************************************)
(* Theorems about CheckpointStore, for any number of updates, any          *)
(* retention and any number of lives, when every update is saved, as the   *)
(* launcher has it.                                                        *)
(***************************************************************************)
EXTENDS CheckpointStore, FiniteSetTheorems, WellFoundedInduction, TLAPS

(* What is needed of the types.                                            *)
TypeInv ==
  /\ life \in Nat \ {0}
  /\ last \in Ids \cup {-1} /\ tracker \in Ids \cup {-1}
  /\ stamp \in Nat
  /\ terminal \in BOOLEAN
  /\ model \in [ Ids -> Nat ] /\ data \in [ Ids -> Nat ]
  /\ staged \in [ Ids -> Nat ] /\ hf \in [ Ids -> Nat ]
  /\ targets \subseteq Ids /\ intact \subseteq Ids

(* Directories bear the stamps of this life and of earlier ones.           *)
StampInv ==
  \A i \in Ids : /\ model[i] <= life
                 /\ pc = "down" => model[i] < life

(* A cursor is only ever published as the newest pair, so none lies beyond *)
(* the recovery point: a directory there is not taken for a checkpoint     *)
(* when the tracker comes to name it.                                      *)
DataInv == \A i \in Ids : data[i] # 0 => i <= ResumePoint

AtRest == {"loop", "train", "prune", "delete", "rmtree", "unlink", "final"}

(* SaveNow when every update is saved.                                     *)
MustSave(r, atBudget) ==
  RequireExhaustion /\ r = NumRollout - 1 => atBudget

(* The driver works on the recovery point or on the update behind it.      *)
DriverInv ==
  /\ last = -1 => stamp = 0
  /\ pc \in AtRest => last = ResumePoint /\ tracker = ResumePoint
  /\ pc \in AtRest \ {"train"} /\ last # -1 => model[last] = stamp
  /\ pc = "loop" => ~ terminal /\ (stamp = life => last < NumRollout - 1)
  /\ pc = "train" =>
       /\ last + 1 \in Ids
       /\ MustSave(last + 1, terminal) => staged[last + 1] = life
  /\ pc \in {"save", "saving", "track"} =>
       /\ last = ResumePoint + 1 /\ tracker = ResumePoint
       /\ last \in Ids /\ stamp = life /\ staged[last] = stamp
  /\ pc \in {"saving", "track", "commit"} => model[last] = stamp
  /\ pc \in {"track", "commit"} => last \in intact
  /\ pc = "commit" => last \in Ids /\ tracker = last /\ staged[last] = stamp
  /\ pc \in {"prune", "delete", "rmtree", "unlink"} => last \in Ids
  /\ pc = "update" =>
       \/ /\ last = ResumePoint /\ tracker = ResumePoint
          /\ last # -1 /\ model[last] = stamp
       \/ RequireExhaustion /\ last = NumRollout - 1 /\ ~ terminal
  /\ pc = "final" /\ stamp = life => MustSave(last, terminal)

PruneInv ==
  /\ pc \in {"delete", "rmtree", "unlink"} => ResumePoint \notin targets
  /\ pc \in {"rmtree", "unlink"} => targets # {}

IInv ==
  /\ TypeInv /\ StampInv /\ DataInv /\ DriverInv /\ PruneInv
  /\ ResumePointIntact

-----------------------------------------------------------------------------
(* The greatest and the least of finitely many numbers.                    *)

LEMMA Greatest ==
  ASSUME NEW S \in SUBSET Int, S # {}, IsFiniteSet(S)
  PROVE  \E x \in S : \A y \in S : x >= y
<1> DEFINE Up(x) == { y \in S : y >= x }
           T == { Up(x) : x \in S }
           R == StrictSubsetOrdering(S)
<1>1. T # {} /\ T \subseteq FiniteSubsetsOf(S)
  <2>1. \A x \in S : Up(x) \in SUBSET S /\ IsFiniteSet(Up(x))
    BY FS_Subset
  <2> QED
    BY <2>1 DEF FiniteSubsetsOf
<1>2. IsWellFoundedOn(R, FiniteSubsetsOf(S))
  BY FS_StrictSubsetOrderingWellFounded
<1>3. PICK t \in T : \A u \in T : ~ (<< u, t >> \in R)
  <2> HIDE DEF T, R
  <2> QED
    BY <1>1, <1>2, WFMin
<1>4. PICK x \in S : t = Up(x)
  OBVIOUS
<1>5. ASSUME NEW y \in S, ~ (x >= y) PROVE FALSE
  <2>1. Up(y) \in T /\ Up(y) \in SUBSET S /\ Up(x) \in SUBSET S
    OBVIOUS
  <2>2. x \in Int /\ y \in Int /\ x < y
    BY <1>5
  <2>3. ASSUME NEW z \in S, z >= y PROVE z >= x
    <3>1. z \in Int
      OBVIOUS
    <3> QED
      BY <2>2, <2>3, <3>1
  <2>4. Up(y) \subseteq Up(x)
    BY <2>3
  <2>5. x \in Up(x) /\ x \notin Up(y)
    BY <2>2
  <2>6. << Up(y), Up(x) >> \in R
    <3> HIDE DEF Up
    <3> QED
      BY <2>1, <2>4, <2>5 DEF StrictSubsetOrdering
  <2> QED
    BY <1>3, <1>4, <2>1, <2>6
<1> QED
  BY <1>5

LEMMA Least ==
  ASSUME NEW S \in SUBSET Int, S # {}, IsFiniteSet(S)
  PROVE  \E x \in S : \A y \in S : x <= y
<1> DEFINE Down(x) == { y \in S : y <= x }
           T == { Down(x) : x \in S }
           R == StrictSubsetOrdering(S)
<1>1. T # {} /\ T \subseteq FiniteSubsetsOf(S)
  <2>1. \A x \in S : Down(x) \in SUBSET S /\ IsFiniteSet(Down(x))
    BY FS_Subset
  <2> QED
    BY <2>1 DEF FiniteSubsetsOf
<1>2. IsWellFoundedOn(R, FiniteSubsetsOf(S))
  BY FS_StrictSubsetOrderingWellFounded
<1>3. PICK t \in T : \A u \in T : ~ (<< u, t >> \in R)
  <2> HIDE DEF T, R
  <2> QED
    BY <1>1, <1>2, WFMin
<1>4. PICK x \in S : t = Down(x)
  OBVIOUS
<1>5. ASSUME NEW y \in S, ~ (x <= y) PROVE FALSE
  <2>1. Down(y) \in T /\ Down(y) \in SUBSET S /\ Down(x) \in SUBSET S
    OBVIOUS
  <2>2. x \in Int /\ y \in Int /\ y < x
    BY <1>5
  <2>3. ASSUME NEW z \in S, z <= y PROVE z <= x
    <3>1. z \in Int
      OBVIOUS
    <3> QED
      BY <2>2, <2>3, <3>1
  <2>4. Down(y) \subseteq Down(x)
    BY <2>3
  <2>5. x \in Down(x) /\ x \notin Down(y)
    BY <2>2
  <2>6. << Down(y), Down(x) >> \in R
    <3> HIDE DEF Down
    <3> QED
      BY <2>1, <2>4, <2>5 DEF StrictSubsetOrdering
  <2> QED
    BY <1>3, <1>4, <2>1, <2>6
<1> QED
  BY <1>5

LEMMA IdsFinite ==
  /\ NumRollout \in Nat \ {0} /\ IsFiniteSet(Ids)
  /\ Ids \subseteq Nat /\ Ids \subseteq Int /\ Retain \in Nat
<1>1. NumRollout \in Nat \ {0} /\ Retain \in Nat
  BY StoreAssumption
<1>2. IsFiniteSet(0 .. NumRollout - 1)
  BY <1>1, FS_Interval
<1> QED
  BY <1>1, <1>2 DEF Ids

LEMMA MinIs ==
  ASSUME NEW S \in SUBSET Ids, S # {}
  PROVE  Min(S) \in S
<1>1. \E x \in S : \A y \in S : x <= y
  BY IdsFinite, FS_Subset, Least
<1> QED
  BY <1>1 DEF Min

LEMMA MaxIs ==
  ASSUME NEW S \in SUBSET Ids
  PROVE  /\ Max(S \cup {-1}) \in S \cup {-1}
         /\ \A i \in S \cup {-1} : i <= Max(S \cup {-1})
<1> DEFINE T == S \cup {-1}
<1>1. T \in SUBSET Int /\ T # {} /\ IsFiniteSet(T)
  <2>1. IsFiniteSet(S)
    BY IdsFinite, FS_Subset
  <2> QED
    BY <2>1, IdsFinite, FS_AddElement
<1> HIDE DEF T
<1>2. \E x \in T : \A y \in T : x >= y
  BY <1>1, Greatest
<1>3. Max(T) \in T /\ \A y \in T : Max(T) >= y
  BY <1>2 DEF Max
<1>4. \A y \in T : y <= Max(T)
  BY <1>1, <1>3
<1> QED
  BY <1>3, <1>4 DEF T

LEMMA MaxUnique ==
  ASSUME NEW S \in SUBSET Ids, NEW x \in S \cup {-1}, \A i \in S : i <= x
  PROVE  Max(S \cup {-1}) = x
<1> DEFINE m == Max(S \cup {-1})
<1>1. m \in S \cup {-1} /\ x <= m
  BY MaxIs
<1> HIDE DEF m
<1>2. \A i \in S \cup {-1} : i \in Int /\ -1 <= i
  BY IdsFinite
<1>3. m \in Int /\ x \in Int /\ -1 <= x
  BY <1>1, <1>2
<1>4. m <= x
  <2>1. CASE m \in S
    BY <2>1
  <2>2. CASE m = -1
    BY <2>2, <1>3
  <2> QED
    BY <1>1, <2>1, <2>2
<1>5. m = x
  BY <1>1, <1>3, <1>4
<1> QED
  BY <1>5 DEF m

-----------------------------------------------------------------------------
(* The recovery point.                                                     *)

LEMMA PointIs ==
  /\ CompleteIds \subseteq Ids
  /\ ResumePoint \in CompleteIds \cup {-1} /\ ResumePoint \in Ids \cup {-1}
  /\ ResumePoint \in Int /\ ResumePoint >= -1
  /\ \A i \in CompleteIds : i <= ResumePoint
<1>1. CompleteIds \subseteq Ids
  BY DEF CompleteIds, Directories
<1>2. /\ ResumePoint \in CompleteIds \cup {-1}
      /\ \A i \in CompleteIds \cup {-1} : i <= ResumePoint
  BY <1>1, MaxIs DEF ResumePoint
<1>3. ResumePoint \in Int /\ ResumePoint >= -1
  BY <1>1, <1>2, IdsFinite
<1> QED
  BY <1>1, <1>2, <1>3

LEMMA PointBecomes ==
  ASSUME NEW x \in CompleteIds' \cup {-1}, \A i \in CompleteIds' : i <= x
  PROVE  ResumePoint' = x
<1>1. CompleteIds' \subseteq Ids
  BY DEF CompleteIds, Directories
<1> QED
  BY <1>1, MaxUnique DEF ResumePoint

LEMMA PointKept ==
  ASSUME model' = model, data' = data, tracker' = tracker
  PROVE  ResumePoint' = ResumePoint
  BY DEF ResumePoint, CompleteIds, Directories

(* Only a committed pair moves the recovery point: no other step publishes  *)
(* a cursor, and none that touches its files touches those of the point.   *)
LEMMA PointSame ==
  ASSUME DataInv,
         \A i \in Ids : data'[i] # 0 => data[i] # 0,
         ResumePoint # -1 =>
           /\ model'[ResumePoint] # 0 /\ data'[ResumePoint] # 0
           /\ ResumePoint <= tracker'
  PROVE  ResumePoint' = ResumePoint
<1>1. ResumePoint \in CompleteIds' \cup {-1}
  BY PointIs DEF CompleteIds, Directories
<1>2. \A i \in CompleteIds' : i <= ResumePoint
  BY DEF CompleteIds, Directories, DataInv
<1> HIDE DEF ResumePoint
<1> QED
  BY <1>1, <1>2, PointBecomes

LEMMA PointHas ==
  ASSUME ResumePoint # -1
  PROVE  /\ ResumePoint \in Ids /\ model[ResumePoint] # 0
         /\ data[ResumePoint] # 0 /\ ResumePoint <= tracker
  BY PointIs DEF CompleteIds, Directories

LEMMA SaveNowIs ==
  ASSUME SaveInterval = 1, NEW r \in Int, NEW b
  PROVE  SaveNow(r, b) <=> MustSave(r, b)
<1>1. (r + 1) % 1 = 0
  OBVIOUS
<1> QED
  BY <1>1 DEF SaveNow, ShouldSave, MustSave

-----------------------------------------------------------------------------
(* One lemma for each step of the driver.                                  *)

Kept == IInv' /\ ResumePoint' >= ResumePoint

LEMMA StartKeeps ==
  ASSUME IInv, Start
  PROVE  Kept
<1> USE DEF Start
<1> DEFINE p == ResumePoint
<1>1. p \in Ids \cup {-1} /\ p \in Int /\ ~ terminal'
  BY PointIs
<1>2. p # -1 => /\ p \in Ids /\ model[p] # 0 /\ data[p] # 0
                /\ p <= tracker
  BY PointHas
<1>3. model' = model /\ data' = data
  OBVIOUS
<1>4. CASE tracker # -1 /\ CompleteIds = {}
  <2>1. p' = p
    BY <1>3, <1>4, PointKept
  <2>2. /\ pc = "down" /\ pc' = "refused" /\ UNCHANGED << last, stamp, life >>
        /\ UNCHANGED << tracker, targets, intact, staged, hf >>
        /\ terminal' \in BOOLEAN
    BY <1>4 DEF exportVars
  <2> HIDE DEF p, Start
  <2>3. TypeInv' /\ StampInv' /\ DataInv' /\ ResumePointIntact'
    BY <1>1, <1>3, <2>1, <2>2
    DEF IInv, TypeInv, StampInv, DataInv, ResumePointIntact, p
  <2>4. DriverInv' /\ PruneInv'
    BY <2>2 DEF IInv, DriverInv, PruneInv, AtRest
  <2> QED
    BY <1>1, <2>1, <2>3, <2>4 DEF Kept, IInv, p
<1>5. CASE ~ (tracker # -1 /\ CompleteIds = {})
  <2> SUFFICES ASSUME pc' = "loop", last' = p, tracker' = p,
                      stamp' = IF p = -1 THEN 0 ELSE model[p]
               PROVE  Kept
    BY <1>5
  <2>1. p' = p
    BY <1>1, <1>2, <1>3, PointSame DEF IInv
  <2> HIDE DEF p, Start
  <2>2. life' = life /\ targets' = targets /\ intact' = intact
        /\ staged' = staged /\ hf' = hf /\ pc = "down" /\ ~ terminal'
        /\ terminal' \in BOOLEAN
    BY DEF Start, exportVars
  <2>3. stamp' \in Nat /\ stamp' < life
    BY <1>1, <2>2 DEF IInv, TypeInv, StampInv
  <2>4. TypeInv'
    BY <1>1, <1>3, <2>2, <2>3 DEF IInv, TypeInv
  <2>5. StampInv' /\ DataInv' /\ ResumePointIntact'
    BY <1>3, <2>1, <2>2 DEF IInv, StampInv, DataInv, ResumePointIntact, p
  <2>6. PruneInv'
    BY DEF PruneInv
  <2>7. DriverInv'
    BY <1>1, <1>3, <2>1, <2>2, <2>3 DEF DriverInv, AtRest, p, IInv, TypeInv
  <2> QED
    BY <1>1, <2>1, <2>4, <2>5, <2>6, <2>7 DEF Kept, IInv, p
<1> QED
  BY <1>4, <1>5

(* The steps that touch no directory, no cursor file and no tracker.       *)
LEMMA TakeBatchKeeps ==
  ASSUME SaveInterval = 1, IInv, TakeBatch
  PROVE  Kept
<1> DEFINE p == ResumePoint
<1>1. p' = p
  BY PointKept DEF TakeBatch
<1>2. p \in Ids \cup {-1} /\ p \in Int
  BY PointIs
<1> HIDE DEF p
<1>3. /\ pc = "loop" /\ pc' = "train" /\ last + 1 < NumRollout
      /\ UNCHANGED << life, last, stamp, targets, model, intact, tracker >>
      /\ UNCHANGED << data, hf >>
  BY DEF TakeBatch, UpdatesLeft, exportVars
<1>4. last = p /\ last + 1 \in Ids /\ tracker = p
  <2>1. last = p /\ tracker = p
    BY <1>3 DEF IInv, DriverInv, AtRest, p
  <2> QED
    BY <2>1, <1>2, <1>3, IdsFinite DEF Ids
<1>5. terminal' \in BOOLEAN /\ staged' \in [ Ids -> Nat ]
      /\ (MustSave(last + 1, terminal') => staged'[last + 1] = life)
  <2>1. SaveNow(last + 1, terminal') <=> MustSave(last + 1, terminal')
    BY <1>4, SaveNowIs, IdsFinite
  <2>2. staged \in [ Ids -> Nat ] /\ life \in Nat
    BY DEF IInv, TypeInv
  <2> QED
    BY <1>4, <2>1, <2>2 DEF TakeBatch
<1>6. TypeInv' /\ StampInv' /\ DataInv' /\ ResumePointIntact'
  BY <1>1, <1>2, <1>3, <1>5
  DEF IInv, TypeInv, StampInv, DataInv, ResumePointIntact, p
<1>7. DriverInv' /\ PruneInv'
  BY <1>1, <1>3, <1>4, <1>5
  DEF IInv, DriverInv, PruneInv, AtRest, MustSave, p
<1> QED
  BY <1>1, <1>2, <1>6, <1>7 DEF Kept, IInv, p

LEMMA TrainKeeps ==
  ASSUME SaveInterval = 1, IInv, Train
  PROVE  Kept
<1> DEFINE p == ResumePoint
<1>1. p' = p
  BY PointKept DEF Train, pairVars
<1>2. p \in Ids \cup {-1} /\ p \in Int
  BY PointIs
<1> HIDE DEF p
<1>3. /\ pc = "train" /\ last' = last + 1 /\ stamp' = life
      /\ UNCHANGED << life, terminal, targets, model, intact, tracker >>
      /\ UNCHANGED << data, staged, hf >>
  BY DEF Train, pairVars, exportVars
<1>4. /\ last = p /\ tracker = p /\ last + 1 \in Ids /\ last + 1 # p
      /\ last + 1 # -1
      /\ (MustSave(last + 1, terminal) => staged[last + 1] = life)
  BY <1>2, <1>3, IdsFinite DEF IInv, DriverInv, AtRest, p
<1>5. /\ MustSave(last + 1, terminal) => pc' = "save"
      /\ ~ MustSave(last + 1, terminal) => pc' = "update"
  <2>1. SaveNow(last + 1, terminal) <=> MustSave(last + 1, terminal)
    BY <1>4, SaveNowIs, IdsFinite
  <2> QED
    BY <2>1 DEF Train
<1>6. TypeInv' /\ StampInv' /\ DataInv' /\ ResumePointIntact'
  BY <1>1, <1>2, <1>3, <1>4, <1>5
  DEF IInv, TypeInv, StampInv, DataInv, ResumePointIntact, p
<1>7. DriverInv' /\ PruneInv'
  BY <1>1, <1>3, <1>4, <1>5
  DEF IInv, DriverInv, PruneInv, AtRest, MustSave, p
<1> QED
  BY <1>1, <1>2, <1>6, <1>7 DEF Kept, IInv, p

LEMMA LeaveLoopKeeps ==
  ASSUME IInv, LeaveLoop
  PROVE  Kept
<1> DEFINE p == ResumePoint
<1>1. p' = p
  BY PointKept DEF LeaveLoop, pairVars
<1>2. p \in Ids \cup {-1} /\ p \in Int
  BY PointIs
<1> HIDE DEF p
<1>3. /\ pc = "loop" /\ pc' \in {"final", "failed"}
      /\ UNCHANGED << life, last, stamp, terminal, targets, model, intact >>
      /\ UNCHANGED << tracker, data, staged, hf >>
  BY DEF LeaveLoop, driverVars, pairVars, exportVars
<1>4. TypeInv' /\ StampInv' /\ DataInv' /\ ResumePointIntact'
  BY <1>1, <1>2, <1>3
  DEF IInv, TypeInv, StampInv, DataInv, ResumePointIntact, p
<1>5. last = -1 => stamp # life
  BY DEF IInv, TypeInv, DriverInv
<1>6. last \in Int /\ NumRollout \in Int
  BY <1>2, <1>3, IdsFinite DEF IInv, DriverInv, AtRest, p
<1>7. DriverInv' /\ PruneInv'
  BY <1>1, <1>3, <1>5, <1>6
  DEF IInv, DriverInv, PruneInv, AtRest, MustSave, p
<1> QED
  BY <1>1, <1>2, <1>4, <1>7 DEF Kept, IInv, p

(* The directory that fills up is the one behind the recovery point.       *)
LEMMA SaveModelBeginKeeps ==
  ASSUME IInv, SaveModelBegin
  PROVE  Kept
<1> DEFINE p == ResumePoint
<1>1. /\ p \in Ids \cup {-1} /\ p \in Int
      /\ last = p + 1 /\ tracker = p /\ last \in Ids /\ last # p
      /\ stamp = life /\ staged[last] = stamp
  BY PointIs DEF IInv, DriverInv, SaveModelBegin
<1>2. p # -1 => p \in Ids /\ model[p] # 0 /\ data[p] # 0 /\ p <= tracker
  BY PointHas
<1>3. /\ pc = "save" /\ pc' = "saving"
      /\ UNCHANGED << life, last, stamp, terminal, targets >>
      /\ UNCHANGED << tracker, data, staged, hf >>
      /\ intact' = intact \ {last}
  BY DEF SaveModelBegin, driverVars, exportVars
<1>4. /\ model' \in [ Ids -> Nat ] /\ model'[last] = life
      /\ \A i \in Ids : i # last => model'[i] = model[i]
  BY <1>1 DEF SaveModelBegin, IInv, TypeInv
<1>5. p' = p
  BY <1>1, <1>2, <1>3, <1>4, PointSame DEF IInv
<1> HIDE DEF p
<1>6. TypeInv'
  BY <1>3, <1>4 DEF IInv, TypeInv
<1>7. StampInv'
  BY <1>1, <1>3, <1>4 DEF IInv, TypeInv, StampInv
<1>8. DataInv' /\ ResumePointIntact'
  BY <1>1, <1>3, <1>4, <1>5 DEF IInv, DataInv, ResumePointIntact, p
<1>9. DriverInv' /\ PruneInv'
  BY <1>1, <1>3, <1>4, <1>5 DEF IInv, DriverInv, PruneInv, AtRest, p
<1> QED
  BY <1>1, <1>5, <1>6, <1>7, <1>8, <1>9 DEF Kept, IInv, p

LEMMA SaveModelEndKeeps ==
  ASSUME IInv, SaveModelEnd
  PROVE  Kept
<1> DEFINE p == ResumePoint
<1>1. p' = p
  BY PointKept DEF SaveModelEnd
<1>2. p \in Ids \cup {-1} /\ p \in Int
  BY PointIs
<1> HIDE DEF p
<1>3. /\ pc = "saving" /\ pc' = "track" /\ intact' = intact \cup {last}
      /\ UNCHANGED << life, last, stamp, terminal, targets, model >>
      /\ UNCHANGED << tracker, data, staged, hf >>
  BY DEF SaveModelEnd, driverVars, exportVars
<1>4. last \in Ids
  BY <1>3 DEF IInv, DriverInv
<1>5. TypeInv' /\ StampInv' /\ DataInv' /\ ResumePointIntact'
  BY <1>1, <1>2, <1>3, <1>4
  DEF IInv, TypeInv, StampInv, DataInv, ResumePointIntact, p
<1>6. DriverInv' /\ PruneInv'
  BY <1>1, <1>3, <1>4 DEF IInv, DriverInv, PruneInv, AtRest, p
<1> QED
  BY <1>1, <1>2, <1>5, <1>6 DEF Kept, IInv, p

(* The tracker names a directory that has no cursor yet.                   *)
LEMMA WriteTrackerKeeps ==
  ASSUME IInv, WriteTracker
  PROVE  Kept
<1> DEFINE p == ResumePoint
<1>1. /\ p \in Ids \cup {-1} /\ p \in Int
      /\ last = p + 1 /\ tracker = p /\ last \in Ids
      /\ stamp = life /\ staged[last] = stamp
  BY PointIs DEF IInv, DriverInv, WriteTracker
<1>2. p # -1 => p \in Ids /\ model[p] # 0 /\ data[p] # 0 /\ p <= tracker
  BY PointHas
<1>3. /\ pc = "track" /\ pc' = "commit" /\ tracker' = last
      /\ UNCHANGED << life, last, stamp, terminal, targets, model, intact >>
      /\ UNCHANGED << data, staged, hf >>
  BY DEF WriteTracker, driverVars, exportVars
<1>4. p # -1 => p <= tracker'
  BY <1>1, <1>3
<1>5. p' = p
  BY <1>2, <1>3, <1>4, PointSame DEF IInv
<1> HIDE DEF p
<1>6. TypeInv' /\ StampInv' /\ DataInv' /\ ResumePointIntact'
  BY <1>1, <1>3, <1>5
  DEF IInv, TypeInv, StampInv, DataInv, ResumePointIntact, p
<1>7. DriverInv' /\ PruneInv'
  BY <1>1, <1>3, <1>5 DEF IInv, DriverInv, PruneInv, AtRest, p
<1> QED
  BY <1>1, <1>5, <1>6, <1>7 DEF Kept, IInv, p

(* The only step that moves the recovery point.                            *)
LEMMA CommitDataMoves ==
  ASSUME IInv, CommitData
  PROVE  Kept /\ ResumePoint' = last
<1> DEFINE p == ResumePoint
<1>1. /\ p \in Ids \cup {-1} /\ p \in Int /\ p >= -1
      /\ last \in Ids /\ tracker = last /\ staged[last] = stamp
      /\ staged[last] # 0 /\ model[last] = stamp /\ last \in intact
      /\ last \in Nat
  BY PointIs, IdsFinite DEF IInv, DriverInv, CommitData
<1>2. p <= last
  BY <1>1, PointHas
<1>3. /\ pc = "commit" /\ pc' = "prune"
      /\ UNCHANGED << life, last, stamp, terminal, targets, model, intact >>
      /\ UNCHANGED << tracker, hf >>
  BY DEF CommitData, driverVars, exportVars
<1>4. /\ data' \in [ Ids -> Nat ] /\ data'[last] = stamp
      /\ \A i \in Ids : i # last => data'[i] = data[i]
      /\ staged' \in [ Ids -> Nat ]
  BY <1>1 DEF CommitData, IInv, TypeInv
<1>5. p' = last
  <2>1. last \in CompleteIds'
    BY <1>1, <1>3, <1>4 DEF CompleteIds, Directories
  <2>2. \A i \in CompleteIds' : i <= last
    BY <1>1, <1>3 DEF CompleteIds, Directories
  <2> QED
    BY <2>1, <2>2, PointBecomes
<1> HIDE DEF p
<1>6. TypeInv' /\ StampInv'
  BY <1>3, <1>4 DEF IInv, TypeInv, StampInv
<1>7. DataInv'
  <2> SUFFICES ASSUME NEW i \in Ids, data'[i] # 0 PROVE i <= last
    BY <1>5 DEF DataInv, p
  <2>1. CASE i = last
    BY <1>1, <2>1
  <2>2. CASE i # last
    <3>1. i <= p /\ i \in Int
      BY <1>4, <2>2, IdsFinite DEF IInv, DataInv, p
    <3> QED
      BY <1>1, <1>2, <3>1
  <2> QED
    BY <2>1, <2>2
<1>8. ResumePointIntact'
  BY <1>1, <1>3, <1>4, <1>5 DEF ResumePointIntact, p
<1>9. DriverInv' /\ PruneInv'
  BY <1>1, <1>3, <1>4, <1>5 DEF IInv, DriverInv, PruneInv, AtRest, p
<1> QED
  BY <1>1, <1>2, <1>5, <1>6, <1>7, <1>8, <1>9 DEF Kept, IInv, p

(* The newest directory is never among the targets.                        *)
LEMMA NewestKept ==
  ASSUME Retain > 0, Newest(1) = {tracker}
  PROVE  tracker \in Newest(Retain)
<1>1. /\ tracker \in Directories
      /\ Cardinality({ j \in Directories : j > tracker }) < 1
  BY DEF Newest
<1>2. IsFiniteSet({ j \in Directories : j > tracker })
  BY IdsFinite, FS_Subset DEF Directories
<1>3. Cardinality({ j \in Directories : j > tracker }) \in Nat
  BY <1>2, FS_CardinalityType
<1>4. Cardinality({ j \in Directories : j > tracker }) < Retain
  BY <1>1, <1>3, IdsFinite
<1> QED
  BY <1>1, <1>4 DEF Newest

LEMMA ChooseTargetsKeeps ==
  ASSUME IInv, ChooseTargets
  PROVE  Kept
<1> DEFINE p == ResumePoint
<1>1. p' = p
  BY PointKept DEF ChooseTargets, pairVars
<1>2. p \in Ids \cup {-1} /\ p \in Int
  BY PointIs
<1> HIDE DEF p
<1>3. /\ pc = "prune" /\ pc' = "delete" /\ targets' = Prunable
      /\ UNCHANGED << life, last, stamp, terminal, model, intact >>
      /\ UNCHANGED << tracker, data, staged, hf >>
  BY DEF ChooseTargets, pairVars, exportVars
<1>4. tracker = p
  BY <1>3 DEF IInv, DriverInv, AtRest, p
<1>5. targets' \subseteq Ids /\ p \notin targets'
  BY <1>3, <1>4, NewestKept DEF Prunable, Directories
<1>6. TypeInv' /\ StampInv' /\ DataInv' /\ ResumePointIntact'
  BY <1>1, <1>2, <1>3, <1>5
  DEF IInv, TypeInv, StampInv, DataInv, ResumePointIntact, p
<1>7. DriverInv' /\ PruneInv'
  BY <1>1, <1>3, <1>5 DEF IInv, DriverInv, PruneInv, AtRest, p
<1> QED
  BY <1>1, <1>2, <1>6, <1>7 DEF Kept, IInv, p

(* What is being deleted is one of the targets.                            *)
LEMMA TargetIs ==
  ASSUME IInv, targets # {}, pc \in {"delete", "rmtree", "unlink"}
  PROVE  /\ Min(targets) \in targets /\ Min(targets) \in Ids
         /\ Min(targets) # ResumePoint
<1>1. Min(targets) \in targets
  BY MinIs DEF IInv, TypeInv
<1> QED
  BY <1>1 DEF IInv, TypeInv, PruneInv

LEMMA RemoveContentsKeeps ==
  ASSUME IInv, RemoveContents
  PROVE  Kept
<1> DEFINE p == ResumePoint
           t == Min(targets)
<1>1. p' = p
  BY PointKept DEF RemoveContents
<1>2. p \in Ids \cup {-1} /\ p \in Int /\ t \in Ids /\ t # p
  BY PointIs, TargetIs DEF RemoveContents
<1>3. /\ pc = "delete" /\ pc' = "rmtree" /\ targets # {}
      /\ intact' = intact \ {t}
      /\ UNCHANGED << life, last, stamp, terminal, targets, model >>
      /\ UNCHANGED << tracker, data, staged, hf >>
  BY DEF RemoveContents, driverVars, exportVars
<1> HIDE DEF p, t
<1>4. TypeInv' /\ StampInv' /\ DataInv' /\ ResumePointIntact'
  BY <1>1, <1>2, <1>3
  DEF IInv, TypeInv, StampInv, DataInv, ResumePointIntact, p
<1>5. DriverInv' /\ PruneInv'
  BY <1>1, <1>3 DEF IInv, DriverInv, PruneInv, AtRest, p
<1> QED
  BY <1>1, <1>2, <1>4, <1>5 DEF Kept, IInv, p

LEMMA RemoveDirectoryKeeps ==
  ASSUME IInv, RemoveDirectory
  PROVE  Kept
<1> DEFINE p == ResumePoint
           t == Min(targets)
<1>1. targets # {}
  BY DEF IInv, PruneInv, RemoveDirectory
<1>2. p \in Ids \cup {-1} /\ p \in Int /\ t \in Ids /\ t # p
  BY <1>1, PointIs, TargetIs DEF RemoveDirectory
<1>3. /\ pc = "rmtree" /\ pc' = "unlink"
      /\ UNCHANGED << life, last, stamp, terminal, targets, intact >>
      /\ UNCHANGED << tracker, data, staged, hf >>
      /\ model' = [ model EXCEPT ![t] = 0 ]
  BY DEF RemoveDirectory, driverVars, exportVars
<1> HIDE DEF t
<1>4. /\ model' \in [ Ids -> Nat ] /\ model'[t] = 0
      /\ \A i \in Ids : i # t => model'[i] = model[i]
  BY <1>2, <1>3 DEF IInv, TypeInv
<1>5. p # -1 => p \in Ids /\ model[p] # 0 /\ data[p] # 0 /\ p <= tracker
  BY PointHas
<1>6. p' = p
  BY <1>2, <1>3, <1>4, <1>5, PointSame DEF IInv
<1> HIDE DEF p
<1>7. TypeInv'
  BY <1>3, <1>4 DEF IInv, TypeInv
<1>8. StampInv'
  <2>1. life \in Nat
    BY DEF IInv, TypeInv
  <2> QED
    BY <1>3, <1>4, <2>1 DEF IInv, StampInv
<1>9. DataInv' /\ ResumePointIntact'
  BY <1>2, <1>3, <1>4, <1>6 DEF IInv, DataInv, ResumePointIntact, p
<1>10. last = p /\ last \in Ids /\ model[last] = stamp
  BY <1>2, <1>3, IdsFinite DEF IInv, DriverInv, AtRest, p
<1>11. DriverInv' /\ PruneInv'
  BY <1>1, <1>2, <1>3, <1>4, <1>6, <1>10
  DEF IInv, DriverInv, PruneInv, AtRest, p
<1> QED
  BY <1>2, <1>6, <1>7, <1>8, <1>9, <1>11 DEF Kept, IInv, p

LEMMA RemoveDataKeeps ==
  ASSUME IInv, RemoveData
  PROVE  Kept
<1> DEFINE p == ResumePoint
           t == Min(targets)
<1>1. targets # {}
  BY DEF IInv, PruneInv, RemoveData
<1>2. p \in Ids \cup {-1} /\ p \in Int /\ t \in Ids /\ t # p
  BY <1>1, PointIs, TargetIs DEF RemoveData
<1>3. /\ pc = "unlink" /\ pc' = "delete" /\ targets' = targets \ {t}
      /\ UNCHANGED << life, last, stamp, terminal, model, intact >>
      /\ UNCHANGED << tracker, staged, hf >>
      /\ data' = [ data EXCEPT ![t] = 0 ]
  BY DEF RemoveData, exportVars
<1> HIDE DEF t
<1>4. /\ data' \in [ Ids -> Nat ] /\ data'[t] = 0
      /\ \A i \in Ids : i # t => data'[i] = data[i]
  BY <1>2, <1>3 DEF IInv, TypeInv
<1>5. p # -1 => p \in Ids /\ model[p] # 0 /\ data[p] # 0 /\ p <= tracker
  BY PointHas
<1>6. p' = p
  BY <1>2, <1>3, <1>4, <1>5, PointSame DEF IInv
<1> HIDE DEF p
<1>7. TypeInv' /\ StampInv'
  BY <1>3, <1>4 DEF IInv, TypeInv, StampInv
<1>8. DataInv' /\ ResumePointIntact'
  <2>1. p # -1 => p \in Ids
    BY <1>2
  <2> QED
    BY <1>2, <1>3, <1>4, <1>6, <2>1 DEF IInv, DataInv, ResumePointIntact, p
<1>9. DriverInv' /\ PruneInv'
  BY <1>3, <1>6 DEF IInv, DriverInv, PruneInv, AtRest, p
<1> QED
  BY <1>2, <1>6, <1>7, <1>8, <1>9 DEF Kept, IInv, p

LEMMA EndPruneKeeps ==
  ASSUME IInv, EndPrune
  PROVE  Kept
<1> DEFINE p == ResumePoint
<1>1. p' = p
  BY PointKept DEF EndPrune, pairVars
<1>2. p \in Ids \cup {-1} /\ p \in Int
  BY PointIs
<1> HIDE DEF p
<1>3. /\ pc = "delete" /\ pc' \in {"done", "update"}
      /\ UNCHANGED << life, last, stamp, terminal, targets, model, intact >>
      /\ UNCHANGED << tracker, data, staged, hf >>
  BY DEF EndPrune, driverVars, pairVars, exportVars
<1>4. last = p /\ last # -1
  BY <1>3, IdsFinite DEF IInv, DriverInv, AtRest, p
<1>5. TypeInv' /\ StampInv' /\ DataInv' /\ ResumePointIntact'
  BY <1>1, <1>2, <1>3
  DEF IInv, TypeInv, StampInv, DataInv, ResumePointIntact, p
<1>6. DriverInv' /\ PruneInv'
  BY <1>1, <1>3, <1>4 DEF IInv, DriverInv, PruneInv, AtRest, p
<1> QED
  BY <1>1, <1>2, <1>5, <1>6 DEF Kept, IInv, p

LEMMA UpdateWeightsKeeps ==
  ASSUME IInv, UpdateWeights
  PROVE  Kept
<1> DEFINE p == ResumePoint
<1>1. p' = p
  BY PointKept DEF UpdateWeights, pairVars
<1>2. p \in Ids \cup {-1} /\ p \in Int
  BY PointIs
<1> HIDE DEF p
<1>3. /\ pc = "update"
      /\ UNCHANGED << life, last, stamp, terminal, targets, model, intact >>
      /\ UNCHANGED << tracker, data, staged, hf >>
  BY DEF UpdateWeights, driverVars, pairVars, exportVars
<1>4. \/ pc' = "failed"
      \/ pc' = "loop" /\ ~ terminal /\ last < NumRollout - 1
      \/ pc' = "final" /\ MustSave(last, terminal)
  BY DEF UpdateWeights, MustSave
<1>5. ASSUME pc' # "failed"
      PROVE  last = p /\ tracker = p /\ last # -1 /\ model[last] = stamp
  <2>1. ~ (RequireExhaustion /\ last = NumRollout - 1 /\ ~ terminal)
    BY <1>4, <1>5, IdsFinite DEF MustSave
  <2> QED
    BY <1>3, <2>1 DEF IInv, DriverInv, p
<1>6. TypeInv' /\ StampInv' /\ DataInv' /\ ResumePointIntact'
  BY <1>1, <1>2, <1>3, <1>4
  DEF IInv, TypeInv, StampInv, DataInv, ResumePointIntact, p
<1>7. DriverInv' /\ PruneInv'
  BY <1>1, <1>3, <1>4, <1>5
  DEF IInv, DriverInv, PruneInv, AtRest, MustSave, p
<1> QED
  BY <1>1, <1>2, <1>6, <1>7 DEF Kept, IInv, p

(* The update a life ends with is saved already: the final save only       *)
(* writes its cursor again.                                                *)
LEMMA FinalSaveKeeps ==
  ASSUME SaveInterval = 1, IInv, FinalSave
  PROVE  Kept
<1> DEFINE p == ResumePoint
<1>1. p' = p
  BY PointKept DEF FinalSave
<1>2. p \in Ids \cup {-1} /\ p \in Int /\ stamp \in Nat /\ life # 0
  BY PointIs DEF IInv, TypeInv
<1> HIDE DEF p
<1>3. /\ pc = "final"
      /\ UNCHANGED << life, last, stamp, terminal, targets, model, intact >>
      /\ UNCHANGED << tracker, data, hf >>
  BY DEF FinalSave, driverVars, exportVars
<1>4. /\ last = p /\ tracker = p
      /\ last # -1 => last \in Ids /\ model[last] = stamp /\ last \in intact
      /\ stamp = life => last # -1
  BY <1>2, <1>3 DEF IInv, DriverInv, AtRest, ResumePointIntact, p
<1>5. stamp = life => SaveNow(last, terminal)
  BY <1>2, <1>3, <1>4, SaveNowIs DEF IInv, DriverInv
<1>6. CASE stamp = life \/ (last >= 0 /\ tracker = last /\ model[last] # 0)
  <2>1. last \in Ids /\ last # -1
    BY <1>2, <1>4, <1>6
  <2>2. pc' = "commit" /\ staged' = [ staged EXCEPT ![last] = stamp ]
    BY <1>5, <1>6 DEF FinalSave, TrainedHere
  <2>3. staged' \in [ Ids -> Nat ] /\ staged'[last] = stamp
    BY <1>2, <2>1, <2>2 DEF IInv, TypeInv
  <2>4. TypeInv' /\ StampInv' /\ DataInv' /\ ResumePointIntact'
    BY <1>1, <1>2, <1>3, <2>2, <2>3
    DEF IInv, TypeInv, StampInv, DataInv, ResumePointIntact, p
  <2>5. DriverInv' /\ PruneInv'
    BY <1>1, <1>3, <1>4, <2>1, <2>2, <2>3
    DEF IInv, DriverInv, PruneInv, AtRest, p
  <2> QED
    BY <1>1, <1>2, <2>4, <2>5 DEF Kept, IInv, p
<1>7. CASE ~ (stamp = life \/ (last >= 0 /\ tracker = last /\ model[last] # 0))
  <2>1. pc' = "done" /\ staged' = staged
    BY <1>7 DEF FinalSave, TrainedHere
  <2>2. TypeInv' /\ StampInv' /\ DataInv' /\ ResumePointIntact'
    BY <1>1, <1>2, <1>3, <2>1
    DEF IInv, TypeInv, StampInv, DataInv, ResumePointIntact, p
  <2>3. DriverInv' /\ PruneInv'
    BY <1>3, <2>1 DEF IInv, DriverInv, PruneInv, AtRest
  <2> QED
    BY <1>1, <1>2, <2>2, <2>3 DEF Kept, IInv, p
<1> QED
  BY <1>6, <1>7

-----------------------------------------------------------------------------
(* Marks and exports touch no pair; an error or a crash only stops the     *)
(* driver.                                                                 *)
LEMMA OthersKeep ==
  ASSUME IInv, Mark \/ Exporter \/ TouchStop \/ UNCHANGED vars
  PROVE  Kept
<1> DEFINE p == ResumePoint
<1>1. /\ UNCHANGED << pc, life, last, stamp, terminal, targets, model >>
      /\ UNCHANGED << intact, tracker, data, staged >>
  BY DEF Mark, Exporter, ListMarked, Convert, Publish, Defer,
         ReleaseMarkers, EndPass, TouchStop, driverVars, pairVars, vars
<1>2. p' = p
  BY <1>1, PointKept
<1>3. p \in Int
  BY PointIs
<1> HIDE DEF p
<1>4. hf' \in [ Ids -> Nat ]
  BY DEF Mark, Exporter, ListMarked, Convert, Publish, Defer,
         ReleaseMarkers, EndPass, TouchStop, exportVars, vars, IInv, TypeInv
<1>5. TypeInv' /\ StampInv' /\ DataInv' /\ ResumePointIntact'
  BY <1>1, <1>2, <1>4
  DEF IInv, TypeInv, StampInv, DataInv, ResumePointIntact, p
<1>6. DriverInv' /\ PruneInv'
  BY <1>1, <1>2 DEF IInv, DriverInv, PruneInv, AtRest, p
<1> QED
  BY <1>2, <1>3, <1>5, <1>6 DEF Kept, IInv, p

LEMMA CrashKeeps ==
  ASSUME IInv, Crash
  PROVE  Kept
<1> DEFINE p == ResumePoint
<1>1. p' = p
  BY PointKept DEF Crash, pairVars
<1>2. p \in Int
  BY PointIs
<1> HIDE DEF p
<1>3. /\ pc' = "down" /\ life' = life + 1 /\ targets' = {}
      /\ UNCHANGED << last, stamp, terminal, model, intact >>
      /\ UNCHANGED << tracker, data, staged, hf >>
  BY DEF Crash, pairVars
<1>4. TypeInv' /\ DataInv' /\ ResumePointIntact'
  BY <1>1, <1>3 DEF IInv, TypeInv, DataInv, ResumePointIntact, p
<1>5. StampInv'
  <2> SUFFICES ASSUME NEW i \in Ids PROVE model[i] < life + 1
    BY <1>3 DEF IInv, TypeInv, StampInv
  <2>1. model[i] \in Nat /\ life \in Nat /\ model[i] <= life
    BY DEF IInv, TypeInv, StampInv
  <2> QED
    BY <2>1
<1>6. DriverInv' /\ PruneInv'
  BY <1>3 DEF IInv, DriverInv, PruneInv, AtRest
<1> QED
  BY <1>1, <1>2, <1>4, <1>5, <1>6 DEF Kept, IInv, p

LEMMA DriverRaisesKeeps ==
  ASSUME IInv, DriverRaises
  PROVE  Kept
<1> DEFINE p == ResumePoint
<1>1. p' = p
  BY PointKept DEF DriverRaises, pairVars
<1>2. p \in Int
  BY PointIs
<1> HIDE DEF p
<1>3. /\ pc' = "failed" /\ targets' = {}
      /\ UNCHANGED << life, last, stamp, terminal, model, intact >>
      /\ UNCHANGED << tracker, data, staged, hf >>
  BY DEF DriverRaises, pairVars, exportVars
<1>4. TypeInv' /\ StampInv' /\ DataInv' /\ ResumePointIntact'
  BY <1>1, <1>3
  DEF IInv, TypeInv, StampInv, DataInv, ResumePointIntact, p
<1>5. DriverInv' /\ PruneInv'
  BY <1>3 DEF IInv, DriverInv, PruneInv, AtRest
<1> QED
  BY <1>1, <1>2, <1>4, <1>5 DEF Kept, IInv, p

LEMMA StepKeeps ==
  ASSUME SaveInterval = 1, IInv, [Next]_vars
  PROVE  Kept
<1>1. CASE Driver
  BY <1>1, StartKeeps, TakeBatchKeeps, LeaveLoopKeeps, TrainKeeps,
     SaveModelBeginKeeps, SaveModelEndKeeps, WriteTrackerKeeps,
     CommitDataMoves, ChooseTargetsKeeps, RemoveContentsKeeps,
     RemoveDirectoryKeeps, RemoveDataKeeps, EndPruneKeeps,
     UpdateWeightsKeeps, FinalSaveKeeps
  DEF Driver
<1>2. CASE \/ Mark \/ Exporter \/ TouchStop \/ DriverRaises \/ Crash
           \/ UNCHANGED vars
  BY <1>2, OthersKeep, DriverRaisesKeeps, CrashKeeps
<1> QED
  BY <1>1, <1>2 DEF Next

LEMMA InitHolds == Init => IInv
<1> SUFFICES ASSUME Init PROVE IInv
  OBVIOUS
<1>1. CompleteIds = {}
  BY DEF Init, CompleteIds, Directories
<1>2. ResumePoint = -1
  BY <1>1, PointIs
<1>3. /\ pc = "down" /\ life = 1 /\ last = -1 /\ tracker = -1 /\ stamp = 0
      /\ terminal = FALSE /\ targets = {} /\ intact = {}
      /\ \A i \in Ids : model[i] = 0 /\ data[i] = 0
      /\ model \in [ Ids -> Nat ] /\ data \in [ Ids -> Nat ]
      /\ staged \in [ Ids -> Nat ] /\ hf \in [ Ids -> Nat ]
  BY DEF Init
<1>4. TypeInv /\ StampInv /\ DataInv
  <2>1. last \in Ids \cup {-1} /\ tracker \in Ids \cup {-1}
    BY <1>3
  <2>2. targets \subseteq Ids /\ intact \subseteq Ids
    BY <1>3
  <2>3. life \in Nat \ {0} /\ stamp \in Nat
    BY <1>3
  <2>4. terminal \in BOOLEAN
    BY <1>3
  <2>5. TypeInv
    BY <1>3, <2>1, <2>2, <2>3, <2>4, Zenon DEF TypeInv
  <2>6. StampInv /\ DataInv
    BY <1>3 DEF StampInv, DataInv
  <2> QED
    BY <2>5, <2>6
<1>5. DriverInv /\ PruneInv /\ ResumePointIntact
  BY <1>2, <1>3 DEF DriverInv, PruneInv, ResumePointIntact, AtRest
<1> QED
  BY <1>4, <1>5 DEF IInv

-----------------------------------------------------------------------------
(* A job killed between any two file operations finds a recovery point     *)
(* that is whole and belongs together, whatever the number of updates,     *)
(* lives and retained checkpoints.                                         *)
THEOREM RecoveryPointWhole ==
  ASSUME SaveInterval = 1
  PROVE  Spec => []ResumePointIntact
<1>1. Init => IInv
  BY InitHolds
<1>2. IInv /\ [Next]_vars => IInv'
  BY StepKeeps DEF Kept
<1>3. IInv => ResumePointIntact
  BY DEF IInv
<1> QED
  BY <1>1, <1>2, <1>3, PTL DEF Spec

(* And nothing, the pruner and the restart included, ever takes the        *)
(* recovery point back.                                                    *)
THEOREM RecoveryPointAdvances ==
  ASSUME SaveInterval = 1
  PROVE  Spec => ResumePointNeverFalls
<1>1. Init => IInv
  BY InitHolds
<1>2. IInv /\ [Next]_vars => IInv'
  BY StepKeeps DEF Kept
<1>3. IInv /\ [Next]_vars => [ResumePoint' >= ResumePoint]_vars
  BY StepKeeps DEF Kept
<1> QED
  BY <1>1, <1>2, <1>3, PTL DEF Spec, ResumePointNeverFalls

-----------------------------------------------------------------------------
(* The checkpoint that may be marked is whole and safe from the pruner: it *)
(* is the newest or the one before.                                        *)
ServedInv ==
  /\ version \in Int
  /\ pc \in {"loop", "train", "final"} => version = last
  /\ pc \in {"save", "saving", "track"} => version = last - 1
  /\ pc \in {"commit", "prune"} /\ generating => version \in {last, last - 1}
  /\ generating \/ pc = "final" =>
       /\ version <= ResumePoint
       /\ version \in Directories => version \in intact
       /\ version \notin targets

MarkInv ==
  /\ marked \subseteq Ids
  /\ owed \subseteq marked /\ owed \subseteq intact
  /\ \A i \in owed : i <= ResumePoint /\ hf[i] = 0 /\ i \notin targets
  /\ pc \notin {"delete", "rmtree", "unlink"} => targets = {}

MarkedInv == ServedInv /\ MarkInv

(* The recovery point and the driver, before and after a step.             *)
LEMMA Around ==
  ASSUME IInv, Kept
  PROVE  /\ ResumePoint \in Int /\ ResumePoint' \in Int
         /\ ResumePoint <= ResumePoint'
         /\ pc \in {"save", "saving", "track"} => last = ResumePoint + 1
         /\ pc \in AtRest => last = ResumePoint
         /\ pc' \in AtRest => last' = ResumePoint'
<1>1. ResumePoint \in Int /\ ResumePoint' \in Int
  <2>1. ResumePoint' \in CompleteIds' \cup {-1} /\ CompleteIds' \subseteq Ids
    <3>1. CompleteIds' \subseteq Ids
      BY DEF CompleteIds, Directories
    <3> QED
      BY <3>1, MaxIs DEF ResumePoint
  <2> QED
    BY <2>1, PointIs, IdsFinite
<1> HIDE DEF ResumePoint
<1> QED
  BY <1>1 DEF Kept, IInv, DriverInv

(* Steps that leave the directories, the marks and the targets alone.      *)
LEMMA QuietMarks ==
  ASSUME IInv, Kept, MarkedInv,
         UNCHANGED << model, intact, marked, hf, owed, targets >>,
         pc' \notin {"delete", "rmtree", "unlink"} =>
           pc \notin {"delete", "rmtree", "unlink"} \/ targets = {}
  PROVE  MarkInv'
<1>1. /\ ResumePoint \in Int /\ ResumePoint' \in Int
      /\ ResumePoint <= ResumePoint' /\ owed \subseteq Int
  BY Around, IdsFinite DEF MarkedInv, MarkInv
<1>2. \A i \in owed : i <= ResumePoint'
  <2> SUFFICES ASSUME NEW i \in owed PROVE i <= ResumePoint'
    OBVIOUS
  <2>1. i <= ResumePoint /\ i \in Int
    BY <1>1 DEF MarkedInv, MarkInv
  <2> QED
    BY <1>1, <2>1
<1> QED
  BY <1>2 DEF MarkedInv, MarkInv

LEMMA QuietServed ==
  ASSUME IInv, Kept, MarkedInv,
         UNCHANGED << model, intact, version, targets >>,
         generating' \/ pc' = "final" => generating \/ pc = "final",
         pc' \in {"loop", "train", "final"} => version = last',
         pc' \in {"save", "saving", "track"} => version = last' - 1,
         pc' \in {"commit", "prune"} /\ generating' =>
           version \in {last', last' - 1}
  PROVE  ServedInv'
<1>1. /\ ResumePoint \in Int /\ ResumePoint' \in Int
      /\ ResumePoint <= ResumePoint' /\ version \in Int
  BY Around DEF MarkedInv, ServedInv
<1> QED
  BY <1>1 DEF MarkedInv, ServedInv, Directories

LEMMA ServedAtPoint ==
  ASSUME IInv', pc' \in {"loop", "train", "final"}, version' = last',
         targets' = {}
  PROVE  ServedInv'
<1>1. last' = ResumePoint' /\ last' \in Ids \cup {-1}
  BY DEF IInv, DriverInv, AtRest, TypeInv
<1>2. last' \in Int
  BY <1>1, IdsFinite
<1>3. version' \in Directories' => version' \in intact'
  BY <1>1, IdsFinite DEF Directories, IInv, ResumePointIntact
<1>4. version' \in Int /\ version' <= ResumePoint' /\ version' \notin targets'
  BY <1>1, <1>2
<1>5. pc' \notin {"save", "saving", "track", "commit", "prune"}
  OBVIOUS
<1> HIDE DEF ResumePoint
<1> QED
  BY <1>3, <1>4, <1>5 DEF ServedInv

LEMMA ServedIdle ==
  ASSUME version' \in Int, ~ generating', pc' \in {"down", "refused", "failed"}
  PROVE  ServedInv'
  BY DEF ServedInv

LEMMA StartServes ==
  ASSUME IInv, Kept, MarkedInv, Start
  PROVE  MarkedInv'
<1>1. /\ UNCHANGED << model, intact, marked, hf, owed, targets >>
      /\ pc = "down" /\ targets = {} /\ pc' \in {"refused", "loop"}
  BY DEF Start, exportVars, MarkedInv, MarkInv
<1>2. MarkInv'
  BY <1>1, QuietMarks
<1>3. CASE pc' = "loop"
  <2>1. version' = last'
    BY <1>3 DEF Start
  <2> QED
    BY <1>1, <1>2, <1>3, <2>1, ServedAtPoint DEF Kept, MarkedInv
<1>4. CASE pc' = "refused"
  <2>1. UNCHANGED << version, generating >>
    BY <1>4 DEF Start
  <2> QED
    BY <1>1, <1>2, <1>4, <2>1, QuietServed DEF MarkedInv
<1> QED
  BY <1>1, <1>3, <1>4

LEMMA LoopServes ==
  ASSUME IInv, Kept, MarkedInv, TakeBatch \/ LeaveLoop
  PROVE  MarkedInv'
<1>1. /\ UNCHANGED << model, intact, marked, hf, owed, targets >>
      /\ UNCHANGED << version, last >>
      /\ pc = "loop" /\ pc' \in {"train", "final", "failed"}
      /\ pc' = "failed" => ~ generating'
  BY DEF TakeBatch, LeaveLoop, driverVars, pairVars, exportVars
<1>2. MarkInv'
  BY <1>1, QuietMarks
<1>3. version' = last' /\ targets' = {} /\ version' \in Int
  BY <1>1 DEF MarkedInv, ServedInv, MarkInv
<1>4. ServedInv'
  BY <1>1, <1>3, ServedAtPoint, ServedIdle DEF Kept
<1> QED
  BY <1>2, <1>4 DEF MarkedInv

LEMMA TrainServes ==
  ASSUME IInv, Kept, MarkedInv, Train \/ SaveModelEnd \/ WriteTracker
  PROVE  MarkedInv'
<1>1. /\ UNCHANGED << version, generating, model, marked, hf, owed, targets >>
      /\ pc \in {"train", "saving", "track"}
      /\ pc' \in {"save", "update", "track", "commit"}
      /\ pc = "train" => last' = last + 1
      /\ pc # "train" => last' = last
      /\ pc = "train" => pc' \in {"save", "update"}
      /\ intact' = intact \/ intact' = intact \cup {last}
  BY DEF Train, SaveModelEnd, WriteTracker, driverVars, pairVars, exportVars
<1>2. /\ ResumePoint \in Int /\ ResumePoint' \in Int
      /\ ResumePoint <= ResumePoint' /\ last \in Int
  BY Around, IdsFinite DEF IInv, TypeInv
<1>3. MarkInv'
  <2>1. \A i \in owed : i <= ResumePoint'
    <3> SUFFICES ASSUME NEW i \in owed PROVE i <= ResumePoint'
      OBVIOUS
    <3>1. i <= ResumePoint /\ i \in Int
      BY IdsFinite DEF MarkedInv, MarkInv
    <3> QED
      BY <1>2, <3>1
  <2> QED
    BY <1>1, <2>1 DEF MarkedInv, MarkInv
<1>4. version \in Int /\ (generating => version <= ResumePoint')
  BY <1>1, <1>2 DEF MarkedInv, ServedInv
<1>5. /\ pc' = "save" => version = last' - 1
      /\ pc' = "track" => version = last' - 1
      /\ pc' = "commit" => version = last' - 1
  BY <1>1, <1>2 DEF MarkedInv, ServedInv
<1>6. Directories' = Directories
  BY <1>1 DEF Directories
<1> HIDE DEF ResumePoint
<1>7. ServedInv'
  BY <1>1, <1>4, <1>5, <1>6 DEF MarkedInv, ServedInv
<1> QED
  BY <1>3, <1>7 DEF MarkedInv

LEMMA SaveModelBeginServes ==
  ASSUME IInv, Kept, MarkedInv, SaveModelBegin
  PROVE  MarkedInv'
<1>1. /\ UNCHANGED << version, generating, marked, hf, owed, targets, last >>
      /\ pc = "save" /\ pc' = "saving" /\ intact' = intact \ {last}
      /\ \A i \in Ids : i # last => model'[i] = model[i]
  BY DEF SaveModelBegin, driverVars, exportVars, IInv, TypeInv
<1>2. /\ ResumePoint \in Int /\ ResumePoint' \in Int
      /\ ResumePoint <= ResumePoint' /\ last = ResumePoint + 1
  BY <1>1, Around
<1>3. \A i \in owed : i <= ResumePoint' /\ i # last
  <2> SUFFICES ASSUME NEW i \in owed PROVE i <= ResumePoint' /\ i # last
    OBVIOUS
  <2>1. i <= ResumePoint /\ i \in Int
    BY IdsFinite DEF MarkedInv, MarkInv
  <2> QED
    BY <1>2, <2>1
<1>4. MarkInv'
  BY <1>1, <1>3 DEF MarkedInv, MarkInv
<1>5. version \in Int /\ version = last - 1 /\ version # last
      /\ version <= ResumePoint'
  BY <1>1, <1>2 DEF MarkedInv, ServedInv
<1>6. version \in Directories' => version \in Directories
  BY <1>1, <1>5 DEF Directories
<1> HIDE DEF ResumePoint
<1>7. ServedInv'
  BY <1>1, <1>5, <1>6 DEF MarkedInv, ServedInv
<1> QED
  BY <1>4, <1>7 DEF MarkedInv

LEMMA SavedServes ==
  ASSUME IInv, Kept, MarkedInv, CommitData \/ EndPrune \/ FinalSave
  PROVE  MarkedInv'
<1>1. /\ UNCHANGED << version, generating, marked, hf, owed, targets, last >>
      /\ UNCHANGED << model, intact >>
      /\ \/ pc = "commit" /\ pc' = "prune"
         \/ pc = "delete" /\ targets = {} /\ pc' \in {"done", "update"}
         \/ pc = "final" /\ pc' \in {"save", "commit", "done"}
  BY DEF CommitData, EndPrune, FinalSave, driverVars, pairVars, exportVars
<1>2. pc' # "save"
  <2>1. CASE pc = "final"
    <3>1. last = ResumePoint /\ ResumePoint \in Int
      BY <2>1, Around DEF AtRest
    <3>2. pc' = "save" => last' = ResumePoint' + 1
      BY DEF Kept, IInv, DriverInv
    <3>3. pc = "final" => ResumePoint' = ResumePoint
      <4>1. FinalSave
        BY <2>1 DEF CommitData, EndPrune
      <4> QED
        BY <4>1, PointKept DEF FinalSave
    <3> QED
      BY <1>1, <2>1, <3>1, <3>2, <3>3
  <2> QED
    BY <1>1, <2>1
<1>3. MarkInv'
  BY <1>1, QuietMarks
<1>4. pc' \in {"commit", "prune"} /\ generating' =>
        version \in {last', last' - 1}
  BY <1>1 DEF MarkedInv, ServedInv
<1>5. ServedInv'
  BY <1>1, <1>2, <1>4, QuietServed
<1> QED
  BY <1>3, <1>5 DEF MarkedInv

LEMMA UpdateWeightsServes ==
  ASSUME IInv, Kept, MarkedInv, UpdateWeights
  PROVE  MarkedInv'
<1>1. /\ UNCHANGED << model, intact, marked, hf, owed, targets, last >>
      /\ pc = "update" /\ pc' \in {"final", "loop", "failed"}
      /\ version' = last' /\ ~ generating'
  BY DEF UpdateWeights, driverVars, pairVars, exportVars
<1>2. MarkInv'
  BY <1>1, QuietMarks
<1>3. targets' = {} /\ version' \in Int
  BY <1>1, IdsFinite DEF MarkedInv, MarkInv, IInv, TypeInv
<1>4. ServedInv'
  BY <1>1, <1>3, ServedAtPoint, ServedIdle DEF Kept
<1> QED
  BY <1>2, <1>4 DEF MarkedInv

(* Two checkpoints are retained at least, so the one before the newest     *)
(* stays while engines may still serve it.                                 *)
LEMMA SecondKept ==
  ASSUME Retain > 1, Newest(1) = {tracker}, tracker \in Int,
         tracker - 1 \in Directories
  PROVE  tracker - 1 \in Newest(Retain)
<1> DEFINE above == { j \in Directories : j > tracker }
           here == { j \in Directories : j > tracker - 1 }
<1>1. tracker \in Directories /\ Cardinality(above) < 1
  BY DEF Newest
<1>2. IsFiniteSet(above) /\ Directories \subseteq Int
  BY IdsFinite, FS_Subset DEF Directories
<1>3. above = {}
  <2>1. Cardinality(above) = 0
    BY <1>1, <1>2, FS_CardinalityType
  <2> QED
    BY <1>2, <2>1, FS_EmptySet
<1>4. here = {tracker}
  <2>1. \A j \in Directories : j > tracker - 1 => j = tracker
    BY <1>2, <1>3
  <2>2. tracker > tracker - 1
    OBVIOUS
  <2> QED
    BY <1>1, <2>1, <2>2
<1>5. Cardinality(here) = 1
  BY <1>4, FS_Singleton
<1> HIDE DEF here
<1>6. Cardinality(here) < Retain
  BY <1>5, IdsFinite
<1> QED
  BY <1>6 DEF Newest, here

LEMMA ChooseTargetsServes ==
  ASSUME Retain # 1, IInv, Kept, MarkedInv, ChooseTargets
  PROVE  MarkedInv'
<1>1. /\ UNCHANGED << version, generating, model, intact, marked, hf, owed >>
      /\ pc = "prune" /\ pc' = "delete" /\ targets' = Prunable
  BY DEF ChooseTargets, pairVars, exportVars
<1>2. /\ ResumePoint \in Int /\ ResumePoint' \in Int
      /\ ResumePoint <= ResumePoint' /\ tracker = last /\ last \in Int
  BY <1>1, Around DEF IInv, DriverInv, AtRest
<1>3. targets' \cap marked = {}
  BY <1>1 DEF Prunable
<1>4. MarkInv'
  <2>1. \A i \in owed : i <= ResumePoint'
    <3> SUFFICES ASSUME NEW i \in owed PROVE i <= ResumePoint'
      OBVIOUS
    <3>1. i <= ResumePoint /\ i \in Int
      BY IdsFinite DEF MarkedInv, MarkInv
    <3> QED
      BY <1>2, <3>1
  <2> QED
    BY <1>1, <1>3, <2>1 DEF MarkedInv, MarkInv
<1>5. generating => version \notin targets'
  <2> SUFFICES ASSUME generating, version \in Prunable PROVE FALSE
    BY <1>1
  <2>1. /\ Retain > 1 /\ Newest(1) = {tracker}
        /\ version \in Directories /\ version \notin Newest(Retain)
    BY IdsFinite DEF Prunable
  <2>2. version \in {tracker, tracker - 1}
    BY <1>1, <1>2 DEF MarkedInv, ServedInv
  <2>3. CASE version = tracker
    BY <2>1, <2>3, NewestKept, IdsFinite
  <2>4. CASE version = tracker - 1
    BY <1>2, <2>1, <2>4, SecondKept
  <2> QED
    BY <2>2, <2>3, <2>4
<1>6. version \in Int /\ (generating => version <= ResumePoint')
  BY <1>1, <1>2 DEF MarkedInv, ServedInv
<1>7. Directories' = Directories
  BY <1>1 DEF Directories
<1> HIDE DEF ResumePoint
<1>8. ServedInv'
  BY <1>1, <1>5, <1>6, <1>7 DEF MarkedInv, ServedInv
<1> QED
  BY <1>4, <1>8 DEF MarkedInv

(* The pruner only touches its targets.                                    *)
LEMMA RemoveServes ==
  ASSUME IInv, Kept, MarkedInv,
         RemoveContents \/ RemoveDirectory \/ RemoveData
  PROVE  MarkedInv'
<1> DEFINE t == Min(targets)
<1>1. t \in targets /\ t \in Ids
  BY TargetIs DEF IInv, PruneInv, RemoveContents, RemoveDirectory, RemoveData
<1>2. /\ UNCHANGED << version, generating, hf, owed >>
      /\ pc' \in {"rmtree", "unlink", "delete"}
      /\ pc \in {"rmtree", "unlink", "delete"}
      /\ intact' = intact \/ intact' = intact \ {t}
      /\ marked' = marked \/ marked' = marked \ {t}
      /\ targets' = targets \/ targets' = targets \ {t}
      /\ model' = model \/ model' = [ model EXCEPT ![t] = 0 ]
  BY DEF RemoveContents, RemoveDirectory, RemoveData, driverVars, exportVars
<1> HIDE DEF t
<1>3. /\ ResumePoint \in Int /\ ResumePoint' \in Int
      /\ ResumePoint <= ResumePoint'
  BY Around
<1>4. MarkInv'
  <2>1. \A i \in owed : i <= ResumePoint'
    <3> SUFFICES ASSUME NEW i \in owed PROVE i <= ResumePoint'
      OBVIOUS
    <3>1. i <= ResumePoint /\ i \in Int
      BY IdsFinite DEF MarkedInv, MarkInv
    <3> QED
      BY <1>3, <3>1
  <2>2. t \notin owed
    BY <1>1 DEF MarkedInv, MarkInv
  <2> QED
    BY <1>2, <2>1, <2>2 DEF MarkedInv, MarkInv
<1>5. version \in Int /\ (generating => version <= ResumePoint')
  BY <1>2, <1>3 DEF MarkedInv, ServedInv
<1>6. Directories' \subseteq Directories
  BY <1>1, <1>2 DEF Directories, IInv, TypeInv
<1>7. generating => version # t
  BY <1>1 DEF MarkedInv, ServedInv
<1> HIDE DEF ResumePoint
<1>8. ServedInv'
  BY <1>2, <1>5, <1>6, <1>7 DEF MarkedInv, ServedInv
<1> QED
  BY <1>4, <1>8 DEF MarkedInv

LEMMA OthersServe ==
  ASSUME IInv, Kept, MarkedInv,
         Mark \/ Exporter \/ TouchStop \/ UNCHANGED vars
  PROVE  MarkedInv'
<1>1. /\ UNCHANGED << pc, last, version, generating, targets, model, intact >>
      /\ UNCHANGED << data, tracker >>
  BY DEF Mark, Exporter, ListMarked, Convert, Publish, Defer,
         ReleaseMarkers, EndPass, TouchStop, driverVars, pairVars, vars
<1>2. ServedInv'
  BY <1>1, QuietServed DEF MarkedInv, ServedInv
<1>3. ResumePoint' = ResumePoint
  BY <1>1, PointKept
<1>4. CASE Mark
  <2>1. /\ version \in Directories /\ version \in Ids
        /\ version <= ResumePoint /\ version \in intact
        /\ version \notin targets
    BY <1>4 DEF Mark, Directories, MarkedInv, ServedInv
  <2>2. /\ marked' = marked \cup {version} /\ hf' = hf
        /\ owed' = IF hf[version] = 0 THEN owed \cup {version} ELSE owed
    BY <1>4 DEF Mark
  <2> HIDE DEF ResumePoint
  <2>3. MarkInv'
    BY <1>1, <1>3, <2>1, <2>2 DEF MarkedInv, MarkInv
  <2> QED
    BY <1>2, <2>3 DEF MarkedInv
<1>5. CASE Publish
  <2>1. /\ marked' = marked
        /\ hf' = [ hf EXCEPT ![Current] = model[Current] ]
        /\ owed' = owed \ {Current}
    BY <1>5 DEF Publish
  <2>2. \A i \in owed' : i \in Ids /\ i \in owed /\ hf'[i] = hf[i]
    BY <2>1 DEF MarkedInv, MarkInv, IInv, TypeInv
  <2> HIDE DEF ResumePoint
  <2>3. MarkInv'
    BY <1>1, <1>3, <2>1, <2>2 DEF MarkedInv, MarkInv
  <2> QED
    BY <1>2, <2>3 DEF MarkedInv
<1>6. CASE ReleaseMarkers
  <2>1. /\ UNCHANGED << hf, owed >>
        /\ marked' = marked \/ marked' = marked \ {Current}
        /\ hf[Current] # 0
    BY <1>6 DEF ReleaseMarkers
  <2> HIDE DEF ResumePoint
  <2>2. MarkInv'
    BY <1>1, <1>3, <2>1 DEF MarkedInv, MarkInv
  <2> QED
    BY <1>2, <2>2 DEF MarkedInv
<1>7. CASE ListMarked \/ Convert \/ Defer \/ EndPass \/ TouchStop
           \/ UNCHANGED vars
  <2>1. UNCHANGED << hf, owed, marked >>
    BY <1>7 DEF ListMarked, Convert, Defer, EndPass, TouchStop, exportVars,
                vars
  <2> HIDE DEF ResumePoint
  <2>2. MarkInv'
    BY <1>1, <1>3, <2>1 DEF MarkedInv, MarkInv
  <2> QED
    BY <1>2, <2>2 DEF MarkedInv
<1> QED
  BY <1>4, <1>5, <1>6, <1>7 DEF Exporter

LEMMA StopServes ==
  ASSUME IInv, Kept, MarkedInv, DriverRaises \/ Crash
  PROVE  MarkedInv'
<1>1. /\ UNCHANGED << version, model, intact, marked, hf, owed, data >>
      /\ tracker' = tracker /\ pc' \in {"down", "failed"}
      /\ ~ generating' /\ targets' = {}
  BY DEF DriverRaises, Crash, pairVars, exportVars
<1>2. ResumePoint' = ResumePoint
  BY <1>1, PointKept
<1>3. ServedInv'
  BY <1>1, ServedIdle DEF MarkedInv, ServedInv
<1> HIDE DEF ResumePoint
<1>4. MarkInv'
  BY <1>1, <1>2 DEF MarkedInv, MarkInv
<1> QED
  BY <1>3, <1>4 DEF MarkedInv

LEMMA StepServes ==
  ASSUME SaveInterval = 1, Retain # 1, IInv, MarkedInv, [Next]_vars
  PROVE  MarkedInv'
<1>1. Kept
  BY StepKeeps
<1>2. CASE Driver
  BY <1>1, <1>2, StartServes, LoopServes, TrainServes, SaveModelBeginServes,
     SavedServes, UpdateWeightsServes, ChooseTargetsServes, RemoveServes
  DEF Driver
<1>3. CASE \/ Mark \/ Exporter \/ TouchStop \/ DriverRaises \/ Crash
           \/ UNCHANGED vars
  BY <1>1, <1>3, OthersServe, StopServes
<1> QED
  BY <1>2, <1>3 DEF Next

-----------------------------------------------------------------------------
(* The exporter only ever works on updates up to the recovery point, and   *)
(* the directory of such an update is never written again: an export keeps *)
(* matching it.                                                            *)
ExportInv ==
  /\ listed \subseteq Ids /\ todo \subseteq listed
  /\ exporter = "convert" => todo # {}
  /\ \A i \in marked \cup listed : i <= ResumePoint
  /\ \A i \in Ids :
       hf[i] # 0 => i <= ResumePoint /\ model[i] \in {0, hf[i]}

LEMMA QuietExports ==
  ASSUME IInv, Kept, MarkedInv, ExportInv,
         UNCHANGED << passVars, hf >>, marked' \subseteq marked,
         \A i \in Ids : i <= ResumePoint => model'[i] \in {0, model[i]}
  PROVE  ExportInv'
<1>1. /\ ResumePoint \in Int /\ ResumePoint' \in Int
      /\ ResumePoint <= ResumePoint' /\ Ids \subseteq Int
  BY Around, IdsFinite
<1>2. UNCHANGED << exporter, stop, listed, todo, pending, hf >>
  BY DEF passVars
<1> HIDE DEF ResumePoint
<1>3. \A i \in Ids : i <= ResumePoint => i <= ResumePoint'
  BY <1>1
<1>4. \A i \in marked' \cup listed' : i <= ResumePoint'
  BY <1>2, <1>3 DEF ExportInv, MarkedInv, MarkInv
<1>5. ASSUME NEW i \in Ids, hf'[i] # 0
      PROVE  i <= ResumePoint' /\ model'[i] \in {0, hf'[i]}
  BY <1>2, <1>3, <1>5 DEF ExportInv
<1> QED
  BY <1>2, <1>4, <1>5 DEF ExportInv

(* A driver trains past the recovery point: the directory it fills is not  *)
(* one that has been exported.                                             *)
LEMMA DriverExports ==
  ASSUME IInv, Kept, MarkedInv, ExportInv, Driver
  PROVE  ExportInv'
<1>1. UNCHANGED << passVars, hf >>
  BY DEF Driver, Start, TakeBatch, LeaveLoop, Train, SaveModelBegin,
         SaveModelEnd, WriteTracker, CommitData, ChooseTargets,
         RemoveContents, RemoveDirectory, RemoveData, EndPrune,
         UpdateWeights, FinalSave, exportVars
<1>2. marked' \subseteq marked
  BY DEF Driver, Start, TakeBatch, LeaveLoop, Train, SaveModelBegin,
         SaveModelEnd, WriteTracker, CommitData, ChooseTargets,
         RemoveContents, RemoveDirectory, RemoveData, EndPrune,
         UpdateWeights, FinalSave
<1>3. ASSUME NEW i \in Ids, i <= ResumePoint
      PROVE  model'[i] \in {0, model[i]}
  <2>1. model \in [ Ids -> Nat ] /\ i \in Int
    BY IdsFinite DEF IInv, TypeInv
  <2>2. CASE SaveModelBegin
    <3>1. last = ResumePoint + 1 /\ ResumePoint \in Int
      BY <2>2, Around DEF SaveModelBegin
    <3>2. i # last
      BY <1>3, <2>1, <3>1
    <3> QED
      BY <2>1, <2>2, <3>2 DEF SaveModelBegin
  <2>3. CASE RemoveDirectory
    BY <2>1, <2>3 DEF RemoveDirectory
  <2>4. CASE ~ SaveModelBegin /\ ~ RemoveDirectory
    <3>1. model' = model
      BY <2>4 DEF Driver, Start, TakeBatch, LeaveLoop, Train,
         SaveModelEnd, WriteTracker, CommitData, ChooseTargets,
         RemoveContents, RemoveData, EndPrune, UpdateWeights, FinalSave,
         pairVars
    <3> QED
      BY <3>1
  <2> QED
    BY <2>2, <2>3, <2>4
<1> QED
  BY <1>1, <1>2, <1>3, QuietExports

(* Mark names what the engines serve, at most the recovery point, and a    *)
(* pass exports only what it listed.                                       *)
LEMMA OthersExport ==
  ASSUME IInv, Kept, MarkedInv, ExportInv,
         Mark \/ Exporter \/ TouchStop \/ UNCHANGED vars
  PROVE  ExportInv'
<1>1. UNCHANGED << model, data, tracker >>
  BY DEF Mark, Exporter, ListMarked, Convert, Publish, Defer,
         ReleaseMarkers, EndPass, TouchStop, pairVars, vars
<1>2. ResumePoint' = ResumePoint
  BY <1>1, PointKept
<1>3. marked \subseteq Ids
  BY DEF MarkedInv, MarkInv
<1>4. exporter \in {"convert"} => Current \in todo
  BY MinIs DEF ExportInv, Current
<1>5. CASE Mark
  <2>1. version <= ResumePoint /\ version \in Ids
    BY <1>5 DEF Mark, Directories, MarkedInv, ServedInv
  <2>2. UNCHANGED passVars /\ hf' = hf /\ marked' = marked \cup {version}
    BY <1>5 DEF Mark
  <2> HIDE DEF ResumePoint
  <2> QED
    BY <1>1, <1>2, <2>1, <2>2 DEF ExportInv, passVars
<1>6. CASE Publish
  <2>1. /\ UNCHANGED << listed, todo, marked >> /\ exporter' = "pass"
        /\ hf' = [ hf EXCEPT ![Current] = model[Current] ]
    BY <1>6 DEF Publish
  <2>2. Current \in Ids /\ Current <= ResumePoint
    BY <1>4, <1>6 DEF Publish, ExportInv
  <2>3. hf'[Current] = model[Current]
        /\ \A i \in Ids \ {Current} : hf'[i] = hf[i]
    BY <2>1, <2>2 DEF IInv, TypeInv
  <2> HIDE DEF ResumePoint
  <2> QED
    BY <1>1, <1>2, <2>1, <2>2, <2>3 DEF ExportInv
<1>7. CASE ListMarked
  <2>1. /\ UNCHANGED << marked, hf >> /\ exporter' = "pass"
        /\ listed' = marked /\ todo' = marked
    BY <1>7 DEF ListMarked
  <2> HIDE DEF ResumePoint
  <2> QED
    BY <1>1, <1>2, <1>3, <2>1 DEF ExportInv
<1>8. CASE Convert \/ Defer \/ ReleaseMarkers \/ EndPass \/ TouchStop
           \/ UNCHANGED vars
  <2>1. /\ hf' = hf /\ marked' \subseteq marked
        /\ todo' \subseteq todo
        /\ \/ listed' = listed
           \/ listed' = {} /\ todo' = {}
        /\ exporter' = "convert" => todo' # {}
    BY <1>8 DEF Convert, Defer, ReleaseMarkers, EndPass, TouchStop,
                exportVars, passVars, vars, ExportInv
  <2> HIDE DEF ResumePoint
  <2> QED
    BY <1>1, <1>2, <2>1 DEF ExportInv
<1> QED
  BY <1>5, <1>6, <1>7, <1>8 DEF Exporter

LEMMA StopExports ==
  ASSUME IInv, Kept, MarkedInv, ExportInv, DriverRaises \/ Crash
  PROVE  ExportInv'
<1>1. UNCHANGED << model, data, tracker, hf, marked >>
  BY DEF DriverRaises, Crash, pairVars, exportVars
<1>2. \/ UNCHANGED << exporter, listed, todo >>
      \/ exporter' = "idle" /\ listed' = {} /\ todo' = {}
  BY DEF DriverRaises, Crash, exportVars, passVars
<1>3. ResumePoint' = ResumePoint
  BY <1>1, PointKept
<1> HIDE DEF ResumePoint
<1> QED
  BY <1>1, <1>2, <1>3 DEF ExportInv

LEMMA StepExports ==
  ASSUME SaveInterval = 1, IInv, MarkedInv, ExportInv, [Next]_vars
  PROVE  ExportInv'
<1>1. Kept
  BY StepKeeps
<1> QED
  BY <1>1, DriverExports, OthersExport, StopExports DEF Next

(* A marked checkpoint stays whole until its HF export is published,       *)
(* unless exactly one checkpoint is retained, and an export never differs  *)
(* from the checkpoint it is named after.                                  *)
THEOREM MarkedCheckpointsStay ==
  ASSUME SaveInterval = 1, Retain # 1
  PROVE  Spec => []MarkedIsKept
<1>1. Init => IInv /\ MarkedInv /\ ExportInv
  BY InitHolds DEF Init, MarkedInv, ServedInv, MarkInv, ExportInv
<1>2. IInv /\ MarkedInv /\ ExportInv /\ [Next]_vars =>
        IInv' /\ MarkedInv' /\ ExportInv'
  BY StepKeeps, StepServes, StepExports DEF Kept
<1>3. MarkedInv /\ ExportInv => MarkedIsKept
  BY DEF MarkedInv, MarkInv, ExportInv, MarkedIsKept, Directories
<1> QED
  BY <1>1, <1>2, <1>3, PTL DEF Spec

=============================================================================
