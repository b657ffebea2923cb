---------------------------- MODULE SearchProofs ----------------------------
(***************************************************************************)
(* Theorems about the two searches, ParallelSearch and TrajectorySearch,   *)
(* for any set of configurations: any number of rounds, branches, parents, *)
(* steps and workers, any topology, and any number of failures.            *)
(***************************************************************************)
EXTENDS ParallelSearch, TrajectorySearch,
        FiniteSetTheorems, WellFoundedInduction, TLAPS

-----------------------------------------------------------------------------
(* Numbers in order.                                                       *)

(* The greatest of finitely many numbers.                                  *)
LEMMA Greatest ==
  ASSUME NEW S \in SUBSET Int, S # {}, IsFiniteSet(S)
  PROVE  \E x \in S : \A y \in S : x >= y
<1> DEFINE Up(x) == { y \in S : y >= x }
           T == { Up(x) : x \in S }
           R == StrictSubsetOrdering(S)
<1>1. T # {} /\ T \subseteq FiniteSubsetsOf(S)
  <2>1. \A x \in S : Up(x) \in SUBSET S /\ IsFiniteSet(Up(x))
    BY FS_Subset
  <2> QED
    BY <2>1 DEF FiniteSubsetsOf
<1>2. IsWellFoundedOn(R, FiniteSubsetsOf(S))
  BY FS_StrictSubsetOrderingWellFounded
<1>3. PICK t \in T : \A u \in T : ~ (<< u, t >> \in R)
  <2> HIDE DEF T, R
  <2> QED
    BY <1>1, <1>2, WFMin
<1>4. PICK x \in S : t = Up(x)
  OBVIOUS
<1>5. ASSUME NEW y \in S, ~ (x >= y) PROVE FALSE
  <2>1. Up(y) \in T /\ Up(y) \in SUBSET S /\ Up(x) \in SUBSET S
    OBVIOUS
  <2>2. x \in Int /\ y \in Int /\ x < y
    BY <1>5
  <2>3. ASSUME NEW z \in S, z >= y PROVE z >= x
    <3>1. z \in Int
      OBVIOUS
    <3> QED
      BY <2>2, <2>3, <3>1
  <2>4. Up(y) \subseteq Up(x)
    BY <2>3
  <2>5. x \in Up(x) /\ x \notin Up(y)
    BY <2>2
  <2>6. << Up(y), Up(x) >> \in R
    <3> HIDE DEF Up
    <3> QED
      BY <2>1, <2>4, <2>5 DEF StrictSubsetOrdering
  <2> QED
    BY <1>3, <1>4, <2>1, <2>6
<1> QED
  BY <1>5

(* What holds at a number and carries over from each number to the next    *)
(* holds up to a bound.                                                    *)
LEMMA FromTo ==
  ASSUME NEW a \in Int, NEW b \in Int, a <= b, NEW S, a \in S,
         \A n \in a .. b - 1 : n \in S => n + 1 \in S
  PROVE  a .. b \subseteq S
<1> DEFINE Good == { n \in a .. b : a .. n \subseteq S }
<1>1. a \in Good
  OBVIOUS
<1>2. Good \in SUBSET Int /\ IsFiniteSet(Good)
  <2>1. IsFiniteSet(a .. b) /\ Good \subseteq a .. b
    BY FS_Interval
  <2> HIDE DEF Good
  <2>2. IsFiniteSet(Good)
    BY <2>1, FS_Subset, Zenon
  <2> QED
    BY <2>1, <2>2
<1>3. PICK n \in Good : \A m \in Good : n >= m
  <2> HIDE DEF Good
  <2> QED
    BY <1>1, <1>2, Greatest
<1>4. n \in a .. b /\ a .. n \subseteq S
  OBVIOUS
<1>5. ASSUME n < b PROVE FALSE
  <2>1. n \in S /\ n \in a .. b - 1
    BY <1>4, <1>5
  <2>2. n + 1 \in S
    BY <2>1
  <2>3. \A m \in a .. n + 1 : m \in a .. n \/ m = n + 1
    BY <1>4
  <2>4. n + 1 \in Good
    BY <2>1, <2>2, <2>3, <1>4
  <2>5. n >= n + 1
    BY <2>4, <1>3
  <2> QED
    BY <2>1, <2>5
<1>6. n = b
  BY <1>4, <1>5
<1> QED
  BY <1>4, <1>6

(* A finite set of numbers has an Nth member for every N below its size.   *)
LEMMA NthMember ==
  ASSUME NEW S \in SUBSET Nat, IsFiniteSet(S),
         NEW n \in 0 .. Cardinality(S) - 1
  PROVE  Nth(S, n) \in S
<1> DEFINE Below(x) == { j \in S : j < x }
           c(x) == Cardinality(Below(x))
<1>1. Cardinality(S) \in Nat /\ n \in Nat /\ n < Cardinality(S)
  BY FS_CardinalityType
<1>2. S # {}
  BY <1>1, FS_EmptySet
<1>3. PICK p \in S : \A j \in S : p >= j
  BY <1>2, Greatest
<1>4. p \in Nat /\ \A j \in S : j \in Nat /\ j < p + 1 /\ ~ (j < 0)
  BY <1>3
<1>5. \A x \in Nat : IsFiniteSet(Below(x)) /\ c(x) \in Nat
  <2> TAKE x \in Nat
  <2>1. Below(x) \in SUBSET S
    OBVIOUS
  <2> HIDE DEF Below
  <2> QED
    BY <2>1, FS_Subset, FS_CardinalityType
<1>6. \A x \in Nat : Below(x + 1) = IF x \in S THEN Below(x) \cup {x}
                                    ELSE Below(x)
  <2> TAKE x \in Nat
  <2>1. \A j \in S : j \in Nat /\ (j < x + 1 <=> j < x \/ j = x)
    OBVIOUS
  <2> QED
    BY <2>1
<1>7. \A x \in Nat : x \in S => c(x + 1) = c(x) + 1
  <2> TAKE x \in Nat
  <2> HAVE x \in S
  <2>1. x \notin Below(x) /\ IsFiniteSet(Below(x))
    BY <1>5
  <2>2. Cardinality(Below(x) \cup {x}) = Cardinality(Below(x)) + 1
    <3> HIDE DEF Below
    <3> QED BY <2>1, FS_AddElement
  <2> QED
    BY <2>2, <1>6
<1>8. \A x \in Nat : x \notin S => c(x + 1) = c(x)
  BY <1>6
<1>9. Below(0) = {} /\ Below(p + 1) = S
  BY <1>4
<1>10. c(0) = 0 /\ c(p + 1) = Cardinality(S)
  BY <1>9, FS_EmptySet
<1> HIDE DEF c, Below
<1>11. ASSUME \A i \in S : c(i) # n PROVE FALSE
  <2> DEFINE Low == { x \in 0 .. p + 1 : c(x) <= n }
  <2>1. 0 \in Low
    BY <1>1, <1>4, <1>10
  <2>2. ASSUME NEW x \in 0 .. (p + 1) - 1, x \in Low PROVE x + 1 \in Low
    <3>1. x \in Nat /\ x + 1 \in 0 .. p + 1 /\ c(x) \in Nat /\ c(x) <= n
      BY <1>4, <1>5, <2>2
    <3>2. CASE x \in S
      <4>1. c(x) # n /\ c(x + 1) = c(x) + 1
        BY <3>1, <3>2, <1>7, <1>11
      <4> QED
        BY <4>1, <3>1, <1>1
    <3>3. CASE x \notin S
      BY <3>1, <3>3, <1>8
    <3> QED
      BY <3>2, <3>3
  <2>3. 0 .. p + 1 \subseteq Low
    <3> HIDE DEF Low
    <3>1. 0 \in Int /\ p + 1 \in Int /\ 0 <= p + 1
      BY <1>4
    <3> QED
      BY <2>1, <2>2, <3>1, FromTo
  <2>4. p + 1 \in Low
    BY <2>3, <1>4
  <2> QED
    BY <2>4, <1>1, <1>10
<1>12. \E i \in S : c(i) = n
  BY <1>11
<1> QED
  BY <1>12 DEF Nth, c, Below

LEMMA InOrderFacts ==
  ASSUME NEW S \in SUBSET Nat, IsFiniteSet(S)
  PROVE  InOrder(S) \in Seq(Nat) /\ Range(InOrder(S)) \subseteq S
<1>1. Cardinality(S) \in Nat
  BY FS_CardinalityType
<1>2. \A k \in 1 .. Cardinality(S) : Nth(S, k - 1) \in S
  <2> TAKE k \in 1 .. Cardinality(S)
  <2>1. k - 1 \in 0 .. Cardinality(S) - 1
    BY <1>1
  <2> QED
    BY <2>1, NthMember
<1>3. InOrder(S) \in [ 1 .. Cardinality(S) -> S ]
  BY <1>2 DEF InOrder
<1> DEFINE r == InOrder(S)
<1> HIDE DEF r
<1>4. r \in Seq(Nat)
  <2>1. r \in [ 1 .. Cardinality(S) -> Nat ]
    BY <1>3 DEF r
  <2> QED
    BY <2>1, <1>1
<1>5. Range(r) \subseteq S
  BY <1>3 DEF r, Range
<1> QED
  BY <1>4, <1>5 DEF r

LEMMA FilterFacts ==
  ASSUME NEW s \in Seq(Nat), NEW keep
  PROVE  /\ Filter(s, keep) \in Seq(Nat)
         /\ Range(Filter(s, keep)) \subseteq Range(s) \cap keep
<1> DEFINE at == { k \in DOMAIN s : s[k] \in keep }
           r == Filter(s, keep)
<1>1. DOMAIN s = 1 .. Len(s) /\ Len(s) \in Nat
      /\ \A k \in DOMAIN s : s[k] \in Nat
  OBVIOUS
<1>2. at \in SUBSET Nat /\ IsFiniteSet(at)
  <2>1. IsFiniteSet(1 .. Len(s)) /\ at \subseteq 1 .. Len(s)
    BY <1>1, FS_Interval
  <2> HIDE DEF at
  <2>2. IsFiniteSet(at)
    BY <2>1, FS_Subset, Zenon
  <2> QED
    BY <2>1, <2>2, <1>1
<1>3. Cardinality(at) \in Nat
  BY <1>2, FS_CardinalityType
<1>4. r = [ k \in 1 .. Cardinality(at) |-> s[Nth(at, k - 1)] ]
  BY DEF Filter
<1> HIDE DEF at, r
<1>5. \A k \in 1 .. Cardinality(at) : Nth(at, k - 1) \in at
  <2> TAKE k \in 1 .. Cardinality(at)
  <2>1. k - 1 \in 0 .. Cardinality(at) - 1
    BY <1>3
  <2> QED
    BY <1>2, <2>1, NthMember
<1>6. \A i \in at : s[i] \in Range(s) \cap keep /\ s[i] \in Nat
  BY <1>1 DEF at, Range
<1>7. r \in [ 1 .. Cardinality(at) -> Nat ]
  BY <1>4, <1>5, <1>6
<1>8. \A k \in 1 .. Cardinality(at) : r[k] \in Range(s) \cap keep
  BY <1>4, <1>5, <1>6
<1>9. r \in Seq(Nat)
  BY <1>3, <1>7
<1>10. Range(r) \subseteq Range(s) \cap keep
  BY <1>7, <1>8 DEF Range
<1> QED
  BY <1>9, <1>10 DEF r

-----------------------------------------------------------------------------
(* ParallelSearch: its invariant.                                          *)

ParentStates ==
  [ at : {"off", "queued", "running", "ended"},
    result : {"none", "paused", "submitted", "overlength", "error"},
    cards : Nat ]

BranchStates ==
  [ parent : Nat, at : {"queued", "running", "ended", "collected"},
    result : {"none", "paused", "submitted", "overlength", "error"},
    gt : {"no", "running", "scored", "failed"} ]

(* The branches are a sequence, of which only the indices matter here.     *)
BranchLists == UNION { [ D -> BranchStates ] : D \in SUBSET Nat }

GroupStates ==
  [ at : {"off", "start", "branches", "lost", "judging", "done"},
    branches : BranchLists, policyDone : BOOLEAN,
    laneC : {"no", "skipped", "after GT", "running", "done", "error"},
    scored : BOOLEAN ]

TypeInv ==
  /\ cfg \in Configs
  /\ main \in {"root", "parents", "policy", "drain", "cleanup", "over"}
  /\ images \subseteq {0} \cup Parents
  /\ parent \in [ Parents -> ParentStates ]
  /\ group \in [ Kinds -> GroupStates ]
  /\ policyCalled \in BOOLEAN
  /\ record \in [ laneAError : BOOLEAN, skipped : SUBSET Kinds,
                  groups : SUBSET Kinds, completed : BOOLEAN,
                  failed : BOOLEAN ]

Before == {"root", "parents"}
After == {"drain", "cleanup", "over"}

(* Where run() stands, and what that says of Lane A and of the groups.     *)
MainInv ==
  /\ main = "root" =>
       /\ images = {} /\ Started = {}
       /\ \A i \in Parents : parent[i].at = "off"
  /\ main # "parents" => \A i \in Parents : parent[i].at \in {"off", "ended"}
  /\ main \in Before =>
       /\ group["beam"].at = "off" /\ record.skipped = {}
       /\ ~ record.completed
  /\ main = "parents" => "beam" \in cfg.kinds
  /\ main \in {"policy", "drain"} => ~ record.completed
  /\ main \in After =>
       \A g \in Started : group[g].policyDone
  /\ main \in {"cleanup", "over"} =>
       \A g \in Started : group[g].at \in {"done", "lost"}
  /\ policyCalled => main \in After
  /\ group["beam"].at # "off" => \E i \in Parents : CanContinue(i)
  /\ \A i \in Parents :
       parent[i].result = "paused" => parent[i].at = "ended"

(* Which checkpoints are still there.                                      *)
ImageInv ==
  main \notin {"root", "over"} =>
    /\ main = "parents" \/ Started # {} => 0 \in images
    /\ group["beam"].at # "done" =>
         \A i \in Parents : CanContinue(i) => i \in images

(* The checkpoints that the branches of a group are forked from.           *)
ForkPoints(g) ==
  IF g = "root" THEN {0} ELSE { i \in Parents : CanContinue(i) }

(* How far a group is, and what that says of its branches.                 *)
GroupOK(g, r) ==
  /\ r.policyDone <=> r.at \in {"lost", "judging", "done"}
  /\ r.at \in {"off", "start"} => DOMAIN r.branches = {}
  /\ r.at \in {"branches", "judging", "done"} =>
       DOMAIN r.branches = 1 .. cfg.m
  /\ r.at # "off" => g \in cfg.kinds \ record.skipped
  /\ \A b \in DOMAIN r.branches :
       /\ b \in 1 .. cfg.m
       /\ r.branches[b].parent \in ForkPoints(g)
       /\ r.at = "done" => r.branches[b].gt # "running"
       /\ r.at \in {"judging", "done"} => r.branches[b].at = "collected"
       /\ r.branches[b].gt # "no" => r.branches[b].at = "collected"

GroupInv == \A g \in Kinds : GroupOK(g, group[g])

ValidGroup(r) == \A b \in 1 .. cfg.m : r.branches[b].result # "error"

(* Lane C judges groups that are valid, and only those are scored.         *)
JudgeOK(r) ==
  /\ r.at \notin {"judging", "done"} => r.laneC = "no"
  /\ r.scored => r.laneC \in {"done", "error"}
  /\ r.laneC \in {"after GT", "running", "done", "error"} => ValidGroup(r)
  /\ r.at = "done" => r.laneC \in {"skipped", "done", "error"}

JudgeInv == \A g \in Kinds : JudgeOK(group[g])

(* What a record that says completed holds.                                *)
RecordInv ==
  record.completed =>
    /\ record.groups = cfg.kinds \ record.skipped
    /\ \A g \in record.groups : group[g].at = "done" /\ Whole(g)

SearchInv ==
  TypeInv /\ MainInv /\ ImageInv /\ GroupInv /\ JudgeInv /\ RecordInv

(* When a parent's steps leave some for its branches, no group is given up *)
(* with branches under way.                                                *)
LostInv ==
  /\ \A i \in Parents : parent[i].cards < cfg.limit
  /\ \A g \in Kinds : group[g].at = "lost" => DOMAIN group[g].branches = {}
-----------------------------------------------------------------------------
(* ParallelSearch: facts about its numbers.                                *)

(* A nonempty set of indices has a least one.                              *)
LEMMA MinMember ==
  ASSUME NEW p \in Nat, NEW S \in SUBSET (1 .. p), S # {}
  PROVE  Min(S) \in S
<1> DEFINE Free == { x \in 0 .. p : \A j \in S : x < j }
<1>1. \E i \in S : \A j \in S : i <= j
  <2> SUFFICES ASSUME \A i \in S : \E j \in S : j < i PROVE FALSE
    OBVIOUS
  <2>1. 0 \in Free
    OBVIOUS
  <2>2. ASSUME NEW x \in 0 .. p - 1, x \in Free PROVE x + 1 \in Free
    <3>1. \A j \in S : x + 1 <= j
      BY <2>2
    <3>2. x + 1 \notin S
      BY <3>1
    <3> QED BY <3>1, <3>2
  <2>3. 0 .. p \subseteq Free
    <3> HIDE DEF Free
    <3> QED BY <2>1, <2>2, FromTo
  <2>4. p \in Free
    BY <2>3
  <2>5. PICK j \in S : TRUE
    OBVIOUS
  <2>6. p < j /\ j \in 1 .. p
    BY <2>4
  <2> QED
    BY <2>6
<1> QED
  BY <1>1 DEF Min

(* The parent that a branch is planned for is one of those there are.      *)
LEMMA Share ==
  ASSUME NEW e \in Nat, NEW c \in Nat, NEW b \in 1 .. e * c
  PROVE  (b - 1) \div e \in 0 .. c - 1
<1>1. e > 0 /\ c > 0
  <2>1. e = 0 => e * c = 0
    OBVIOUS
  <2>2. c = 0 => e * c = 0
    OBVIOUS
  <2> QED BY <2>1, <2>2
<1> DEFINE q == (b - 1) \div e
           r == (b - 1) % e
<1>2. q \in Int /\ r \in 0 .. e - 1 /\ b - 1 = e * q + r
  BY <1>1
<1>3. b - 1 \in 0 .. e * c - 1
  OBVIOUS
<1> HIDE DEF q, r
<1>4. q >= 0
  <2> SUFFICES ASSUME q <= -1 PROVE FALSE
    BY <1>2
  <2>1. e * q <= -e
    BY <1>1, <1>2
  <2>2. e * c \in Nat /\ e * q \in Int
    BY <1>2
  <2> QED BY <2>1, <2>2, <1>1, <1>2, <1>3
<1>5. q < c
  <2> SUFFICES ASSUME q >= c PROVE FALSE
    BY <1>2
  <2>1. e * q >= e * c
    BY <1>1, <1>2
  <2>2. e * c \in Nat /\ e * q \in Int
    BY <1>2
  <2> QED BY <2>1, <2>2, <1>1, <1>2, <1>3
<1> QED
  BY <1>2, <1>4, <1>5 DEF q

-----------------------------------------------------------------------------
(* ParallelSearch: constants.                                              *)

LEMMA ConfigTypes ==
  ASSUME TypeInv
  PROVE  /\ cfg.m \in Nat \ {0} /\ cfg.k \in Nat \ {0}
         /\ cfg.p \in Nat \ {0} /\ cfg.limit \in Nat \ {0}
         /\ cfg.kinds \subseteq Kinds
         /\ cfg.depth2 \in BOOLEAN /\ cfg.gtOnSubmit \in BOOLEAN
         /\ cfg.skipLaneC \in BOOLEAN /\ cfg.terminal \in BOOLEAN
  BY ParallelAssumption DEF TypeInv, Kinds

LEMMA NoGroupOK ==
  /\ NoGroup \in GroupStates /\ JudgeOK(NoGroup)
  /\ DOMAIN NoGroup.branches = {} /\ NoGroup.at = "off"
  /\ NoGroup.policyDone = FALSE
<1>1. DOMAIN << >> = {}
  OBVIOUS
<1>2. << >> = [ b \in DOMAIN << >> |-> << >>[b] ]
  OBVIOUS
<1> QED
  BY <1>1, <1>2 DEF NoGroup, GroupStates, BranchLists, JudgeOK

LEMMA InitHolds == Init => SearchInv /\ LostInv
<1> SUFFICES ASSUME Init PROVE SearchInv /\ LostInv
  OBVIOUS
<1>1. /\ \A g \in Kinds : group[g] = NoGroup
      /\ group = [ g \in Kinds |-> group[g] ]
  BY DEF Init
<1>2. /\ cfg.m \in Nat \ {0} /\ cfg.k \in Nat \ {0}
      /\ cfg.p \in Nat \ {0} /\ cfg.limit \in Nat \ {0}
  BY ParallelAssumption DEF Init
<1>3. Started = {}
  BY <1>1, NoGroupOK DEF Started
<1>4. TypeInv
  BY <1>1, NoGroupOK DEF Init, TypeInv, ParentStates
<1>5. MainInv /\ ImageInv /\ RecordInv
  BY <1>1, <1>3, NoGroupOK DEF Init, MainInv, ImageInv, RecordInv, Kinds
<1>6. GroupInv /\ JudgeInv
  BY <1>1, NoGroupOK DEF GroupInv, JudgeInv, GroupOK
<1>7. LostInv
  BY <1>1, <1>2, NoGroupOK DEF LostInv, Init
<1> QED
  BY <1>4, <1>5, <1>6, <1>7 DEF SearchInv
-----------------------------------------------------------------------------
(* ParallelSearch: what a group starts with.                               *)

LEMMA PlanOK ==
  ASSUME TypeInv, NEW g \in Kinds,
         g = "beam" => \E i \in Parents : CanContinue(i)
  PROVE  \E n \in Nat : ForkPlan(g) \in [ 1 .. n -> ForkPoints(g) ]
<1> DEFINE usable == { i \in Parents : CanContinue(i) }
           count == Cardinality(usable)
           each == cfg.m \div count
<1>1. cfg.m \in Nat \ {0} /\ cfg.p \in Nat \ {0}
  BY ConfigTypes
<1>2. CASE g = "root"
  <2>1. ForkPlan(g) = [ b \in 1 .. cfg.m |-> 0 ]
    BY <1>2 DEF ForkPlan
  <2>2. ForkPoints(g) = {0}
    BY <1>2 DEF ForkPoints
  <2> QED BY <2>1, <2>2, <1>1
<1>3. CASE g # "root"
  <2>1. g = "beam"
    BY <1>3 DEF Kinds
  <2>2. usable \in SUBSET (1 .. cfg.p) /\ usable # {}
    BY <2>1 DEF Parents
  <2>3. IsFiniteSet(usable) /\ count \in Nat /\ count # 0
    <3>1. IsFiniteSet(1 .. cfg.p)
      BY <1>1, FS_Interval
    <3> HIDE DEF usable
    <3> QED BY <3>1, <2>2, FS_Subset, FS_CardinalityType, FS_EmptySet
  <2> HIDE DEF usable, count
  <2>4. each \in Nat
    BY <2>3, <1>1
  <2> HIDE DEF each
  <2>5. \A b \in 1 .. each * count : Nth(usable, (b - 1) \div each) \in usable
    <3> TAKE b \in 1 .. each * count
    <3>1. (b - 1) \div each \in 0 .. count - 1
      BY <2>3, <2>4, Share
    <3> QED
      <4>1. usable \in SUBSET Nat
        BY <2>2
      <4> QED
        BY <3>1, <4>1, <2>3, NthMember DEF count
  <2>6. ForkPlan(g) = [ b \in 1 .. each * count |->
                          Nth(usable, (b - 1) \div each) ]
    BY <1>3 DEF ForkPlan, usable, count, each
  <2>7. each * count \in Nat
    BY <2>3, <2>4
  <2>8. ForkPoints(g) = usable
    BY <1>3 DEF ForkPoints, usable
  <2> QED
    BY <2>5, <2>6, <2>7, <2>8
<1> QED
  BY <1>2, <1>3

LEMMA PointsAreNumbers ==
  ASSUME TypeInv, NEW g \in Kinds
  PROVE  ForkPoints(g) \subseteq Nat
  BY ConfigTypes DEF ForkPoints, Parents

(* Branches are queued as planned.                                         *)
LEMMA QueueOK ==
  ASSUME NEW n \in Nat, NEW F \in SUBSET Nat, NEW plan \in [ 1 .. n -> F ]
  PROVE  /\ DOMAIN Queue(plan) = 1 .. n
         /\ Queue(plan) \in BranchLists
         /\ \A b \in 1 .. n : /\ Queue(plan)[b].parent \in F
                              /\ Queue(plan)[b].at = "queued"
                              /\ Queue(plan)[b].result = "none"
                              /\ Queue(plan)[b].gt = "no"
<1>1. DOMAIN plan = 1 .. n
  OBVIOUS
<1>2. \A b \in 1 .. n :
        [ NoBranch EXCEPT !.parent = plan[b] ] =
          [ parent |-> plan[b], at |-> "queued", result |-> "none",
            gt |-> "no" ]
  BY DEF NoBranch
<1>3. Queue(plan) = [ b \in 1 .. n |->
          [ parent |-> plan[b], at |-> "queued", result |-> "none",
            gt |-> "no" ] ]
  BY <1>1, <1>2 DEF Queue
<1>4. \A b \in 1 .. n : plan[b] \in F /\ plan[b] \in Nat
  OBVIOUS
<1>5. Queue(plan) \in [ 1 .. n -> BranchStates ]
  BY <1>3, <1>4 DEF BranchStates
<1>6. Queue(plan) \in BranchLists
  BY <1>5 DEF BranchLists
<1> QED
  BY <1>3, <1>4, <1>6

-----------------------------------------------------------------------------
(* ParallelSearch: steps of one group: what is asked of its new record.    *)

LEMMA GroupStep ==
  ASSUME SearchInv, NEW g \in Kinds, NEW r,
         r \in GroupStates, GroupOK(g, r), JudgeOK(r),
         group' = [ group EXCEPT ![g] = r ],
         UNCHANGED << cfg, main, parent, policyCalled, record >>,
         group[g].at \notin {"off", "done"}, r.at # "off",
         images' = IF r.at = "done" THEN images \ ParentImages(g) ELSE images,
         group[g].policyDone => r.policyDone,
         group[g].at = "lost" => r.at = "lost"
  PROVE  /\ SearchInv'
         /\ (r.at = "lost" => DOMAIN r.branches = {})
              => (LostInv => LostInv')
<1> USE DEF SearchInv
<1>1. /\ group' = [ h \in Kinds |-> group'[h] ]
      /\ \A h \in Kinds : group'[h] = IF h = g THEN r ELSE group[h]
  BY DEF TypeInv
<1>2. Started' = Started
  BY <1>1 DEF Started
<1>3. /\ Parents' = Parents
      /\ \A i : CanContinue(i)' <=> CanContinue(i)
      /\ \A h : ForkPoints(h)' = ForkPoints(h)
  BY DEF Parents, CanContinue, ForkPoints
<1>4. ParentImages(g) \subseteq Parents /\ 0 \notin Parents
  BY ConfigTypes DEF ParentImages, Parents
<1>5. TypeInv'
  BY <1>1, <1>3 DEF TypeInv
<1>6. main \notin {"root"}
  BY DEF MainInv, Started
<1>7. MainInv'
  BY <1>1, <1>2, <1>3, <1>6 DEF MainInv, Started, Before
<1>8. ImageInv'
  BY <1>1, <1>2, <1>3, <1>4 DEF ImageInv, Kinds, ParentImages
<1>9. GroupInv'
  BY <1>1, <1>3 DEF GroupInv, GroupOK
<1>10. JudgeInv'
  BY <1>1 DEF JudgeInv, JudgeOK, ValidGroup
<1>11. RecordInv'
  <2>1. \A h \in Kinds \ {g} : Whole(h)' <=> Whole(h)
    BY <1>1 DEF Whole, Valid
  <2>2. record.groups \subseteq Kinds
    BY DEF TypeInv
  <2> QED
    BY <1>1, <2>1, <2>2 DEF RecordInv
<1>12. ASSUME LostInv, r.at = "lost" => DOMAIN r.branches = {}
       PROVE  LostInv'
  BY <1>1, <1>3, <1>12 DEF LostInv
<1> QED
  BY <1>5, <1>7, <1>8, <1>9, <1>10, <1>11, <1>12

(* Facts of a group's own record that its steps start from.                *)
LEMMA GroupFacts ==
  ASSUME SearchInv, NEW g \in Kinds
  PROVE  /\ group[g] \in GroupStates /\ GroupOK(g, group[g])
         /\ JudgeOK(group[g])
         /\ ValidGroup(group[g]) <=> Valid(g)
         /\ cfg.m \in Nat \ {0}
  BY ConfigTypes DEF SearchInv, TypeInv, GroupInv, JudgeInv, ValidGroup,
     Valid, GroupStates

LEMMA RecordOne ==
  ASSUME NEW q \in GroupStates, NEW x
  PROVE  /\ [ q EXCEPT !.at = x ] =
              [ at |-> x, branches |-> q.branches,
                policyDone |-> q.policyDone, laneC |-> q.laneC,
                scored |-> q.scored ]
         /\ [ q EXCEPT !.laneC = x ] =
              [ at |-> q.at, branches |-> q.branches,
                policyDone |-> q.policyDone, laneC |-> x,
                scored |-> q.scored ]
         /\ [ q EXCEPT !.branches = x ] =
              [ at |-> q.at, branches |-> x, policyDone |-> q.policyDone,
                laneC |-> q.laneC, scored |-> q.scored ]
<1> DEFINE a == q.at  b == q.branches  p == q.policyDone
           l == q.laneC  s == q.scored
<1>1. q = [ at |-> a, branches |-> b, policyDone |-> p, laneC |-> l,
            scored |-> s ]
  BY DEF GroupStates
<1> HIDE DEF a, b, p, l, s
<1>2. /\ [ q EXCEPT !.at = x ] =
           [ at |-> x, branches |-> b, policyDone |-> p, laneC |-> l,
             scored |-> s ]
      /\ [ q EXCEPT !.laneC = x ] =
           [ at |-> a, branches |-> b, policyDone |-> p, laneC |-> x,
             scored |-> s ]
      /\ [ q EXCEPT !.branches = x ] =
           [ at |-> a, branches |-> x, policyDone |-> p, laneC |-> l,
             scored |-> s ]
  BY <1>1
<1> QED
  BY <1>2 DEF a, b, p, l, s

LEMMA RecordJudged ==
  ASSUME NEW q \in GroupStates, NEW x, NEW y
  PROVE  [ q EXCEPT !.scored = x, !.laneC = y ] =
           [ at |-> q.at, branches |-> q.branches,
             policyDone |-> q.policyDone, laneC |-> y, scored |-> x ]
<1> DEFINE a == q.at  b == q.branches  p == q.policyDone
           l == q.laneC  s == q.scored
<1>1. q = [ at |-> a, branches |-> b, policyDone |-> p, laneC |-> l,
            scored |-> s ]
  BY DEF GroupStates
<1> HIDE DEF a, b, p, l, s
<1> DEFINE q1 == [ q EXCEPT !.scored = x ]
<1>2. q1 = [ at |-> a, branches |-> b, policyDone |-> p, laneC |-> l,
             scored |-> x ]
  BY <1>1
<1>3. [ q EXCEPT !.scored = x, !.laneC = y ] = [ q1 EXCEPT !.laneC = y ]
  BY Zenon
<1> HIDE DEF q1
<1>4. [ q1 EXCEPT !.laneC = y ] =
        [ at |-> a, branches |-> b, policyDone |-> p, laneC |-> y,
          scored |-> x ]
  BY <1>2
<1>5. [ q EXCEPT !.scored = x, !.laneC = y ] =
        [ at |-> a, branches |-> b, policyDone |-> p, laneC |-> y,
          scored |-> x ]
  BY <1>3, <1>4, Zenon
<1> QED
  BY <1>5, Zenon DEF a, b, p, l, s

LEMMA RecordBoundary ==
  ASSUME NEW q \in GroupStates, NEW x, NEW y, NEW z
  PROVE  [ q EXCEPT !.at = x, !.policyDone = z, !.laneC = y ] =
           [ at |-> x, branches |-> q.branches, policyDone |-> z,
             laneC |-> y, scored |-> q.scored ]
<1> DEFINE a == q.at  b == q.branches  p == q.policyDone
           l == q.laneC  s == q.scored
<1>1. q = [ at |-> a, branches |-> b, policyDone |-> p, laneC |-> l,
            scored |-> s ]
  BY DEF GroupStates
<1> HIDE DEF a, b, p, l, s
<1> DEFINE q1 == [ q EXCEPT !.at = x ]
           q2 == [ q1 EXCEPT !.policyDone = z ]
<1>2. q1 = [ at |-> x, branches |-> b, policyDone |-> p, laneC |-> l,
             scored |-> s ]
  BY <1>1
<1>3. [ q EXCEPT !.at = x, !.policyDone = z, !.laneC = y ] =
        [ q2 EXCEPT !.laneC = y ]
  BY Zenon
<1> HIDE DEF q1
<1>4. q2 = [ at |-> x, branches |-> b, policyDone |-> z, laneC |-> l,
             scored |-> s ]
  BY <1>2
<1> HIDE DEF q2
<1>5. [ q2 EXCEPT !.laneC = y ] =
        [ at |-> x, branches |-> b, policyDone |-> z, laneC |-> y,
          scored |-> s ]
  BY <1>4
<1>6. [ q EXCEPT !.at = x, !.policyDone = z, !.laneC = y ] =
        [ at |-> x, branches |-> b, policyDone |-> z, laneC |-> y,
          scored |-> s ]
  BY <1>3, <1>5, Zenon
<1> QED
  BY <1>6, Zenon DEF b, s

LEMMA RecordLost ==
  ASSUME NEW q \in GroupStates, NEW x, NEW z
  PROVE  [ q EXCEPT !.at = x, !.policyDone = z ] =
           [ at |-> x, branches |-> q.branches, policyDone |-> z,
             laneC |-> q.laneC, scored |-> q.scored ]
<1> DEFINE a == q.at  b == q.branches  p == q.policyDone
           l == q.laneC  s == q.scored
<1>1. q = [ at |-> a, branches |-> b, policyDone |-> p, laneC |-> l,
            scored |-> s ]
  BY DEF GroupStates
<1> HIDE DEF a, b, p, l, s
<1> DEFINE q1 == [ q EXCEPT !.at = x ]
<1>2. q1 = [ at |-> x, branches |-> b, policyDone |-> p, laneC |-> l,
             scored |-> s ]
  BY <1>1
<1>3. [ q EXCEPT !.at = x, !.policyDone = z ] = [ q1 EXCEPT !.policyDone = z ]
  BY Zenon
<1> HIDE DEF q1
<1>4. [ q1 EXCEPT !.policyDone = z ] =
        [ at |-> x, branches |-> b, policyDone |-> z, laneC |-> l,
          scored |-> s ]
  BY <1>2
<1>5. [ q EXCEPT !.at = x, !.policyDone = z ] =
        [ at |-> x, branches |-> b, policyDone |-> z, laneC |-> l,
          scored |-> s ]
  BY <1>3, <1>4, Zenon
<1> QED
  BY <1>5, Zenon DEF b, l, s

LEMMA RecordStart ==
  ASSUME NEW q \in GroupStates, NEW x, NEW y
  PROVE  [ q EXCEPT !.at = x, !.branches = y ] =
           [ at |-> x, branches |-> y, policyDone |-> q.policyDone,
             laneC |-> q.laneC, scored |-> q.scored ]
<1> DEFINE a == q.at  b == q.branches  p == q.policyDone
           l == q.laneC  s == q.scored
<1>1. q = [ at |-> a, branches |-> b, policyDone |-> p, laneC |-> l,
            scored |-> s ]
  BY DEF GroupStates
<1> HIDE DEF a, b, p, l, s
<1> DEFINE q1 == [ q EXCEPT !.at = x ]
<1>2. q1 = [ at |-> x, branches |-> b, policyDone |-> p, laneC |-> l,
             scored |-> s ]
  BY <1>1
<1>3. [ q EXCEPT !.at = x, !.branches = y ] = [ q1 EXCEPT !.branches = y ]
  BY Zenon
<1> HIDE DEF q1
<1>4. [ q1 EXCEPT !.branches = y ] =
        [ at |-> x, branches |-> y, policyDone |-> p, laneC |-> l,
          scored |-> s ]
  BY <1>2
<1>5. [ q EXCEPT !.at = x, !.branches = y ] =
        [ at |-> x, branches |-> y, policyDone |-> p, laneC |-> l,
          scored |-> s ]
  BY <1>3, <1>4, Zenon
<1> QED
  BY <1>5, Zenon DEF p, l, s

LEMMA FinishGroupHolds ==
  ASSUME SearchInv, NEW g \in Kinds, FinishGroup(g)
  PROVE  SearchInv' /\ (LostInv => LostInv')
<1>0. group[g] \in GroupStates
  BY GroupFacts
<1> DEFINE r == [ group[g] EXCEPT !.at = "done" ]
<1>1. r = [ at |-> "done", branches |-> group[g].branches,
            policyDone |-> group[g].policyDone,
            laneC |-> group[g].laneC, scored |-> group[g].scored ]
  BY <1>0, RecordOne, Zenon
<1>2. group' = [ group EXCEPT ![g] = r ]
  BY DEF FinishGroup
<1> HIDE DEF r
<1>3. group[g].at = "judging" /\ AllEvaluated(g)
      /\ group[g].laneC \in {"skipped", "done", "error"}
  BY DEF FinishGroup
<1>4. r \in GroupStates
  BY <1>1, GroupFacts DEF GroupStates
<1>5. GroupOK(g, r)
  BY <1>1, <1>3, GroupFacts DEF GroupOK, AllEvaluated
<1>6. JudgeOK(r)
  BY <1>1, <1>3, GroupFacts DEF JudgeOK, ValidGroup
<1>7. /\ images' = images \ ParentImages(g)
      /\ UNCHANGED << cfg, main, parent, policyCalled, record >>
  BY DEF FinishGroup
<1>10. /\ group[g].at \in {"judging", "branches"} /\ group[g].at # "lost"
       /\ r.at \in {"judging", "done"} /\ r.at # "lost" /\ r.at # "off"
       /\ group[g].policyDone => r.policyDone
       /\ images' = IF r.at = "done" THEN images \ ParentImages(g)
                    ELSE images
  BY <1>1, <1>3, <1>7
<1> QED
  BY <1>2, <1>3, <1>4, <1>5, <1>6, <1>7, <1>10, GroupStep

LEMMA EndJudgingHolds ==
  ASSUME SearchInv, NEW g \in Kinds, NEW judged \in BOOLEAN,
         EndJudging(g, judged)
  PROVE  SearchInv' /\ (LostInv => LostInv')
<1>0. group[g] \in GroupStates
  BY GroupFacts
<1> DEFINE how == IF judged /\ ~ RewardsRaise(g) THEN "done" ELSE "error"
           r == [ group[g] EXCEPT !.scored = judged, !.laneC = how ]
<1> HIDE DEF how
<1>1. r = [ at |-> group[g].at, branches |-> group[g].branches,
            policyDone |-> group[g].policyDone,
            laneC |-> how, scored |-> judged ]
  BY <1>0, RecordJudged, Zenon
<1>2. group' = [ group EXCEPT ![g] = r ]
  BY DEF EndJudging, how
<1>3. group[g].laneC = "running" /\ how \in {"done", "error"}
  BY DEF EndJudging, how
<1> HIDE DEF r
<1>4. group[g].at = "judging"
  BY <1>3, GroupFacts DEF JudgeOK
<1>5. r \in GroupStates
  BY <1>1, <1>3, GroupFacts DEF GroupStates
<1>6. GroupOK(g, r)
  BY <1>1, <1>4, GroupFacts DEF GroupOK
<1>7. JudgeOK(r)
  BY <1>1, <1>3, <1>4, GroupFacts DEF JudgeOK, ValidGroup
<1>8. /\ images' = images
      /\ UNCHANGED << cfg, main, parent, policyCalled, record >>
  BY DEF EndJudging
<1>10. /\ group[g].at \in {"judging", "branches"} /\ group[g].at # "lost"
       /\ r.at \in {"judging", "done"} /\ r.at # "lost" /\ r.at # "off"
       /\ group[g].policyDone => r.policyDone
       /\ images' = IF r.at = "done" THEN images \ ParentImages(g)
                    ELSE images
  BY <1>1, <1>4, <1>8
<1> QED
  BY <1>2, <1>4, <1>5, <1>6, <1>7, <1>8, <1>10, GroupStep

LEMMA StartJudgingHolds ==
  ASSUME SearchInv, NEW g \in Kinds, StartJudging(g)
  PROVE  SearchInv' /\ (LostInv => LostInv')
<1>0. group[g] \in GroupStates
  BY GroupFacts
<1> DEFINE r == [ group[g] EXCEPT !.laneC = "running" ]
<1>1. r = [ at |-> group[g].at, branches |-> group[g].branches,
            policyDone |-> group[g].policyDone,
            laneC |-> "running", scored |-> group[g].scored ]
  BY <1>0, RecordOne, Zenon
<1>2. group' = [ group EXCEPT ![g] = r ]
  BY DEF StartJudging
<1> HIDE DEF r
<1>3. group[g].at = "judging" /\ group[g].laneC = "after GT"
  BY DEF StartJudging
<1>4. r \in GroupStates
  BY <1>1, GroupFacts DEF GroupStates
<1>5. GroupOK(g, r)
  BY <1>1, GroupFacts DEF GroupOK
<1>6. JudgeOK(r)
  BY <1>1, <1>3, GroupFacts DEF JudgeOK, ValidGroup
<1>7. /\ images' = images
      /\ UNCHANGED << cfg, main, parent, policyCalled, record >>
  BY DEF StartJudging
<1>10. /\ group[g].at \in {"judging", "branches"} /\ group[g].at # "lost"
       /\ r.at \in {"judging", "done"} /\ r.at # "lost" /\ r.at # "off"
       /\ group[g].policyDone => r.policyDone
       /\ images' = IF r.at = "done" THEN images \ ParentImages(g)
                    ELSE images
  BY <1>1, <1>3, <1>7
<1> QED
  BY <1>2, <1>3, <1>4, <1>5, <1>6, <1>7, <1>10, GroupStep

LEMMA EndPolicyHolds ==
  ASSUME SearchInv, NEW g \in Kinds, EndPolicy(g)
  PROVE  SearchInv' /\ (LostInv => LostInv')
<1>0. group[g] \in GroupStates
  BY GroupFacts
<1> DEFINE yes == TRUE
           plan == LaneCPlan(g)
           r == [ group[g] EXCEPT !.at = "judging", !.policyDone = yes,
                                  !.laneC = plan ]
<1>2. group' = [ group EXCEPT ![g] = r ]
  BY Zenon DEF EndPolicy
<1> HIDE DEF yes, plan
<1>1. r = [ at |-> "judging", branches |-> group[g].branches,
            policyDone |-> yes, laneC |-> plan,
            scored |-> group[g].scored ]
  BY <1>0, RecordBoundary, Zenon
<1> HIDE DEF r
<1>3. group[g].at = "branches" /\ AllCollected(g)
  BY DEF EndPolicy
<1>9. yes \in BOOLEAN /\ yes
  BY DEF yes
<1>4. /\ LaneCPlan(g) \in {"skipped", "after GT", "running"}
      /\ LaneCPlan(g) # "skipped" => Valid(g)
  <2>1. CASE cfg.skipLaneC \/ ~ Valid(g)
    BY <2>1 DEF LaneCPlan
  <2>2. CASE ~ (cfg.skipLaneC \/ ~ Valid(g)) /\ cfg.gtOnSubmit
    BY <2>2 DEF LaneCPlan
  <2>3. CASE ~ (cfg.skipLaneC \/ ~ Valid(g)) /\ ~ cfg.gtOnSubmit
    BY <2>3 DEF LaneCPlan
  <2> QED BY <2>1, <2>2, <2>3
<1>5. r \in GroupStates
  BY <1>1, <1>9, <1>4, GroupFacts DEF GroupStates, plan
<1>6. GroupOK(g, r)
  BY <1>1, <1>9, <1>3, GroupFacts DEF GroupOK, AllCollected
<1>7. JudgeOK(r)
  BY <1>1, <1>3, <1>4, GroupFacts DEF JudgeOK, ValidGroup, plan
<1>8. /\ images' = images
      /\ UNCHANGED << cfg, main, parent, policyCalled, record >>
  BY DEF EndPolicy
<1>10. /\ group[g].at \in {"judging", "branches"} /\ group[g].at # "lost"
       /\ r.at \in {"judging", "done"} /\ r.at # "lost" /\ r.at # "off"
       /\ group[g].policyDone => r.policyDone
       /\ images' = IF r.at = "done" THEN images \ ParentImages(g)
                    ELSE images
  BY <1>1, <1>9, <1>3, <1>8
<1> QED
  BY <1>2, <1>3, <1>5, <1>6, <1>7, <1>8, <1>10, GroupStep

(* A group that is given up, with the branches it has queued.              *)
LEMMA LostOK ==
  ASSUME NEW q \in GroupStates
  PROVE  /\ Lost(q) \in GroupStates
         /\ Lost(q).at = "lost" /\ Lost(q).policyDone
         /\ Lost(q).branches = q.branches
         /\ Lost(q).laneC = q.laneC /\ Lost(q).scored = q.scored
<1> DEFINE yes == TRUE
           r == [ q EXCEPT !.at = "lost", !.policyDone = yes ]
<1>1. Lost(q) = r
  BY DEF Lost
<1>2. yes \in BOOLEAN /\ yes
  OBVIOUS
<1> HIDE DEF yes
<1>3. r = [ at |-> "lost", branches |-> q.branches, policyDone |-> yes,
            laneC |-> q.laneC, scored |-> q.scored ]
  BY RecordLost, Zenon
<1> HIDE DEF r
<1>4. r \in GroupStates
  BY <1>2, <1>3 DEF GroupStates
<1>5. r.at = "lost" /\ r.branches = q.branches /\ r.laneC = q.laneC
      /\ r.scored = q.scored
  BY <1>3
<1>6. r.policyDone
  BY <1>2, <1>3
<1> QED
  BY <1>1, <1>4, <1>5, <1>6, Zenon

(* The branches that come before the first one whose parent has no steps.  *)
LEMMA RunnableOK ==
  ASSUME TypeInv, NEW n \in Nat, NEW F \in SUBSET Nat,
         NEW plan \in [ 1 .. n -> F ]
  PROVE  /\ Runnable(plan) \in -1 .. n - 1
         /\ Runnable(plan) >= 0 =>
              /\ SubSeq(plan, 1, Runnable(plan))
                   \in [ 1 .. Runnable(plan) -> F ]
              /\ \E i \in F : ~ StepsLeft(i)
<1> DEFINE I == { b \in 1 .. n : ~ StepsLeft(plan[b]) }
           first == SelectInSeq(plan, LAMBDA i : ~ StepsLeft(i))
<1>1. Len(plan) = n
  OBVIOUS
<1>2. first = IF I # {} THEN Min(I) ELSE 0
  <2>1. first = IF { b \in 1 .. Len(plan) : ~ StepsLeft(plan[b]) } # {}
                THEN Min({ b \in 1 .. Len(plan) : ~ StepsLeft(plan[b]) })
                ELSE 0
    BY Zenon DEF SelectInSeq
  <2> QED
    BY <2>1, <1>1, Zenon
<1>0. Runnable(plan) = first - 1
  BY Zenon DEF Runnable
<1> HIDE DEF first
<1>3. CASE I = {}
  BY <1>0, <1>2, <1>3
<1>4. CASE I # {}
  <2>1. first \in I
    BY <1>2, <1>4, MinMember
  <2>2. first \in 1 .. n /\ ~ StepsLeft(plan[first])
    BY <2>1
  <2>3. SubSeq(plan, 1, first - 1) \in [ 1 .. first - 1 -> F ]
    <3>1. first - 1 \in 0 .. n - 1
      BY <2>2
    <3> DEFINE early == SubSeq(plan, 1, first - 1)
    <3>2. plan \in Seq(F)
      OBVIOUS
    <3>3. early \in Seq(F) /\ Len(early) = first - 1
      BY <3>1, <3>2, <1>1
    <3> HIDE DEF early
    <3>4. early \in [ 1 .. Len(early) -> F ]
      BY <3>3
    <3> QED
      BY <3>3, <3>4 DEF early
  <2>4. SubSeq(plan, 1, Runnable(plan)) \in [ 1 .. Runnable(plan) -> F ]
    BY <1>0, <2>3, Zenon
  <2>5. first - 1 \in -1 .. n - 1
    BY <2>2
  <2>6. plan[first] \in F /\ ~ StepsLeft(plan[first])
    BY <2>2
  <2> QED
    BY <1>0, <2>4, <2>5, <2>6
<1> QED
  BY <1>3, <1>4

(* A group may be given up before its branches are queued, or with some of *)
(* them queued: the others are never there.                                *)
LEMMA StartGroupHolds ==
  ASSUME SearchInv, NEW g \in Kinds, StartGroup(g)
  PROVE  SearchInv' /\ (LostInv => LostInv')
<1>1. /\ group[g].at = "start" /\ group[g] \in GroupStates
      /\ GroupOK(g, group[g]) /\ JudgeOK(group[g])
      /\ cfg.m \in Nat \ {0}
  BY GroupFacts DEF StartGroup
<1>2. TypeInv /\ (g = "beam" => \E i \in Parents : CanContinue(i))
  BY <1>1 DEF SearchInv, MainInv
<1>3. PICK n \in Nat : ForkPlan(g) \in [ 1 .. n -> ForkPoints(g) ]
  BY <1>2, PlanOK
<1> DEFINE plan == ForkPlan(g)
           lost == Lost(group[g])
           some == Queue(SubSeq(plan, 1, Runnable(plan)))
           cut == Lost([ group[g] EXCEPT !.branches = some ])
           all == [ group[g] EXCEPT !.at = "branches",
                                    !.branches = Queue(plan) ]
           r == IF Len(plan) # cfg.m THEN lost
                ELSE IF Runnable(plan) >= 0 THEN cut ELSE all
<1>4. group' = [ group EXCEPT ![g] = r ]
  BY Zenon DEF StartGroup
<1>5. ForkPoints(g) \in SUBSET Nat
  BY <1>2, PointsAreNumbers
<1> HIDE DEF r, plan
<1>6. plan \in [ 1 .. n -> ForkPoints(g) ] /\ Len(plan) = n
  BY <1>3 DEF plan
<1>7. /\ Runnable(plan) \in -1 .. n - 1
      /\ Runnable(plan) >= 0 =>
           /\ SubSeq(plan, 1, Runnable(plan))
                \in [ 1 .. Runnable(plan) -> ForkPoints(g) ]
           /\ \E i \in ForkPoints(g) : ~ StepsLeft(i)
  BY <1>2, <1>5, <1>6, RunnableOK
<1>8. \A i \in ForkPoints(g) : i # 0 => i \in Parents
  BY DEF ForkPoints
<1> DEFINE Good(q) ==
             /\ q \in GroupStates /\ GroupOK(g, q) /\ JudgeOK(q)
             /\ q.at \notin {"off", "done"}
             /\ (\A i \in Parents : parent[i].cards < cfg.limit)
                /\ q.at = "lost" => DOMAIN q.branches = {}
<1>9. ASSUME Len(plan) # cfg.m PROVE Good(r)
  <2>1. r = lost
    BY <1>9 DEF r
  <2>2. /\ lost \in GroupStates /\ lost.at = "lost" /\ lost.policyDone
        /\ lost.branches = group[g].branches
        /\ lost.laneC = group[g].laneC /\ lost.scored = group[g].scored
    BY <1>1, LostOK
  <2> HIDE DEF lost
  <2>3. GroupOK(g, lost)
    BY <2>2, <1>1 DEF GroupOK
  <2>4. JudgeOK(lost)
    BY <2>2, <1>1 DEF JudgeOK
  <2>5. DOMAIN lost.branches = {}
    BY <2>2, <1>1 DEF GroupOK
  <2> QED
    BY <2>1, <2>2, <2>3, <2>4, <2>5
<1>10. ASSUME Len(plan) = cfg.m /\ Runnable(plan) >= 0 PROVE Good(r)
  <2> DEFINE q == [ group[g] EXCEPT !.branches = some ]
             n1 == Runnable(plan)
  <2>1. r = cut
    BY <1>10, Zenon DEF r
  <2>2. n1 \in Nat /\ n1 \in 0 .. cfg.m - 1
    BY <1>1, <1>6, <1>7, <1>10
  <2>3. /\ DOMAIN some = 1 .. n1 /\ some \in BranchLists
        /\ \A b \in 1 .. n1 : /\ some[b].parent \in ForkPoints(g)
                              /\ some[b].at = "queued" /\ some[b].gt = "no"
    BY <1>5, <1>7, <1>10, <2>2, QueueOK
  <2> HIDE DEF some
  <2>4. q = [ at |-> group[g].at, branches |-> some,
              policyDone |-> group[g].policyDone,
              laneC |-> group[g].laneC, scored |-> group[g].scored ]
    BY <1>1, RecordOne, Zenon
  <2> HIDE DEF q
  <2>5. q \in GroupStates
    BY <2>4, <2>3, <1>1 DEF GroupStates
  <2> DEFINE c == Lost(q)
  <2>6. /\ c \in GroupStates /\ c.at = "lost" /\ c.policyDone
        /\ c.branches = q.branches /\ c.laneC = q.laneC
        /\ c.scored = q.scored
    BY <2>5, LostOK
  <2>7. r = c
    BY <2>1, Zenon DEF q, some
  <2> HIDE DEF c
  <2>8. GroupOK(g, c)
    <3>1. c.branches = some
      BY <2>4, <2>6
    <3>2. g \in cfg.kinds \ record.skipped
      BY <1>1 DEF GroupOK
    <3>3. \A b \in 1 .. n1 : b \in 1 .. cfg.m
      BY <2>2, <1>1
    <3> HIDE DEF n1
    <3> QED
      BY <2>3, <2>6, <3>1, <3>2, <3>3 DEF GroupOK
  <2>9. JudgeOK(c)
    BY <2>4, <2>6, <1>1 DEF JudgeOK
  <2>10. ~ \A i \in Parents : parent[i].cards < cfg.limit
    BY <1>7, <1>8, <1>10 DEF StepsLeft
  <2> QED
    BY <2>6, <2>7, <2>8, <2>9, <2>10
<1>11. ASSUME Len(plan) = cfg.m /\ ~ (Runnable(plan) >= 0)
       PROVE  Good(r)
  <2> DEFINE list == Queue(plan)
  <2>1. r = all
    BY <1>11, Zenon DEF r
  <2>2. /\ DOMAIN list = 1 .. cfg.m /\ list \in BranchLists
        /\ \A b \in 1 .. cfg.m :
             /\ list[b].parent \in ForkPoints(g)
             /\ list[b].at = "queued" /\ list[b].gt = "no"
    <3>1. n = cfg.m /\ plan \in [ 1 .. n -> ForkPoints(g) ]
      BY <1>6, <1>11
    <3>2. /\ DOMAIN list = 1 .. n /\ list \in BranchLists
          /\ \A b \in 1 .. n : /\ list[b].parent \in ForkPoints(g)
                              /\ list[b].at = "queued"
                              /\ list[b].gt = "no"
      <4>1. ASSUME NEW s \in [ 1 .. n -> ForkPoints(g) ]
            PROVE  /\ DOMAIN Queue(s) = 1 .. n /\ Queue(s) \in BranchLists
                   /\ \A b \in 1 .. n :
                        /\ Queue(s)[b].parent \in ForkPoints(g)
                        /\ Queue(s)[b].at = "queued"
                        /\ Queue(s)[b].gt = "no"
        BY <1>5, QueueOK
      <4> QED
        BY <3>1, <4>1, Zenon
    <3> HIDE DEF list
    <3> QED
      BY <3>1, <3>2
  <2> HIDE DEF list
  <2>3. r = [ at |-> "branches", branches |-> list,
              policyDone |-> group[g].policyDone,
              laneC |-> group[g].laneC, scored |-> group[g].scored ]
    <3>1. all = [ group[g] EXCEPT !.at = "branches", !.branches = list ]
      BY Zenon DEF list
    <3> HIDE DEF all
    <3> QED
      BY <3>1, <2>1, <1>1, RecordStart, Zenon
  <2>4. r \in GroupStates
    BY <2>2, <2>3, <1>1 DEF GroupStates
  <2>5. GroupOK(g, r)
    BY <2>2, <2>3, <1>1 DEF GroupOK
  <2>6. JudgeOK(r)
    BY <2>3, <1>1 DEF JudgeOK
  <2> QED
    BY <2>3, <2>4, <2>5, <2>6
<1>12. Good(r)
  BY <1>9, <1>10, <1>11, Zenon
<1>13. /\ images' = images
       /\ UNCHANGED << cfg, main, parent, policyCalled, record >>
  BY DEF StartGroup
<1>14. ~ group[g].policyDone
  BY <1>1 DEF GroupOK
<1>15. LostInv => (r.at = "lost" => DOMAIN r.branches = {})
  BY <1>12 DEF LostInv
<1> HIDE DEF Good
<1>16. /\ r \in GroupStates /\ GroupOK(g, r) /\ JudgeOK(r)
       /\ r.at \notin {"off", "done"}
  BY <1>12, Zenon DEF Good
<1> QED
  BY <1>1, <1>4, <1>13, <1>14, <1>15, <1>16, GroupStep

-----------------------------------------------------------------------------
(* ParallelSearch: steps of one branch.                                    *)

LEMMA BranchStep ==
  ASSUME SearchInv, NEW g \in Kinds, NEW b \in DOMAIN group[g].branches,
         NEW w \in BranchStates,
         group' = [ group EXCEPT ![g].branches[b] = w ],
         UNCHANGED << cfg, main, images, parent, policyCalled, record >>,
         group[g].at # "done",
         w.parent = group[g].branches[b].parent,
         w.gt # "no" => w.at = "collected",
         group[g].at = "judging" =>
           w.at = "collected" /\ w.result = group[g].branches[b].result
  PROVE  SearchInv' /\ (LostInv => LostInv')
<1>1. /\ group[g] \in GroupStates /\ GroupOK(g, group[g])
      /\ JudgeOK(group[g])
  BY GroupFacts
<1> DEFINE old == group[g].branches
           new == [ old EXCEPT ![b] = w ]
           r == [ group[g] EXCEPT !.branches = new ]
<1>2. group' = [ group EXCEPT ![g] = r ]
  OBVIOUS
<1>3. /\ DOMAIN new = DOMAIN old
      /\ \A c \in DOMAIN old : new[c] = IF c = b THEN w ELSE old[c]
      /\ new \in BranchLists
  <2>1. PICK D \in SUBSET Nat : old \in [ D -> BranchStates ]
    BY <1>1 DEF GroupStates, BranchLists
  <2> HIDE DEF old
  <2>2. new \in [ D -> BranchStates ]
    BY <2>1
  <2> QED
    BY <2>1, <2>2 DEF BranchLists, old
<1>4. b \in DOMAIN old
  OBVIOUS
<1> HIDE DEF new
<1>5. r = [ at |-> group[g].at, branches |-> new,
            policyDone |-> group[g].policyDone,
            laneC |-> group[g].laneC, scored |-> group[g].scored ]
  BY <1>1, RecordOne, Zenon
<1> HIDE DEF r
<1>6. r \in GroupStates
  BY <1>1, <1>3, <1>5 DEF GroupStates
<1>7. group[g].at \notin {"off", "start", "done"}
  BY <1>1, <1>4 DEF GroupOK
<1>8. GroupOK(g, r)
  BY <1>1, <1>3, <1>5, <1>7 DEF GroupOK
<1>9. JudgeOK(r)
  <2>1. group[g].at = "judging" /\ ValidGroup(group[g]) => ValidGroup(r)
    BY <1>1, <1>3, <1>5 DEF ValidGroup, GroupOK
  <2> QED
    BY <1>1, <1>5, <1>7, <2>1 DEF JudgeOK
<1>10. SearchInv'
  BY <1>2, <1>5, <1>6, <1>7, <1>8, <1>9, GroupStep
<1>11. ASSUME LostInv PROVE LostInv'
  <2>1. \A h \in Kinds : group'[h] = IF h = g THEN r ELSE group[h]
    BY <1>2 DEF SearchInv, TypeInv
  <2>2. DOMAIN r.branches = DOMAIN group[g].branches /\ r.at = group[g].at
    BY <1>3, <1>5
  <2>3. Parents' = Parents
    BY DEF Parents
  <2> QED
    BY <1>11, <2>1, <2>2, <2>3 DEF LostInv
<1> QED
  BY <1>10, <1>11

(* A branch that is there, and what its record looks like after a step.    *)
LEMMA BranchFacts ==
  ASSUME SearchInv, NEW x \in BranchIds
  PROVE  /\ x[1] \in Kinds /\ x[2] \in DOMAIN group[x[1]].branches
         /\ x[2] \in 1 .. cfg.m
         /\ BranchOf(x) = group[x[1]].branches[x[2]]
         /\ BranchOf(x) \in BranchStates
         /\ group[x[1]].at \in {"judging", "done"}
              => BranchOf(x).at = "collected"
         /\ group[x[1]].at = "done" => BranchOf(x).gt # "running"
         /\ BranchOf(x).gt # "no" => BranchOf(x).at = "collected"
<1>1. x[1] \in Kinds /\ x[2] \in DOMAIN group[x[1]].branches
      /\ x[2] \in 1 .. cfg.m
  BY DEF BranchIds
<1>2. group[x[1]] \in GroupStates /\ GroupOK(x[1], group[x[1]])
  BY <1>1, GroupFacts
<1>3. group[x[1]].branches \in BranchLists
  BY <1>2 DEF GroupStates
<1>4. BranchOf(x) \in BranchStates
  BY <1>1, <1>3 DEF BranchLists, BranchOf
<1> QED
  BY <1>1, <1>2, <1>4 DEF BranchOf, GroupOK

LEMMA BranchOne ==
  ASSUME NEW q \in BranchStates, NEW y
  PROVE  /\ [ q EXCEPT !.at = y ] =
              [ parent |-> q.parent, at |-> y, result |-> q.result,
                gt |-> q.gt ]
         /\ [ q EXCEPT !.gt = y ] =
              [ parent |-> q.parent, at |-> q.at, result |-> q.result,
                gt |-> y ]
<1> DEFINE p == q.parent  a == q.at  e == q.result  s == q.gt
<1>1. q = [ parent |-> p, at |-> a, result |-> e, gt |-> s ]
  BY DEF BranchStates
<1> HIDE DEF p, a, e, s
<1>2. /\ [ q EXCEPT !.at = y ] =
           [ parent |-> p, at |-> y, result |-> e, gt |-> s ]
      /\ [ q EXCEPT !.gt = y ] =
           [ parent |-> p, at |-> a, result |-> e, gt |-> y ]
  BY <1>1
<1> QED
  BY <1>2 DEF p, a, e, s

LEMMA BranchEnded ==
  ASSUME NEW q \in BranchStates, NEW y, NEW z
  PROVE  [ q EXCEPT !.at = y, !.result = z ] =
           [ parent |-> q.parent, at |-> y, result |-> z, gt |-> q.gt ]
<1> DEFINE p == q.parent  a == q.at  e == q.result  s == q.gt
           q1 == [ q EXCEPT !.at = y ]
<1>1. q = [ parent |-> p, at |-> a, result |-> e, gt |-> s ]
  BY DEF BranchStates
<1> HIDE DEF p, a, e, s
<1>2. q1 = [ parent |-> p, at |-> y, result |-> e, gt |-> s ]
  BY <1>1
<1>3. [ q EXCEPT !.at = y, !.result = z ] = [ q1 EXCEPT !.result = z ]
  BY Zenon
<1> HIDE DEF q1
<1>4. [ q1 EXCEPT !.result = z ] =
        [ parent |-> p, at |-> y, result |-> z, gt |-> s ]
  BY <1>2
<1>5. [ q EXCEPT !.at = y, !.result = z ] =
        [ parent |-> p, at |-> y, result |-> z, gt |-> s ]
  BY <1>3, <1>4, Zenon
<1> QED
  BY <1>5, Zenon DEF p, s

LEMMA BranchCollected ==
  ASSUME NEW q \in BranchStates, NEW y, NEW z
  PROVE  [ q EXCEPT !.at = y, !.gt = z ] =
           [ parent |-> q.parent, at |-> y, result |-> q.result, gt |-> z ]
<1> DEFINE p == q.parent  a == q.at  e == q.result  s == q.gt
           q1 == [ q EXCEPT !.at = y ]
<1>1. q = [ parent |-> p, at |-> a, result |-> e, gt |-> s ]
  BY DEF BranchStates
<1> HIDE DEF p, a, e, s
<1>2. q1 = [ parent |-> p, at |-> y, result |-> e, gt |-> s ]
  BY <1>1
<1>3. [ q EXCEPT !.at = y, !.gt = z ] = [ q1 EXCEPT !.gt = z ]
  BY Zenon
<1> HIDE DEF q1
<1>4. [ q1 EXCEPT !.gt = z ] =
        [ parent |-> p, at |-> y, result |-> e, gt |-> z ]
  BY <1>2
<1>5. [ q EXCEPT !.at = y, !.gt = z ] =
        [ parent |-> p, at |-> y, result |-> e, gt |-> z ]
  BY <1>3, <1>4, Zenon
<1> QED
  BY <1>5, Zenon DEF p, e

(* A step that sets a branch to a record with the same fork point.         *)
LEMMA SetBranchHolds ==
  ASSUME SearchInv, NEW x \in BranchIds, NEW w \in BranchStates,
         SetBranch(x, w),
         UNCHANGED << cfg, main, images, parent, policyCalled, record >>,
         w.parent = BranchOf(x).parent,
         group[x[1]].at # "done",
         w.gt # "no" => w.at = "collected",
         group[x[1]].at = "judging" =>
           w.at = "collected" /\ w.result = BranchOf(x).result
  PROVE  SearchInv' /\ (LostInv => LostInv')
<1>1. /\ x[1] \in Kinds /\ x[2] \in DOMAIN group[x[1]].branches
      /\ BranchOf(x) = group[x[1]].branches[x[2]]
  BY BranchFacts
<1>2. group' = [ group EXCEPT ![x[1]].branches[x[2]] = w ]
  BY DEF SetBranch
<1> DEFINE g == x[1]  b == x[2]
<1>3. /\ g \in Kinds /\ b \in DOMAIN group[g].branches
      /\ BranchOf(x) = group[g].branches[b]
      /\ group' = [ group EXCEPT ![g].branches[b] = w ]
      /\ group[g].at # "done"
      /\ group[g].at = "judging" =>
           w.at = "collected" /\ w.result = BranchOf(x).result
  BY <1>1, <1>2
<1> HIDE DEF g, b
<1> QED
  BY <1>3, BranchStep

LEMMA ForkBranchHolds ==
  ASSUME SearchInv, NEW x \in BranchIds, ForkBranch(x)
  PROVE  SearchInv' /\ (LostInv => LostInv')
<1> DEFINE q == BranchOf(x)
           runs == [ q EXCEPT !.at = "running" ]
           fails == [ q EXCEPT !.at = "ended", !.result = "error" ]
           w == IF q.parent \in images THEN runs ELSE fails
<1>1. SetBranch(x, w)
  BY DEF ForkBranch
<1>2. q \in BranchStates /\ q.at = "queued" /\ q.gt = "no"
      /\ group[x[1]].at \notin {"judging", "done"}
  BY BranchFacts DEF ForkBranch, BranchStates
<1> HIDE DEF q
<1>3. runs = [ parent |-> q.parent, at |-> "running", result |-> q.result,
               gt |-> q.gt ]
  BY <1>2, BranchOne, Zenon
<1>4. fails = [ parent |-> q.parent, at |-> "ended", result |-> "error",
                gt |-> q.gt ]
  <2>1. q \in BranchStates
    BY <1>2
  <2> QED
    BY <2>1, BranchEnded, Zenon
<1> HIDE DEF runs, fails
<1>5. w \in BranchStates /\ w.parent = q.parent /\ w.gt = "no"
  BY <1>2, <1>3, <1>4 DEF BranchStates
<1>6. UNCHANGED << cfg, main, images, parent, policyCalled, record >>
  BY DEF ForkBranch
<1> HIDE DEF w
<1> QED
  BY <1>1, <1>2, <1>5, <1>6, SetBranchHolds DEF q

LEMMA EndBranchHolds ==
  ASSUME SearchInv, NEW x \in BranchIds,
         NEW how \in {"paused", "submitted", "overlength", "no turns",
                      "error"},
         EndBranch(x, how)
  PROVE  SearchInv' /\ (LostInv => LostInv')
<1> DEFINE q == BranchOf(x)
           e == BranchResult(x, how)
           w == [ q EXCEPT !.at = "ended", !.result = e ]
<1>1. SetBranch(x, w)
  BY DEF EndBranch
<1>2. q \in BranchStates /\ q.at = "running" /\ q.gt = "no"
      /\ group[x[1]].at \notin {"judging", "done"}
  BY BranchFacts DEF EndBranch, BranchStates
<1>3. e \in {"paused", "submitted", "overlength", "error"}
  BY DEF BranchResult
<1> HIDE DEF q, e
<1>4. w = [ parent |-> q.parent, at |-> "ended", result |-> e, gt |-> q.gt ]
  <2>1. q \in BranchStates
    BY <1>2
  <2> QED
    BY <2>1, BranchEnded, Zenon
<1> HIDE DEF w
<1>5. w \in BranchStates /\ w.parent = q.parent /\ w.gt = "no"
  BY <1>2, <1>3, <1>4 DEF BranchStates
<1>6. UNCHANGED << cfg, main, images, parent, policyCalled, record >>
  BY DEF EndBranch
<1> QED
  BY <1>1, <1>2, <1>5, <1>6, SetBranchHolds DEF q

LEMMA CollectBranchHolds ==
  ASSUME SearchInv, NEW x \in BranchIds, CollectBranch(x)
  PROVE  SearchInv' /\ (LostInv => LostInv')
<1> DEFINE q == BranchOf(x)
           s == IF /\ cfg.terminal \/ q.result = "submitted"
                   /\ q.result # "error"
                THEN "running" ELSE "no"
           w == [ q EXCEPT !.at = "collected", !.gt = s ]
<1>1. SetBranch(x, w)
  BY DEF CollectBranch
<1>2. q \in BranchStates /\ group[x[1]].at = "branches"
  BY BranchFacts DEF CollectBranch
<1>3. s \in {"running", "no"}
  OBVIOUS
<1> HIDE DEF q, s
<1>4. w = [ parent |-> q.parent, at |-> "collected", result |-> q.result,
            gt |-> s ]
  BY <1>2, BranchCollected, Zenon
<1> HIDE DEF w
<1>5. w \in BranchStates /\ w.parent = q.parent /\ w.at = "collected"
  BY <1>2, <1>3, <1>4 DEF BranchStates
<1>6. UNCHANGED << cfg, main, images, parent, policyCalled, record >>
  BY DEF CollectBranch
<1> QED
  BY <1>1, <1>2, <1>5, <1>6, SetBranchHolds DEF q

LEMMA EndEvaluationHolds ==
  ASSUME SearchInv, NEW x \in BranchIds, NEW scored \in BOOLEAN,
         EndEvaluation(x, scored)
  PROVE  SearchInv' /\ (LostInv => LostInv')
<1> DEFINE q == BranchOf(x)
           s == IF scored THEN "scored" ELSE "failed"
           w == [ q EXCEPT !.gt = s ]
<1>1. SetBranch(x, w)
  BY DEF EndEvaluation
<1>2. q \in BranchStates /\ q.gt = "running" /\ q.at = "collected"
      /\ group[x[1]].at # "done"
  BY BranchFacts DEF EndEvaluation
<1>3. s \in {"scored", "failed"}
  OBVIOUS
<1> HIDE DEF q, s
<1>4. w = [ parent |-> q.parent, at |-> q.at, result |-> q.result,
            gt |-> s ]
  BY <1>2, BranchOne, Zenon
<1> HIDE DEF w
<1>5. w \in BranchStates /\ w.parent = q.parent /\ w.at = "collected"
      /\ w.result = q.result
  BY <1>2, <1>3, <1>4 DEF BranchStates
<1>6. UNCHANGED << cfg, main, images, parent, policyCalled, record >>
  BY DEF EndEvaluation
<1> QED
  BY <1>1, <1>2, <1>5, <1>6, SetBranchHolds DEF q

-----------------------------------------------------------------------------
(* ParallelSearch: Lane A.                                                 *)

LEMMA ParentStep ==
  ASSUME SearchInv, NEW i \in Parents, NEW w \in ParentStates,
         main = "parents",
         parent' = [ parent EXCEPT ![i] = w ],
         UNCHANGED << cfg, main, group, policyCalled, record >>,
         images' = images \/ images' = images \cup {i},
         parent[i].at # "ended",
         w.result = "paused" => w.at = "ended" /\ i \in images'
  PROVE  SearchInv' /\ (LostInv /\ w.cards < cfg.limit => LostInv')
<1> USE DEF SearchInv
<1>1. /\ parent' = [ j \in Parents |-> parent'[j] ]
      /\ \A j \in Parents : parent'[j] = IF j = i THEN w ELSE parent[j]
      /\ Parents' = Parents
  BY DEF TypeInv, Parents
<1>2. ~ CanContinue(i)
  BY DEF MainInv, CanContinue
<1>3. \A j \in Parents : j # i => (CanContinue(j)' <=> CanContinue(j))
  BY <1>1 DEF CanContinue
<1>4. group["beam"].at = "off"
  BY DEF MainInv, Before
<1>5. Started' = Started
  BY DEF Started
<1>6. TypeInv'
  BY <1>1 DEF TypeInv
<1>7. MainInv'
  BY <1>1, <1>4, <1>5 DEF MainInv, Before, After, CanContinue
<1>8. ImageInv'
  BY <1>1, <1>3, <1>5 DEF ImageInv, CanContinue
<1>9. GroupInv'
  <2>1. GroupOK("root", group["root"])'
    BY DEF GroupInv, GroupOK, ForkPoints, Kinds
  <2>2. GroupOK("beam", group["beam"])'
    BY <1>4 DEF GroupInv, GroupOK, Kinds
  <2> QED
    BY <2>1, <2>2 DEF GroupInv, Kinds
<1>10. JudgeInv'
  BY DEF JudgeInv, JudgeOK, ValidGroup
<1>11. RecordInv'
  BY DEF RecordInv, Whole, Valid
<1>12. ASSUME LostInv, w.cards < cfg.limit PROVE LostInv'
  BY <1>1, <1>12 DEF LostInv
<1> QED
  BY <1>6, <1>7, <1>8, <1>9, <1>10, <1>11, <1>12

LEMMA ForkParentHolds ==
  ASSUME SearchInv, NEW i \in Parents, ForkParent(i)
  PROVE  SearchInv' /\ (LostInv => LostInv')
<1>1. /\ parent[i].at = "queued" /\ parent[i] \in ParentStates
      /\ parent[i].cards \in Nat
  BY DEF ForkParent, SearchInv, TypeInv, ParentStates
<1>2. main = "parents"
  BY <1>1 DEF SearchInv, MainInv
<1>3. 0 \in images
  BY <1>2 DEF SearchInv, ImageInv
<1> DEFINE q == parent[i]
           c == q.cards
           q1 == [ q EXCEPT !.at = "running" ]
           w == [ q1 EXCEPT !.result = "none" ]
<1>4. parent' = [ parent EXCEPT ![i] = w ]
  <2>1. parent' = [ parent EXCEPT ![i].at = "running", ![i].result = "none" ]
    BY <1>3 DEF ForkParent
  <2> QED
    BY <2>1 DEF SearchInv, TypeInv
<1>5. w = [ at |-> "running", result |-> "none", cards |-> c ]
  <2> DEFINE a == q.at  e == q.result
  <2>1. q = [ at |-> a, result |-> e, cards |-> c ]
    BY <1>1 DEF ParentStates
  <2> HIDE DEF q, a, e, c
  <2>2. q1 = [ at |-> "running", result |-> e, cards |-> c ]
    BY <2>1
  <2> HIDE DEF q1
  <2> QED
    BY <2>2
<1> HIDE DEF c
<1> HIDE DEF w
<1>6. w \in ParentStates
  BY <1>1, <1>5 DEF ParentStates, c
<1>7. /\ images' = images
      /\ UNCHANGED << cfg, main, group, policyCalled, record >>
  BY DEF ForkParent
<1>8. LostInv => w.cards < cfg.limit
  BY <1>5 DEF LostInv, c
<1> QED
  BY <1>1, <1>2, <1>4, <1>5, <1>6, <1>7, <1>8, ParentStep

LEMMA EndParentHolds ==
  ASSUME SearchInv, NEW i \in Parents,
         NEW how \in {"paused", "submitted", "overlength", "error"},
         NEW cards \in 0 .. FirstSteps, EndParent(i, how, cards)
  PROVE  SearchInv' /\ (LostInv /\ cfg.k < cfg.limit => LostInv')
<1> DEFINE res == IF how \in {"paused", "submitted"} /\ cards = 0
                  THEN "error" ELSE how
           w == [ at |-> "ended", cards |-> cards, result |-> res ]
<1>1. parent[i].at = "running"
  BY DEF EndParent
<1>2. main = "parents"
  BY <1>1 DEF SearchInv, MainInv
<1>3. parent' = [ parent EXCEPT ![i] = w ]
  BY DEF EndParent
<1>4. /\ FirstSteps \in Nat /\ cards \in Nat /\ cfg.limit \in Nat
      /\ cfg.k < cfg.limit => cards < cfg.limit
  <2>1. cfg.k \in Nat /\ cfg.limit \in Nat
    BY ConfigTypes DEF SearchInv
  <2> QED
    BY <2>1 DEF FirstSteps
<1>5. /\ res \in {"paused", "submitted", "overlength", "error"}
      /\ res = "paused" => how = "paused"
  OBVIOUS
<1> HIDE DEF res
<1>6. w \in ParentStates /\ w.at = "ended" /\ w.result = res
      /\ w.cards = cards
  BY <1>4, <1>5 DEF ParentStates
<1> HIDE DEF w
<1>7. images' = IF how = "paused" THEN images \cup {i} ELSE images
  BY DEF EndParent
<1>8. UNCHANGED << cfg, main, group, policyCalled, record >>
  BY DEF EndParent
<1>9. w.result = "paused" => w.at = "ended" /\ i \in images'
  BY <1>5, <1>6, <1>7
<1>10. LostInv /\ cfg.k < cfg.limit => w.cards < cfg.limit
  BY <1>4, <1>6
<1> QED
  BY <1>1, <1>2, <1>3, <1>6, <1>7, <1>8, <1>9, <1>10, ParentStep

-----------------------------------------------------------------------------
(* ParallelSearch: the steps of run().                                     *)

LEMMA CreateRootHolds ==
  ASSUME SearchInv, CreateRoot
  PROVE  SearchInv' /\ (LostInv => LostInv')
<1> USE DEF SearchInv
<1>1. /\ main = "root" /\ images' = {0} /\ images = {} /\ Started = {}
      /\ \A i \in Parents : parent[i].at = "off"
      /\ record.skipped = {} /\ ~ record.completed /\ ~ policyCalled
      /\ UNCHANGED << cfg, policyCalled, record >>
  BY DEF CreateRoot, MainInv, Before, After
<1>2. \A g \in Kinds : group[g].at = "off"
  BY <1>1 DEF Started
<1>3. Parents' = Parents /\ cfg.kinds \subseteq Kinds
  BY <1>1, ConfigTypes DEF Parents
<1> DEFINE started == [ group["root"] EXCEPT !.at = "start" ]
<1>4. /\ group["root"] \in GroupStates /\ GroupOK("root", group["root"])
      /\ JudgeOK(group["root"]) /\ "root" \in Kinds
  BY GroupFacts DEF Kinds
<1>5. started = [ at |-> "start", branches |-> group["root"].branches,
                  policyDone |-> group["root"].policyDone,
                  laneC |-> group["root"].laneC,
                  scored |-> group["root"].scored ]
  BY <1>4, RecordOne, Zenon
<1>6. /\ group' = [ g \in Kinds |-> group'[g] ]
      /\ group'["beam"] = group["beam"]
      /\ "root" \in cfg.kinds => group'["root"] = started
      /\ "root" \notin cfg.kinds => group'["root"] = group["root"]
  BY DEF CreateRoot, TypeInv, Kinds
<1> HIDE DEF started
<1>7. started \in GroupStates /\ started.at = "start"
      /\ DOMAIN started.branches = {} /\ ~ started.policyDone
      /\ JudgeOK(started)
  BY <1>2, <1>4, <1>5 DEF GroupStates, GroupOK, JudgeOK, ValidGroup
<1>8. /\ \A i \in Parents : parent'[i].at \in {"off", "queued"}
      /\ \A i \in Parents : parent'[i].at = "queued" => main' = "parents"
      /\ \A i \in Parents : /\ parent'[i].result = parent[i].result
                            /\ parent'[i].cards = parent[i].cards
      /\ parent' \in [ Parents -> ParentStates ]
  BY <1>1 DEF CreateRoot, TypeInv, ParentStates
<1>9. /\ main' \in {"parents", "policy"}
      /\ main' = "parents" => "beam" \in cfg.kinds
  BY DEF CreateRoot
<1>10. \A i \in Parents : parent[i].result # "paused"
  BY <1>1 DEF MainInv
<1>11. TypeInv'
  BY <1>1, <1>3, <1>4, <1>6, <1>7, <1>8, <1>9 DEF TypeInv, Kinds
<1>12. MainInv'
  BY <1>1, <1>2, <1>3, <1>6, <1>8, <1>9, <1>10
     DEF MainInv, Before, After, CanContinue, Kinds, Started
<1>13. ImageInv'
  BY <1>1, <1>3, <1>8, <1>10 DEF ImageInv, CanContinue
<1>14. GroupInv'
  <2>1. GroupOK("root", group["root"])'
    BY <1>1, <1>2, <1>3, <1>4, <1>6, <1>7 DEF GroupOK
  <2>2. GroupOK("beam", group["beam"])'
    BY <1>1, <1>2, <1>3, <1>6, <1>9 DEF GroupInv, GroupOK, Kinds
  <2> QED
    BY <2>1, <2>2 DEF GroupInv, Kinds
<1>15. JudgeInv'
  BY <1>1, <1>4, <1>6, <1>7 DEF JudgeInv, JudgeOK, ValidGroup, Kinds
<1>16. RecordInv'
  BY <1>1 DEF RecordInv
<1>17. ASSUME LostInv PROVE LostInv'
  BY <1>1, <1>2, <1>3, <1>6, <1>7, <1>8, <1>17 DEF LostInv, Kinds
<1> QED
  BY <1>11, <1>12, <1>13, <1>14, <1>15, <1>16, <1>17

LEMMA RootFailsHolds ==
  ASSUME SearchInv, RootFails
  PROVE  SearchInv' /\ (LostInv => LostInv')
<1> USE DEF SearchInv
<1>1. /\ main = "root" /\ main' = "cleanup" /\ Started = {}
      /\ \A i \in Parents : parent[i].at = "off"
      /\ UNCHANGED << cfg, images, parent, group, policyCalled >>
  BY DEF RootFails, MainInv
<1>2. /\ record' \in [ laneAError : BOOLEAN, skipped : SUBSET Kinds,
                       groups : SUBSET Kinds, completed : BOOLEAN,
                       failed : BOOLEAN ]
      /\ record'.skipped = record.skipped
      /\ record'.completed = record.completed /\ ~ record.completed
  BY <1>1 DEF RootFails, TypeInv, MainInv, Before
<1>3. /\ Parents' = Parents /\ Started' = Started
      /\ \A g \in Kinds : group[g].at = "off"
  BY <1>1 DEF Parents, Started
<1>4. TypeInv'
  BY <1>1, <1>2, <1>3 DEF TypeInv
<1>5. MainInv'
  BY <1>1, <1>2, <1>3 DEF MainInv, Before, After, CanContinue, Kinds
<1>6. ImageInv'
  BY <1>1, <1>3 DEF ImageInv, Kinds, MainInv, CanContinue
<1>7. GroupInv'
  BY <1>1, <1>2, <1>3 DEF GroupInv, GroupOK
<1>8. JudgeInv'
  BY <1>1 DEF JudgeInv, JudgeOK, ValidGroup
<1>9. RecordInv'
  BY <1>2 DEF RecordInv
<1>10. ASSUME LostInv PROVE LostInv'
  BY <1>1, <1>3, <1>10 DEF LostInv
<1> QED
  BY <1>4, <1>5, <1>6, <1>7, <1>8, <1>9, <1>10

RecordStates ==
  [ laneAError : BOOLEAN, skipped : SUBSET Kinds, groups : SUBSET Kinds,
    completed : BOOLEAN, failed : BOOLEAN ]

LEMMA GatherParentsHolds ==
  ASSUME SearchInv, GatherParents
  PROVE  SearchInv' /\ (LostInv => LostInv')
<1> USE DEF SearchInv
<1>1. /\ main = "parents" /\ main' = "policy" /\ 0 \in images
      /\ \A i \in Parents : parent[i].at = "ended"
      /\ group["beam"].at = "off" /\ record.skipped = {}
      /\ ~ record.completed /\ ~ policyCalled /\ "beam" \in cfg.kinds
      /\ UNCHANGED << cfg, images, parent, policyCalled >>
  BY DEF GatherParents, MainInv, Before, After, ImageInv
<1>2. /\ record' \in RecordStates /\ ~ record'.completed
      /\ \/ group' = group /\ record'.skipped \subseteq {"beam"}
         \/ /\ group' = [ group EXCEPT !["beam"].at = "start" ]
            /\ record'.skipped = {}
            /\ \E i \in Parents : CanContinue(i)
  <2>1. record \in RecordStates
    BY DEF TypeInv, RecordStates
  <2>2. CASE \E i \in Parents : parent[i].result = "error"
    <3>1. /\ group' = group
          /\ record' = [ record EXCEPT !.laneAError = TRUE ]
      BY <2>2 DEF GatherParents
    <3>2. record' \in RecordStates /\ record'.skipped = record.skipped
          /\ (record'.completed <=> record.completed)
      BY <2>1, <3>1 DEF RecordStates
    <3> QED
      BY <1>1, <3>1, <3>2
  <2>3. CASE /\ ~ \E i \in Parents : parent[i].result = "error"
             /\ \A i \in Parents : ~ CanContinue(i)
    <3>1. /\ group' = group
          /\ record' = [ record EXCEPT !.skipped = {"beam"} ]
      BY <2>3 DEF GatherParents
    <3>2. record' \in RecordStates /\ record'.skipped = {"beam"}
          /\ (record'.completed <=> record.completed)
      BY <2>1, <3>1 DEF RecordStates, Kinds
    <3> QED
      BY <1>1, <3>1, <3>2
  <2>4. CASE /\ ~ \E i \in Parents : parent[i].result = "error"
             /\ \E i \in Parents : CanContinue(i)
    <3>1. /\ group' = [ group EXCEPT !["beam"].at = "start" ]
          /\ record' = record
      BY <2>4 DEF GatherParents
    <3> QED
      BY <1>1, <2>1, <2>4, <3>1
  <2> QED
    BY <2>2, <2>3, <2>4
<1>3. /\ Parents' = Parents
      /\ \A i : CanContinue(i)' <=> CanContinue(i)
      /\ \A h : ForkPoints(h)' = ForkPoints(h)
  BY <1>1 DEF Parents, CanContinue, ForkPoints
<1> DEFINE started == [ group["beam"] EXCEPT !.at = "start" ]
<1>4. /\ group["beam"] \in GroupStates /\ GroupOK("beam", group["beam"])
      /\ JudgeOK(group["beam"]) /\ "beam" \in Kinds
      /\ GroupOK("root", group["root"])
  BY GroupFacts DEF Kinds
<1>5. started = [ at |-> "start", branches |-> group["beam"].branches,
                  policyDone |-> group["beam"].policyDone,
                  laneC |-> group["beam"].laneC,
                  scored |-> group["beam"].scored ]
  BY <1>4, RecordOne, Zenon
<1>6. /\ group' = [ g \in Kinds |-> group'[g] ]
      /\ group'["root"] = group["root"]
      /\ \/ group'["beam"] = group["beam"]
         \/ /\ group'["beam"] = started /\ record'.skipped = {}
            /\ \E i \in Parents : CanContinue(i)
  BY <1>2 DEF TypeInv, Kinds
<1> HIDE DEF started
<1>7. started \in GroupStates /\ started.at = "start"
      /\ DOMAIN started.branches = {} /\ ~ started.policyDone
      /\ JudgeOK(started)
  BY <1>1, <1>4, <1>5 DEF GroupStates, GroupOK, JudgeOK, ValidGroup
<1>8. TypeInv'
  BY <1>1, <1>2, <1>3, <1>4, <1>6, <1>7 DEF TypeInv, Kinds, RecordStates
<1>9. MainInv'
  BY <1>1, <1>2, <1>3, <1>6, <1>7
     DEF MainInv, Before, After, CanContinue, Kinds
<1>10. ImageInv'
  BY <1>1, <1>3, <1>6, <1>7 DEF ImageInv
<1>11. GroupInv'
  <2>1. GroupOK("root", group["root"])'
    BY <1>1, <1>2, <1>3, <1>4, <1>6 DEF GroupOK
  <2>2. GroupOK("beam", group["beam"])'
    BY <1>1, <1>3, <1>4, <1>6, <1>7 DEF GroupOK
  <2> QED
    BY <2>1, <2>2 DEF GroupInv, Kinds
<1>12. JudgeInv'
  BY <1>1, <1>4, <1>6, <1>7 DEF JudgeInv, JudgeOK, ValidGroup, Kinds
<1>13. RecordInv'
  BY <1>2 DEF RecordInv
<1>14. ASSUME LostInv PROVE LostInv'
  BY <1>1, <1>3, <1>6, <1>7, <1>14 DEF LostInv, Kinds
<1> QED
  BY <1>8, <1>9, <1>10, <1>11, <1>12, <1>13, <1>14

LEMMA AwaitPolicyHolds ==
  ASSUME SearchInv, AwaitPolicy
  PROVE  SearchInv' /\ (LostInv => LostInv')
<1> USE DEF SearchInv
<1>1. /\ main = "policy" /\ main' = "drain" /\ PolicyReached
      /\ policyCalled' \in BOOLEAN
      /\ UNCHANGED << cfg, images, parent, group, record >>
  BY DEF AwaitPolicy
<1>2. /\ Parents' = Parents /\ Started' = Started
      /\ \A i : CanContinue(i)' <=> CanContinue(i)
      /\ \A h : ForkPoints(h)' = ForkPoints(h)
  BY <1>1 DEF Parents, CanContinue, ForkPoints, Started
<1>3. TypeInv'
  BY <1>1, <1>2 DEF TypeInv
<1>4. MainInv'
  BY <1>1, <1>2 DEF MainInv, Before, After, PolicyReached
<1>5. ImageInv'
  BY <1>1, <1>2 DEF ImageInv
<1>6. GroupInv'
  BY <1>1, <1>2 DEF GroupInv, GroupOK
<1>7. JudgeInv'
  BY <1>1 DEF JudgeInv, JudgeOK, ValidGroup
<1>8. RecordInv'
  BY <1>1 DEF RecordInv, MainInv
<1>9. ASSUME LostInv PROVE LostInv'
  BY <1>1, <1>2, <1>9 DEF LostInv
<1> QED
  BY <1>3, <1>4, <1>5, <1>6, <1>7, <1>8, <1>9

LEMMA DrainHolds ==
  ASSUME SearchInv, Drain
  PROVE  SearchInv' /\ (LostInv => LostInv')
<1> USE DEF SearchInv
<1> DEFINE done == { g \in Started : group[g].at = "done" }
           all == /\ ~ record.laneAError
                  /\ Cardinality(done) = Cardinality(Expected)
                  /\ \A g \in done : Whole(g)
<1>1. /\ main = "drain" /\ main' = "cleanup"
      /\ \A g \in Started : group[g].at \in {"done", "lost"}
      /\ UNCHANGED << cfg, images, parent, group, policyCalled >>
  BY DEF Drain
<1>2. record' = [ record EXCEPT !.groups = done, !.completed = all ]
  BY DEF Drain
<1>3. done \subseteq Expected /\ done \subseteq Kinds
  BY DEF GroupInv, GroupOK, Expected, Started
<1>4. all \in BOOLEAN
  OBVIOUS
<1>5. all => done = Expected
  <2> SUFFICES ASSUME all PROVE done = Expected
    OBVIOUS
  <2>1. Cardinality(done) = Cardinality(Expected)
    OBVIOUS
  <2>2. IsFiniteSet(Kinds) /\ Expected \in SUBSET Kinds
    <3>1. IsFiniteSet(Kinds)
      <4>1. Kinds = ({} \cup {"root"}) \cup {"beam"}
        BY DEF Kinds
      <4> QED
        BY <4>1, FS_EmptySet, FS_AddElement
    <3> QED
      BY <3>1, ConfigTypes DEF Expected
  <2>3. IsFiniteSet(Expected)
    BY <2>2, FS_Subset
  <2> HIDE DEF done
  <2> QED
    BY <1>3, <2>1, <2>3, FS_Subset
<1>6. all => \A g \in done : group[g].at = "done" /\ Whole(g)
  OBVIOUS
<1> HIDE DEF done, all
<1>7. /\ record' \in RecordStates /\ record'.skipped = record.skipped
      /\ record'.groups = done /\ (record'.completed <=> all)
  <2>1. record \in RecordStates
    BY DEF TypeInv, RecordStates
  <2> QED
    BY <1>2, <1>3, <1>4, <2>1 DEF RecordStates
<1>8. /\ Parents' = Parents /\ Started' = Started
      /\ \A i : CanContinue(i)' <=> CanContinue(i)
      /\ \A h : ForkPoints(h)' = ForkPoints(h)
      /\ \A g : Whole(g)' <=> Whole(g)
  BY <1>1 DEF Parents, CanContinue, ForkPoints, Started, Whole, Valid
<1>9. TypeInv'
  BY <1>1, <1>7, <1>8 DEF TypeInv, RecordStates
<1>10. MainInv'
  BY <1>1, <1>8 DEF MainInv, Before, After
<1>11. ImageInv'
  BY <1>1, <1>8 DEF ImageInv
<1>12. GroupInv'
  BY <1>1, <1>7, <1>8 DEF GroupInv, GroupOK
<1>13. JudgeInv'
  BY <1>1 DEF JudgeInv, JudgeOK, ValidGroup
<1>14. RecordInv'
  BY <1>1, <1>5, <1>6, <1>7, <1>8 DEF RecordInv, Expected
<1>15. ASSUME LostInv PROVE LostInv'
  BY <1>1, <1>8, <1>15 DEF LostInv
<1> QED
  BY <1>9, <1>10, <1>11, <1>12, <1>13, <1>14, <1>15

LEMMA CleanupHolds ==
  ASSUME SearchInv, Cleanup
  PROVE  SearchInv' /\ (LostInv => LostInv')
<1> USE DEF SearchInv
<1>1. /\ main = "cleanup" /\ main' = "over" /\ images' = {}
      /\ UNCHANGED << cfg, parent, group, policyCalled, record >>
  BY DEF Cleanup
<1>2. /\ Parents' = Parents /\ Started' = Started
      /\ \A i : CanContinue(i)' <=> CanContinue(i)
      /\ \A h : ForkPoints(h)' = ForkPoints(h)
      /\ \A g : Whole(g)' <=> Whole(g)
  BY <1>1 DEF Parents, CanContinue, ForkPoints, Started, Whole, Valid
<1>3. TypeInv'
  BY <1>1, <1>2 DEF TypeInv
<1>4. MainInv'
  BY <1>1, <1>2 DEF MainInv, Before, After
<1>5. ImageInv'
  BY <1>1 DEF ImageInv
<1>6. GroupInv'
  BY <1>1, <1>2 DEF GroupInv, GroupOK
<1>7. JudgeInv'
  BY <1>1 DEF JudgeInv, JudgeOK, ValidGroup
<1>8. RecordInv'
  BY <1>1, <1>2 DEF RecordInv
<1>9. ASSUME LostInv PROVE LostInv'
  BY <1>1, <1>2, <1>9 DEF LostInv
<1> QED
  BY <1>3, <1>4, <1>5, <1>6, <1>7, <1>8, <1>9

LEMMA StutterHolds ==
  ASSUME SearchInv, UNCHANGED vars
  PROVE  SearchInv' /\ (LostInv => LostInv')
<1> USE DEF SearchInv
<1>1. UNCHANGED << cfg, main, images, parent, group, policyCalled, record >>
  BY DEF vars
<1>2. /\ Parents' = Parents /\ Started' = Started
      /\ \A i : CanContinue(i)' <=> CanContinue(i)
      /\ \A h : ForkPoints(h)' = ForkPoints(h)
      /\ \A g : Whole(g)' <=> Whole(g)
  BY <1>1 DEF Parents, CanContinue, ForkPoints, Started, Whole, Valid
<1>3. TypeInv'
  BY <1>1, <1>2 DEF TypeInv
<1>4. MainInv' /\ ImageInv'
  BY <1>1, <1>2 DEF MainInv, ImageInv
<1>5. GroupInv'
  BY <1>1, <1>2 DEF GroupInv, GroupOK
<1>6. JudgeInv'
  BY <1>1 DEF JudgeInv, JudgeOK, ValidGroup
<1>7. RecordInv'
  BY <1>1, <1>2 DEF RecordInv
<1>8. ASSUME LostInv PROVE LostInv'
  BY <1>1, <1>2, <1>8 DEF LostInv
<1> QED
  BY <1>3, <1>4, <1>5, <1>6, <1>7, <1>8

(* Every step of the run keeps the invariant.                              *)
LEMMA StepHolds ==
  ASSUME SearchInv, [Next]_vars
  PROVE  SearchInv' /\ (LostInv /\ cfg.k < cfg.limit => LostInv')
<1>1. CASE LaneA
  <2>1. PICK i \in Parents :
          \/ ForkParent(i)
          \/ \E how \in {"paused", "submitted", "overlength", "error"} :
               \E cards \in 0 .. FirstSteps : EndParent(i, how, cards)
    BY <1>1 DEF LaneA
  <2>2. CASE ForkParent(i)
    BY <2>2, ForkParentHolds
  <2>3. CASE \E how \in {"paused", "submitted", "overlength", "error"} :
               \E cards \in 0 .. FirstSteps : EndParent(i, how, cards)
    BY <2>3, EndParentHolds
  <2> QED
    BY <2>1, <2>2, <2>3
<1>2. CASE LaneB
  <2>1. CASE \E g \in Kinds : StartGroup(g) \/ EndPolicy(g)
    BY <2>1, StartGroupHolds, EndPolicyHolds
  <2>2. CASE \E x \in BranchIds : ForkBranch(x) \/ CollectBranch(x)
    BY <2>2, ForkBranchHolds, CollectBranchHolds
  <2>3. CASE \E x \in BranchIds :
               \E how \in {"paused", "submitted", "overlength", "no turns",
                           "error"} : EndBranch(x, how)
    BY <2>3, EndBranchHolds
  <2> QED
    BY <1>2, <2>1, <2>2, <2>3, Zenon DEF LaneB
<1>3. CASE Run
  BY <1>3, CreateRootHolds, RootFailsHolds, GatherParentsHolds,
     AwaitPolicyHolds, DrainHolds, CleanupHolds, Zenon DEF Run
<1>4. CASE Evaluate
  <2>1. CASE \E x \in BranchIds, scored \in BOOLEAN :
               EndEvaluation(x, scored)
    BY <2>1, EndEvaluationHolds
  <2>2. CASE \E g \in Kinds : StartJudging(g) \/ FinishGroup(g)
    BY <2>2, StartJudgingHolds, FinishGroupHolds
  <2>3. CASE \E g \in Kinds : \E judged \in BOOLEAN : EndJudging(g, judged)
    BY <2>3, EndJudgingHolds
  <2> QED
    BY <1>4, <2>1, <2>2, <2>3, Zenon DEF Evaluate
<1>5. CASE UNCHANGED vars
  BY <1>5, StutterHolds
<1> QED
  BY <1>1, <1>2, <1>3, <1>4, <1>5 DEF Next, Policy

-----------------------------------------------------------------------------
(* ParallelSearch: theorems.                                               *)

(* In every run the lanes, the checkpoints and the record agree.           *)
THEOREM SearchInvariance == Spec => []SearchInv
<1>1. Init => SearchInv
  BY InitHolds
<1>2. SearchInv /\ [Next]_vars => SearchInv'
  BY StepHolds
<1> QED
  BY <1>1, <1>2, PTL DEF Spec

(* A branch is never forked from a checkpoint that is gone, though the     *)
(* root's serves both groups and Lane A, and each group removes its own    *)
(* parents' when it ends, while the other is under way: whichever of them  *)
(* is first, and whatever failed before.                                   *)
THEOREM ForkPointsAlive == Spec => []ForkPointAlive
<1>1. SearchInv => ForkPointAlive
  <2> SUFFICES ASSUME SearchInv PROVE ForkPointAlive
    OBVIOUS
  <2>1. ASSUME NEW x \in BranchIds, BranchOf(x).at = "queued", main # "over"
        PROVE  BranchOf(x).parent \in images
    <3> DEFINE g == x[1]
    <3>1. /\ g \in Kinds /\ x[2] \in DOMAIN group[g].branches
          /\ BranchOf(x) = group[g].branches[x[2]]
          /\ group[g].at \notin {"judging", "done"}
      BY <2>1, BranchFacts
    <3> HIDE DEF g
    <3>2. /\ GroupOK(g, group[g])
          /\ BranchOf(x).parent \in ForkPoints(g)
          /\ group[g].at \notin {"off", "start"}
      BY <3>1, GroupFacts DEF GroupOK
    <3>3. g \in Started
      BY <3>1, <3>2 DEF Started
    <3>4. main \notin {"root", "over"}
      BY <2>1, <3>3 DEF SearchInv, MainInv
    <3> QED
      BY <3>1, <3>2, <3>3, <3>4 DEF SearchInv, ImageInv, ForkPoints, Kinds
  <2>2. ASSUME NEW i \in Parents, parent[i].at = "queued"
        PROVE  0 \in images
    <3>1. main = "parents"
      BY <2>2 DEF SearchInv, MainInv
    <3> QED
      BY <3>1 DEF SearchInv, ImageInv
  <2> QED
    BY <2>1, <2>2 DEF ForkPointAlive
<1> QED
  BY <1>1, SearchInvariance, PTL

(* What a record that says completed promises is exported.                 *)
THEOREM CompletedRecordsAreWhole == Spec => []CompletedIsWhole
<1>1. SearchInv => CompletedIsWhole
  <2> SUFFICES ASSUME SearchInv, record.completed, ~ cfg.skipLaneC
               PROVE  Exported = cfg.kinds \ record.skipped
    BY DEF CompletedIsWhole
  <2>1. /\ record.groups = cfg.kinds \ record.skipped
        /\ \A g \in record.groups : Whole(g)
    BY DEF SearchInv, RecordInv
  <2>2. \A g \in record.groups : Valid(g) /\ group[g].scored
    BY <2>1 DEF Whole
  <2> QED
    BY <2>1, <2>2 DEF Exported
<1> QED
  BY <1>1, SearchInvariance, PTL

(* With a parent's steps below the limit, so that each branch has some     *)
(* left, no Lane-A or Lane-B session runs or starts once policy capacity   *)
(* is given back.  Without it a group can raise after its first branches   *)
(* were queued, and they go on past that boundary.                         *)
THEOREM PolicyDoneMeansQuiet ==
  ASSUME \A c \in Configs : c.k < c.limit
  PROVE  Spec => []PolicyDoneIsQuiet
<1>1. Init => LostInv
  BY InitHolds
<1>2. SearchInv /\ LostInv /\ [Next]_vars => LostInv'
  <2> SUFFICES ASSUME SearchInv, LostInv, [Next]_vars PROVE LostInv'
    OBVIOUS
  <2>1. cfg.k < cfg.limit
    BY DEF SearchInv, TypeInv
  <2> QED
    BY <2>1, StepHolds
<1>3. SearchInv /\ LostInv => PolicyDoneIsQuiet
  <2> SUFFICES ASSUME SearchInv, LostInv,
                      policyCalled \/ main \in {"cleanup", "over"}
               PROVE  /\ \A i \in Parents : parent[i].at \in {"off", "ended"}
                      /\ \A x \in BranchIds :
                           BranchOf(x).at \in {"ended", "collected"}
                      /\ \A g \in Kinds : group[g].at # "start"
    BY DEF PolicyDoneIsQuiet
  <2>1. main \in After /\ main # "parents"
    BY DEF SearchInv, MainInv, After
  <2>2. \A i \in Parents : parent[i].at \in {"off", "ended"}
    BY <2>1 DEF SearchInv, MainInv
  <2>3. \A g \in Kinds : group[g].at \in {"off", "lost", "judging", "done"}
    <3> TAKE g \in Kinds
    <3>1. group[g].at # "off" => group[g].policyDone
      BY <2>1 DEF SearchInv, MainInv, Started
    <3> QED
      BY <3>1, GroupFacts DEF GroupOK
  <2>4. ASSUME NEW x \in BranchIds
        PROVE  BranchOf(x).at \in {"ended", "collected"}
    <3> DEFINE g == x[1]
    <3>1. /\ g \in Kinds /\ x[2] \in DOMAIN group[g].branches
          /\ group[g].at \in {"judging", "done"}
               => BranchOf(x).at = "collected"
      BY BranchFacts
    <3> HIDE DEF g
    <3>2. group[g].at # "off"
      BY <3>1, GroupFacts DEF GroupOK
    <3>3. group[g].at # "lost"
      BY <3>1 DEF LostInv
    <3> QED
      BY <2>3, <3>1, <3>2, <3>3
  <2> QED
    BY <2>2, <2>3, <2>4
<1> QED
  BY <1>1, <1>2, <1>3, SearchInvariance, PTL DEF Spec

-----------------------------------------------------------------------------
(* TrajectorySearch: its invariant.                                        *)

StatusMaps ==
  UNION { [ D -> {"none", "frontier", "finished", "dropped", "archived"} ] :
            D \in SUBSET Nat }
Outcomes ==
  UNION { [ D -> {"error", "paused", "finished"} ] :
            D \in SUBSET Nat }
RoundSets == { R \in SUBSET Nat : IsFiniteSet(R) }

FilesJobs ==
  [ status : StatusMaps, snap : SUBSET Nat, messages : SUBSET Nat,
    judge : SUBSET Nat, rounds : RoundSets ]
EvalJobs == [ judge : SUBSET Nat, round : Nat ]
Manifests ==
  [ round : Nat, ids : SUBSET Nat, frontier : Seq(Nat),
    finished : SUBSET Nat, best : Int, go : BOOLEAN ]

Memories ==
  [ round : Nat, status : StatusMaps, frontier : Seq(Nat),
    finished : SUBSET Nat, best : Int, go : BOOLEAN, snap : SUBSET Nat,
    judge : SUBSET Nat, resumed : BOOLEAN, loaded : SUBSET Nat,
    retry : BOOLEAN ]
Queues ==
  [ files : Seq(FilesJobs), evals : Seq(EvalJobs),
    manifests : Seq(Manifests) ]
Disks ==
  [ manifest : Manifests, hasManifest : BOOLEAN, node : StatusMaps,
    snap : SUBSET Nat, judge : SUBSET Nat, rounds : RoundSets,
    messages : SUBSET Nat, terminals : SUBSET Nat ]

RunnerTypeInv ==
  /\ config \in [ gt : BOOLEAN, gate : BOOLEAN, beam : Nat \ {0},
                   container : {"docker", "singularity"} ]
  /\ pc \in {"start", "loop", "round", "gate", "final", "close", "shutdown",
             "exit"}
  /\ outcome \in {"none", "ok", "raised", "killed"}
  /\ Ids \subseteq Nat /\ IsFiniteSet(Ids)
  /\ batch \in Outcomes /\ parents \in Seq(Nat)
  /\ mem \in Memories /\ queue \in Queues /\ disk \in Disks
  /\ terminal \subseteq Nat /\ sessions \subseteq Nat
  /\ nodeImages \subseteq Nat
  /\ left \in [ raise : Nat, kill : Nat, resume : Nat ]

(* A round has a primary parent that was judged, and a run that has ended  *)
(* or begins has no files to write and no round to evaluate.               *)
RoundInv ==
  /\ pc = "round" =>
       /\ parents # << >> /\ parents[1] \in mem.judge
       /\ \A n \in DOMAIN batch : n \in Ids /\ born[n].primary = parents[1]
  /\ pc \in {"shutdown", "exit", "start"} =>
       queue.files = << >> /\ queue.evals = << >>

LeakInv ==
  /\ outcome \in {"none", "ok"} =>
       sessions \subseteq terminal \cup { n \in DOMAIN batch : pc = "round" }
  /\ outcome # "none" => pc \in {"close", "shutdown", "exit"}
  /\ outcome = "ok" => terminal = {}

(* What FrontierRestorable says, all through a round.                      *)
Resumable(n) ==
  mem.status[n] = "frontier" => n \in mem.snap \cap mem.judge /\ Restorable(n)
FrontierInv ==
  pc \in {"loop", "round", "gate"} =>
    \A n \in Range(mem.frontier) \cap (Nodes \ mem.loaded) : Resumable(n)

(* The nodes that are evaluated when the first k of the rounds that wait   *)
(* have been.                                                              *)
Evaluated(k) ==
  disk.judge \cup { n \in Nat : \E i \in 1 .. k : n \in queue.evals[i].judge }

EvalInv ==
  /\ Root \in Ids /\ born[Root].primary = None
  /\ config.gt =>
       /\ \A i \in DOMAIN queue.files : queue.files[i].judge \subseteq {Root}
       /\ mem.judge \subseteq {Root} \cup Evaluated(Len(queue.evals))
       /\ \A i \in DOMAIN queue.evals : \A n \in queue.evals[i].judge :
            n \in Ids /\ born[n].primary \in {None, Root} \cup Evaluated(i - 1)

RunnerInv == RunnerTypeInv /\ RoundInv /\ LeakInv /\ FrontierInv /\ EvalInv

(* The checkpoints this process made are in its snapshot cache, unless it  *)
(* raised or was killed in between, so that the last sweep knows them.     *)
SweepInv ==
  /\ pc = "start" => nodeImages \subseteq inherited
  /\ outcome \in {"none", "ok"} => nodeImages \ inherited \subseteq mem.snap
  /\ pc \in {"shutdown", "exit"} /\ outcome # "killed" =>
       /\ nodeImages \cap mem.snap = {}
       /\ config.container = "docker" => nodeImages = {}

-----------------------------------------------------------------------------
(* TrajectorySearch: what its data are made of.                            *)

Marks == {"none", "frontier", "finished", "dropped", "archived"}

LEMMA StatusMapFacts ==
  /\ \A f \in StatusMaps : /\ DOMAIN f \subseteq Nat
                           /\ \A n \in DOMAIN f : f[n] \in Marks
  /\ \A D \in SUBSET Nat : [ D -> Marks ] \subseteq StatusMaps
  /\ EmptyMap \in StatusMaps /\ DOMAIN EmptyMap = {}
<1>1. StatusMaps = UNION { [ D -> Marks ] : D \in SUBSET Nat }
  BY DEF StatusMaps, Marks
<1> HIDE DEF Marks
<1>2. \A D \in SUBSET Nat : [ D -> Marks ] \subseteq StatusMaps
  BY <1>1
<1>3. EmptyMap \in [ {} -> Marks ] /\ DOMAIN EmptyMap = {}
  BY DEF EmptyMap
<1>4. \A f \in StatusMaps : \E D \in SUBSET Nat : f \in [ D -> Marks ]
  BY <1>1
<1> QED
  BY <1>2, <1>3, <1>4

LEMMA OverlayFacts ==
  ASSUME NEW f \in StatusMaps, NEW g \in StatusMaps
  PROVE  Overlay(f, g) \in StatusMaps
<1> DEFINE D == DOMAIN f \cup DOMAIN g
<1>1. D \in SUBSET Nat
  BY StatusMapFacts
<1>2. Overlay(f, g) \in [ D -> Marks ]
  BY StatusMapFacts DEF Overlay
<1> QED
  BY <1>1, <1>2, StatusMapFacts

LEMMA ManifestFacts ==
  ASSUME NEW m \in Memories
  PROVE  ManifestOf(m) \in Manifests
<1>1. DOMAIN m.status \subseteq Nat
  BY StatusMapFacts DEF Memories
<1> QED
  BY <1>1 DEF ManifestOf, Memories, Manifests

LEMMA FilesJobFacts ==
  ASSUME NEW status \in StatusMaps, NEW snaps \in SUBSET Nat
  PROVE  /\ FilesJob(status, snaps) \in FilesJobs
         /\ FilesJob(status, snaps).judge = {}
BY FS_EmptySet DEF FilesJob, FilesJobs, RoundSets

LEMMA NewFacts ==
  /\ NewMem \in Memories /\ NewQueue \in Queues /\ NewDisk \in Disks
  /\ NewMem.judge = {} /\ NewQueue.files = << >> /\ NewQueue.evals = << >>
<1>1. NewMem \in Memories /\ NewMem.judge = {}
  BY StatusMapFacts DEF NewMem, Memories, None
<1>2. /\ NewQueue \in Queues /\ NewQueue.files = << >>
      /\ NewQueue.evals = << >>
  BY DEF NewQueue, Queues
<1>3. ManifestOf(NewMem) \in Manifests
  BY <1>1, ManifestFacts
<1>4. {} \in RoundSets
  BY FS_EmptySet DEF RoundSets
<1>5. NewDisk \in Disks
  BY <1>3, <1>4, StatusMapFacts DEF NewDisk, Disks
<1> QED
  BY <1>1, <1>2, <1>5

(* The executors' jobs are sequences.                                      *)
LEMMA QueueFacts ==
  ASSUME queue \in Queues
  PROVE  /\ queue.files \in Seq(FilesJobs) /\ queue.evals \in Seq(EvalJobs)
         /\ queue.manifests \in Seq(Manifests)
         /\ Len(queue.files) \in Nat /\ Len(queue.evals) \in Nat
         /\ DOMAIN queue.files = 1 .. Len(queue.files)
         /\ DOMAIN queue.evals = 1 .. Len(queue.evals)
BY DEF Queues

LEMMA NoBatch == EmptyMap \in Outcomes /\ DOMAIN EmptyMap = {}
<1>1. EmptyMap \in [ {} -> {"error", "paused", "finished"} ]
      /\ {} \in SUBSET Nat
  BY DEF EmptyMap
<1> QED
  BY <1>1 DEF Outcomes

LEMMA RunnerInitHolds ==
  ASSUME RunnerInit
  PROVE  RunnerInv
<1>1. /\ born = [ n \in {Root} |-> [ parent |-> None, primary |-> None,
                                     round |-> 0, depth |-> 0 ] ]
      /\ config \in SearchConfigs /\ pc = "start" /\ outcome = "none"
      /\ batch = EmptyMap /\ parents = << >> /\ mem = NewMem
      /\ queue = NewQueue /\ disk = NewDisk
      /\ terminal = {} /\ sessions = {} /\ nodeImages = {}
      /\ left = [ raise |-> MaxRaises, kill |-> MaxKills,
                  resume |-> MaxResumes ]
  BY DEF RunnerInit
<1>2. Ids = {Root} /\ born[Root].primary = None /\ Root \in Nat
  BY <1>1 DEF Ids, Root
<1>3. IsFiniteSet(Ids)
  BY <1>2, FS_Singleton
<1>4. batch \in Outcomes /\ DOMAIN batch = {}
  BY <1>1, NoBatch
<1>5. left \in [ raise : Nat, kill : Nat, resume : Nat ]
  BY <1>1, SearchAssumption
<1>6. RunnerTypeInv
  BY <1>1, <1>2, <1>3, <1>4, <1>5, NewFacts, SearchAssumption
     DEF RunnerTypeInv
<1>7. RoundInv /\ LeakInv /\ FrontierInv
  BY <1>1, <1>4, NewFacts DEF RoundInv, LeakInv, FrontierInv
<1>8. EvalInv
  BY <1>1, <1>2, NewFacts DEF EvalInv
<1> QED
  BY <1>6, <1>7, <1>8 DEF RunnerInv

(* A step that leaves the rounds that wait to be evaluated alone.          *)
LEMMA EvalKept ==
  ASSUME EvalInv, queue'.evals = queue.evals, config' = config,
         disk.judge \subseteq disk'.judge,
         mem'.judge \subseteq mem.judge \cup {Root} \cup disk.judge,
         Ids \subseteq Ids',
         \A n \in Ids : born'[n].primary = born[n].primary,
         config.gt => \A i \in DOMAIN queue'.files :
                        queue'.files[i].judge \subseteq {Root}
  PROVE  EvalInv'
<1>1. \A k : Evaluated(k) \subseteq Evaluated(k)'
  BY DEF Evaluated
<1>2. disk.judge \subseteq Evaluated(Len(queue.evals))
  BY DEF Evaluated
<1>3. Root \in Ids' /\ born'[Root].primary = None
  BY DEF EvalInv
<1>4. PICK n : n = Len(queue.evals) /\ n = Len(queue'.evals)
  OBVIOUS
<1>5. ASSUME config.gt
      PROVE  mem'.judge \subseteq {Root} \cup Evaluated(n)'
  <2>1. mem.judge \subseteq {Root} \cup Evaluated(n)
    BY <1>4, <1>5 DEF EvalInv
  <2> QED
    BY <2>1, <1>1, <1>2, <1>4
<1>6. ASSUME config.gt, NEW i \in DOMAIN queue.evals,
             NEW m \in queue.evals[i].judge
      PROVE  m \in Ids'
             /\ born'[m].primary \in {None, Root} \cup Evaluated(i - 1)'
  BY <1>1, <1>6 DEF EvalInv
<1>7. config'.gt =>
        mem'.judge \subseteq {Root} \cup Evaluated(Len(queue.evals))'
  BY <1>4, <1>5
<1>8. config'.gt =>
        \A i \in DOMAIN queue'.evals : \A m \in queue'.evals[i].judge :
          m \in Ids'
          /\ born'[m].primary \in {None, Root} \cup Evaluated(i - 1)'
  BY <1>6
<1> QED
  BY <1>3, <1>7, <1>8 DEF EvalInv

-----------------------------------------------------------------------------
(* TrajectorySearch: the executors.                                        *)

LEMMA WriteFilesHolds ==
  ASSUME RunnerInv, WriteFiles
  PROVE  RunnerInv'
<1> USE DEF RunnerInv
<1> DEFINE j == Head(queue.files)
<1>1. /\ queue.files # << >>
      /\ disk' = [ disk EXCEPT !.node = Overlay(@, j.status),
                               !.snap = @ \cup j.snap,
                               !.messages = @ \cup j.messages,
                               !.judge = @ \cup j.judge,
                               !.rounds = @ \cup j.rounds ]
      /\ queue' = [ queue EXCEPT !.files = Tail(@) ]
      /\ UNCHANGED << config, pc, outcome, born, batch, parents, mem,
                      terminal, sessions, nodeImages, left >>
  BY DEF WriteFiles, imageVars
<1>2. queue \in Queues /\ disk \in Disks
  BY DEF RunnerTypeInv
<1>3. /\ queue.files \in Seq(FilesJobs) /\ queue.evals \in Seq(EvalJobs)
      /\ Len(queue.files) \in Nat
      /\ DOMAIN queue.files = 1 .. Len(queue.files)
  BY <1>2, QueueFacts
<1>4. j \in FilesJobs /\ 1 \in DOMAIN queue.files /\ j = queue.files[1]
  BY <1>1, <1>3
<1> DEFINE rest == Tail(queue.files)
<1>5. /\ rest \in Seq(FilesJobs)
      /\ \A i \in DOMAIN rest : i + 1 \in DOMAIN queue.files
                                /\ rest[i] = queue.files[i + 1]
  BY <1>1, <1>3
<1> HIDE DEF j, rest
<1>6. /\ queue' \in Queues /\ queue'.files = rest
      /\ queue'.evals = queue.evals
  BY <1>1, <1>2, <1>5 DEF Queues, rest
<1>7. /\ disk' \in Disks /\ disk'.judge = disk.judge \cup j.judge
  <2>1. Overlay(disk.node, j.status) \in StatusMaps
    BY <1>2, <1>4, OverlayFacts DEF Disks, FilesJobs
  <2>2. disk.rounds \cup j.rounds \in RoundSets
    <3>1. disk.rounds \in RoundSets /\ j.rounds \in RoundSets
      BY <1>2, <1>4 DEF Disks, FilesJobs
    <3>2. IsFiniteSet(disk.rounds \cup j.rounds)
      BY <3>1, FS_Union DEF RoundSets
    <3> QED
      BY <3>1, <3>2 DEF RoundSets
  <2> QED
    BY <2>1, <2>2, <1>1, <1>2, <1>4 DEF Disks, FilesJobs
<1>8. RunnerTypeInv'
  BY <1>1, <1>6, <1>7 DEF RunnerTypeInv, Ids
<1>9. RoundInv'
  BY <1>1, <1>6 DEF RoundInv, Ids
<1>10. LeakInv'
  BY <1>1 DEF LeakInv
<1>11. FrontierInv'
  BY <1>1 DEF FrontierInv, Resumable, Restorable, Nodes
<1>12. EvalInv'
  <2>1. config.gt =>
          \A i \in DOMAIN queue'.files : queue'.files[i].judge \subseteq {Root}
    BY <1>3, <1>5, <1>6 DEF EvalInv
  <2> QED
    BY <1>1, <1>6, <1>7, <2>1, EvalKept DEF Ids
<1> QED
  BY <1>8, <1>9, <1>10, <1>11, <1>12

LEMMA FirstRemoved ==
  ASSUME NEW T, NEW q \in Seq(T), q # << >>
  PROVE  /\ RemoveAt(q, 1) \in Seq(T) /\ Len(RemoveAt(q, 1)) = Len(q) - 1
         /\ \A i \in 1 .. Len(q) - 1 : RemoveAt(q, 1)[i] = q[i + 1]
<1>1. Len(q) \in Nat /\ Len(q) >= 1 /\ \A i \in 1 .. Len(q) : q[i] \in T
  OBVIOUS
<1> DEFINE some == SubSeq(q, 1, 0)
           rest == SubSeq(q, 2, Len(q))
<1>2. RemoveAt(q, 1) = some \o rest
  BY DEF RemoveAt
<1>3. some = << >>
  BY <1>1
<1>4. rest \in Seq(T) /\ Len(rest) = Len(q) - 1
      /\ \A i \in 1 .. Len(q) - 1 : rest[i] = q[i + 1]
  BY <1>1
<1> HIDE DEF some, rest
<1>5. RemoveAt(q, 1) = rest
  BY <1>2, <1>3, <1>4
<1> QED
  BY <1>4, <1>5

LEMMA EvaluateRoundHolds ==
  ASSUME RunnerInv, EvaluateRound
  PROVE  RunnerInv'
<1> USE DEF RunnerInv
<1> DEFINE j == queue.evals[1]
           rest == RemoveAt(queue.evals, 1)
<1>1. /\ queue.evals # << >>
      /\ disk' = [ disk EXCEPT !.judge = @ \cup j.judge,
                               !.rounds = @ \cup {j.round} ]
      /\ queue' = [ queue EXCEPT !.evals = rest ]
      /\ UNCHANGED << config, pc, outcome, born, batch, parents, mem,
                      terminal, sessions, nodeImages, left >>
  BY DEF EvaluateRound, NextEval, imageVars
<1>2. queue \in Queues /\ disk \in Disks
  BY DEF RunnerTypeInv
<1>3. /\ queue.files \in Seq(FilesJobs) /\ queue.evals \in Seq(EvalJobs)
      /\ Len(queue.evals) \in Nat
      /\ DOMAIN queue.evals = 1 .. Len(queue.evals)
  BY <1>2, QueueFacts
<1>4. j \in EvalJobs /\ Len(queue.evals) >= 1
  BY <1>1, <1>3
<1>5. /\ rest \in Seq(EvalJobs) /\ Len(rest) = Len(queue.evals) - 1
      /\ \A i \in 1 .. Len(queue.evals) - 1 : rest[i] = queue.evals[i + 1]
  BY <1>1, <1>3, FirstRemoved
<1> HIDE DEF rest
<1>6. /\ queue' \in Queues /\ queue'.files = queue.files
      /\ queue'.evals = rest
  BY <1>1, <1>2, <1>5 DEF Queues
<1>7. disk' \in Disks /\ disk'.judge = disk.judge \cup j.judge
  <2>1. disk.rounds \cup {j.round} \in RoundSets
    <3>1. disk.rounds \in RoundSets /\ j.round \in Nat
      BY <1>2, <1>4 DEF Disks, EvalJobs
    <3>2. IsFiniteSet(disk.rounds \cup {j.round})
      BY <3>1, FS_AddElement DEF RoundSets
    <3> QED
      BY <3>1, <3>2 DEF RoundSets
  <2> HIDE DEF j
  <2> QED
    BY <2>1, <1>1, <1>2, <1>4 DEF Disks, EvalJobs
<1>8. RunnerTypeInv'
  BY <1>1, <1>6, <1>7 DEF RunnerTypeInv, Ids
<1>9. RoundInv'
  BY <1>1, <1>6 DEF RoundInv, Ids
<1>10. LeakInv'
  BY <1>1 DEF LeakInv
<1>11. FrontierInv'
  BY <1>1 DEF FrontierInv, Resumable, Restorable, Nodes
<1>12. PICK n : n = Len(queue.evals) /\ n - 1 = Len(queue'.evals)
                /\ n \in Nat /\ n >= 1
  BY <1>3, <1>4, <1>5, <1>6
<1>13. ASSUME NEW k \in 0 .. n - 1
       PROVE  Evaluated(k + 1) \subseteq Evaluated(k)'
  <2>1. ASSUME NEW m \in Nat, NEW i \in 1 .. k + 1,
               m \in queue.evals[i].judge
        PROVE  m \in Evaluated(k)'
    <3>1. CASE i = 1
      BY <2>1, <3>1, <1>7 DEF Evaluated
    <3>2. CASE i # 1
      <4>1. i - 1 \in 1 .. k /\ i - 1 \in 1 .. Len(queue.evals) - 1
            /\ (i - 1) + 1 = i
        BY <3>2, <1>12
      <4>2. queue'.evals[i - 1] = queue.evals[i]
        BY <4>1, <1>5, <1>6
      <4> QED
        BY <4>1, <4>2, <2>1 DEF Evaluated
    <3> QED
      BY <3>1, <3>2
  <2>2. disk.judge \subseteq Evaluated(k)'
    BY <1>7 DEF Evaluated
  <2> QED
    BY <2>1, <2>2 DEF Evaluated
<1>14. config'.gt =>
         mem'.judge \subseteq {Root} \cup Evaluated(Len(queue.evals))'
  <2>1. n - 1 \in 0 .. n - 1 /\ (n - 1) + 1 = n
    BY <1>12
  <2>2. Evaluated(n) \subseteq Evaluated(n - 1)'
    BY <2>1, <1>13
  <2>3. config.gt => mem.judge \subseteq {Root} \cup Evaluated(n)
    BY <1>12 DEF EvalInv
  <2> QED
    BY <2>2, <2>3, <1>1, <1>12
<1>15. config'.gt =>
         \A i \in DOMAIN queue'.evals : \A m \in queue'.evals[i].judge :
           m \in Ids'
           /\ born'[m].primary \in {None, Root} \cup Evaluated(i - 1)'
  <2> SUFFICES ASSUME config.gt, NEW i \in 1 .. n - 1,
                      NEW m \in queue'.evals[i].judge
               PROVE  m \in Ids /\ born[m].primary \in {None, Root}
                                                  \cup Evaluated(i - 1)'
    BY <1>1, <1>5, <1>6, <1>12 DEF Ids
  <2>1. i + 1 \in DOMAIN queue.evals /\ m \in queue.evals[i + 1].judge
        /\ (i + 1) - 1 = i
    BY <1>3, <1>5, <1>6, <1>12
  <2>2. m \in Ids /\ born[m].primary \in {None, Root} \cup Evaluated(i)
    BY <2>1 DEF EvalInv
  <2>3. i - 1 \in 0 .. n - 1 /\ (i - 1) + 1 = i
    BY <1>12
  <2>4. Evaluated(i) \subseteq Evaluated(i - 1)'
    BY <2>3, <1>13
  <2> QED
    BY <2>2, <2>4
<1>16. EvalInv'
  BY <1>1, <1>6, <1>14, <1>15 DEF EvalInv, Ids
<1> QED
  BY <1>8, <1>9, <1>10, <1>11, <1>16

LEMMA WriteManifestHolds ==
  ASSUME RunnerInv, WriteManifest
  PROVE  RunnerInv'
<1> USE DEF RunnerInv
<1>1. /\ queue.manifests # << >>
      /\ disk' = [ disk EXCEPT !.manifest = Head(queue.manifests),
                               !.hasManifest = TRUE ]
      /\ queue' = [ queue EXCEPT !.manifests = Tail(@) ]
      /\ UNCHANGED << config, pc, outcome, born, batch, parents, mem,
                      terminal, sessions, nodeImages, left >>
  BY DEF WriteManifest, imageVars
<1>2. queue \in Queues /\ disk \in Disks
      /\ queue.manifests \in Seq(Manifests)
  BY QueueFacts DEF RunnerTypeInv
<1>3. Head(queue.manifests) \in Manifests
      /\ Tail(queue.manifests) \in Seq(Manifests)
  BY <1>1, <1>2
<1>4. /\ queue' \in Queues /\ queue'.files = queue.files
      /\ queue'.evals = queue.evals
  BY <1>1, <1>2, <1>3 DEF Queues
<1> DEFINE yes == TRUE
<1>5. yes \in BOOLEAN /\ disk' = [ disk EXCEPT
        !.manifest = Head(queue.manifests), !.hasManifest = yes ]
  BY <1>1
<1> HIDE DEF yes
<1>6. disk' \in Disks /\ disk'.judge = disk.judge
  BY <1>2, <1>3, <1>5 DEF Disks
<1>7. RunnerTypeInv'
  BY <1>1, <1>4, <1>6 DEF RunnerTypeInv, Ids
<1>8. RoundInv'
  BY <1>1, <1>4 DEF RoundInv, Ids
<1>9. LeakInv'
  BY <1>1 DEF LeakInv
<1>10. FrontierInv'
  BY <1>1 DEF FrontierInv, Resumable, Restorable, Nodes
<1>11. EvalInv'
  BY <1>1, <1>4, <1>6, EvalKept DEF EvalInv, Ids
<1> QED
  BY <1>7, <1>8, <1>9, <1>10, <1>11

LEMMA FinishTerminalHolds ==
  ASSUME RunnerInv, NEW n \in terminal, FinishTerminal(n)
  PROVE  RunnerInv'
<1> USE DEF RunnerInv
<1>1. /\ terminal' = terminal \ {n} /\ sessions' = sessions \ {n}
      /\ disk' = [ disk EXCEPT !.terminals = @ \cup {n} ]
      /\ UNCHANGED << config, pc, outcome, born, batch, parents, mem, queue,
                      nodeImages, left >>
  BY DEF FinishTerminal, imageVars
<1>2. disk \in Disks /\ n \in Nat
  BY DEF RunnerTypeInv
<1>3. disk' \in Disks /\ disk'.judge = disk.judge
  BY <1>1, <1>2 DEF Disks
<1>4. RunnerTypeInv'
  BY <1>1, <1>3 DEF RunnerTypeInv, Ids
<1>5. RoundInv'
  BY <1>1 DEF RoundInv, Ids
<1>6. LeakInv'
  BY <1>1 DEF LeakInv
<1>7. FrontierInv'
  BY <1>1 DEF FrontierInv, Resumable, Restorable, Nodes
<1>8. EvalInv'
  BY <1>1, <1>3, EvalKept DEF EvalInv, Ids
<1> QED
  BY <1>4, <1>5, <1>6, <1>7, <1>8
-----------------------------------------------------------------------------
(* TrajectorySearch: starting.                                             *)

LEMMA InitializeRootHolds ==
  ASSUME RunnerInv, InitializeRoot
  PROVE  RunnerInv'
<1> USE DEF RunnerInv
<1> DEFINE status == [ n \in {Root} |-> "frontier" ]
           m == [ NewMem EXCEPT !.status = status, !.frontier = << Root >>,
                                !.snap = {Root}, !.judge = {Root} ]
           job == [ FilesJob(m.status, {Root}) EXCEPT !.judge = {Root} ]
<1>1. /\ pc = "start" /\ mem' = m
      /\ queue' = [ queue EXCEPT !.files = Append(@, job),
                                 !.manifests = Append(@, ManifestOf(m)) ]
      /\ pc' = "loop"
      /\ UNCHANGED << config, outcome, born, batch, parents, terminal,
                      sessions, nodeImages, disk, left >>
  BY DEF InitializeRoot, imageVars
<1>2. Root \in Nat /\ {Root} \in SUBSET Nat /\ << Root >> \in Seq(Nat)
  BY DEF Root
<1>3. status \in StatusMaps
  <2>1. status \in [ {Root} -> Marks ]
    BY DEF Marks
  <2> QED
    BY <2>1, <1>2, StatusMapFacts
<1> HIDE DEF status
<1>4. /\ m \in Memories /\ m.status = status /\ m.frontier = << Root >>
      /\ m.snap = {Root} /\ m.judge = {Root}
  BY <1>2, <1>3, NewFacts DEF Memories
<1> HIDE DEF m
<1>5. job \in FilesJobs /\ job.judge = {Root}
  <2>1. FilesJob(m.status, {Root}) \in FilesJobs
    BY <1>2, <1>3, <1>4, FilesJobFacts
  <2> QED
    BY <2>1, <1>2 DEF FilesJobs
<1> HIDE DEF job
<1>6. ManifestOf(m) \in Manifests
  BY <1>4, ManifestFacts
<1>7. /\ queue' \in Queues /\ queue'.files = Append(queue.files, job)
      /\ queue'.evals = queue.evals
  <2>1. queue \in Queues
    BY DEF RunnerTypeInv
  <2>2. Append(queue.files, job) \in Seq(FilesJobs)
        /\ Append(queue.manifests, ManifestOf(m)) \in Seq(Manifests)
    BY <2>1, <1>5, <1>6, QueueFacts
  <2> QED
    BY <2>1, <2>2, <1>1 DEF Queues
<1>8. RunnerTypeInv'
  BY <1>1, <1>4, <1>7 DEF RunnerTypeInv, Ids
<1>9. RoundInv'
  BY <1>1 DEF RoundInv, Ids
<1>10. LeakInv'
  BY <1>1 DEF LeakInv
<1>11. FrontierInv'
  <2>1. \A n \in Range(mem'.frontier) : n = Root
    BY <1>1, <1>4 DEF Range
  <2> QED
    BY <2>1, <1>1, <1>4 DEF FrontierInv, Resumable, Restorable
<1>12. EvalInv'
  <2>1. queue.files = << >>
    BY <1>1 DEF RoundInv
  <2>2. \A i \in DOMAIN queue'.files : queue'.files[i].judge \subseteq {Root}
    BY <2>1, <1>5, <1>7
  <2> QED
    BY <2>2, <1>1, <1>4, <1>7, EvalKept DEF Ids
<1> QED
  BY <1>8, <1>9, <1>10, <1>11, <1>12

(* The rounds whose files are on disk without a gap are well defined.      *)
LEMMA CompletedRoundsFacts ==
  ASSUME NEW R \in RoundSets
  PROVE  CompletedRounds(R) \in Nat
<1> DEFINE c == Cardinality(R)
           Full == { r \in 0 .. c + 1 : 1 .. r \subseteq R }
<1>1. c \in Nat /\ IsFiniteSet(R) /\ R \subseteq Nat
  BY FS_CardinalityType DEF RoundSets
<1>2. ASSUME NEW r \in Full PROVE r <= c
  <2>1. r \in Nat /\ 1 .. r \subseteq R
    BY <1>1
  <2>2. Cardinality(1 .. r) = r /\ Cardinality(1 .. r) <= Cardinality(R)
    <3>1. Cardinality(1 .. r) = r
      BY <2>1, FS_Interval
    <3>2. Cardinality(1 .. r) <= Cardinality(R)
      BY <2>1, <1>1, FS_Subset
    <3> QED
      BY <3>1, <3>2
  <2> QED
    BY <2>2
<1>3. 0 \in Full
  BY <1>1
<1>4. \E r \in 0 .. c : 1 .. r \subseteq R /\ r + 1 \notin R
  <2> SUFFICES ASSUME \A r \in 0 .. c : ~ (1 .. r \subseteq R
                                           /\ r + 1 \notin R)
               PROVE  FALSE
    OBVIOUS
  <2>1. ASSUME NEW r \in 0 .. (c + 1) - 1, r \in Full PROVE r + 1 \in Full
    <3>1. r \in 0 .. c /\ 1 .. r \subseteq R /\ r + 1 \in 0 .. c + 1
      BY <2>1, <1>1
    <3>2. r + 1 \in R
      BY <3>1
    <3>3. \A k \in 1 .. r + 1 : k \in 1 .. r \/ k = r + 1
      BY <3>1, <1>1
    <3> QED
      BY <3>1, <3>2, <3>3
  <2>2. 0 .. c + 1 \subseteq Full
    <3>1. 0 \in Int /\ c + 1 \in Int /\ 0 <= c + 1
      BY <1>1
    <3> HIDE DEF Full, c
    <3> QED
      BY <2>1, <3>1, <1>3, FromTo
  <2>3. c + 1 \in Full
    BY <2>2, <1>1
  <2>4. c + 1 <= c
    BY <2>3, <1>2
  <2> QED
    BY <2>4, <1>1
<1>5. CompletedRounds(R) \in 0 .. c
  BY <1>4 DEF CompletedRounds
<1> QED
  BY <1>5, <1>1

LEMMA LoadManifestHolds ==
  ASSUME RunnerInv, LoadManifest
  PROVE  RunnerInv'
<1> USE DEF RunnerInv
<1> DEFINE m == disk.manifest
           nodes == m.ids \cap DOMAIN disk.node
           completed == CompletedRounds(disk.rounds)
           round == IF m.round > completed THEN completed ELSE m.round
           again == m.round > completed
           status == [ n \in nodes |-> disk.node[n] ]
           yes == TRUE
<1>1. /\ pc = "start"
      /\ mem' = [ round |-> round, status |-> status,
                  frontier |-> m.frontier, finished |-> m.finished,
                  best |-> m.best, go |-> m.go,
                  snap |-> disk.snap \cap nodes,
                  judge |-> disk.judge \cap nodes,
                  resumed |-> yes, loaded |-> nodes, retry |-> again ]
      /\ pc' = "loop"
      /\ UNCHANGED << config, outcome, born, batch, parents, queue, terminal,
                      sessions, nodeImages, disk, left >>
  BY DEF LoadManifest, imageVars
<1>2. disk \in Disks /\ m \in Manifests /\ disk.node \in StatusMaps
      /\ disk.rounds \in RoundSets
  BY DEF RunnerTypeInv, Disks
<1>3. nodes \in SUBSET Nat /\ status \in StatusMaps /\ DOMAIN status = nodes
  <2>1. nodes \in SUBSET Nat /\ status \in [ nodes -> Marks ]
    BY <1>2, StatusMapFacts DEF Manifests
  <2> QED
    BY <2>1, StatusMapFacts
<1>4. round \in Nat /\ again \in BOOLEAN
  BY <1>2, CompletedRoundsFacts DEF Manifests
<1>5. yes \in BOOLEAN
  OBVIOUS
<1> HIDE DEF nodes, status, round, again, yes, completed
<1>6. mem' \in Memories /\ mem'.judge \subseteq disk.judge
      /\ mem'.loaded = nodes /\ DOMAIN mem'.status = nodes
  BY <1>1, <1>2, <1>3, <1>4, <1>5 DEF Memories, Manifests, Disks
<1>7. RunnerTypeInv'
  BY <1>1, <1>6 DEF RunnerTypeInv, Ids
<1>8. RoundInv'
  BY <1>1 DEF RoundInv, Ids
<1>9. LeakInv'
  BY <1>1 DEF LeakInv
<1>10. FrontierInv'
  <2>1. Nodes' \ mem'.loaded = {}
    BY <1>6 DEF Nodes
  <2> QED
    BY <2>1 DEF FrontierInv
<1>11. EvalInv'
  BY <1>1, <1>6, EvalKept DEF EvalInv, Ids
<1> QED
  BY <1>7, <1>8, <1>9, <1>10, <1>11

-----------------------------------------------------------------------------
(* TrajectorySearch: a round.                                              *)

LEMMA LeaveLoopHolds ==
  ASSUME RunnerInv, LeaveLoop
  PROVE  RunnerInv'
<1> USE DEF RunnerInv
<1>1. /\ pc = "loop" /\ pc' = "final"
      /\ UNCHANGED << config, outcome, born, batch, parents, mem, queue,
                      terminal, sessions, nodeImages, disk, left >>
  BY DEF LeaveLoop, imageVars
<1>2. RunnerTypeInv'
  BY <1>1 DEF RunnerTypeInv, Ids
<1>3. RoundInv'
  BY <1>1 DEF RoundInv, Ids
<1>4. LeakInv'
  BY <1>1 DEF LeakInv
<1>5. FrontierInv'
  BY <1>1 DEF FrontierInv
<1>6. EvalInv'
  BY <1>1, EvalKept DEF EvalInv, Ids
<1> QED
  BY <1>2, <1>3, <1>4, <1>5, <1>6

LEMMA RoundParentsFacts ==
  ASSUME RunnerTypeInv, ~SearchOver, ~LookupFails
  PROVE  RoundParents \in Seq(Nat) /\ RoundParents # << >>
<1> DEFINE first == Head(mem.frontier)
           same == Filter(mem.frontier,
                     { n \in Nodes : /\ born[n].depth = born[first].depth
                                     /\ mem.status[n] = "frontier" })
           k == MinOf(Len(same), MinOf(config.beam, M))
<1>1. mem.frontier \in Seq(Nat) /\ config.beam \in Nat \ {0}
      /\ M \in Nat \ {0}
  BY SearchAssumption DEF RunnerTypeInv, Memories
<1>2. same \in Seq(Nat)
  BY <1>1, FilterFacts
<1>3. RoundParents = SubSeq(same, 1, k)
  BY DEF RoundParents
<1> HIDE DEF same
<1>4. k \in 0 .. Len(same)
  BY <1>1, <1>2 DEF MinOf
<1> HIDE DEF k
<1>5. SubSeq(same, 1, k) \in Seq(Nat)
  BY <1>2, <1>4
<1>6. RoundParents # << >>
  BY DEF SearchOver
<1> QED
  BY <1>3, <1>5, <1>6

LEMMA SampleBranchesHolds ==
  ASSUME RunnerInv, SampleBranches
  PROVE  RunnerInv'
<1> USE DEF RunnerInv
<1> DEFINE first == Max(Ids) + 1
           new == first .. first + M - 1
           no == FALSE
<1>1. PICK ps, node : /\ ps = RoundParents
                      /\ born' = Overlay(born, [ n \in new |-> node[n] ])
                      /\ \A n \in new : node[n].primary = ps[1]
  <2> DEFINE ps == RoundParents
             node == [ n \in new |->
               LET p == ParentOf(n - first + 1, ps) IN
                 [ parent |-> p, primary |-> ps[1], round |-> mem.round + 1,
                   depth |-> born[p].depth + 1 ] ]
  <2>1. born' = Overlay(born, node)
    BY DEF SampleBranches
  <2>2. \A n \in new : node[n].primary = ps[1]
    OBVIOUS
  <2>3. node = [ n \in new |-> node[n] ]
    OBVIOUS
  <2> HIDE DEF node, new
  <2> QED
    BY <2>1, <2>2, <2>3
<1>2. PICK o \in [ new -> {"error", "paused", "finished"} ] :
        /\ pc = "loop" /\ ~SearchOver /\ ~LookupFails
        /\ Range(ps) \subseteq mem.snap \cap mem.judge
        /\ parents' = ps
        /\ mem' = [ mem EXCEPT !.round = @ + 1, !.retry = no ]
        /\ batch' = o
        /\ sessions' = sessions \cup { n \in new : o[n] # "error" }
        /\ pc' = "round"
        /\ UNCHANGED << config, outcome, queue, terminal, nodeImages, disk,
                        left >>
  BY <1>1 DEF SampleBranches, imageVars
<1>3. Ids \in SUBSET Int /\ Ids # {} /\ IsFiniteSet(Ids) /\ Ids \subseteq Nat
  BY DEF RunnerTypeInv, EvalInv
<1>4. Max(Ids) \in Ids /\ \A n \in Ids : Max(Ids) >= n
  <2> DEFINE Top(x) == \A y \in Ids : x >= y
  <2>1. \E x \in Ids : Top(x)
    BY <1>3, Greatest
  <2>2. Max(Ids) = CHOOSE x \in Ids : Top(x)
    BY DEF Max
  <2> HIDE DEF Top
  <2>3. Max(Ids) \in Ids /\ Top(Max(Ids))
    BY <2>1, <2>2
  <2> QED
    BY <2>3 DEF Top
<1>5. first \in Nat /\ M \in Nat \ {0} /\ first + M - 1 \in Int
      /\ \A n \in Ids : n \in Nat /\ n < first
  <2>1. PICK x : x = Max(Ids)
    OBVIOUS
  <2>2. x \in Nat /\ first = x + 1 /\ \A n \in Ids : n \in Nat /\ x >= n
    BY <1>3, <1>4, <2>1
  <2>3. M \in Nat \ {0}
    BY SearchAssumption
  <2> HIDE DEF first, new
  <2> QED
    BY <2>2, <2>3
<1> HIDE DEF first
<1>6. /\ new \subseteq Nat /\ IsFiniteSet(new) /\ \A n \in new : n \notin Ids
  <2>1. IsFiniteSet(first .. first + M - 1)
    BY <1>5, FS_Interval
  <2> QED
    BY <2>1, <1>5
<1> HIDE DEF new
<1>7. /\ Ids' = Ids \cup new
      /\ \A n \in Ids : born'[n] = born[n]
      /\ \A n \in new : born'[n].primary = ps[1]
  BY <1>1, <1>6 DEF Ids, Overlay
<1>8. Ids' \subseteq Nat /\ IsFiniteSet(Ids')
  <2>1. IsFiniteSet(Ids \cup new)
    BY <1>3, <1>6, FS_Union
  <2> QED
    BY <2>1, <1>3, <1>6, <1>7
<1>9. ps \in Seq(Nat) /\ ps # << >> /\ ps[1] \in Range(ps)
  <2>1. ps \in Seq(Nat) /\ ps # << >>
    BY <1>1, <1>2, RoundParentsFacts
  <2>2. 1 \in DOMAIN ps
    BY <2>1
  <2> QED
    BY <2>1, <2>2 DEF Range
<1>10. batch' \in Outcomes /\ DOMAIN batch' = new
  BY <1>2, <1>6 DEF Outcomes
<1>11. mem \in Memories /\ no \in BOOLEAN
  BY DEF RunnerTypeInv
<1> HIDE DEF no
<1>12. /\ mem' \in Memories /\ mem'.status = mem.status
       /\ mem'.frontier = mem.frontier /\ mem'.snap = mem.snap
       /\ mem'.judge = mem.judge /\ mem'.loaded = mem.loaded
  <2>1. mem.round + 1 \in Nat
    BY <1>11 DEF Memories
  <2> QED
    BY <2>1, <1>2, <1>11 DEF Memories
<1>13. RunnerTypeInv'
  BY <1>2, <1>6, <1>8, <1>9, <1>10, <1>12 DEF RunnerTypeInv
<1>14. RoundInv'
  BY <1>2, <1>7, <1>9, <1>10, <1>12 DEF RoundInv
<1>15. LeakInv'
  BY <1>2, <1>10 DEF LeakInv
<1>16. FrontierInv'
  BY <1>2, <1>12 DEF FrontierInv, Resumable, Restorable, Nodes
<1>17. EvalInv'
  BY <1>2, <1>7, <1>12, EvalKept DEF EvalInv
<1> QED
  BY <1>13, <1>14, <1>15, <1>16, <1>17

LEMMA SaveManifestFacts ==
  ASSUME NEW files \in Seq(FilesJobs), NEW m \in Memories, queue \in Queues,
         SaveManifest(files, << >>, m)
  PROVE  /\ queue' \in Queues /\ queue'.files = queue.files \o files
         /\ queue'.evals = queue.evals
<1>1. /\ queue.files \in Seq(FilesJobs) /\ queue.evals \in Seq(EvalJobs)
      /\ queue.manifests \in Seq(Manifests)
  BY QueueFacts
<1>2. ManifestOf(m) \in Manifests
  BY ManifestFacts
<1>3. /\ queue.files \o files \in Seq(FilesJobs)
      /\ queue.evals \o << >> = queue.evals
      /\ Append(queue.manifests, ManifestOf(m)) \in Seq(Manifests)
  BY <1>1, <1>2
<1>4. queue' = [ files |-> queue.files \o files,
                 evals |-> queue.evals \o << >>,
                 manifests |-> Append(queue.manifests, ManifestOf(m)) ]
  BY DEF SaveManifest
<1> QED
  BY <1>1, <1>3, <1>4 DEF Queues

LEMMA ManifestSaved ==
  ASSUME NEW m \in Memories, queue \in Queues,
         SaveManifest(<< >>, << >>, m)
  PROVE  /\ queue' \in Queues /\ queue'.files = queue.files
         /\ queue'.evals = queue.evals
<1>1. << >> \in Seq(FilesJobs) /\ queue.files \in Seq(FilesJobs)
  BY QueueFacts
<1>2. /\ queue' \in Queues /\ queue'.files = queue.files \o << >>
      /\ queue'.evals = queue.evals
  BY <1>1, SaveManifestFacts
<1> QED
  BY <1>1, <1>2

LEMMA ArchiveFacts ==
  ASSUME parents \in Seq(Nat), NEW status \in StatusMaps
  PROVE  /\ Archive(status) \in StatusMaps /\ ArchivedFiles \in StatusMaps
         /\ DOMAIN Archive(status) = DOMAIN status
         /\ DOMAIN ArchivedFiles = Range(parents)
         /\ \A n \in DOMAIN status : n \notin Range(parents) =>
                                       Archive(status)[n] = status[n]
<1>1. Range(parents) \subseteq Nat
  BY DEF Range
<1>2. ArchivedFiles \in [ Range(parents) -> Marks ]
  BY DEF ArchivedFiles, Marks
<1>3. /\ DOMAIN status \subseteq Nat
      /\ \A n \in DOMAIN status : status[n] \in Marks
  BY StatusMapFacts
<1>4. Archive(status) \in [ DOMAIN status -> Marks ]
  BY <1>3 DEF Archive, Marks
<1>5. \A n \in DOMAIN status : n \notin Range(parents) =>
                                 Archive(status)[n] = status[n]
  BY DEF Archive
<1> HIDE DEF Marks
<1>6. Archive(status) \in StatusMaps /\ ArchivedFiles \in StatusMaps
  BY <1>1, <1>2, <1>3, <1>4, StatusMapFacts
<1> QED
  BY <1>2, <1>4, <1>5, <1>6

LEMMA OthersFacts ==
  ASSUME NEW s \in Seq(Nat)
  PROVE  /\ Others(s) \in Seq(Nat)
         /\ Range(Others(s)) \subseteq Range(s) \ Range(parents)
BY FilterFacts DEF Others

LEMMA PeacefulExitHolds ==
  ASSUME RunnerInv, PeacefulExit
  PROVE  RunnerInv'
<1> USE DEF RunnerInv
<1> DEFINE rest == Others(mem.frontier)
           status == Archive(mem.status)
           go == mem.go /\ ~(mem.round = 1 /\ config.gt)
           best == IF rest # << >> THEN rest[1] ELSE parents[1]
           job == FilesJob(ArchivedFiles, {})
<1>1. PICK m :
        /\ m = [ mem EXCEPT !.status = status, !.frontier = rest,
                            !.go = go, !.best = best ]
        /\ pc = "round" /\ mem' = m
        /\ SaveManifest(<< job >>, << >>, m)
        /\ sessions' = sessions \ DOMAIN batch
        /\ pc' = "loop" /\ batch' = EmptyMap /\ parents' = << >>
        /\ UNCHANGED << config, outcome, born, terminal, nodeImages, disk,
                        left >>
  BY DEF PeacefulExit, NoRound, imageVars
<1>2. /\ mem \in Memories /\ queue \in Queues /\ parents \in Seq(Nat)
      /\ parents # << >> /\ mem.status \in StatusMaps
      /\ mem.frontier \in Seq(Nat) /\ mem.go \in BOOLEAN
  BY <1>1 DEF RunnerTypeInv, RoundInv, Memories
<1>3. rest \in Seq(Nat) /\ Range(rest) \subseteq Range(mem.frontier)
                                                 \ Range(parents)
  BY <1>2, OthersFacts
<1>4. status \in StatusMaps /\ ArchivedFiles \in StatusMaps
      /\ DOMAIN status = DOMAIN mem.status
      /\ \A n \in DOMAIN status : n \notin Range(parents) =>
                                    status[n] = mem.status[n]
  BY <1>2, ArchiveFacts
<1>5. go \in BOOLEAN
  OBVIOUS
<1> HIDE DEF rest, status, go
<1>6. best \in Int
  BY <1>2, <1>3
<1> HIDE DEF best
<1>7. /\ m \in Memories /\ m.status = status /\ m.frontier = rest
      /\ m.snap = mem.snap /\ m.judge = mem.judge /\ m.loaded = mem.loaded
  BY <1>1, <1>2, <1>3, <1>4, <1>5, <1>6 DEF Memories
<1>8. job \in FilesJobs /\ job.judge = {}
  BY <1>4, FilesJobFacts
<1> HIDE DEF job
<1>9. /\ queue' \in Queues /\ queue'.files = queue.files \o << job >>
      /\ queue'.evals = queue.evals
  <2>1. << job >> \in Seq(FilesJobs)
    BY <1>8
  <2> QED
    BY <2>1, <1>1, <1>2, <1>7, SaveManifestFacts
<1>10. batch' \in Outcomes /\ DOMAIN batch' = {} /\ parents' \in Seq(Nat)
  BY <1>1, NoBatch
<1>11. RunnerTypeInv'
  BY <1>1, <1>7, <1>9, <1>10 DEF RunnerTypeInv, Ids
<1>12. RoundInv'
  BY <1>1, <1>10 DEF RoundInv
<1>13. LeakInv'
  BY <1>1, <1>10 DEF LeakInv
<1>14. FrontierInv'
  <2>1. Nodes' = Nodes /\ Nodes = DOMAIN mem.status
    BY <1>1, <1>4, <1>7 DEF Nodes
  <2> SUFFICES ASSUME NEW n \in Range(rest) \cap (Nodes \ mem.loaded)
               PROVE  Resumable(n)'
    BY <1>1, <1>7, <2>1 DEF FrontierInv
  <2>2. n \in Range(mem.frontier) \cap (Nodes \ mem.loaded)
        /\ mem'.status[n] = mem.status[n]
    BY <2>1, <1>1, <1>3, <1>4, <1>7
  <2>3. Resumable(n)
    BY <2>2, <1>1 DEF FrontierInv
  <2> QED
    BY <2>2, <2>3, <1>1, <1>7 DEF Resumable, Restorable
<1>15. EvalInv'
  <2>1. config.gt =>
          \A i \in DOMAIN queue'.files : queue'.files[i].judge \subseteq {Root}
    <3>1. queue.files \in Seq(FilesJobs)
      BY <1>2, QueueFacts
    <3>2. ASSUME NEW i \in DOMAIN queue'.files
          PROVE  \/ i \in DOMAIN queue.files
                    /\ queue'.files[i] = queue.files[i]
                 \/ queue'.files[i] = job
      BY <3>1, <1>8, <1>9
    <3> QED
      BY <3>2, <1>8 DEF EvalInv
  <2> QED
    BY <2>1, <1>1, <1>7, <1>9, EvalKept DEF Ids
<1> QED
  BY <1>11, <1>12, <1>13, <1>14, <1>15

(* What a round leaves behind: its branches are known nodes with outcomes. *)
LEMMA RoundBranchFacts ==
  ASSUME RunnerTypeInv, RoundInv, pc = "round",
         NEW chosen \in SUBSET ValidBranches
  PROVE  /\ ValidBranches \subseteq DOMAIN batch /\ ValidBranches \subseteq Ids
         /\ ValidBranches \subseteq Nat /\ chosen \subseteq Nat
         /\ IsFiniteSet(chosen)
         /\ NewStatus(chosen) \in StatusMaps
         /\ DOMAIN NewStatus(chosen) = ValidBranches
         /\ \A n \in ValidBranches : n \notin chosen =>
                                       NewStatus(chosen)[n] = "dropped"
<1>1. /\ DOMAIN batch \subseteq Ids /\ Ids \subseteq Nat /\ IsFiniteSet(Ids)
      /\ \A n \in DOMAIN batch : batch[n] \in {"error", "paused", "finished"}
  <2>1. batch \in Outcomes /\ \A n \in DOMAIN batch : n \in Ids
    BY DEF RunnerTypeInv, RoundInv
  <2>2. \A n \in DOMAIN batch : batch[n] \in {"error", "paused", "finished"}
    BY <2>1 DEF Outcomes
  <2> QED
    BY <2>1, <2>2 DEF RunnerTypeInv
<1>2. ValidBranches \subseteq DOMAIN batch
      /\ \A n \in ValidBranches : batch[n] \in {"paused", "finished"}
  BY <1>1 DEF ValidBranches
<1> HIDE DEF Ids
<1>3. IsFiniteSet(chosen)
  <2>1. chosen \subseteq Ids
    BY <1>1, <1>2
  <2> QED
    BY <2>1, <1>1, FS_Subset, Zenon
<1>4. \A n \in ValidBranches :
        /\ n \notin chosen => NewStatus(chosen)[n] = "dropped"
        /\ NewStatus(chosen)[n] \in Marks
  BY <1>2 DEF NewStatus, Marks
<1>5. DOMAIN NewStatus(chosen) = ValidBranches
  BY DEF NewStatus
<1>6. NewStatus(chosen) \in [ ValidBranches -> Marks ]
  BY <1>4 DEF NewStatus
<1>7. NewStatus(chosen) \in StatusMaps
  <2>1. ValidBranches \in SUBSET Nat
    BY <1>1, <1>2
  <2> QED
    BY <2>1, <1>6, StatusMapFacts
<1> QED
  BY <1>1, <1>2, <1>3, <1>4, <1>5, <1>7

LEMMA FinishRoundHolds ==
  ASSUME RunnerInv, FinishRound
  PROVE  RunnerInv'
<1> USE DEF RunnerInv
<1>1. PICK regressed \in Regressions, chosen \in SUBSET ValidBranches :
        \E sub \in (IF config.gt \/ chosen = {} THEN {{}}
                    ELSE { {n} : n \in chosen }),
           best \in (IF chosen = {} THEN Range(parents) ELSE {mem.best}) :
          /\ mem' = AfterRound(chosen, best)
          /\ nodeImages' = nodeImages \cup chosen
          /\ terminal' = terminal \cup sub
          /\ sessions' = (sessions \ DOMAIN batch) \cup sub
          /\ queue' = [ queue EXCEPT
               !.files = Append(@, RoundFiles(chosen)),
               !.evals = IF config.gt
                         THEN Append(@, EvalJob(ValidBranches, mem.round))
                         ELSE @ ]
  BY DEF FinishRound
<1>picked. PICK sub \in (IF config.gt \/ chosen = {} THEN {{}}
                    ELSE { {n} : n \in chosen }),
           best \in (IF chosen = {} THEN Range(parents) ELSE {mem.best}) :
        /\ mem' = AfterRound(chosen, best)
        /\ nodeImages' = nodeImages \cup chosen
        /\ terminal' = terminal \cup sub
        /\ sessions' = (sessions \ DOMAIN batch) \cup sub
        /\ queue' = [ queue EXCEPT
             !.files = Append(@, RoundFiles(chosen)),
             !.evals = IF config.gt
                       THEN Append(@, EvalJob(ValidBranches, mem.round))
                       ELSE @ ]
  BY <1>1
<1>moved. /\ pc = "round" /\ pc' = "gate"
      /\ UNCHANGED << config, outcome, born, batch, parents, disk, left >>
  BY DEF FinishRound
<1> DEFINE status == Overlay(Archive(mem.status), NewStatus(chosen))
           front == InOrder(chosen) \o Others(mem.frontier)
           m == AfterRound(chosen, best)
           job == RoundFiles(chosen)
           more == IF config.gt
                   THEN Append(queue.evals, EvalJob(ValidBranches, mem.round))
                   ELSE queue.evals
<1>2. /\ mem' = m /\ pc = "round" /\ pc' = "gate"
      /\ nodeImages' = nodeImages \cup chosen
      /\ terminal' = terminal \cup sub
      /\ sessions' = (sessions \ DOMAIN batch) \cup sub
      /\ queue' = [ queue EXCEPT !.files = Append(@, job), !.evals = more ]
      /\ UNCHANGED << config, outcome, born, batch, parents, disk, left >>
  BY <1>picked, <1>moved
<1>3. /\ mem \in Memories /\ queue \in Queues /\ parents \in Seq(Nat)
      /\ parents # << >> /\ mem.status \in StatusMaps
      /\ mem.frontier \in Seq(Nat) /\ mem.best \in Int /\ mem.round \in Nat
      /\ mem.finished \subseteq Nat /\ mem.snap \subseteq Nat
      /\ mem.judge \subseteq Nat /\ config.gt \in BOOLEAN
  BY <1>2 DEF RunnerTypeInv, RoundInv, Memories
<1>4. /\ ValidBranches \subseteq DOMAIN batch /\ ValidBranches \subseteq Ids
      /\ ValidBranches \subseteq Nat /\ chosen \subseteq Nat
      /\ IsFiniteSet(chosen)
      /\ NewStatus(chosen) \in StatusMaps
      /\ DOMAIN NewStatus(chosen) = ValidBranches
      /\ \A n \in ValidBranches : n \notin chosen =>
                                    NewStatus(chosen)[n] = "dropped"
  BY <1>2, RoundBranchFacts
<1>5. /\ Archive(mem.status) \in StatusMaps /\ ArchivedFiles \in StatusMaps
      /\ DOMAIN Archive(mem.status) = Nodes
      /\ \A n \in Nodes : n \notin Range(parents) =>
                            Archive(mem.status)[n] = mem.status[n]
  BY <1>3, ArchiveFacts DEF Nodes
<1>6. /\ status \in StatusMaps /\ DOMAIN status = Nodes \cup ValidBranches
      /\ \A n \in ValidBranches : n \notin chosen => status[n] = "dropped"
      /\ \A n \in Nodes \ ValidBranches :
           n \notin Range(parents) => status[n] = mem.status[n]
  <2>1. status \in StatusMaps
    BY <1>4, <1>5, OverlayFacts
  <2>2. /\ DOMAIN status = Nodes \cup ValidBranches
        /\ \A n \in ValidBranches : status[n] = NewStatus(chosen)[n]
        /\ \A n \in Nodes \ ValidBranches :
             status[n] = Archive(mem.status)[n]
    BY <1>4, <1>5 DEF Overlay
  <2> QED
    BY <2>1, <2>2, <1>4, <1>5
<1> HIDE DEF status
<1>7. /\ front \in Seq(Nat)
      /\ \A n \in Range(front) :
           n \in chosen \/ n \in Range(mem.frontier) \ Range(parents)
  <2>1. InOrder(chosen) \in Seq(Nat) /\ Range(InOrder(chosen)) \subseteq chosen
    BY <1>4, InOrderFacts
  <2>2. Others(mem.frontier) \in Seq(Nat)
        /\ Range(Others(mem.frontier)) \subseteq Range(mem.frontier)
                                                 \ Range(parents)
    BY <1>3, OthersFacts
  <2>3. PICK a, b : a = InOrder(chosen) /\ b = Others(mem.frontier)
    OBVIOUS
  <2>4. a \in Seq(Nat) /\ b \in Seq(Nat) /\ front = a \o b
    BY <2>1, <2>2, <2>3
  <2> HIDE DEF front
  <2>5. \A n \in Range(front) : n \in Range(a) \/ n \in Range(b)
    BY <2>4 DEF Range
  <2> QED
    BY <2>1, <2>2, <2>3, <2>4, <2>5
<1> DEFINE alive == { n \in DOMAIN status :
                        status[n] \in {"frontier", "finished"} }
           done == mem.finished \cup { n \in chosen : batch[n] = "finished" }
           next == Filter(front, alive)
<1> HIDE DEF front
<1>8. next \in Seq(Nat) /\ Range(next) \subseteq Range(front)
  BY <1>7, FilterFacts
<1>9. done \subseteq Nat /\ best \in Int
  <2>1. Range(parents) \subseteq Int
    BY <1>3 DEF Range
  <2>2. done \subseteq Nat
    BY <1>3, <1>4
  <2>3. best \in Int
    BY <2>1, <1>3
  <2> QED
    BY <2>2, <2>3
<1>10. m = [ mem EXCEPT !.status = status, !.frontier = next,
                        !.finished = done, !.best = best,
                        !.snap = @ \cup chosen,
                        !.judge = @ \cup ValidBranches ]
  BY DEF AfterRound, status, front
<1> HIDE DEF alive, done, next, m
<1>11. /\ m \in Memories /\ m.status = status /\ m.frontier = next
       /\ m.snap = mem.snap \cup chosen
       /\ m.judge = mem.judge \cup ValidBranches /\ m.loaded = mem.loaded
  BY <1>3, <1>4, <1>6, <1>8, <1>9, <1>10 DEF Memories
<1>12. job \in FilesJobs /\ (config.gt => job.judge = {})
  <2> DEFINE files == FilesJob(Overlay(NewStatus(chosen), ArchivedFiles),
                               chosen)
  <2>1. files \in FilesJobs /\ files.judge = {}
    <3>1. Overlay(NewStatus(chosen), ArchivedFiles) \in StatusMaps
      BY <1>4, <1>5, OverlayFacts
    <3> QED
      BY <3>1, <1>4, FilesJobFacts
  <2>2. {mem.round} \in RoundSets
    BY <1>3, FS_Singleton DEF RoundSets
  <2>3. job = IF config.gt
              THEN [ files EXCEPT !.messages = ValidBranches ]
              ELSE [ files EXCEPT !.judge = ValidBranches,
                                  !.rounds = {mem.round} ]
    BY DEF RoundFiles
  <2> HIDE DEF ValidBranches, files, job
  <2> QED
    BY <2>1, <2>2, <2>3, <1>4 DEF FilesJobs
<1>13. EvalJob(ValidBranches, mem.round) \in EvalJobs
       /\ EvalJob(ValidBranches, mem.round).judge = ValidBranches
  BY <1>3, <1>4 DEF EvalJob, EvalJobs
<1>15. /\ queue.files \in Seq(FilesJobs) /\ queue.evals \in Seq(EvalJobs)
       /\ queue.manifests \in Seq(Manifests)
  BY <1>3, QueueFacts
<1>16. more \in Seq(EvalJobs)
  BY <1>13, <1>15
<1> HIDE DEF job, more
<1>17. /\ queue' \in Queues /\ queue'.files = Append(queue.files, job)
       /\ queue'.evals = more
  <2>1. Append(queue.files, job) \in Seq(FilesJobs)
    BY <1>12, <1>15
  <2> QED
    BY <2>1, <1>2, <1>3, <1>16 DEF Queues
<1>18. sub \subseteq chosen
  OBVIOUS
<1>19. RunnerTypeInv'
  <2>1. /\ terminal' \subseteq Nat /\ sessions' \subseteq Nat
        /\ nodeImages' \subseteq Nat
    BY <1>2, <1>4, <1>18 DEF RunnerTypeInv
  <2> QED
    BY <2>1, <1>2, <1>11, <1>17 DEF RunnerTypeInv, Ids
<1>20. RoundInv'
  BY <1>2 DEF RoundInv
<1>21. LeakInv'
  BY <1>2 DEF LeakInv
<1>22. FrontierInv'
  <2>1. Nodes' = Nodes \cup ValidBranches
    BY <1>2, <1>6, <1>11 DEF Nodes
  <2> SUFFICES ASSUME NEW n \in Range(next), n \in Nodes \cup ValidBranches,
                      n \notin mem.loaded, status[n] = "frontier"
               PROVE  n \in mem'.snap \cap mem'.judge /\ Restorable(n)'
    BY <2>1, <1>2, <1>11 DEF FrontierInv, Resumable
  <2>2. CASE n \in chosen
    BY <2>2, <1>2, <1>11 DEF Restorable
  <2>3. CASE n \notin chosen
    <3>1. n \in Range(mem.frontier) \ Range(parents)
      BY <2>3, <1>7, <1>8
    <3>2. n \notin ValidBranches
      BY <2>3, <1>6
    <3>3. n \in Nodes /\ mem.status[n] = "frontier"
      BY <3>1, <3>2, <1>6
    <3>4. Resumable(n)
      BY <3>1, <3>3, <1>2 DEF FrontierInv
    <3> QED
      BY <3>3, <3>4, <1>2, <1>11 DEF Resumable, Restorable
  <2> QED
    BY <2>2, <2>3
<1>23. EvalInv'
  <2>1. CASE ~config.gt
    BY <2>1, <1>2 DEF EvalInv, Ids
  <2>2. CASE config.gt
    <3>1. PICK k : k = Len(queue.evals) /\ k \in Nat
                   /\ DOMAIN queue.evals = 1 .. k
      BY <1>15
    <3>2. /\ DOMAIN queue'.evals = 1 .. k + 1 /\ Len(queue'.evals) = k + 1
          /\ \A i \in 1 .. k : queue'.evals[i] = queue.evals[i]
          /\ queue'.evals[k + 1].judge = ValidBranches
      <4>1. queue'.evals = Append(queue.evals,
                                  EvalJob(ValidBranches, mem.round))
        BY <2>2, <1>17 DEF more
      <4> HIDE DEF ValidBranches
      <4> QED
        BY <4>1, <3>1, <1>13, <1>15
    <3>3. \A i \in 0 .. k : Evaluated(i) \subseteq Evaluated(i)'
      <4>1. \A i \in 0 .. k : \A l \in 1 .. i : l \in 1 .. k
        BY <3>1
      <4> QED
        BY <4>1, <3>2, <1>2 DEF Evaluated
    <3>4. Evaluated(k) \cup ValidBranches \subseteq Evaluated(k + 1)'
      <4>1. k + 1 \in 1 .. k + 1 /\ \A l \in 1 .. k : l \in 1 .. k + 1
        BY <3>1
      <4> QED
        BY <4>1, <3>2, <1>2, <1>4 DEF Evaluated
    <3>5. mem.judge \subseteq {Root} \cup Evaluated(k)
      BY <2>2, <3>1 DEF EvalInv
    <3>6. mem'.judge \subseteq {Root} \cup Evaluated(Len(queue.evals))'
      BY <3>2, <3>4, <3>5, <1>2, <1>11
    <3>7. ASSUME NEW i \in DOMAIN queue'.files
          PROVE  queue'.files[i].judge \subseteq {Root}
      <4>1. \/ i \in DOMAIN queue.files /\ queue'.files[i] = queue.files[i]
            \/ queue'.files[i] = job
        BY <1>12, <1>15, <1>17
      <4> QED
        BY <4>1, <2>2, <1>12 DEF EvalInv
    <3>8. ASSUME NEW i \in 1 .. k + 1, NEW n \in queue'.evals[i].judge
          PROVE  n \in Ids /\ born[n].primary
                                \in {None, Root} \cup Evaluated(i - 1)'
      <4>1. CASE i \in 1 .. k
        <5>1. n \in Ids
              /\ born[n].primary \in {None, Root} \cup Evaluated(i - 1)
          BY <4>1, <3>1, <3>2, <3>8, <2>2 DEF EvalInv
        <5>2. i - 1 \in 0 .. k
          BY <4>1, <3>1
        <5> QED
          BY <5>1, <5>2, <3>3
      <4>2. CASE i = k + 1
        <5>1. n \in ValidBranches /\ i - 1 = k /\ k \in 0 .. k
          BY <4>2, <3>1, <3>2, <3>8
        <5>2. n \in Ids /\ born[n].primary = parents[1]
              /\ parents[1] \in mem.judge
          BY <5>1, <1>2, <1>4 DEF RoundInv
        <5> QED
          BY <5>1, <5>2, <3>3, <3>5
      <4> QED
        BY <4>1, <4>2, <3>1
    <3> QED
      BY <3>2, <3>6, <3>7, <3>8, <1>2 DEF EvalInv, Ids
  <2> QED
    BY <2>1, <2>2, <1>3
<1> QED
  BY <1>19, <1>20, <1>21, <1>22, <1>23

LEMMA EndRoundHolds ==
  ASSUME RunnerInv, NEW go \in BOOLEAN, EndRound(go)
  PROVE  RunnerInv'
<1> USE DEF RunnerInv
<1>1. PICK m :
        /\ m = [ mem EXCEPT !.go = go ]
        /\ pc = "gate" /\ mem' = m
        /\ nodeImages' = Sweep(KeepTags(m))
        /\ SaveManifest(<< >>, << >>, m)
        /\ pc' = "loop" /\ batch' = EmptyMap /\ parents' = << >>
        /\ UNCHANGED << config, outcome, born, terminal, sessions, disk,
                        left >>
  BY DEF EndRound, NoRound
<1>2. mem \in Memories /\ queue \in Queues
  BY DEF RunnerTypeInv
<1>3. /\ m \in Memories /\ m.status = mem.status
      /\ m.frontier = mem.frontier /\ m.snap = mem.snap
      /\ m.judge = mem.judge /\ m.loaded = mem.loaded
  BY <1>1, <1>2 DEF Memories
<1>4. /\ queue' \in Queues /\ queue'.files = queue.files
      /\ queue'.evals = queue.evals
  BY <1>1, <1>2, <1>3, ManifestSaved
<1>5. RunnerTypeInv'
  BY <1>1, <1>3, <1>4, NoBatch DEF RunnerTypeInv, Ids, Sweep
<1>6. RoundInv'
  BY <1>1, NoBatch DEF RoundInv
<1>7. LeakInv'
  BY <1>1 DEF LeakInv
<1>8. FrontierInv'
  <2>1. Nodes' = Nodes
    BY <1>1, <1>3 DEF Nodes
  <2> SUFFICES ASSUME NEW n \in Range(mem.frontier) \cap (Nodes \ mem.loaded)
               PROVE  Resumable(n)'
    BY <2>1, <1>1, <1>3 DEF FrontierInv
  <2>2. Resumable(n)
    BY <1>1 DEF FrontierInv
  <2> QED
    BY <2>2, <1>1, <1>3 DEF Resumable, Restorable, KeepTags, Sweep
<1>9. EvalInv'
  BY <1>1, <1>3, <1>4, EvalKept DEF EvalInv, Ids
<1> QED
  BY <1>5, <1>6, <1>7, <1>8, <1>9

-----------------------------------------------------------------------------
(* TrajectorySearch: the end of run().                                     *)

LEMMA FinalizeHolds ==
  ASSUME RunnerInv, Finalize
  PROVE  RunnerInv'
<1> USE DEF RunnerInv
<1> DEFINE after(n) ==
             [ mem EXCEPT !.best = n,
                 !.frontier = IF mem.status[n] = "finished" THEN << n >>
                                                            ELSE @ ]
<1>0. PICK n \in FinalChoices :
        /\ pc = "final" /\ WorkDone /\ mem' = after(n)
        /\ SaveManifest(<< >>, << >>, after(n))
        /\ outcome' = "ok" /\ pc' = "close"
        /\ UNCHANGED << config, born, batch, parents, terminal, sessions,
                        nodeImages, disk, left >>
  BY DEF Finalize, imageVars
<1>1. PICK m :
        /\ m = after(n)
        /\ pc = "final" /\ WorkDone /\ mem' = m
        /\ SaveManifest(<< >>, << >>, m)
        /\ outcome' = "ok" /\ pc' = "close"
        /\ UNCHANGED << config, born, batch, parents, terminal, sessions,
                        nodeImages, disk, left >>
  BY <1>0
<1>2. mem \in Memories /\ queue \in Queues /\ disk \in Disks
  BY DEF RunnerTypeInv
<1>3. n \in Nat
  <2>1. Nodes \subseteq Nat
    BY <1>2, StatusMapFacts DEF Nodes, Memories
  <2>2. n \in Nodes
    BY DEF FinalChoices, Finished, LastTerminals
  <2> QED
    BY <2>1, <2>2
<1> DEFINE front == IF mem.status[n] = "finished" THEN << n >>
                                                  ELSE mem.frontier
<1>4. front \in Seq(Nat)
  BY <1>2, <1>3 DEF Memories
<1> HIDE DEF front
<1>5. m = [ mem EXCEPT !.best = n, !.frontier = front ]
  BY <1>1 DEF front
<1>6. m \in Memories /\ m.judge = mem.judge
  <2>1. n \in Int
    BY <1>3
  <2> QED
    BY <2>1, <1>2, <1>4, <1>5 DEF Memories
<1>7. /\ queue' \in Queues /\ queue'.files = queue.files
      /\ queue'.evals = queue.evals
  BY <1>1, <1>2, <1>6, ManifestSaved
<1>8. RunnerTypeInv'
  BY <1>1, <1>6, <1>7 DEF RunnerTypeInv, Ids
<1>9. RoundInv'
  BY <1>1 DEF RoundInv
<1>10. LeakInv'
  <2>1. outcome = "none" /\ terminal = {}
    BY <1>1 DEF LeakInv, WorkDone, RunnerTypeInv
  <2>2. sessions = {}
    BY <2>1, <1>1 DEF LeakInv
  <2> QED
    BY <2>1, <2>2, <1>1 DEF LeakInv
<1>11. FrontierInv'
  BY <1>1 DEF FrontierInv
<1>12. EvalInv'
  BY <1>1, <1>6, <1>7, EvalKept DEF EvalInv, Ids
<1> QED
  BY <1>8, <1>9, <1>10, <1>11, <1>12

(* An exception leaves the caches as they are.                             *)
LEMMA RaiseHolds ==
  ASSUME RunnerInv, Raise, mem' \in Memories, mem'.judge = mem.judge,
         nodeImages' \subseteq Nat,
         left' \in [ raise : Nat, kill : Nat, resume : Nat ]
  PROVE  RunnerInv'
<1> USE DEF RunnerInv
<1>1. /\ outcome' = "raised" /\ pc' = "close"
      /\ batch' = EmptyMap /\ parents' = << >>
      /\ UNCHANGED << config, born, queue, terminal, sessions, disk >>
  BY DEF Raise, NoRound
<1>2. RunnerTypeInv'
  BY <1>1, NoBatch DEF RunnerTypeInv, Ids
<1>3. RoundInv' /\ LeakInv' /\ FrontierInv'
  BY <1>1 DEF RoundInv, LeakInv, FrontierInv
<1>4. EvalInv'
  BY <1>1, EvalKept DEF EvalInv, Ids
<1> QED
  BY <1>2, <1>3, <1>4

(* Half a round's checkpoints are checkpoints of branches.                 *)
LEMMA CommittedFacts ==
  ASSUME RunnerTypeInv, NEW some \in CommittedSoFar
  PROVE  some \subseteq Nat
<1>1. some \subseteq DOMAIN batch
  BY DEF CommittedSoFar, ValidBranches
<1> QED
  BY <1>1 DEF RunnerTypeInv, Outcomes

LEMMA RoundRaisesHolds ==
  ASSUME RunnerInv, RoundRaises
  PROVE  RunnerInv'
<1>1. /\ Raise /\ mem' = mem /\ left.raise > 0
      /\ left' = [ left EXCEPT !.raise = @ - 1 ]
  BY DEF RoundRaises
<1>2. mem \in Memories /\ left \in [ raise : Nat, kill : Nat, resume : Nat ]
  BY DEF RunnerInv, RunnerTypeInv
<1>3. left' \in [ raise : Nat, kill : Nat, resume : Nat ]
  BY <1>1, <1>2
<1>4. nodeImages' \subseteq Nat
  BY CommittedFacts DEF RoundRaises, RunnerInv, RunnerTypeInv
<1> QED
  BY <1>1, <1>2, <1>3, <1>4, RaiseHolds

LEMMA LoopRaisesHolds ==
  ASSUME RunnerInv, LoopRaises
  PROVE  RunnerInv'
<1>1. /\ Raise /\ left' = left /\ nodeImages' = nodeImages
      /\ mem' = mem \/ mem' = [ mem EXCEPT !.round = @ + 1 ]
  BY DEF LoopRaises
<1>2. mem \in Memories /\ left \in [ raise : Nat, kill : Nat, resume : Nat ]
      /\ mem.round + 1 \in Nat /\ nodeImages \subseteq Nat
  BY DEF RunnerInv, RunnerTypeInv, Memories
<1>3. mem' \in Memories /\ mem'.judge = mem.judge
  BY <1>1, <1>2 DEF Memories
<1> QED
  BY <1>1, <1>2, <1>3, RaiseHolds

LEMMA FinalRaisesHolds ==
  ASSUME RunnerInv, FinalRaises
  PROVE  RunnerInv'
<1>1. Raise /\ left' = left /\ mem' = mem /\ nodeImages' = nodeImages
  BY DEF FinalRaises
<1>2. /\ mem \in Memories /\ nodeImages \subseteq Nat
      /\ left \in [ raise : Nat, kill : Nat, resume : Nat ]
  BY DEF RunnerInv, RunnerTypeInv
<1> QED
  BY <1>1, <1>2, RaiseHolds

LEMMA CloseHolds ==
  ASSUME RunnerInv, Close
  PROVE  RunnerInv'
<1> USE DEF RunnerInv
<1>1. /\ pc = "close" /\ WorkDone /\ nodeImages' = Sweep({})
      /\ SaveManifest(<< >>, << >>, mem) \/ queue' = queue
      /\ pc' = "shutdown"
      /\ UNCHANGED << config, outcome, born, batch, parents, mem, terminal,
                      sessions, disk, left >>
  BY DEF Close
<1>2. mem \in Memories /\ queue \in Queues
  BY DEF RunnerTypeInv
<1>3. /\ queue' \in Queues /\ queue'.files = queue.files
      /\ queue'.evals = queue.evals
  BY <1>1, <1>2, ManifestSaved
<1>4. RunnerTypeInv'
  BY <1>1, <1>3 DEF RunnerTypeInv, Ids, Sweep
<1>5. RoundInv' /\ LeakInv' /\ FrontierInv'
  BY <1>1, <1>3 DEF RoundInv, LeakInv, FrontierInv, WorkDone
<1>6. EvalInv'
  BY <1>1, <1>3, EvalKept DEF EvalInv, Ids
<1> QED
  BY <1>4, <1>5, <1>6

LEMMA ShutdownHolds ==
  ASSUME RunnerInv, Shutdown
  PROVE  RunnerInv'
<1> USE DEF RunnerInv
<1>1. /\ pc = "shutdown" /\ pc' = "exit"
      /\ UNCHANGED << config, outcome, born, batch, parents, mem, queue,
                      terminal, sessions, nodeImages, disk, left >>
  BY DEF Shutdown, imageVars
<1>2. RunnerTypeInv'
  BY <1>1 DEF RunnerTypeInv, Ids
<1>3. RoundInv' /\ LeakInv' /\ FrontierInv'
  BY <1>1 DEF RoundInv, LeakInv, FrontierInv
<1>4. EvalInv'
  BY <1>1, EvalKept DEF EvalInv, Ids
<1> QED
  BY <1>2, <1>3, <1>4

-----------------------------------------------------------------------------
(* TrajectorySearch: kills and restarts.                                   *)

LEMMA KillHolds ==
  ASSUME RunnerInv, Kill
  PROVE  RunnerInv'
<1> USE DEF RunnerInv
<1>1. /\ left.kill > 0 /\ left' = [ left EXCEPT !.kill = @ - 1 ]
      /\ pc' = "exit" /\ outcome' = "killed"
      /\ mem' = NewMem /\ queue' = NewQueue /\ terminal' = {}
      /\ batch' = EmptyMap /\ parents' = << >> /\ sessions' = {}
      /\ UNCHANGED << config, born, disk >>
  BY DEF Kill, NoRound
<1>2. left' \in [ raise : Nat, kill : Nat, resume : Nat ]
      /\ nodeImages' \subseteq Nat
  BY <1>1, CommittedFacts DEF RunnerTypeInv, Kill
<1>3. RunnerTypeInv'
  BY <1>1, <1>2, NoBatch, NewFacts DEF RunnerTypeInv, Ids
<1>4. RoundInv' /\ LeakInv' /\ FrontierInv'
  BY <1>1, NewFacts DEF RoundInv, LeakInv, FrontierInv
<1>5. EvalInv'
  BY <1>1, NewFacts DEF EvalInv, Ids
<1> QED
  BY <1>3, <1>4, <1>5

LEMMA ResumeHolds ==
  ASSUME RunnerInv, Resume
  PROVE  RunnerInv'
<1> USE DEF RunnerInv
<1> DEFINE kept == Ids \cap ({Root} \cup nodeImages \cup DOMAIN disk.node
                               \cup disk.manifest.ids)
<1>1. /\ pc = "exit" /\ left.resume > 0
      /\ left' = [ left EXCEPT !.resume = @ - 1 ]
      /\ pc' = "start" /\ outcome' = "none"
      /\ mem' = NewMem /\ batch' = EmptyMap /\ parents' = << >>
      /\ sessions' = {} /\ born' = Restrict(born, kept)
      /\ UNCHANGED << config, queue, terminal, nodeImages, disk >>
  BY DEF Resume, NoRound
<1>2. left' \in [ raise : Nat, kill : Nat, resume : Nat ]
  BY <1>1 DEF RunnerTypeInv
<1>3. Root \in kept /\ kept \subseteq Ids
  BY DEF EvalInv
<1> HIDE DEF kept
<1>4. Ids' = kept /\ \A n \in kept : born'[n] = born[n]
  BY <1>1 DEF Ids, Restrict
<1>5. kept \subseteq Nat /\ IsFiniteSet(kept)
  <2>1. Ids \subseteq Nat /\ IsFiniteSet(Ids)
    BY DEF RunnerTypeInv
  <2>2. IsFiniteSet(kept)
    BY <2>1, <1>3, FS_Subset, Zenon
  <2> QED
    BY <2>1, <2>2, <1>3
<1>6. RunnerTypeInv'
  BY <1>1, <1>2, <1>4, <1>5, NoBatch, NewFacts DEF RunnerTypeInv
<1>7. RoundInv' /\ LeakInv' /\ FrontierInv'
  BY <1>1, NewFacts DEF RoundInv, LeakInv, FrontierInv
<1>8. EvalInv'
  <2>1. queue'.files = << >> /\ queue'.evals = << >> /\ mem'.judge = {}
    BY <1>1, NewFacts DEF RoundInv
  <2>2. born'[Root].primary = None
    BY <1>3, <1>4 DEF EvalInv
  <2> QED
    BY <2>1, <2>2, <1>3, <1>4 DEF EvalInv
<1> QED
  BY <1>6, <1>7, <1>8

-----------------------------------------------------------------------------
(* TrajectorySearch: theorems.                                             *)

LEMMA RunnerStep ==
  ASSUME RunnerInv, [RunnerNext]_runnerVars
  PROVE  RunnerInv'
<1>1. CASE UNCHANGED runnerVars
  <2>1. UNCHANGED << config, pc, outcome, born, batch, parents, mem, queue,
                     terminal, sessions, nodeImages, disk, left >>
    BY <1>1 DEF runnerVars, imageVars
  <2>2. RunnerTypeInv'
    BY <2>1 DEF RunnerInv, RunnerTypeInv, Ids
  <2>3. RoundInv' /\ LeakInv'
    BY <2>1 DEF RunnerInv, RoundInv, LeakInv, Ids
  <2>4. FrontierInv'
    BY <2>1 DEF RunnerInv, FrontierInv, Resumable, Restorable, Nodes
  <2>5. EvalInv'
    BY <2>1, EvalKept DEF RunnerInv, EvalInv, Ids
  <2> QED
    BY <2>2, <2>3, <2>4, <2>5 DEF RunnerInv
<1>2. CASE RunnerNext
  BY <1>2, WriteFilesHolds, EvaluateRoundHolds, WriteManifestHolds,
     FinishTerminalHolds, InitializeRootHolds, LoadManifestHolds,
     LeaveLoopHolds, SampleBranchesHolds, PeacefulExitHolds,
     FinishRoundHolds, EndRoundHolds, FinalizeHolds, RoundRaisesHolds,
     LoopRaisesHolds, FinalRaisesHolds, CloseHolds, ShutdownHolds,
     KillHolds, ResumeHolds DEF RunnerNext
<1> QED
  BY <1>1, <1>2

(* The inductive invariant of the search runner: its types, what a round,  *)
(* an executor and a dead process leave behind, and which evaluations a    *)
(* waiting one builds on.                                                  *)
THEOREM RunnerInvariance == RunnerSpec => []RunnerInv
<1>1. RunnerInit => RunnerInv
  BY RunnerInitHolds
<1>2. RunnerInv /\ [RunnerNext]_runnerVars => RunnerInv'
  BY RunnerStep
<1> QED
  BY <1>1, <1>2, PTL DEF RunnerSpec

(* Whatever the sweep of checkpoint images removes, the frontier nodes     *)
(* this process may still expand keep image, snapshot and judge payload.   *)
THEOREM FrontierStaysRestorable == RunnerSpec => []FrontierRestorable
<1>1. RunnerInv => FrontierRestorable
  BY DEF RunnerInv, FrontierInv, Resumable, FrontierRestorable
<1> QED
  BY <1>1, RunnerInvariance, PTL

(* The sweeps: which steps touch a checkpoint, and what is cached then.    *)
LEMMA SweepStep ==
  ASSUME RunnerInv, SweepInv, [RunnerNext]_runnerVars
  PROVE  SweepInv'
<1>1. mem \in Memories /\ outcome \in {"none", "ok", "raised", "killed"}
  BY DEF RunnerInv, RunnerTypeInv
<1>2. outcome # "none" => pc \in {"close", "shutdown", "exit"}
  BY DEF RunnerInv, LeakInv
<1>3. CASE \/ WriteFiles \/ EvaluateRound \/ WriteManifest
           \/ \E n \in terminal : FinishTerminal(n)
           \/ LeaveLoop \/ SampleBranches \/ PeacefulExit \/ Shutdown
           \/ UNCHANGED runnerVars
  <2>1. /\ UNCHANGED << nodeImages, inherited, outcome, config >>
        /\ \/ pc' = pc
           \/ pc' \in {"loop", "round", "final"}
           \/ pc = "shutdown" /\ pc' = "exit"
    BY <1>3 DEF WriteFiles, EvaluateRound, WriteManifest, FinishTerminal,
       LeaveLoop, SampleBranches, PeacefulExit, Shutdown, runnerVars,
       imageVars
  <2>2. mem'.snap = mem.snap
    <3>1. CASE SampleBranches
      BY <1>1, <3>1 DEF SampleBranches, Memories
    <3>2. CASE PeacefulExit
      BY <1>1, <3>2 DEF PeacefulExit, Memories
    <3>3. CASE mem' = mem
      BY <3>3
    <3>4. mem' = mem \/ SampleBranches \/ PeacefulExit
      BY <1>3 DEF WriteFiles, EvaluateRound, WriteManifest, FinishTerminal,
         LeaveLoop, Shutdown, runnerVars
    <3> QED
      BY <3>1, <3>2, <3>3, <3>4
  <2> QED
    BY <2>1, <2>2 DEF SweepInv
<1>4. CASE InitializeRoot \/ LoadManifest
  <2>1. /\ UNCHANGED << nodeImages, inherited >>
        /\ pc = "start" /\ pc' = "loop"
    BY <1>4 DEF InitializeRoot, LoadManifest, imageVars
  <2> QED
    BY <2>1 DEF SweepInv
<1>5. CASE FinishRound
  <2>1. PICK chosen, best :
          /\ mem' = AfterRound(chosen, best)
          /\ nodeImages' = nodeImages \cup chosen
          /\ UNCHANGED << inherited, outcome >> /\ pc' = "gate"
    BY <1>5 DEF FinishRound
  <2>2. mem'.snap = mem.snap \cup chosen
    BY <1>1, <2>1 DEF AfterRound, Memories
  <2> QED
    BY <2>1, <2>2 DEF SweepInv
<1>6. CASE \E go \in BOOLEAN : EndRound(go)
  <2>1. PICK go \in BOOLEAN :
          /\ mem' = [ mem EXCEPT !.go = go ] /\ pc' = "loop"
          /\ nodeImages' = Sweep(KeepTags([ mem EXCEPT !.go = go ]))
          /\ UNCHANGED << inherited, outcome >>
    BY <1>6 DEF EndRound
  <2>2. mem'.snap = mem.snap /\ nodeImages' \subseteq nodeImages
    BY <1>1, <2>1 DEF Sweep, Memories
  <2> QED
    BY <2>1, <2>2 DEF SweepInv
<1>7. CASE Finalize
  <2>1. /\ UNCHANGED << nodeImages, inherited >>
        /\ outcome' = "ok" /\ pc = "final" /\ pc' = "close"
    BY <1>7 DEF Finalize, imageVars
  <2>2. mem'.snap = mem.snap /\ outcome = "none"
    BY <1>1, <1>2, <1>7, <2>1 DEF Finalize, Memories
  <2> QED
    BY <2>1, <2>2 DEF SweepInv
<1>8. CASE RoundRaises \/ LoopRaises \/ FinalRaises
  <2>1. outcome' = "raised" /\ pc' = "close"
    BY <1>8 DEF RoundRaises, LoopRaises, FinalRaises, Raise
  <2> QED
    BY <2>1 DEF SweepInv
<1>9. CASE Close
  <2>1. /\ nodeImages' = Sweep({}) /\ pc' = "shutdown"
        /\ UNCHANGED << config, outcome, mem, inherited >>
    BY <1>9 DEF Close
  <2> QED
    BY <2>1 DEF SweepInv, Sweep
<1>10. CASE Kill
  BY <1>10 DEF Kill, SweepInv
<1>11. CASE Resume
  BY <1>11 DEF Resume, SweepInv
<1> QED
  BY <1>3, <1>4, <1>5, <1>6, <1>7, <1>8, <1>9, <1>10, <1>11 DEF RunnerNext

(* A run that succeeds has closed every session, and leaves no checkpoint  *)
(* of its own and none it knows of its predecessors; with docker no run    *)
(* that ends by itself leaves any.                                         *)
THEOREM NothingIsLeaked == RunnerSpec => []NothingLeaks
<1>1. RunnerInit => SweepInv
  BY DEF RunnerInit, SweepInv
<1>2. RunnerInv /\ SweepInv /\ [RunnerNext]_runnerVars => SweepInv'
  BY SweepStep
<1>3. RunnerInv /\ SweepInv => NothingLeaks
  <2> SUFFICES ASSUME RunnerInv, SweepInv PROVE NothingLeaks
    OBVIOUS
  <2>1. LeakInv
    BY DEF RunnerInv
  <2>2. pc = "exit" /\ outcome = "ok" => sessions = {}
    BY <2>1 DEF LeakInv
  <2>3. pc = "exit" /\ outcome = "ok" =>
          nodeImages \subseteq inherited \ mem.snap
    BY DEF SweepInv
  <2> QED
    BY <2>2, <2>3 DEF SweepInv, NothingLeaks
<1> QED
  BY <1>1, <1>2, <1>3, RunnerInvariance, PTL DEF RunnerSpec

(* The one evaluation worker and the order in which rounds are submitted   *)
(* give every branch a primary parent that was evaluated before it, over   *)
(* kills and restarts.                                                     *)
THEOREM ParentsAreEvaluatedFirst == RunnerSpec => ParentEvaluatedFirst
<1> DEFINE Judged == \A n \in disk'.judge \ disk.judge :
                       born[n].primary \in {None, Root} \cup disk.judge
<1>1. ASSUME RunnerInv, [RunnerNext]_runnerVars, config.gt
      PROVE  Judged
  <2>1. CASE WriteFiles
    <3> DEFINE j == Head(queue.files)
    <3>1. queue.files # << >> /\ disk \in Disks /\ queue \in Queues
      BY <2>1, <1>1 DEF WriteFiles, RunnerInv, RunnerTypeInv
    <3>2. 1 \in DOMAIN queue.files /\ j = queue.files[1]
      BY <3>1, QueueFacts
    <3>3. disk' = [ disk EXCEPT !.node = Overlay(@, j.status),
                                !.snap = @ \cup j.snap,
                                !.messages = @ \cup j.messages,
                                !.judge = @ \cup j.judge,
                                !.rounds = @ \cup j.rounds ]
      BY <2>1 DEF WriteFiles
    <3> HIDE DEF j
    <3>4. disk'.judge = disk.judge \cup j.judge
      BY <3>1, <3>3 DEF Disks
    <3>5. j.judge \subseteq {Root} /\ born[Root].primary = None
      BY <3>2, <1>1 DEF RunnerInv, EvalInv
    <3> QED
      BY <3>4, <3>5
  <2>2. CASE EvaluateRound
    <3> DEFINE j == queue.evals[1]
    <3>1. queue.evals # << >> /\ disk \in Disks /\ queue \in Queues
      BY <2>2, <1>1 DEF EvaluateRound, RunnerInv, RunnerTypeInv
    <3>2. 1 \in DOMAIN queue.evals
      BY <3>1, QueueFacts
    <3>3. disk' = [ disk EXCEPT !.judge = @ \cup j.judge,
                                !.rounds = @ \cup {j.round} ]
      BY <2>2 DEF EvaluateRound, NextEval
    <3>4. \A n \in j.judge :
            born[n].primary \in {None, Root} \cup Evaluated(1 - 1)
      BY <3>2, <1>1 DEF RunnerInv, EvalInv
    <3> HIDE DEF j
    <3>5. disk'.judge = disk.judge \cup j.judge
      BY <3>1, <3>3 DEF Disks
    <3>6. Evaluated(1 - 1) = disk.judge
      BY <3>1 DEF Evaluated, Disks
    <3> QED
      BY <3>4, <3>5, <3>6
  <2>3. CASE disk'.judge = disk.judge
    BY <2>3
  <2>4. disk'.judge = disk.judge \/ WriteFiles \/ EvaluateRound
    <3>1. disk \in Disks
      BY <1>1 DEF RunnerInv, RunnerTypeInv
    <3>2. CASE WriteManifest
      BY <3>1, <3>2 DEF WriteManifest, Disks
    <3>3. CASE \E n \in terminal : FinishTerminal(n)
      BY <3>1, <3>3 DEF FinishTerminal, Disks
    <3>4. CASE disk' = disk
      BY <3>4
    <3>5. disk' = disk \/ WriteManifest \/ WriteFiles \/ EvaluateRound
            \/ \E n \in terminal : FinishTerminal(n)
      BY <1>1 DEF RunnerNext, runnerVars, InitializeRoot, LoadManifest,
         LeaveLoop, SampleBranches, PeacefulExit, FinishRound, EndRound,
         Finalize, RoundRaises, LoopRaises, FinalRaises, Raise, Close,
         Shutdown, Kill, Resume
    <3> QED
      BY <3>2, <3>3, <3>4, <3>5
  <2> QED
    BY <2>1, <2>2, <2>3, <2>4
<1>2. RunnerInv /\ [RunnerNext]_runnerVars =>
        [config.gt => Judged]_runnerVars
  BY <1>1
<1> QED
  BY <1>2, RunnerInvariance, PTL DEF RunnerSpec, ParentEvaluatedFirst
=============================================================================
