------------------------- MODULE EndpointSlotsProofs -------------------------
(***************************************************************************)
(* Theorems about what the collector's workers share: EndpointSlots, for   *)
(* any endpoints, any size of the groups and of the lookahead, and any     *)
(* number of tasks, calls and restarts; and WorkerPool, for any number of  *)
(* calls and of breaks.                                                    *)
(***************************************************************************)
EXTENDS EndpointSlots, WorkerPool, FiniteSetTheorems, TLAPS

(* What the steps of a worker need to know of a task's record.             *)
IsTask(tk) ==
  tk = [ rid |-> tk.rid, slot |-> tk.slot, released |-> tk.released,
         over |-> tk.over, returned |-> tk.returned,
         retried |-> tk.retried ]

(* Task indices below _TASK_INDEX are in use, and no others: a new task    *)
(* takes nobody's place.                                                   *)
IndexInv ==
  /\ next \in Nat \ {0}
  /\ Pending \subseteq 1 .. next - 1
  /\ \A t \in Pending : IsTask(task[t])
  /\ replay \subseteq 1 .. next - 1
  /\ replay # {} => Pending = {}
  /\ saved.next \in Nat \ {0}
  /\ saved.tasks \subseteq 1 .. saved.next - 1

LoadInv ==
  /\ inflight \in [ Endpoints -> Nat ]
  /\ IsFiniteSet(DOMAIN eval)

(* Markers on the disk that bear the name of a pending task are its own:   *)
(* both what was read of them and what is there to be read.                *)
MarkerInv ==
  \A t \in Pending :
    task[t].retried \/ (task[t].released \cup Found(t)) \subseteq task[t].over

IInv == IndexInv /\ LoadInv /\ SlotsConserved

-----------------------------------------------------------------------------
(* Counting.                                                               *)

LEMMA CountMinus ==
  ASSUME NEW S, IsFiniteSet(S), NEW T \in SUBSET S
  PROVE  /\ IsFiniteSet(T) /\ IsFiniteSet(S \ T)
         /\ Cardinality(T) \in Nat /\ Cardinality(S) \in Nat
         /\ Cardinality(T) <= Cardinality(S)
         /\ Cardinality(S \ T) = Cardinality(S) - Cardinality(T)
<1>1. S \cap T = T
  OBVIOUS
<1> QED
  BY <1>1, FS_Subset, FS_Difference, FS_CardinalityType

LEMMA CountPlus ==
  ASSUME NEW S, IsFiniteSet(S), NEW T, IsFiniteSet(T), S \cap T = {}
  PROVE  /\ Cardinality(T) \in Nat /\ Cardinality(S) \in Nat
         /\ Cardinality(S \cup T) = Cardinality(S) + Cardinality(T)
<1>1. Cardinality(S \cap T) = 0
  BY FS_EmptySet
<1>2. Cardinality(T) \in Nat /\ Cardinality(S) \in Nat
  BY FS_CardinalityType
<1>3. Cardinality(S \cup T)
        = Cardinality(S) + Cardinality(T) - Cardinality(S \cap T)
  BY FS_Union
<1> QED
  BY <1>1, <1>2, <1>3

(* Two finite sets are equally large if a function maps the one to the     *)
(* other one to one.                                                       *)
LEMMA CountThrough ==
  ASSUME NEW S, IsFiniteSet(S), NEW T, NEW f \in [ S -> T ],
         \A x, y \in S : f[x] = f[y] => x = y,
         \A z \in T : \E x \in S : z = f[x]
  PROVE  IsFiniteSet(T) /\ Cardinality(T) = Cardinality(S)
<1>1. f \in Bijection(S, T)
  BY DEF Bijection, Injection, Surjection, IsInjective
<1> QED
  BY <1>1, FS_Bijection DEF ExistsBijection

(* The reservations on an endpoint, of groups and of validation.           *)
Holds(tasks, e) ==
  { h \in (DOMAIN tasks) \X Branches :
      h[2] \notin tasks[h[1]].released /\ tasks[h[1]].slot[h[2]] = e }
On(rows, e) == { r \in DOMAIN rows : rows[r] = e }

LEMMA HeldIs ==
  ASSUME NEW S
  PROVE  Held(S) = { h \in S \X Branches : h[2] \notin task[h[1]].released }
  BY DEF Held

LEMMA Conserved ==
  SlotsConserved <=>
    \A e \in Endpoints :
      inflight[e] = Cardinality(Holds(task, e)) + Cardinality(On(eval, e))
<1>1. ASSUME NEW e
      PROVE  { h \in Held(Pending) : task[h[1]].slot[h[2]] = e }
               = Holds(task, e)
  BY DEF Held, Holds, Pending
<1> QED
  BY <1>1 DEF SlotsConserved, On

LEMMA ConservedNext ==
  SlotsConserved' <=>
    \A e \in Endpoints :
      inflight'[e] = Cardinality(Holds(task', e)) + Cardinality(On(eval', e))
<1>1. ASSUME NEW e
      PROVE  { h \in Held(Pending)' : task'[h[1]].slot[h[2]] = e }
               = Holds(task', e)
  BY DEF Held, Holds, Pending
<1> QED
  BY <1>1 DEF SlotsConserved, On

LEMMA FiniteHolds ==
  ASSUME IInv, NEW e
  PROVE  /\ IsFiniteSet(Holds(task, e)) /\ IsFiniteSet(On(eval, e))
         /\ Cardinality(Holds(task, e)) \in Nat
         /\ Cardinality(On(eval, e)) \in Nat
<1>1. M \in Nat /\ IsFiniteSet(Branches)
  BY FS_Interval, SlotsAssumption DEF Branches
<1>2. IsFiniteSet(1 .. next - 1)
  BY FS_Interval DEF IInv, IndexInv
<1>3. IsFiniteSet(DOMAIN task)
  BY <1>2, FS_Subset DEF IInv, IndexInv, Pending
<1>4. IsFiniteSet((DOMAIN task) \X Branches)
  BY <1>1, <1>3, FS_Product
<1>5. /\ Holds(task, e) \subseteq (DOMAIN task) \X Branches
      /\ On(eval, e) \subseteq DOMAIN eval
  BY DEF Holds, On
<1>6. IsFiniteSet(Holds(task, e)) /\ IsFiniteSet(On(eval, e))
  BY <1>4, <1>5, FS_Subset DEF IInv, LoadInv
<1> QED
  BY <1>6, FS_CardinalityType

(* Taking from an endpoint's count as many reservations as it has of a set *)
(* of held ones leaves the count of the others: the floor at zero does not *)
(* come into play.                                                         *)
LEMMA UnreserveHeld ==
  ASSUME IInv, NEW S \in SUBSET Held(Pending), NEW e \in Endpoints
  PROVE  /\ Unreserve(inflight, S)[e] =
              Cardinality(Holds(task, e) \ S) + Cardinality(On(eval, e))
         /\ IsFiniteSet(Holds(task, e) \ S)
         /\ Cardinality(Holds(task, e) \ S) \in Nat
<1> DEFINE A == Holds(task, e)
           B == { h \in S : task[h[1]].slot[h[2]] = e }
           C == Cardinality(On(eval, e))
<1>1. B \in SUBSET A /\ A \ S = A \ B
  BY HeldIs DEF Holds, Pending
<1>2. IsFiniteSet(A) /\ C \in Nat
  BY FiniteHolds
<1>3. inflight[e] = Cardinality(A) + C
  BY Conserved DEF IInv
<1>4. Unreserve(inflight, S)[e] =
        IF inflight[e] < Cardinality(B) THEN 0
        ELSE inflight[e] - Cardinality(B)
  BY DEF Unreserve
<1> SUFFICES /\ Unreserve(inflight, S)[e] = Cardinality(A \ B) + C
             /\ IsFiniteSet(A \ B) /\ Cardinality(A \ B) \in Nat
  BY <1>1
<1> HIDE DEF A, B, C
<1>5. /\ Cardinality(B) \in Nat /\ Cardinality(A) \in Nat
      /\ Cardinality(B) <= Cardinality(A) /\ IsFiniteSet(A \ B)
      /\ Cardinality(A \ B) = Cardinality(A) - Cardinality(B)
  BY <1>1, <1>2, CountMinus
<1> QED
  BY <1>2, <1>3, <1>4, <1>5

LEMMA UnreserveType ==
  ASSUME IInv, NEW S \in SUBSET Held(Pending)
  PROVE  Unreserve(inflight, S) \in [ Endpoints -> Nat ]
<1>1. ASSUME NEW e \in Endpoints PROVE Unreserve(inflight, S)[e] \in Nat
  <2> DEFINE c == Cardinality(Holds(task, e) \ S)
             d == Cardinality(On(eval, e))
  <2>1. c \in Nat /\ d \in Nat
    BY FiniteHolds, UnreserveHeld
  <2>2. Unreserve(inflight, S)[e] = c + d
    BY UnreserveHeld
  <2> HIDE DEF c, d
  <2> QED
    BY <2>1, <2>2
<1> QED
  BY <1>1 DEF Unreserve

LEMMA FreedHeld == Freed \subseteq Held(Pending)
  BY DEF Freed

(* The tasks that the markers leave hold all but what the markers free.    *)
LEMMA FreshHolds ==
  ASSUME IInv, NEW e
  PROVE  /\ DOMAIN FreshTask = Pending
         /\ \A t \in Pending :
              /\ IsTask(FreshTask[t])
              /\ FreshTask[t].slot = task[t].slot
              /\ FreshTask[t].released = task[t].released \cup Found(t)
         /\ Holds(FreshTask, e) = Holds(task, e) \ Freed
<1>1. DOMAIN FreshTask = Pending
  BY DEF FreshTask
<1>2. ASSUME NEW t \in Pending
      PROVE  /\ IsTask(FreshTask[t])
             /\ FreshTask[t].slot = task[t].slot
             /\ FreshTask[t].released = task[t].released \cup Found(t)
  <2> DEFINE tk == task[t]
             found == Found(t)
  <2>1. IsTask(tk)
    BY DEF IInv, IndexInv
  <2>2. FreshTask[t] = [ tk EXCEPT !.released = @ \cup found ]
    BY DEF FreshTask
  <2> HIDE DEF tk, found
  <2>3. FreshTask[t] = [ rid |-> tk.rid, slot |-> tk.slot,
                         released |-> tk.released \cup found,
                         over |-> tk.over, returned |-> tk.returned,
                         retried |-> tk.retried ]
    BY <2>1, <2>2 DEF IsTask
  <2>4. /\ IsTask(FreshTask[t]) /\ FreshTask[t].slot = tk.slot
        /\ FreshTask[t].released = tk.released \cup found
    BY <2>3 DEF IsTask
  <2> QED
    BY <2>4 DEF tk, found
<1>3. Freed = { h \in Pending \X Branches :
                  h[2] \notin task[h[1]].released /\ h[2] \in Found(h[1]) }
  BY HeldIs DEF Freed
<1>4. Holds(FreshTask, e) = Holds(task, e) \ Freed
  BY <1>1, <1>2, <1>3 DEF Holds, Pending
<1> QED
  BY <1>1, <1>2, <1>4

-----------------------------------------------------------------------------
(* Reserving.                                                              *)

LEMMA PicksDomain ==
  ASSUME NEW n \in Nat, NEW load, NEW e
  PROVE  /\ DOMAIN Picks(n, load) = 1 .. n
         /\ IsFiniteSet(1 .. n)
         /\ IsFiniteSet(On(Picks(n, load), e))
         /\ Uses(Picks(n, load), e) = Cardinality(On(Picks(n, load), e))
<1>1. DOMAIN Picks(n, load) = 1 .. n
  BY DEF Picks
<1>2. IsFiniteSet(1 .. n)
  BY FS_Interval
<1>3. On(Picks(n, load), e) \subseteq 1 .. n
  BY <1>1 DEF On
<1> QED
  BY <1>1, <1>2, <1>3, FS_Subset DEF Uses, On

LEMMA ReserveType ==
  ASSUME NEW n \in Nat, NEW load \in [ Endpoints -> Nat ], NEW now
  PROVE  Reserve(load, Picks(n, now)) \in [ Endpoints -> Nat ]
<1>1. ASSUME NEW e \in Endpoints
      PROVE  Reserve(load, Picks(n, now))[e] \in Nat
  <2>1. Uses(Picks(n, now), e) \in Nat
    BY PicksDomain, FS_CardinalityType
  <2>2. Reserve(load, Picks(n, now))[e] = load[e] + Uses(Picks(n, now), e)
    BY DEF Reserve
  <2> QED
    BY <2>1, <2>2
<1> QED
  BY <1>1 DEF Reserve

LEMMA MNat == M \in Nat \ {0} /\ Branches = 1 .. M
  BY SlotsAssumption DEF Branches

(* A new task holds its M reservations.                                    *)
Extended(picks) ==
  [ t \in Pending \cup {next} |->
      IF t = next THEN NewTask(picks) ELSE FreshTask[t] ]
Added(picks, e) == { h \in {next} \X Branches : picks[h[2]] = e }

LEMMA NewHolds ==
  ASSUME IInv, NEW load, NEW picks, picks = Picks(M, load), NEW e
  PROVE  /\ DOMAIN Extended(picks) = Pending \cup {next}
         /\ \A t \in Pending : Extended(picks)[t] = FreshTask[t]
         /\ Extended(picks)[next] = NewTask(picks)
         /\ Holds(Extended(picks), e) = Holds(FreshTask, e) \cup Added(picks, e)
         /\ Holds(FreshTask, e) \cap Added(picks, e) = {}
         /\ IsFiniteSet(Added(picks, e))
         /\ Cardinality(Added(picks, e)) = Cardinality(On(picks, e))
<1> DEFINE now == Extended(picks)
           added == Added(picks, e)
<1>1. DOMAIN FreshTask = Pending
  BY FreshHolds
<1>2. next \notin Pending
  BY DEF IInv, IndexInv
<1>3. /\ DOMAIN now = Pending \cup {next}
      /\ \A t \in Pending : now[t] = FreshTask[t]
      /\ now[next] = NewTask(picks)
  BY <1>1, <1>2 DEF Extended
<1>4. NewTask(picks).slot = picks /\ NewTask(picks).released = {}
  BY DEF NewTask
<1>5. Holds(FreshTask, e) \cap added = {}
  BY <1>1, <1>2 DEF Holds, Added
<1>6. Holds(now, e) = Holds(FreshTask, e) \cup added
  <2> HIDE DEF now
  <2>1. ASSUME NEW h
        PROVE  h \in Holds(now, e) <=> h \in Holds(FreshTask, e) \cup added
    BY <1>1, <1>2, <1>3, <1>4 DEF Holds, Added
  <2> QED
    BY <2>1
<1>7. IsFiniteSet(On(picks, e)) /\ DOMAIN picks = Branches
  BY PicksDomain, MNat
<1>8. IsFiniteSet(added) /\ Cardinality(added) = Cardinality(On(picks, e))
  <2> DEFINE f == [ b \in On(picks, e) |-> << next, b >> ]
  <2>1. f \in [ On(picks, e) -> added ]
    BY <1>7 DEF On, Added
  <2>2. \A x, y \in On(picks, e) : f[x] = f[y] => x = y
    OBVIOUS
  <2>3. \A z \in added : \E x \in On(picks, e) : z = f[x]
    BY <1>7 DEF On, Added
  <2> QED
    BY <1>7, <2>1, <2>2, <2>3, CountThrough
<1> QED
  BY <1>3, <1>5, <1>6, <1>8

-----------------------------------------------------------------------------
(* The count after each step that reserves or releases.                    *)

LEMMA RefreshCounts ==
  ASSUME IInv, Refresh
  PROVE  LoadInv' /\ SlotsConserved'
<1>1. Freed \in SUBSET Held(Pending)
  BY FreedHeld
<1>2. LoadInv'
  BY <1>1, UnreserveType DEF Refresh, FreshLoad, IInv, LoadInv
<1>3. ASSUME NEW e \in Endpoints
      PROVE  inflight'[e]
               = Cardinality(Holds(task', e)) + Cardinality(On(eval', e))
  <2>1. Holds(task', e) = Holds(task, e) \ Freed
    BY FreshHolds DEF Refresh
  <2> QED
    BY <1>1, <2>1, UnreserveHeld DEF Refresh, FreshLoad
<1> QED
  BY <1>2, <1>3, ConservedNext

LEMMA DispatchCounts ==
  ASSUME IInv, Dispatch
  PROVE  LoadInv' /\ SlotsConserved'
<1> DEFINE picks == Picks(M, FreshLoad)
<1>1. Freed \in SUBSET Held(Pending)
  BY FreedHeld
<1>2. FreshLoad \in [ Endpoints -> Nat ]
  BY <1>1, UnreserveType DEF FreshLoad
<1>3. LoadInv'
  BY <1>2, MNat, ReserveType DEF Dispatch, IInv, LoadInv
<1>4. ASSUME NEW e \in Endpoints
      PROVE  inflight'[e]
               = Cardinality(Holds(task', e)) + Cardinality(On(eval', e))
  <2> DEFINE rest == Holds(task, e) \ Freed
             added == Added(picks, e)
             d == Cardinality(On(eval, e))
  <2>1. /\ Holds(task', e) = Holds(FreshTask, e) \cup added
        /\ Holds(FreshTask, e) \cap added = {}
        /\ IsFiniteSet(added)
        /\ Cardinality(added) = Cardinality(On(picks, e))
    <3>1. task' = Extended(picks)
      BY DEF Dispatch, Extended
    <3> QED
      BY <3>1, NewHolds
  <2>2. Holds(FreshTask, e) = rest
    BY FreshHolds
  <2>3. /\ FreshLoad[e] = Cardinality(rest) + d
        /\ IsFiniteSet(rest) /\ Cardinality(rest) \in Nat
    BY <1>1, UnreserveHeld DEF FreshLoad
  <2>4. d \in Nat
    BY FiniteHolds
  <2>5. inflight'[e] = FreshLoad[e] + Cardinality(On(picks, e))
    BY MNat, PicksDomain DEF Dispatch, Reserve
  <2>6. On(eval', e) = On(eval, e)
    BY DEF Dispatch
  <2> HIDE DEF rest, added, d, picks
  <2>7. /\ Cardinality(added) \in Nat
        /\ Cardinality(rest \cup added)
             = Cardinality(rest) + Cardinality(added)
    BY <2>1, <2>2, <2>3, CountPlus
  <2>8. inflight'[e] = Cardinality(rest \cup added) + d
    BY <2>1, <2>3, <2>4, <2>5, <2>7
  <2> QED
    BY <2>1, <2>2, <2>6, <2>8 DEF d
<1> QED
  BY <1>3, <1>4, ConservedNext

LEMMA HarvestCounts ==
  ASSUME IInv, Harvest
  PROVE  LoadInv' /\ SlotsConserved'
<1>1. PICK reaped \in SUBSET { t \in Pending : task[t].returned } \ {{}} :
        /\ task' = [ t \in Pending \ reaped |-> FreshTask[t] ]
        /\ inflight' = Unreserve(inflight, Freed \cup Held(reaped))
  BY DEF Harvest
<1> DEFINE gone == Freed \cup Held(reaped)
<1>2. eval' = eval
  BY DEF Harvest
<1>3. gone \in SUBSET Held(Pending)
  BY <1>1, FreedHeld, HeldIs
<1>4. LoadInv'
  BY <1>1, <1>2, <1>3, UnreserveType DEF IInv, LoadInv
<1>5. ASSUME NEW e \in Endpoints
      PROVE  inflight'[e]
               = Cardinality(Holds(task', e)) + Cardinality(On(eval', e))
  <2>1. Holds(task', e) =
          { h \in Holds(FreshTask, e) : h[1] \notin reaped }
    BY <1>1, FreshHolds DEF Holds
  <2>2. Holds(FreshTask, e) = Holds(task, e) \ Freed
    BY FreshHolds
  <2>3. Holds(task, e) \ gone =
          { h \in Holds(task, e) \ Freed : h[1] \notin reaped }
    BY HeldIs DEF Holds
  <2>4. Holds(task', e) = Holds(task, e) \ gone
    BY <2>1, <2>2, <2>3
  <2> QED
    BY <1>1, <1>2, <1>3, <2>4, UnreserveHeld
<1> QED
  BY <1>4, <1>5, ConservedNext

LEMMA DiscardCounts ==
  ASSUME IInv, Discard
  PROVE  LoadInv' /\ SlotsConserved'
<1>1. Held(Pending) \in SUBSET Held(Pending)
  OBVIOUS
<1>2. LoadInv'
  BY <1>1, UnreserveType DEF Discard, IInv, LoadInv
<1>3. ASSUME NEW e \in Endpoints
      PROVE  inflight'[e]
               = Cardinality(Holds(task', e)) + Cardinality(On(eval', e))
  <2>1. Holds(task', e) = {}
    BY DEF Discard, Holds
  <2>2. Holds(task, e) \ Held(Pending) = {}
    BY HeldIs DEF Holds, Pending
  <2> QED
    BY <1>1, <2>1, <2>2, UnreserveHeld DEF Discard
<1> QED
  BY <1>2, <1>3, ConservedNext

LEMMA BeginEvalCounts ==
  ASSUME IInv, BeginEval
  PROVE  LoadInv' /\ SlotsConserved'
<1>1. Rows \in Nat /\ eval = << >>
  BY SlotsAssumption DEF BeginEval, Driving
<1>2. IsFiniteSet(DOMAIN eval')
  BY <1>1, PicksDomain DEF BeginEval
<1>3. inflight' \in [ Endpoints -> Nat ]
  BY <1>1, ReserveType DEF BeginEval, IInv, LoadInv
<1>4. ASSUME NEW e \in Endpoints
      PROVE  inflight'[e]
               = Cardinality(Holds(task', e)) + Cardinality(On(eval', e))
  <2> DEFINE c == Cardinality(Holds(task, e))
             d == Cardinality(On(eval', e))
  <2>1. On(eval, e) = {}
    BY <1>1 DEF On
  <2>2. inflight[e] = c + 0
    BY <2>1, FS_EmptySet, Conserved DEF IInv
  <2>3. IsFiniteSet(On(eval', e)) /\ Uses(eval', e) = d
    BY <1>1, PicksDomain DEF BeginEval
  <2>4. inflight'[e] = inflight[e] + d
    BY <2>3 DEF BeginEval, Reserve
  <2>5. c \in Nat /\ d \in Nat
    BY <2>3, FiniteHolds, FS_CardinalityType
  <2>6. task' = task
    BY DEF BeginEval
  <2> HIDE DEF c, d
  <2>7. inflight'[e] = c + d
    BY <2>2, <2>4, <2>5
  <2> QED
    BY <2>6, <2>7 DEF c, d
<1> QED
  BY <1>2, <1>3, <1>4, ConservedNext DEF LoadInv

LEMMA EndBatchCounts ==
  ASSUME IInv, EndBatch
  PROVE  LoadInv' /\ SlotsConserved'
<1>1. /\ eval' = [ r \in DOMAIN eval \ NextBatch |-> eval[r] ]
      /\ task' = task
  BY DEF EndBatch
<1>2. NextBatch \subseteq DOMAIN eval
  BY DEF NextBatch
<1>3. IsFiniteSet(DOMAIN eval')
  BY <1>1, FS_Difference DEF IInv, LoadInv
<1>4. ASSUME NEW e \in Endpoints
      PROVE  /\ inflight'[e] \in Nat
             /\ inflight'[e]
                  = Cardinality(Holds(task', e)) + Cardinality(On(eval', e))
  <2> DEFINE A == On(eval, e)
             B == { r \in NextBatch : eval[r] = e }
             c == Cardinality(Holds(task, e))
  <2>1. B \in SUBSET A /\ On(eval', e) = A \ B
    BY <1>1, <1>2 DEF On
  <2>2. IsFiniteSet(A) /\ c \in Nat
    BY FiniteHolds
  <2>3. inflight[e] = c + Cardinality(A)
    BY Conserved DEF IInv
  <2>4. inflight'[e] = IF inflight[e] < Cardinality(B) THEN 0
                       ELSE inflight[e] - Cardinality(B)
    BY DEF EndBatch
  <2> HIDE DEF A, B, c
  <2>5. /\ Cardinality(B) \in Nat /\ Cardinality(A) \in Nat
        /\ Cardinality(B) <= Cardinality(A)
        /\ Cardinality(A \ B) = Cardinality(A) - Cardinality(B)
    BY <2>1, <2>2, CountMinus
  <2>6. inflight'[e] \in Nat /\ inflight'[e] = c + Cardinality(A \ B)
    BY <2>2, <2>3, <2>4, <2>5
  <2> QED
    BY <1>1, <2>1, <2>6 DEF c
<1>5. inflight' \in [ Endpoints -> Nat ]
  BY <1>4 DEF EndBatch
<1> QED
  BY <1>3, <1>4, <1>5, ConservedNext DEF LoadInv

LEMMA CrashCounts ==
  ASSUME IInv, CrashAndLoad
  PROVE  LoadInv' /\ SlotsConserved'
<1>1. task' = << >> /\ eval' = << >> /\ inflight' = [ e \in Endpoints |-> 0 ]
  BY DEF CrashAndLoad
<1>2. ASSUME NEW e \in Endpoints
      PROVE  Holds(task', e) = {} /\ On(eval', e) = {}
  BY <1>1 DEF Holds, On
<1>3. Cardinality({}) = 0 /\ IsFiniteSet({}) /\ DOMAIN eval' = {}
  BY <1>1, FS_EmptySet
<1>4. \A e \in Endpoints :
        inflight'[e]
          = Cardinality(Holds(task', e)) + Cardinality(On(eval', e))
  <2>1. 0 = 0 + 0
    OBVIOUS
  <2>2. ASSUME NEW e \in Endpoints
        PROVE  /\ inflight'[e] = 0 /\ Cardinality(Holds(task', e)) = 0
               /\ Cardinality(On(eval', e)) = 0
    BY <1>1, <1>2, <1>3
  <2> QED
    BY <2>1, <2>2
<1>5. inflight' \in [ Endpoints -> Nat ]
  BY <1>1
<1> QED
  BY <1>3, <1>4, <1>5, ConservedNext DEF LoadInv

-----------------------------------------------------------------------------
(* A replay lays the branches of all the tasks in a row: the branches of   *)
(* the n-th are the n-th M of them, so each has a place to itself and none *)
(* is left empty.                                                          *)
Before(t) == { s \in replay : s < t }
Place(t) == Cardinality(Before(t))
Spot(h) == M * Place(h[1]) + h[2]

LEMMA PlaceOrder ==
  ASSUME IInv
  PROVE  /\ IsFiniteSet(replay) /\ Cardinality(replay) \in Nat
         /\ \A t \in replay : /\ Place(t) \in Nat
                              /\ Place(t) + 1 <= Cardinality(replay)
         /\ \A s, t \in replay : s < t => Place(s) + 1 <= Place(t)
<1>1. IsFiniteSet(1 .. next - 1)
  BY FS_Interval DEF IInv, IndexInv
<1>2. /\ IsFiniteSet(replay) /\ Cardinality(replay) \in Nat
      /\ \A t \in replay : t \in Int
  <2>1. replay \in SUBSET (1 .. next - 1) /\ next \in Nat
    BY DEF IInv, IndexInv
  <2>2. \A t \in 1 .. next - 1 : t \in Int
    BY <2>1
  <2> QED
    BY <1>1, <2>1, <2>2, FS_Subset, FS_CardinalityType
<1>3. ASSUME NEW t \in replay
      PROVE  IsFiniteSet(Before(t)) /\ Place(t) \in Nat
  BY <1>2, FS_Subset, FS_CardinalityType DEF Before, Place
<1>4. ASSUME NEW S, IsFiniteSet(S), NEW t \in replay, Before(t) \subseteq S,
             NEW x \in S, x \notin Before(t)
      PROVE  Place(t) + 1 <= Cardinality(S)
  <2>1. Before(t) \cup {x} \in SUBSET S /\ Before(t) \cap {x} = {}
    BY <1>4
  <2>2. IsFiniteSet({x}) /\ Cardinality({x}) = 1
    BY FS_Singleton
  <2>3. Cardinality(Before(t) \cup {x}) = Cardinality(Before(t)) + 1
    BY <1>3, <2>1, <2>2, CountPlus
  <2>4. Cardinality(Before(t) \cup {x}) <= Cardinality(S)
    BY <1>4, <2>1, FS_Subset
  <2> QED
    BY <2>3, <2>4 DEF Place
<1>5. ASSUME NEW t \in replay PROVE Place(t) + 1 <= Cardinality(replay)
  <2>1. Before(t) \subseteq replay /\ t \notin Before(t)
    BY <1>2 DEF Before
  <2> QED
    BY <1>2, <1>4, <2>1
<1>6. ASSUME NEW s \in replay, NEW t \in replay, s < t
      PROVE  Place(s) + 1 <= Place(t)
  <2>1. Before(s) \subseteq Before(t) /\ s \in Before(t) /\ s \notin Before(s)
    <3>1. s \in Int /\ t \in Int
      BY <1>2
    <3>2. ASSUME NEW r \in replay, r < s PROVE r < t
      <4>1. r \in Int
        BY <1>2
      <4> QED
        BY <1>6, <3>1, <3>2, <4>1
    <3>3. ~ (s < s)
      BY <3>1
    <3> QED
      BY <1>6, <3>2, <3>3 DEF Before
  <2>2. Place(s) + 1 <= Cardinality(Before(t))
    BY <1>3, <1>4, <2>1
  <2> QED
    BY <2>2 DEF Place
<1> QED
  BY <1>2, <1>3, <1>5, <1>6

LEMMA SpotOneToOne ==
  ASSUME IInv, NEW g \in replay \X Branches, NEW h \in replay \X Branches,
         Spot(g) = Spot(h)
  PROVE  g = h
<1> DEFINE m == M
           p == Place(g[1])
           q == Place(h[1])
<1>1. /\ m \in Nat \ {0} /\ p \in Nat /\ q \in Nat
      /\ g[2] \in 1 .. m /\ h[2] \in 1 .. m
      /\ g[1] \in Int /\ h[1] \in Int /\ g[1] \in replay /\ h[1] \in replay
  <2>1. g[1] \in replay /\ h[1] \in replay /\ g[2] \in 1 .. M /\ h[2] \in 1 .. M
    BY MNat
  <2>2. p \in Nat /\ q \in Nat
    BY <2>1, PlaceOrder
  <2>3. replay \subseteq 1 .. next - 1 /\ next \in Nat
    BY DEF IInv, IndexInv
  <2>4. g[1] \in Int /\ h[1] \in Int
    <3>1. \A t \in 1 .. next - 1 : t \in Int
      BY <2>3
    <3> QED
      BY <2>1, <2>3, <3>1
  <2> QED
    BY <2>1, <2>2, <2>4, MNat
<1>2. m * p + g[2] = m * q + h[2]
  BY DEF Spot
<1>3. /\ g[1] < h[1] => p + 1 <= q
      /\ h[1] < g[1] => q + 1 <= p
  BY <1>1, PlaceOrder
<1>4. \A a, b \in Nat : a + 1 <= b => m * a + m <= m * b
  <2> SUFFICES ASSUME NEW a \in Nat, NEW b \in Nat, a + 1 <= b
               PROVE  m * a + m <= m * b
    OBVIOUS
  <2>1. PICK c \in Nat : b = a + 1 + c
    <3>1. b - (a + 1) \in Nat /\ b = a + 1 + (b - (a + 1))
      OBVIOUS
    <3> QED
      BY <3>1
  <2>2. m * b = m * a + m + m * c /\ m * c \in Nat /\ m * a \in Nat
    <3> HIDE DEF m
    <3> QED
      BY <1>1, <2>1
  <2> QED
    BY <1>1, <2>2
<1>5. m * p \in Nat /\ m * q \in Nat
  BY <1>1
<1> HIDE DEF m, p, q
<1>6. ~ (p + 1 <= q) /\ ~ (q + 1 <= p)
  BY <1>1, <1>2, <1>4, <1>5
<1>7. g[1] = h[1]
  BY <1>1, <1>3, <1>6
<1>8. p = q
  BY <1>7 DEF p, q
<1>9. g[2] = h[2]
  BY <1>1, <1>2, <1>5, <1>8
<1> QED
  BY <1>7, <1>9

LEMMA SpotRange ==
  ASSUME IInv, NEW h \in replay \X Branches
  PROVE  Spot(h) \in 1 .. M * Cardinality(replay)
<1> DEFINE m == M
           p == Place(h[1])
           n == Cardinality(replay)
<1>1. m \in Nat \ {0} /\ p \in Nat /\ n \in Nat /\ h[2] \in 1 .. m /\ p + 1 <= n
  BY MNat, PlaceOrder
<1>2. PICK c \in Nat : n = p + 1 + c
  <2> HIDE DEF m, p, n
  <2>1. n - (p + 1) \in Nat /\ n = p + 1 + (n - (p + 1))
    BY <1>1
  <2> QED
    BY <2>1
<1>3. Spot(h) = m * p + h[2]
  BY DEF Spot
<1> HIDE DEF m, p, n
<1>4. m * n = m * p + m + m * c /\ m * c \in Nat /\ m * p \in Nat
  BY <1>1, <1>2
<1>5. m * p + h[2] \in 1 .. m * n
  BY <1>1, <1>4
<1> QED
  BY <1>3, <1>5 DEF m, n

LEMMA SpotOnto ==
  ASSUME IInv, NEW i \in 1 .. M * Cardinality(replay)
  PROVE  \E h \in replay \X Branches : Spot(h) = i
<1> DEFINE S == replay \X Branches
           T == 1 .. M * Cardinality(replay)
           f == [ h \in S |-> Spot(h) ]
<1>1. f \in [ S -> T ] /\ \A g, h \in S : f[g] = f[h] => g = h
  BY SpotRange, SpotOneToOne
<1>2. f \in Injection(S, T)
  BY <1>1 DEF Injection, IsInjective
<1>3. /\ M \in Nat \ {0} /\ Cardinality(replay) \in Nat
      /\ M * Cardinality(replay) \in Nat
  BY MNat, PlaceOrder
<1>4. IsFiniteSet(Branches) /\ Cardinality(Branches) = M
  BY <1>3, MNat, FS_Interval
<1>5. Cardinality(S) = M * Cardinality(replay)
  <2>1. Cardinality(S) = Cardinality(replay) * M
    BY <1>4, PlaceOrder, FS_Product
  <2>2. \A n \in Nat : n * M = M * n
    BY <1>3
  <2> QED
    BY <1>3, <2>1, <2>2
<1>6. IsFiniteSet(T) /\ Cardinality(T) = M * Cardinality(replay)
  BY <1>3, FS_Interval
<1>7. f \in Surjection(S, T)
  BY <1>2, <1>5, <1>6, FS_Injection
<1> QED
  BY <1>7 DEF Surjection

LEMMA ReplayCounts ==
  ASSUME IInv, Replay
  PROVE  LoadInv' /\ SlotsConserved'
<1> DEFINE n == M * Cardinality(replay)
           picks == Picks(n, inflight)
<1>1. /\ task' = [ t \in replay |->
           NewTask([ b \in Branches |-> picks[M * Place(t) + b] ]) ]
      /\ inflight' = Reserve(inflight, picks)
      /\ replay # {} /\ eval = << >> /\ eval' = eval
  BY DEF Replay, Driving, Place, Before
<1>2. n \in Nat
  BY MNat, PlaceOrder
<1>3. LoadInv'
  BY <1>1, <1>2, ReserveType DEF IInv, LoadInv
<1>4. ASSUME NEW e \in Endpoints
      PROVE  inflight'[e]
               = Cardinality(Holds(task', e)) + Cardinality(On(eval', e))
  <2> DEFINE H == { h \in replay \X Branches : picks[Spot(h)] = e }
             f == [ h \in H |-> Spot(h) ]
             c == Cardinality(On(picks, e))
  <2>1. Holds(task', e) = H
    BY <1>1 DEF Holds, NewTask, Spot
  <2>2. Holds(task, e) = {} /\ On(eval, e) = {}
    BY <1>1 DEF IInv, IndexInv, Holds, On, Pending
  <2>3. inflight[e] = 0 + 0
    BY <2>2, FS_EmptySet, Conserved DEF IInv
  <2>4. /\ DOMAIN picks = 1 .. n /\ IsFiniteSet(On(picks, e))
        /\ Uses(picks, e) = c
    BY <1>2, PicksDomain
  <2>5. inflight'[e] = inflight[e] + c
    BY <1>1, <2>4 DEF Reserve
  <2>6. On(picks, e) = { i \in 1 .. n : picks[i] = e }
    BY <2>4 DEF On
  <2> HIDE DEF picks
  <2>7. f \in [ H -> On(picks, e) ]
    BY <2>6, SpotRange
  <2>8. \A g, h \in H : f[g] = f[h] => g = h
    BY SpotOneToOne
  <2>9. \A i \in On(picks, e) : \E h \in H : i = f[h]
    BY <2>6, SpotOnto
  <2>10. IsFiniteSet(H)
    <3>1. IsFiniteSet(replay \X Branches)
      <4>1. IsFiniteSet(1 .. M) /\ IsFiniteSet(replay)
        BY MNat, PlaceOrder, FS_Interval
      <4> QED
        BY <4>1, MNat, FS_Product
    <3> QED
      BY <3>1, FS_Subset
  <2>11. c = Cardinality(H) /\ c \in Nat
    <3>1. c \in Nat
      BY <2>4, FS_CardinalityType
    <3> HIDE DEF H, f
    <3>2. Cardinality(On(picks, e)) = Cardinality(H)
      BY <2>7, <2>8, <2>9, <2>10, CountThrough
    <3> QED
      BY <3>1, <3>2
  <2>12. Cardinality(On(eval', e)) = 0
    BY <1>1, <2>2, FS_EmptySet
  <2> HIDE DEF c, H
  <2>13. inflight'[e] = c + 0
    BY <2>3, <2>5, <2>11
  <2> QED
    BY <2>1, <2>11, <2>12, <2>13
<1> QED
  BY <1>3, <1>4, ConservedNext

-----------------------------------------------------------------------------
(* The steps that neither reserve nor release.                             *)

LEMMA SameCounts ==
  ASSUME IInv, inflight' = inflight, eval' = eval,
         DOMAIN task' = Pending,
         \A t \in Pending : /\ task'[t].slot = task[t].slot
                            /\ task'[t].released = task[t].released
  PROVE  LoadInv' /\ SlotsConserved'
<1>1. \A e \in Endpoints : Holds(task', e) = Holds(task, e)
  BY DEF Holds, Pending
<1>2. SlotsConserved'
  BY <1>1, Conserved, ConservedNext DEF IInv
<1> QED
  BY <1>2 DEF IInv, LoadInv

(* What a worker does to its task changes none of the driver's fields.     *)
LEMMA WorkerStep ==
  ASSUME IInv, NEW t,
         \/ \E b \in Branches, marked \in BOOLEAN : BranchOver(t, b, marked)
         \/ TaskReturns(t)
         \/ WorkerRetries(t)
  PROVE  /\ t \in Pending /\ DOMAIN task' = Pending
         /\ \A s \in Pending : s # t => task'[s] = task[s]
         /\ IsTask(task'[t])
         /\ task'[t].rid = task[t].rid /\ task'[t].slot = task[t].slot
         /\ task'[t].released = task[t].released
         /\ inflight' = inflight /\ eval' = eval
         /\ next' = next /\ replay' = replay /\ saved' = saved
<1> DEFINE tk == task[t]
<1>1. t \in Pending /\ IsTask(tk)
  BY DEF IInv, IndexInv, BranchOver, TaskReturns, WorkerRetries
<1>2. CASE \E b \in Branches, marked \in BOOLEAN : BranchOver(t, b, marked)
  <2>1. PICK b \in Branches : task' = [ task EXCEPT ![t].over = @ \cup {b} ]
    BY <1>2 DEF BranchOver
  <2>2. task' = [ task EXCEPT ![t] = [ tk EXCEPT !.over = tk.over \cup {b} ] ]
    BY <2>1
  <2>3. /\ DOMAIN task' = Pending
        /\ \A s \in Pending : s # t => task'[s] = task[s]
        /\ task'[t] = [ tk EXCEPT !.over = tk.over \cup {b} ]
    BY <1>1, <2>2 DEF Pending
  <2>4. IsTask(task'[t]) /\ task'[t].rid = tk.rid /\ task'[t].slot = tk.slot
        /\ task'[t].released = tk.released
    <3> HIDE DEF tk
    <3> QED
      BY <1>1, <2>3 DEF IsTask
  <2> QED
    BY <1>1, <1>2, <2>3, <2>4 DEF BranchOver
<1>3. CASE TaskReturns(t)
  <2>2. task' = [ task EXCEPT ![t] = [ tk EXCEPT !.returned = TRUE ] ]
    BY <1>3 DEF TaskReturns
  <2>3. /\ DOMAIN task' = Pending
        /\ \A s \in Pending : s # t => task'[s] = task[s]
        /\ task'[t] = [ tk EXCEPT !.returned = TRUE ]
    BY <1>1, <2>2 DEF Pending
  <2>4. IsTask(task'[t]) /\ task'[t].rid = tk.rid /\ task'[t].slot = tk.slot
        /\ task'[t].released = tk.released
    <3> HIDE DEF tk
    <3> QED
      BY <1>1, <2>3 DEF IsTask
  <2> QED
    BY <1>1, <1>3, <2>3, <2>4 DEF TaskReturns
<1>4. CASE WorkerRetries(t)
  <2>2. task' = [ task EXCEPT ![t] =
                    [ tk EXCEPT !.over = {}, !.retried = TRUE ] ]
    BY <1>4 DEF WorkerRetries
  <2>3. /\ DOMAIN task' = Pending
        /\ \A s \in Pending : s # t => task'[s] = task[s]
        /\ task'[t] = [ tk EXCEPT !.over = {}, !.retried = TRUE ]
    BY <1>1, <2>2 DEF Pending
  <2>4. IsTask(task'[t]) /\ task'[t].rid = tk.rid /\ task'[t].slot = tk.slot
        /\ task'[t].released = tk.released
    <3> HIDE DEF tk
    <3> QED
      BY <1>1, <2>3 DEF IsTask
  <2> QED
    BY <1>1, <1>4, <2>3, <2>4 DEF WorkerRetries
<1> QED
  BY <1>2, <1>3, <1>4

LEMMA NewIsTask ==
  ASSUME NEW slots
  PROVE  /\ IsTask(NewTask(slots)) /\ NewTask(slots).rid = rid
         /\ NewTask(slots).released = {} /\ NewTask(slots).over = {}
         /\ ~ NewTask(slots).retried
  BY DEF NewTask, IsTask

LEMMA IndexStep ==
  ASSUME IInv, Next
  PROVE  IndexInv'
<1> USE DEF IInv, IndexInv
<1>1. CASE Refresh
  BY <1>1, FreshHolds DEF Refresh, Pending
<1>2. CASE Dispatch
  <2> DEFINE picks == Picks(M, FreshLoad)
  <2>1. task' = Extended(picks)
    BY <1>2 DEF Dispatch, Extended
  <2>2. /\ DOMAIN task' = Pending \cup {next}
        /\ \A t \in Pending : task'[t] = FreshTask[t]
        /\ task'[next] = NewTask(picks)
    BY <2>1, NewHolds
  <2>3. \A t \in Pending' : IsTask(task'[t])
    BY <2>2, FreshHolds, NewIsTask DEF Pending
  <2>4. next' = next + 1 /\ replay' = {} /\ replay = {} /\ saved' = saved
    BY <1>2 DEF Dispatch
  <2>5. Pending' \subseteq 1 .. next' - 1
    BY <2>2, <2>4 DEF Pending
  <2> QED
    BY <2>3, <2>4, <2>5
<1>3. CASE Harvest
  <2>1. PICK reaped : task' = [ t \in Pending \ reaped |-> FreshTask[t] ]
    BY <1>3 DEF Harvest
  <2>2. next' = next /\ replay' = replay /\ saved' = saved /\ replay = {}
    BY <1>3 DEF Harvest
  <2>3. /\ Pending' = Pending \ reaped
        /\ \A t \in Pending' : IsTask(task'[t])
    BY <2>1, FreshHolds DEF Pending
  <2> QED
    BY <2>2, <2>3
<1>4. CASE EndGenerate
  BY <1>4 DEF EndGenerate, Pending, Snapshot
<1>5. CASE Discard
  <2>1. Pending' = {} /\ replay' = {} /\ next' = next /\ saved' = saved
    BY <1>5 DEF Discard, Pending
  <2> QED
    BY <2>1
<1>6. CASE BeginEval
  BY <1>6 DEF BeginEval, Pending
<1>7. CASE EndBatch
  BY <1>7 DEF EndBatch, Pending
<1>8. ASSUME NEW t,
             \/ \E b \in Branches, marked \in BOOLEAN : BranchOver(t, b, marked)
             \/ TaskReturns(t)
             \/ WorkerRetries(t)
      PROVE  IndexInv'
  <2>1. /\ t \in Pending /\ Pending' = Pending
        /\ \A s \in Pending : s # t => task'[s] = task[s]
        /\ IsTask(task'[t])
        /\ next' = next /\ replay' = replay /\ saved' = saved
    BY <1>8, WorkerStep DEF Pending
  <2> QED
    BY <2>1
<1>9. CASE CrashAndLoad
  <2>1. Pending' = {} /\ next' = saved.next /\ replay' = saved.tasks
        /\ saved' = saved
    BY <1>9 DEF CrashAndLoad, Pending
  <2> QED
    BY <2>1
<1>10. CASE Replay
  <2>1. /\ Pending' = replay /\ replay' = {}
        /\ next' = next /\ saved' = saved
    BY <1>10 DEF Replay, Pending
  <2>2. \A t \in Pending' : IsTask(task'[t])
    BY <1>10, NewIsTask DEF Replay, Pending
  <2> QED
    BY <2>1, <2>2
<1> QED
  BY <1>1, <1>2, <1>3, <1>4, <1>5, <1>6, <1>7, <1>8, <1>9, <1>10 DEF Next

LEMMA CountStep ==
  ASSUME IInv, Next
  PROVE  LoadInv' /\ SlotsConserved'
<1>1. CASE EndGenerate
  BY <1>1, SameCounts DEF EndGenerate, Pending
<1>2. ASSUME NEW t,
             \/ \E b \in Branches, marked \in BOOLEAN : BranchOver(t, b, marked)
             \/ TaskReturns(t)
             \/ WorkerRetries(t)
      PROVE  LoadInv' /\ SlotsConserved'
  <2>1. /\ DOMAIN task' = Pending /\ inflight' = inflight /\ eval' = eval
        /\ \A s \in Pending : /\ task'[s].slot = task[s].slot
                              /\ task'[s].released = task[s].released
    BY <1>2, WorkerStep
  <2> QED
    BY <2>1, SameCounts
<1> QED
  BY <1>1, <1>2, RefreshCounts, DispatchCounts, HarvestCounts, DiscardCounts,
     BeginEvalCounts, EndBatchCounts, CrashCounts, ReplayCounts DEF Next

LEMMA InvStep == IInv /\ [Next]_vars => IInv'
<1> SUFFICES ASSUME IInv, [Next]_vars PROVE IInv'
  OBVIOUS
<1>1. CASE Next
  BY <1>1, IndexStep, CountStep DEF IInv
<1>2. CASE UNCHANGED vars
  <2>1. IndexInv' /\ LoadInv'
    BY <1>2 DEF vars, IInv, IndexInv, LoadInv, Pending
  <2>2. SlotsConserved'
    BY <1>2, Conserved, ConservedNext DEF vars, IInv
  <2> QED
    BY <2>1, <2>2 DEF IInv
<1> QED
  BY <1>1, <1>2

LEMMA InvInit == Init => IInv
<1> SUFFICES ASSUME Init PROVE IInv
  OBVIOUS
<1>1. Pending = {} /\ replay = {} /\ DOMAIN eval = {} /\ next = 1
      /\ inflight = [ e \in Endpoints |-> 0 ]
  BY DEF Init, Pending
<1>2. saved.next = 1 /\ saved.tasks = {}
  BY <1>1 DEF Init, Snapshot
<1>3. IndexInv
  BY <1>1, <1>2 DEF IndexInv
<1>4. LoadInv
  BY <1>1, FS_EmptySet DEF LoadInv
<1>5. SlotsConserved
  <2>1. ASSUME NEW e \in Endpoints
        PROVE  Holds(task, e) = {} /\ On(eval, e) = {} /\ inflight[e] = 0
    BY <1>1 DEF Holds, On, Pending
  <2>2. 0 = 0 + 0
    OBVIOUS
  <2> QED
    BY <2>1, <2>2, FS_EmptySet, Conserved
<1> QED
  BY <1>3, <1>4, <1>5 DEF IInv

(* A reservation is given back once, whichever of the markers, the harvest, *)
(* the end of the run, validation and a restart gets to it first: an        *)
(* endpoint's count is the reservations on it, and the floor at zero in     *)
(* _release_endpoints never hides a second release.                         *)
THEOREM ReservationsConserved == Spec => []SlotsConserved
<1>1. IInv => SlotsConserved
  BY DEF IInv
<1> QED
  BY InvInit, InvStep, <1>1, PTL DEF Spec

-----------------------------------------------------------------------------
(* Markers.                                                                *)

(* A step that keeps a task's markers, or removes some, and moves at most  *)
(* what it found to what is released, keeps the markers within what is     *)
(* over.                                                                   *)
LEMMA KeptMarkers ==
  ASSUME MarkerInv, ready' \subseteq ready, NEW t \in Pending,
         task'[t].rid = task[t].rid, task'[t].over = task[t].over,
         task'[t].retried = task[t].retried,
         task'[t].released \subseteq task[t].released \cup Found(t)
  PROVE  task'[t].retried
           \/ (task'[t].released \cup Found(t)') \subseteq task'[t].over
<1>1. Found(t)' \subseteq Found(t)
  BY DEF Found
<1> QED
  BY <1>1 DEF MarkerInv

(* Once its old markers are gone, a task starts with none.                 *)
LEMMA NewMarkers ==
  ASSUME NEW t, NEW slots, task'[t] = NewTask(slots),
         ready' \cap Markers(rid, t) = {}
  PROVE  (task'[t].released \cup Found(t)') \subseteq task'[t].over
<1>1. task'[t].rid = rid /\ task'[t].released = {}
  BY NewIsTask
<1>2. Found(t)' = {}
  BY <1>1 DEF Found, Markers
<1> QED
  BY <1>1, <1>2

LEMMA FreshFields ==
  ASSUME IInv, NEW t \in Pending
  PROVE  /\ FreshTask[t].rid = task[t].rid
         /\ FreshTask[t].over = task[t].over
         /\ FreshTask[t].retried = task[t].retried
         /\ FreshTask[t].released = task[t].released \cup Found(t)
<1> DEFINE tk == task[t]
           found == Found(t)
<1>1. IsTask(tk)
  BY DEF IInv, IndexInv
<1>2. FreshTask[t] = [ tk EXCEPT !.released = @ \cup found ]
  BY DEF FreshTask
<1> HIDE DEF tk, found
<1>3. FreshTask[t] = [ rid |-> tk.rid, slot |-> tk.slot,
                       released |-> tk.released \cup found,
                       over |-> tk.over, returned |-> tk.returned,
                       retried |-> tk.retried ]
  BY <1>1, <1>2 DEF IsTask
<1>4. /\ FreshTask[t].rid = tk.rid /\ FreshTask[t].over = tk.over
      /\ FreshTask[t].retried = tk.retried
      /\ FreshTask[t].released = tk.released \cup found
  BY <1>3
<1> QED
  BY <1>4 DEF tk, found

LEMMA MarkerStep ==
  ASSUME IInv, MarkerInv, Next
  PROVE  MarkerInv'
<1> SUFFICES ASSUME NEW t \in Pending'
             PROVE  task'[t].retried
                      \/ (task'[t].released \cup Found(t)')
                           \subseteq task'[t].over
  BY DEF MarkerInv
<1>1. CASE Refresh
  <2>1. t \in Pending /\ task'[t] = FreshTask[t] /\ ready' = ready
    BY <1>1, FreshHolds DEF Refresh, Pending
  <2> QED
    BY <2>1, FreshFields, KeptMarkers
<1>2. CASE Dispatch
  <2> DEFINE picks == Picks(M, FreshLoad)
  <2>1. task' = Extended(picks) /\ ready' = ready \ Markers(rid, next)
    BY <1>2 DEF Dispatch, Extended
  <2>2. /\ DOMAIN task' = Pending \cup {next}
        /\ \A s \in Pending : task'[s] = FreshTask[s]
        /\ task'[next] = NewTask(picks)
    BY <2>1, NewHolds
  <2>3. CASE t = next
    BY <2>1, <2>2, <2>3, NewMarkers
  <2>4. CASE t \in Pending
    BY <2>1, <2>2, <2>4, FreshFields, KeptMarkers
  <2> QED
    BY <2>2, <2>3, <2>4 DEF Pending
<1>3. CASE Harvest
  <2>1. PICK reaped : task' = [ s \in Pending \ reaped |-> FreshTask[s] ]
    BY <1>3 DEF Harvest
  <2>2. t \in Pending /\ task'[t] = FreshTask[t]
    BY <2>1 DEF Pending
  <2>3. ready' \subseteq ready
    BY <1>3 DEF Harvest
  <2> QED
    BY <2>2, <2>3, FreshFields, KeptMarkers
<1>4. CASE EndGenerate \/ BeginEval \/ EndBatch
  <2>1. t \in Pending /\ task' = task /\ ready' = ready
    BY <1>4 DEF EndGenerate, BeginEval, EndBatch, Pending
  <2> QED
    BY <2>1, KeptMarkers
<1>5. CASE Discard \/ CrashAndLoad
  BY <1>5 DEF Discard, CrashAndLoad, Pending
<1>6. ASSUME NEW u,
             \/ \E b \in Branches, marked \in BOOLEAN : BranchOver(u, b, marked)
             \/ TaskReturns(u)
             \/ WorkerRetries(u)
      PROVE  task'[t].retried
               \/ (task'[t].released \cup Found(t)') \subseteq task'[t].over
  <2> DEFINE tk == task[u]
  <2>1. /\ u \in Pending /\ t \in Pending
        /\ \A s \in Pending : s # u => task'[s] = task[s]
        /\ task'[u].rid = task[u].rid
        /\ task'[u].released = task[u].released
    BY <1>6, WorkerStep DEF Pending
  <2>2. IsTask(tk)
    BY <2>1 DEF IInv, IndexInv
  <2>3. CASE \E b \in Branches, marked \in BOOLEAN : BranchOver(u, b, marked)
    <3>1. PICK b \in Branches :
            /\ task' = [ task EXCEPT ![u] =
                           [ tk EXCEPT !.over = tk.over \cup {b} ] ]
            /\ ready' \subseteq ready \cup {<< task[u].rid, u, b >>}
      <4>1. PICK b \in Branches, marked \in BOOLEAN : BranchOver(u, b, marked)
        BY <2>3
      <4> QED
        BY <4>1 DEF BranchOver
    <3>2. CASE t # u
      <4>1. Found(t)' \subseteq Found(t) /\ task'[t] = task[t]
        BY <2>1, <3>1, <3>2 DEF Found
      <4> QED
        BY <2>1, <4>1 DEF MarkerInv
    <3>3. CASE t = u
      <4>1. task'[u] = [ tk EXCEPT !.over = tk.over \cup {b} ]
        BY <2>1, <3>1 DEF Pending
      <4>2. task'[u].over = tk.over \cup {b} /\ task'[u].retried = tk.retried
        <5> HIDE DEF tk
        <5> QED
          BY <2>2, <4>1 DEF IsTask
      <4>3. Found(u)' \subseteq Found(u) \cup {b}
        BY <2>1, <3>1 DEF Found
      <4>4. tk.retried \/ (tk.released \cup Found(u)) \subseteq tk.over
        BY <2>1 DEF MarkerInv
      <4> QED
        BY <2>1, <3>3, <4>2, <4>3, <4>4
    <3> QED
      BY <3>2, <3>3
  <2>4. CASE TaskReturns(u)
    <3>1. /\ task' = [ task EXCEPT ![u] = [ tk EXCEPT !.returned = TRUE ] ]
          /\ ready' = ready
      BY <2>4 DEF TaskReturns
    <3>2. task'[u] = [ tk EXCEPT !.returned = TRUE ]
      BY <2>1, <3>1 DEF Pending
    <3>3. task'[u].over = tk.over /\ task'[u].retried = tk.retried
      <4> HIDE DEF tk
      <4> QED
        BY <2>2, <3>2 DEF IsTask
    <3>4. /\ task'[t].rid = task[t].rid /\ task'[t].over = task[t].over
          /\ task'[t].retried = task[t].retried
          /\ task'[t].released = task[t].released
      BY <2>1, <3>3
    <3> QED
      BY <2>1, <3>1, <3>4, KeptMarkers
  <2>5. CASE WorkerRetries(u)
    <3>1. /\ task' = [ task EXCEPT ![u] =
                         [ tk EXCEPT !.over = {}, !.retried = TRUE ] ]
          /\ ready' = ready
      BY <2>5 DEF WorkerRetries
    <3>2. task'[u] = [ tk EXCEPT !.over = {}, !.retried = TRUE ]
      BY <2>1, <3>1 DEF Pending
    <3>3. task'[u].retried
      <4> HIDE DEF tk
      <4> QED
        BY <2>2, <3>2 DEF IsTask
    <3>4. t # u => task'[t] = task[t]
      BY <2>1
    <3> QED
      BY <2>1, <3>1, <3>3, <3>4, KeptMarkers
  <2> QED
    BY <1>6, <2>3, <2>4, <2>5
<1>7. CASE Replay
  <2>1. t \in replay
    BY <1>7 DEF Replay, Pending
  <2>2. \E slots : task'[t] = NewTask(slots)
    BY <1>7, <2>1 DEF Replay
  <2>3. ready' \cap Markers(rid, t) = {}
    BY <1>7, <2>1 DEF Replay
  <2> QED
    BY <2>2, <2>3, NewMarkers
<1> QED
  BY <1>1, <1>2, <1>3, <1>4, <1>5, <1>6, <1>7 DEF Next

(* The driver never frees a slot on the strength of a marker that another  *)
(* life of the job left under the same rollout and index: what is released *)
(* of a task is over in that task, unless its worker ran it again.         *)
THEOREM MarkersAreOwn == Spec => []ReleasedIsOver
<1> DEFINE Inv == IInv /\ MarkerInv
<1>1. Init => Inv
  BY InvInit DEF Init, MarkerInv, Pending
<1>2. Inv /\ [Next]_vars => Inv'
  <2> SUFFICES ASSUME Inv, [Next]_vars PROVE MarkerInv'
    BY InvStep
  <2>1. CASE UNCHANGED vars
    BY <2>1 DEF vars, MarkerInv, Pending, Found
  <2> QED
    BY <2>1, MarkerStep
<1>3. Inv => ReleasedIsOver
  BY DEF MarkerInv, ReleasedIsOver
<1> HIDE DEF Inv
<1> QED
  BY <1>1, <1>2, <1>3, PTL DEF Spec
-----------------------------------------------------------------------------
(* WorkerPool: one call replaces a broken executor, whichever order the    *)
(* threads run in, and a call fails for a reason.                          *)

(* What is known of a call at each place it can stand.  From its repair on *)
(* its first executor is broken, and from the moment it has gone through   *)
(* the lock that executor is not the current one.                          *)
PoolCallInv ==
  \A c \in Calls :
    /\ pc[c] \notin {"done", "read", "wait"} => first[c] \in broken
    /\ pc[c] \in Locked <=> lock = c
    /\ pc[c] = "retired" => first[c] = executor /\ executor \in shut
    /\ pc[c] \in {"replaced", "resubmit", "rewait", "failed"} =>
         first[c] < executor
    /\ pc[c] \in {"resubmit", "rewait"} => first[c] < second[c]
    /\ pc[c] = "failed" /\ c \notin Validations =>
         second[c] \in broken /\ first[c] < second[c]

PoolInv == PoolTypeOK /\ PoolCallInv /\ OneLivePool

LEMMA PoolInitially ==
  ASSUME PoolInit
  PROVE  PoolInv
BY PoolAssumption DEF PoolInit, PoolInv, PoolTypeOK, PoolCallInv,
       OneLivePool, Ended, Locked, Waiting

(* The steps that move one call and touch neither the executors nor the    *)
(* lock.                                                                   *)
LEMMA CallMoves ==
  ASSUME PoolInv, NEW c \in Calls,
         \/ Start(c) \/ Submit(c) \/ Observe(c)
         \/ Resubmit(c) \/ ObserveRetry(c)
  PROVE  PoolInv'
<1>1. CASE Start(c)
  BY <1>1
     DEF PoolInv, PoolTypeOK, PoolCallInv, OneLivePool, Start,
         Goto, Ended, Locked, Waiting
<1>2. CASE Submit(c)
  BY <1>2
     DEF PoolInv, PoolTypeOK, PoolCallInv, OneLivePool, Submit,
         Goto, Ended, Locked, Waiting
<1>3. CASE Observe(c)
  BY <1>3
     DEF PoolInv, PoolTypeOK, PoolCallInv, OneLivePool, Observe,
         Goto, Ended, Locked, Waiting
<1>4. CASE Resubmit(c)
  BY <1>4
     DEF PoolInv, PoolTypeOK, PoolCallInv, OneLivePool, Resubmit,
         Goto, Ended, Locked, Waiting
<1>5. CASE ObserveRetry(c)
  BY <1>5
     DEF PoolInv, PoolTypeOK, PoolCallInv, OneLivePool,
         ObserveRetry, Goto, Ended, Locked, Waiting
<1> QED BY <1>1, <1>2, <1>3, <1>4, <1>5

LEMMA AcquireHolds ==
  ASSUME PoolInv, NEW c \in Calls,
         Acquire(c)
  PROVE  PoolInv'
<1>1. c # NoCall /\ lock = NoCall /\ first[c] \in broken
  BY PoolAssumption DEF PoolInv, PoolCallInv, Acquire
<1>2. PoolTypeOK'
  BY
     DEF PoolInv, PoolTypeOK, Acquire, Goto, Ended,
         Locked, Waiting
<1>3. \A d \in Calls : pc[d] \notin Locked
  BY <1>1, PoolAssumption DEF PoolInv, PoolCallInv
<1>4. PoolCallInv'
  <2>1. lock' = c /\ pc' = [ pc EXCEPT ![c] = "locked" ]
    BY DEF Acquire, Goto
  <2>2. \A d \in Calls : pc'[d] \in Locked <=> lock' = d
    BY <1>3, <2>1 DEF PoolInv, PoolTypeOK, Locked
  <2> QED
    BY <1>1, <2>1, <2>2
       DEF PoolInv, PoolTypeOK, PoolCallInv, Acquire, Ended,
           Locked, Waiting
<1>5. OneLivePool'
  BY DEF PoolInv, OneLivePool, Acquire
<1> QED BY <1>2, <1>4, <1>5 DEF PoolInv

LEMMA RetireHolds ==
  ASSUME PoolInv, NEW c \in Calls, Retire(c)
  PROVE  PoolInv'
<1>1. first[c] \in broken /\ lock = c /\ first[c] \in 0 .. executor
  BY DEF PoolInv, PoolTypeOK, PoolCallInv, Retire, Locked
<1>2. PoolTypeOK'
  <2>1. shut' \in SUBSET (1 .. executor')
    <3>1. shut' \subseteq shut \cup {executor} /\ executor' = executor
      BY DEF Retire
    <3>2. executor \in 1 .. executor /\ shut \subseteq 1 .. executor
      BY DEF PoolInv, PoolTypeOK
    <3> QED BY <3>1, <3>2
  <2>2. pc' \in [ Calls -> Ended \cup Locked \cup Waiting ]
    BY DEF PoolInv, PoolTypeOK, Retire, Goto, Locked
  <2> QED BY <2>1, <2>2 DEF PoolInv, PoolTypeOK, Retire
<1>3. PoolCallInv'
  BY <1>1
     DEF PoolInv, PoolTypeOK, PoolCallInv, Retire, Goto, Ended,
         Locked, Waiting
<1>4. OneLivePool'
  BY <1>1 DEF PoolInv, OneLivePool, Retire
<1> QED BY <1>2, <1>3, <1>4 DEF PoolInv

(* Only the holder of the lock can be at "retired", so no other call takes *)
(* the new executor for the one it retired.                                *)
LEMMA RebuildHolds ==
  ASSUME PoolInv, NEW c \in Calls, Rebuild(c)
  PROVE  PoolInv'
<1>1. /\ lock = c
      /\ executor \in shut
      /\ first[c] = executor
  BY DEF PoolInv, PoolCallInv, Rebuild, Locked
<1>2. PoolTypeOK'
  BY
     DEF PoolInv, PoolTypeOK, Rebuild, Goto, Ended,
         Locked, Waiting
<1>3. PoolCallInv'
  BY <1>1
     DEF PoolInv, PoolTypeOK, PoolCallInv, Rebuild, Goto,
         Ended, Locked, Waiting
<1>4. OneLivePool'
  BY <1>1 DEF PoolInv, PoolTypeOK, OneLivePool, Rebuild
<1> QED BY <1>2, <1>3, <1>4 DEF PoolInv

LEMMA ReleaseHolds ==
  ASSUME PoolInv, NEW c \in Calls,
         Release(c)
  PROVE  PoolInv'
<1>1. first[c] < executor /\ lock = c /\ first[c] \in broken
  BY DEF PoolInv, PoolCallInv, Release, Locked
<1>2. PoolTypeOK'
  BY DEF PoolInv, PoolTypeOK, Release, Goto, Ended, Locked, Waiting
<1>3. PoolCallInv'
  BY <1>1, PoolAssumption DEF PoolInv, PoolTypeOK, PoolCallInv, Release,
         Goto, Ended, Locked, Waiting
<1>4. OneLivePool'
  BY DEF PoolInv, OneLivePool, Release
<1> QED BY <1>2, <1>3, <1>4 DEF PoolInv

LEMMA BreakHolds ==
  ASSUME PoolInv, Break
  PROVE  PoolInv'
BY DEF PoolInv, PoolTypeOK, PoolCallInv, OneLivePool, Break,
       Ended, Locked, Waiting

LEMMA PoolStutters ==
  ASSUME PoolInv, UNCHANGED poolVars
  PROVE  PoolInv'
BY DEF PoolInv, PoolTypeOK, PoolCallInv, OneLivePool, poolVars

(* The invariant the properties follow from.                               *)
THEOREM PoolInvariance == PoolSpec => []PoolInv
<1>1. PoolInit => PoolInv
  BY PoolInitially
<1>2. PoolInv /\ [PoolNext]_poolVars => PoolInv'
  <2> SUFFICES ASSUME PoolInv, [PoolNext]_poolVars PROVE PoolInv'
    OBVIOUS
  <2>1. CASE Break
    BY <2>1, BreakHolds
  <2>2. ASSUME NEW c \in Calls, Start(c) \/ Step(c) PROVE PoolInv'
    BY <2>2, CallMoves, AcquireHolds, RetireHolds, RebuildHolds,
       ReleaseHolds DEF Step
  <2>3. CASE UNCHANGED poolVars
    BY <2>3, PoolStutters
  <2> QED BY <2>1, <2>2, <2>3 DEF PoolNext
<1> QED BY <1>1, <1>2, PTL DEF PoolSpec

(* OneLivePool for any number of calls and breaks: _executor_rebuild_lock  *)
(* and the identity check of _submit_with_rebuild make the replacement of  *)
(* a broken executor happen once, and never to a healthy one.              *)
THEOREM ReplacedOnce == PoolSpec => []OneLivePool
<1>1. PoolInv => OneLivePool
  BY DEF PoolInv
<1> QED BY <1>1, PoolInvariance, PTL

(* FailureHasCause for any number of calls and breaks: a training task     *)
(* that fails met two different broken executors, a validation one, and    *)
(* the first that a failed call met has been replaced.  The second may     *)
(* still be in place, since the retry is awaited outside the handler.      *)
THEOREM FailuresHaveCause == PoolSpec => []FailureHasCause
<1>1. PoolInv => FailureHasCause
  BY DEF PoolInv, PoolTypeOK, PoolCallInv, FailureHasCause
<1> QED BY <1>1, PoolInvariance, PTL
=============================================================================
