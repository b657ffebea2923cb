-------------------------- MODULE UsageLedgerProofs -------------------------
(***************************************************************************)
(* Theorems about UsageLedger, for any number of sources, samples of one   *)
(* source, model requests and job incarnations.                            *)
(***************************************************************************)
EXTENDS UsageLedger, FiniteSetTheorems, WellFoundedInduction, TLAPS

-----------------------------------------------------------------------------
(* The invariant.                                                          *)

Tasks == [ group : Groups, try : 0 .. MaxTries, quiet : BOOLEAN ]
Events ==
  [ kind : {"request"}, group : Groups, as : {"none"} ] \cup
  [ kind : {"disposition"}, group : Groups, as : {"dropped", "accepted"} ]
Checkpoints ==
  [ cursor : 0 .. NumSources, tasks : SUBSET Tasks, buffer : SUBSET Tasks,
    offset : Nat \cup {None} ]

TypeInv ==
  /\ pc \in {"idle", "generate", "batch", "stopped"}
  /\ life \in 1 .. MaxLives /\ cursor \in 0 .. NumSources
  /\ pending \subseteq Tasks /\ strays \subseteq Tasks
  /\ replay \subseteq Tasks /\ retry \subseteq Tasks
  /\ buffer \subseteq Tasks
  /\ ledger \in Seq(Events)
  /\ saved \in Checkpoints
  /\ orphaned \subseteq DOMAIN ledger
  /\ saved.offset # None => saved.offset <= Len(ledger)

(* A checkpoint's tasks run again before anything else does, and cancelled *)
(* tasks are those of a run that has ended.                                *)
StageInv ==
  /\ pc = "idle" => pending = {} /\ retry = {}
  /\ pc # "idle" => replay = {}
  /\ pc # "stopped" => strays = {}
  /\ pc = "stopped" => pending = {} /\ retry = {} /\ buffer = {}

(* A source that was drawn is with one task at most.                       *)
OneEach(tasks, drawn) ==
  /\ \A t \in tasks : t.group.source \in 1 .. drawn
  /\ \A t, u \in tasks : t.group.source = u.group.source => t = u
Apart(some, others) ==
  \A t \in some, u \in others : t.group.source # u.group.source

HeldInv ==
  /\ OneEach(pending, cursor) /\ OneEach(replay, cursor)
  /\ OneEach(retry, cursor) /\ OneEach(buffer, cursor)
  /\ OneEach(strays, cursor)
  /\ Apart(pending, retry) /\ Apart(pending, buffer)
  /\ Apart(retry, buffer) /\ Apart(replay, buffer)
  /\ OneEach(saved.tasks, saved.cursor)
  /\ OneEach(saved.buffer, saved.cursor)
  /\ Apart(saved.tasks, saved.buffer)
  /\ \A t \in pending \cup strays : t.try = t.group.try

(* The events that a later job builds on if this one goes on, and those    *)
(* that it builds on if this one dies now.                                 *)
Live == DOMAIN ledger \ orphaned
Durable ==
  { k \in Live : saved.offset # None /\ k <= saved.offset }

IsRequest(k) == ledger[k].kind = "request"

(* A group with the source and the try number of a task.                   *)
SameAttempt(g, t) == g.source = t.group.source /\ g.try = t.try

(* The tries that were charged for a source do not go beyond the one its   *)
(* task has reached; a task that is to be sampled again is one further.    *)
Reached(g, tasks) ==
  \A t \in tasks : g.source = t.group.source => g.try <= t.try
Passed(g, tasks) ==
  \A t \in tasks : g.source = t.group.source => g.try < t.try

ChargeInv ==
  /\ \A k \in Live : IsRequest(k) =>
       LET g == ledger[k].group IN
         /\ g.source \in 1 .. cursor
         /\ Reached(g, pending \cup replay \cup buffer)
         /\ Passed(g, retry)
         /\ \A t \in pending \cup strays :
              ~ t.quiet /\ SameAttempt(g, t) => g = t.group
  /\ \A k \in Durable : IsRequest(k) =>
       /\ ledger[k].group.source \in 1 .. saved.cursor
       /\ Reached(ledger[k].group, saved.tasks \cup saved.buffer)

(* A group that has an outcome among these events.                         *)
Settled(g, read) == DispositionsOf(g, read) # {}
Held(g, tasks) == \E t \in tasks : t.group = g

SettleInv ==
  /\ \A k \in Live : IsRequest(k) =>
       \/ Settled(ledger[k].group, Live)
       \/ Held(ledger[k].group, pending \cup replay \cup buffer)
  /\ \A t \in strays : Settled(t.group, Live)
  /\ \A k \in Durable : IsRequest(k) =>
       \/ Settled(ledger[k].group, Durable)
       \/ Held(ledger[k].group, saved.tasks \cup saved.buffer)

LedgerInv ==
  TypeInv /\ StageInv /\ HeldInv /\ ChargeInv /\ SettleInv /\ ChargedOnce
-----------------------------------------------------------------------------
(* The ledger.                                                             *)

LEMMA ConstantFacts ==
  /\ NumSources \in Nat \ {0} /\ MaxLives \in Nat \ {0}
  /\ MaxTries \in Nat /\ None \notin Nat
BY LedgerAssumption

(* The groups of tasks with a source each are finitely many: every one has *)
(* its number among the sources drawn.                                     *)
LEMMA GroupsFinite ==
  ASSUME NEW n \in Nat, NEW tasks \in SUBSET Tasks, OneEach(tasks, n)
  PROVE  IsFiniteSet(GroupsOf(tasks)) /\ GroupsOf(tasks) \subseteq Groups
<1> DEFINE G == GroupsOf(tasks)
           f == [ g \in G |-> g.source ]
<1>1. \A g \in G : \E t \in tasks : g = t.group
  BY DEF GroupsOf
<1>2. f \in [ G -> 1 .. n ]
  BY <1>1 DEF OneEach
<1>3. \A g, h \in G : f[g] = f[h] => g = h
  BY <1>1 DEF OneEach
<1>4. f \in Injection(G, 1 .. n)
  BY <1>2, <1>3 DEF Injection, IsInjective
<1>5. IsFiniteSet(1 .. n)
  BY FS_Interval
<1>6. IsFiniteSet(G)
  BY <1>4, <1>5, FS_Injection
<1> QED
  BY <1>1, <1>6 DEF Tasks

(* Every member of a finite set is in the sequence that SetToSeq chooses.  *)
LEMMA SetToSeqCovers ==
  ASSUME NEW S, IsFiniteSet(S)
  PROVE  /\ Cardinality(S) \in Nat
         /\ SetToSeq(S) \in [ 1 .. Cardinality(S) -> S ]
         /\ \A x \in S : \E k \in 1 .. Cardinality(S) : SetToSeq(S)[k] = x
<1> DEFINE n == Cardinality(S)
<1>1. n \in Nat /\ ExistsBijection(1 .. n, S)
  BY FS_CardinalityType
<1>2. PICK f : f \in Bijection(1 .. n, S)
  BY <1>1 DEF ExistsBijection
<1>3. f \in [ 1 .. n -> S ] /\ IsInjective(f)
  BY <1>2 DEF Bijection, Injection
<1> DEFINE order == SetToSeq(S)
<1>4. order \in [ 1 .. n -> S ] /\ IsInjective(order)
  BY <1>3 DEF SetToSeq
<1> HIDE DEF order
<1>5. order \in Injection(1 .. n, S)
  BY <1>4 DEF Injection
<1>6. IsFiniteSet(1 .. n) /\ Cardinality(1 .. n) = n
  BY <1>1, FS_Interval
<1>7. order \in Surjection(1 .. n, S)
  BY <1>5, <1>6, FS_Injection
<1> QED
  BY <1>1, <1>4, <1>7 DEF Surjection, order

LEMMA DispositionsCover ==
  ASSUME NEW G \in SUBSET Groups, IsFiniteSet(G),
         NEW d \in {"dropped", "accepted"}
  PROVE  /\ Dispositions(G, d) \in Seq(Events)
         /\ \A k \in DOMAIN Dispositions(G, d) :
              Dispositions(G, d)[k].kind = "disposition"
         /\ \A g \in G : \E k \in DOMAIN Dispositions(G, d) :
              Dispositions(G, d)[k] = Disposition(g, d)
<1> DEFINE n == Cardinality(G)
           order == SetToSeq(G)
           lines == Dispositions(G, d)
<1>1. /\ n \in Nat /\ order \in [ 1 .. n -> G ]
      /\ \A g \in G : \E k \in 1 .. n : order[k] = g
  BY SetToSeqCovers
<1>2. lines = [ k \in DOMAIN order |-> Disposition(order[k], d) ]
  BY DEF Dispositions
<1> HIDE DEF order, lines, n
<1>3. \A g \in G : Disposition(g, d) \in Events
                   /\ Disposition(g, d).kind = "disposition"
  BY DEF Disposition, Events
<1>4. DOMAIN lines = 1 .. n
      /\ \A k \in 1 .. n : lines[k] = Disposition(order[k], d)
  BY <1>1, <1>2
<1>5. lines \in [ 1 .. n -> Events ]
  BY <1>1, <1>2, <1>3
<1>6. lines \in Seq(Events)
  BY <1>1, <1>5
<1> QED
  BY <1>1, <1>3, <1>4, <1>6 DEF lines

(* What appending leaves of what was there.                                *)
LEMMA Grows ==
  ASSUME TypeInv, NEW new \in Seq(Events), ledger' = ledger \o new,
         UNCHANGED << saved, orphaned >>
  PROVE  /\ ledger' \in Seq(Events)
         /\ orphaned' \subseteq DOMAIN ledger'
         /\ saved'.offset # None => saved'.offset <= Len(ledger')
         /\ Live \subseteq Live' /\ Durable' = Durable
         /\ \A k \in DOMAIN ledger : ledger'[k] = ledger[k]
         /\ \A k \in DOMAIN new : Len(ledger) + k \in Live'
                                  /\ ledger'[Len(ledger) + k] = new[k]
         /\ \A k \in Live' : \/ k \in Live
                             \/ \E i \in DOMAIN new : k = Len(ledger) + i
<1>1. ledger \in Seq(Events) /\ ledger' \in Seq(Events)
  BY DEF TypeInv
<1> DEFINE n == Len(ledger)  m == Len(new)
<1>2. n \in Nat /\ m \in Nat /\ Len(ledger') = n + m
  BY <1>1
<1>3. DOMAIN ledger = 1 .. n /\ DOMAIN new = 1 .. m
      /\ DOMAIN ledger' = 1 .. n + m
  BY <1>1, <1>2
<1>4. \A k \in 1 .. n : ledger'[k] = ledger[k]
  BY <1>1
<1>5. \A k \in 1 .. m : ledger'[n + k] = new[k]
  BY <1>1
<1>6. orphaned \subseteq 1 .. n
  BY <1>3 DEF TypeInv
<1>7. saved.offset # None => saved.offset \in Nat /\ saved.offset <= n
  BY DEF TypeInv, Checkpoints
<1> HIDE DEF n, m
<1>8. Live = (1 .. n) \ orphaned /\ Live' = (1 .. n + m) \ orphaned
  BY <1>3 DEF Live
<1>9. Live \subseteq Live'
  BY <1>2, <1>8
<1>10. \A k \in 1 .. m : n + k \in Live'
  BY <1>2, <1>6, <1>8
<1>11. \A k \in Live' : k \in Live \/ \E i \in 1 .. m : k = n + i
  <2> TAKE k \in Live'
  <2>1. k \in 1 .. n + m /\ k \notin orphaned
    BY <1>8
  <2>2. CASE k <= n
    BY <2>1, <2>2, <1>2, <1>8
  <2>3. CASE ~ (k <= n)
    <3>1. k - n \in 1 .. m /\ k = n + (k - n)
      BY <2>1, <2>3, <1>2
    <3> QED
      BY <3>1
  <2> QED
    BY <2>2, <2>3
<1>12. Durable' = Durable
  <2>1. \A k \in Live' : saved.offset # None /\ k <= saved.offset
                           => k \in Live
    BY <1>2, <1>7, <1>8
  <2> QED
    BY <1>9, <2>1 DEF Durable
<1>13. /\ orphaned' \subseteq DOMAIN ledger'
       /\ saved'.offset # None => saved'.offset <= Len(ledger')
  BY <1>2, <1>3, <1>6, <1>7
<1> QED
  BY <1>1, <1>3, <1>4, <1>5, <1>9, <1>10, <1>11, <1>12, <1>13 DEF n, m

(* What a step that writes dispositions leaves of the requests, and what   *)
(* it settles.                                                             *)
Keeps(G) ==
  /\ ledger' \in Seq(Events)
  /\ orphaned' \subseteq DOMAIN ledger'
  /\ saved'.offset # None => saved'.offset <= Len(ledger')
  /\ saved' = saved
  /\ \A k \in Live' : IsRequest(k)' =>
       k \in Live /\ IsRequest(k) /\ ledger'[k] = ledger[k]
  /\ \A g : Settled(g, Live) => Settled(g, Live)'
  /\ \A g \in G : Settled(g, Live)'
  /\ Durable' = Durable
  /\ \A k \in Durable : ledger'[k] = ledger[k]
  /\ \A g : Settled(g, Durable) => Settled(g, Durable)'

LEMMA DisposeKeeps ==
  ASSUME TypeInv, NEW G \in SUBSET Groups, IsFiniteSet(G),
         NEW d \in {"dropped", "accepted"},
         ledger' = ledger \o Dispositions(G, d),
         UNCHANGED << saved, orphaned >>
  PROVE  Keeps(G)
<1> DEFINE new == Dispositions(G, d)
<1>1. /\ new \in Seq(Events)
      /\ \A k \in DOMAIN new : new[k].kind = "disposition"
      /\ \A g \in G : \E k \in DOMAIN new : new[k] = Disposition(g, d)
  BY DispositionsCover
<1>2. ledger' = ledger \o new
  OBVIOUS
<1> HIDE DEF new
<1>3. /\ ledger' \in Seq(Events)
      /\ orphaned' \subseteq DOMAIN ledger'
      /\ saved'.offset # None => saved'.offset <= Len(ledger')
      /\ Live \subseteq Live' /\ Durable' = Durable
      /\ \A k \in DOMAIN ledger : ledger'[k] = ledger[k]
      /\ \A k \in DOMAIN new : Len(ledger) + k \in Live'
                               /\ ledger'[Len(ledger) + k] = new[k]
      /\ \A k \in Live' : \/ k \in Live
                          \/ \E i \in DOMAIN new : k = Len(ledger) + i
  BY <1>1, <1>2, Grows
<1>4. Live \subseteq DOMAIN ledger /\ Durable \subseteq Live
  BY DEF Live, Durable
<1>5. \A k \in Live' : IsRequest(k)' =>
        k \in Live /\ IsRequest(k) /\ ledger'[k] = ledger[k]
  BY <1>1, <1>3, <1>4 DEF IsRequest
<1>6. \A g : Settled(g, Live) => Settled(g, Live)'
  BY <1>3, <1>4 DEF Settled, DispositionsOf
<1>7. \A g \in G : Settled(g, Live)'
  <2> TAKE g \in G
  <2>1. PICK k \in DOMAIN new : new[k] = Disposition(g, d)
    BY <1>1
  <2>2. /\ Len(ledger) + k \in Live'
        /\ ledger'[Len(ledger) + k] = Disposition(g, d)
    BY <2>1, <1>3
  <2>3. Disposition(g, d).kind = "disposition" /\ Disposition(g, d).group = g
    BY DEF Disposition
  <2> QED
    BY <2>2, <2>3 DEF Settled, DispositionsOf
<1>8. \A g : Settled(g, Durable) => Settled(g, Durable)'
  BY <1>3, <1>4 DEF Settled, DispositionsOf
<1> QED
  BY <1>3, <1>4, <1>5, <1>6, <1>7, <1>8 DEF Keeps

LEMMA SilenceKeeps ==
  ASSUME TypeInv, UNCHANGED << ledger, saved, orphaned >>
  PROVE  Keeps({})
<1>1. Live' = Live /\ Durable' = Durable
  BY DEF Live, Durable
<1>2. /\ ledger' \in Seq(Events) /\ orphaned' \subseteq DOMAIN ledger'
      /\ saved'.offset # None => saved'.offset <= Len(ledger')
  BY DEF TypeInv
<1> QED
  BY <1>1, <1>2 DEF Keeps, Settled, DispositionsOf, IsRequest

-----------------------------------------------------------------------------
(* Tasks.                                                                  *)

LEMMA TaskFacts ==
  ASSUME NEW g \in Groups, NEW q \in BOOLEAN
  PROVE  /\ Task(g, q) \in Tasks /\ Task(g, q).group = g
         /\ Task(g, q).try = g.try /\ (Task(g, q).quiet <=> q)
  BY DEF Task, Tasks, Groups, Sources

LEMMA GroupFacts ==
  ASSUME life \in 1 .. MaxLives, NEW s \in Sources, NEW n \in 0 .. MaxTries
  PROVE  /\ GroupOf(s, n) \in Groups
         /\ GroupOf(s, n).source = s /\ GroupOf(s, n).try = n
  BY DEF GroupOf, Groups

LEMMA ReplayFacts ==
  ASSUME life \in 1 .. MaxLives, NEW t \in Tasks
  PROVE  /\ Replayed(t) \in Tasks /\ Replayed(t).quiet
         /\ Replayed(t).group.source = t.group.source
         /\ Replayed(t).try = t.try /\ Replayed(t).group.try = t.try
<1>1. t.group.source \in Sources /\ t.try \in 0 .. MaxTries
  BY DEF Tasks, Groups
<1> DEFINE g == GroupOf(t.group.source, t.try)
<1>2. g \in Groups /\ g.source = t.group.source /\ g.try = t.try
  BY <1>1, GroupFacts
<1>3. Replayed(t) = Task(g, TRUE)
  BY DEF Replayed
<1> HIDE DEF g
<1>4. /\ Task(g, TRUE) \in Tasks /\ Task(g, TRUE).group = g
      /\ Task(g, TRUE).try = g.try /\ Task(g, TRUE).quiet
  BY <1>2, TaskFacts
<1> QED
  BY <1>2, <1>3, <1>4, Zenon

LEMMA ResampleFacts ==
  ASSUME life \in 1 .. MaxLives, NEW t \in Tasks
  PROVE  /\ Resampled(t) \in Tasks /\ ~ Resampled(t).quiet
         /\ Resampled(t).group.source = t.group.source
         /\ Resampled(t).try = t.try /\ Resampled(t).group.try = t.try
<1>1. t.group.source \in Sources /\ t.try \in 0 .. MaxTries
  BY DEF Tasks, Groups
<1> DEFINE g == GroupOf(t.group.source, t.try)
<1>2. g \in Groups /\ g.source = t.group.source /\ g.try = t.try
  BY <1>1, GroupFacts
<1>3. Resampled(t) = Task(g, FALSE)
  BY DEF Resampled
<1> HIDE DEF g
<1>4. /\ Task(g, FALSE) \in Tasks /\ Task(g, FALSE).group = g
      /\ Task(g, FALSE).try = g.try /\ ~ Task(g, FALSE).quiet
  BY <1>2, TaskFacts
<1> QED
  BY <1>2, <1>3, <1>4, Zenon

LEMMA AgainFacts ==
  ASSUME NEW t \in Tasks, t.try < MaxTries
  PROVE  /\ Again(t) \in Tasks /\ Again(t).group = t.group
         /\ Again(t).try = t.try + 1 /\ t.try \in Nat
<1>1. t.group \in Groups /\ t.try \in Nat /\ t.quiet \in BOOLEAN
  BY DEF Tasks
<1>2. t.try + 1 \in 0 .. MaxTries
  BY <1>1, ConstantFacts
<1>3. Again(t) = [ group |-> t.group, try |-> t.try + 1, quiet |-> t.quiet ]
  BY DEF Again, Tasks
<1> QED
  BY <1>1, <1>2, <1>3 DEF Tasks

-----------------------------------------------------------------------------
(* A step that writes no request keeps the invariant when the tasks it     *)
(* moves stay apart, when none falls behind what was charged, and when it  *)
(* settles the groups it lets go.                                          *)

LEMMA KeepingStep ==
  ASSUME LedgerInv, NEW G, Keeps(G), TypeInv', StageInv', HeldInv',
         cursor' \in Nat, cursor <= cursor',
         ASSUME NEW k \in Live, IsRequest(k)
         PROVE  LET g == ledger[k].group IN
                /\ Reached(g, pending' \cup replay' \cup buffer')
                /\ Passed(g, retry')
                /\ \A t \in pending' \cup strays' :
                     ~ t.quiet /\ SameAttempt(g, t) => g = t.group
                /\ Held(g, pending \cup replay \cup buffer) =>
                     \/ g \in G
                     \/ Held(g, pending' \cup replay' \cup buffer'),
         \A t \in strays' : t \in strays \/ t.group \in G
  PROVE  LedgerInv'
<1>1. \A k \in Live' : IsRequest(k)' =>
        k \in Live /\ IsRequest(k) /\ ledger'[k] = ledger[k]
  BY DEF Keeps
<1>2. Durable' = Durable /\ Durable \subseteq Live /\ saved' = saved
      /\ \A k \in Durable : ledger'[k] = ledger[k]
  BY DEF Keeps, Durable
<1>3. \A k \in Durable : IsRequest(k)' <=> IsRequest(k)
  BY <1>2 DEF IsRequest
<1>4. ChargeInv'
  <2>1. ASSUME NEW k \in Live', IsRequest(k)'
        PROVE  LET g == ledger'[k].group IN
                 /\ g.source \in 1 .. cursor'
                 /\ Reached(g, pending' \cup replay' \cup buffer')
                 /\ Passed(g, retry')
                 /\ \A t \in pending' \cup strays' :
                      ~ t.quiet /\ SameAttempt(g, t) => g = t.group
    <3>1. k \in Live /\ IsRequest(k) /\ ledger'[k] = ledger[k]
      BY <1>1, <2>1
    <3>2. ledger[k].group.source \in 1 .. cursor /\ cursor \in Nat
      BY <3>1 DEF LedgerInv, ChargeInv, TypeInv
    <3>3. ledger[k].group.source \in 1 .. cursor'
      BY <3>2
    <3> QED
      BY <3>1, <3>3
  <2>2. ASSUME NEW k \in Durable', IsRequest(k)'
        PROVE  /\ ledger'[k].group.source \in 1 .. saved'.cursor
               /\ Reached(ledger'[k].group, saved'.tasks \cup saved'.buffer)
    BY <2>2, <1>2, <1>3 DEF LedgerInv, ChargeInv
  <2> QED
    BY <2>1, <2>2 DEF ChargeInv, SameAttempt, Reached, Passed
<1>5. SettleInv'
  <2>1. ASSUME NEW k \in Live', IsRequest(k)'
        PROVE  \/ Settled(ledger[k].group, Live)'
               \/ Held(ledger[k].group, pending \cup replay \cup buffer)'
    <3>1. k \in Live /\ IsRequest(k) /\ ledger'[k] = ledger[k]
      BY <1>1, <2>1
    <3> DEFINE g == ledger[k].group
    <3>2. Settled(g, Live) \/ Held(g, pending \cup replay \cup buffer)
      BY <3>1 DEF LedgerInv, SettleInv
    <3>3. CASE Settled(g, Live)
      BY <3>1, <3>3 DEF Keeps, Settled, DispositionsOf
    <3>4. CASE Held(g, pending \cup replay \cup buffer)
      <4>1. g \in G \/ Held(g, pending' \cup replay' \cup buffer')
        BY <3>1, <3>4
      <4> QED
        BY <3>1, <4>1 DEF Keeps, Settled, DispositionsOf, Held
    <3> QED
      BY <3>2, <3>3, <3>4
  <2>2. \A t \in strays' : Settled(t.group, Live)'
    BY DEF LedgerInv, SettleInv, Keeps, Settled, DispositionsOf
  <2>3. ASSUME NEW k \in Durable', IsRequest(k)'
        PROVE  \/ Settled(ledger[k].group, Durable)'
               \/ Held(ledger[k].group, saved.tasks \cup saved.buffer)'
    BY <2>3, <1>2, <1>3
       DEF LedgerInv, SettleInv, Keeps, Settled, DispositionsOf, Held
  <2> QED
    BY <2>1, <2>2, <2>3 DEF SettleInv
<1>6. ChargedOnce'
  <2>1. \A k : k \in Requests \ orphaned <=> k \in Live /\ IsRequest(k)
    BY DEF Requests, Live, IsRequest
  <2>2. \A k : k \in Requests' \ orphaned' <=> k \in Live' /\ IsRequest(k)'
    BY DEF Requests, Live, IsRequest
  <2> QED
    BY <1>1, <2>1, <2>2 DEF ChargedOnce, LedgerInv
<1> QED
  BY <1>4, <1>5, <1>6 DEF LedgerInv

-----------------------------------------------------------------------------
(* The steps.                                                              *)

LEMMA SendRequestHolds ==
  ASSUME LedgerInv, SendRequest
  PROVE  LedgerInv'
<1> USE DEF LedgerInv
<1>1. PICK t \in pending \cup strays :
        Accounted(t) /\ ledger' = Append(ledger, Request(t.group))
  BY DEF SendRequest
<1>2. UNCHANGED << pc, life, cursor, pending, strays, replay, retry, buffer,
                   saved, orphaned >>
  BY DEF SendRequest, collector
<1>3. t \in Tasks /\ t.group \in Groups /\ t.try = t.group.try
      /\ ~ t.quiet /\ t.group.source \in 1 .. cursor
  BY <1>1 DEF TypeInv, Tasks, HeldInv, OneEach, Accounted
<1> DEFINE e == Request(t.group)
           new == << e >>
           last == Len(ledger) + 1
<1>4. e \in Events /\ e.kind = "request" /\ e.group = t.group
  BY <1>3 DEF Request, Events
<1> HIDE DEF e
<1>5. new \in Seq(Events) /\ DOMAIN new = {1} /\ new[1] = e
  BY <1>4
<1>6. ledger' = ledger \o new
  BY <1>1, <1>4 DEF TypeInv, e
<1> HIDE DEF new
<1>7. /\ ledger' \in Seq(Events)
      /\ orphaned' \subseteq DOMAIN ledger'
      /\ saved'.offset # None => saved'.offset <= Len(ledger')
      /\ Live \subseteq Live' /\ Durable' = Durable
      /\ \A k \in DOMAIN ledger : ledger'[k] = ledger[k]
      /\ last \in Live' /\ ledger'[last] = e
      /\ \A k \in Live' : k \in Live \/ k = last
  BY <1>2, <1>5, <1>6, Grows
<1> HIDE DEF last
<1>8. Live \subseteq DOMAIN ledger /\ Durable \subseteq Live
  BY DEF Live, Durable
<1>9. TypeInv' /\ StageInv' /\ HeldInv'
  BY <1>2, <1>7 DEF TypeInv, StageInv, HeldInv, OneEach, Apart
<1> DEFINE g == t.group
<1>10. /\ Reached(g, pending \cup replay \cup buffer)
       /\ Passed(g, retry)
       /\ \A u \in pending \cup strays : SameAttempt(g, u) => g = u.group
  <2>1. CASE t \in pending
    <3>1. replay = {} /\ strays = {}
      BY <2>1 DEF StageInv
    <3>2. \A u \in pending : u.group.source = g.source => u = t
      BY <2>1 DEF HeldInv, OneEach
    <3>3. \A u \in buffer \cup retry : u.group.source # g.source
      BY <2>1 DEF HeldInv, Apart
    <3>4. t.try \in Nat
      BY <1>3 DEF Tasks
    <3> QED
      BY <1>3, <3>1, <3>2, <3>3, <3>4 DEF Reached, Passed, SameAttempt
  <2>2. CASE t \in strays
    <3>1. pending = {} /\ retry = {} /\ buffer = {} /\ replay = {}
      BY <2>2 DEF StageInv
    <3>2. \A u \in strays : u.group.source = g.source => u = t
      BY <2>2 DEF HeldInv, OneEach
    <3> QED
      BY <3>1, <3>2 DEF Reached, Passed, SameAttempt
  <2> QED
    BY <2>1, <2>2
<1>11. ChargeInv'
  <2>1. ASSUME NEW k \in Live', IsRequest(k)'
        PROVE  LET h == ledger'[k].group IN
                 /\ h.source \in 1 .. cursor
                 /\ Reached(h, pending \cup replay \cup buffer)
                 /\ Passed(h, retry)
                 /\ \A u \in pending \cup strays :
                      ~ u.quiet /\ SameAttempt(h, u) => h = u.group
    <3>1. CASE k = last
      BY <3>1, <1>3, <1>4, <1>7, <1>10
    <3>2. CASE k \in Live
      BY <2>1, <3>2, <1>7, <1>8 DEF ChargeInv, IsRequest
    <3> QED
      BY <3>1, <3>2, <1>7
  <2>2. ASSUME NEW k \in Durable', IsRequest(k)'
        PROVE  /\ ledger'[k].group.source \in 1 .. saved.cursor
               /\ Reached(ledger'[k].group, saved.tasks \cup saved.buffer)
    BY <2>2, <1>7, <1>8 DEF ChargeInv, IsRequest
  <2> QED
    BY <1>2, <2>1, <2>2 DEF ChargeInv, Reached, Passed, SameAttempt
<1>12. \A h : Settled(h, Live) => Settled(h, Live)'
  BY <1>7, <1>8 DEF Settled, DispositionsOf
<1>13. \A h : Settled(h, Durable) => Settled(h, Durable)'
  BY <1>7, <1>8 DEF Settled, DispositionsOf
<1>14. SettleInv'
  <2>1. ASSUME NEW k \in Live', IsRequest(k)'
        PROVE  \/ Settled(ledger[k].group, Live)'
               \/ Held(ledger'[k].group, pending \cup replay \cup buffer)
    <3>1. CASE k = last
      <4>1. ledger'[k].group = t.group
        BY <3>1, <1>4, <1>7
      <4>2. CASE t \in pending
        BY <4>1, <4>2 DEF Held
      <4>3. CASE t \in strays
        BY <4>1, <4>3, <1>12 DEF SettleInv, Settled, DispositionsOf
      <4> QED
        BY <1>1, <4>2, <4>3
    <3>2. CASE k \in Live
      BY <2>1, <3>2, <1>7, <1>8, <1>12
         DEF SettleInv, IsRequest, Settled, DispositionsOf
    <3> QED
      BY <3>1, <3>2, <1>7
  <2> QED
    BY <2>1, <1>2, <1>7, <1>8, <1>12, <1>13
       DEF SettleInv, IsRequest, Settled, DispositionsOf, Held
<1>15. ChargedOnce'
  <2>1. \A k : k \in Requests \ orphaned <=> k \in Live /\ IsRequest(k)
    BY DEF Requests, Live, IsRequest
  <2>2. \A k : k \in Requests' \ orphaned' <=> k \in Live' /\ IsRequest(k)'
    BY DEF Requests, Live, IsRequest
  <2>3. ASSUME NEW k \in Live, IsRequest(k),
               ledger[k].group.source = g.source,
               ledger[k].group.try = g.try
        PROVE  ledger[k].group = g
    BY <2>3, <1>1, <1>3 DEF ChargeInv, SameAttempt
  <2>4. ASSUME NEW j \in Live', NEW k \in Live', IsRequest(j)', IsRequest(k)',
               ledger'[j].group.source = ledger'[k].group.source,
               ledger'[j].group.try = ledger'[k].group.try
        PROVE  ledger'[j].group = ledger'[k].group
    <3>1. CASE j = last /\ k = last
      BY <3>1
    <3>2. CASE j = last /\ k \in Live
      BY <2>3, <2>4, <3>2, <1>4, <1>7, <1>8 DEF IsRequest
    <3>3. CASE j \in Live /\ k = last
      BY <2>3, <2>4, <3>3, <1>4, <1>7, <1>8 DEF IsRequest
    <3>4. CASE j \in Live /\ k \in Live
      <4>1. /\ IsRequest(j) /\ IsRequest(k) /\ ledger'[j] = ledger[j]
            /\ ledger'[k] = ledger[k]
        BY <2>4, <3>4, <1>7, <1>8 DEF IsRequest
      <4> QED
        BY <2>1, <2>4, <3>4, <4>1 DEF ChargedOnce
    <3> QED
      BY <3>1, <3>2, <3>3, <3>4, <1>7
  <2> QED
    BY <2>2, <2>4 DEF ChargedOnce
<1> QED
  BY <1>9, <1>11, <1>14, <1>15

(* What the steps of the collector need of a task that it holds.           *)
LEMMA HeldFacts ==
  ASSUME LedgerInv, NEW t \in pending \cup replay \cup retry \cup buffer
  PROVE  /\ t \in Tasks /\ t.group \in Groups
         /\ t.group.source \in 1 .. cursor /\ t.try \in Nat
         /\ t \in pending => t.try = t.group.try
  BY DEF LedgerInv, TypeInv, HeldInv, OneEach, Tasks

(* What the invariant says of a request that was charged.                  *)
LEMMA ChargedFacts ==
  ASSUME LedgerInv, NEW k \in Live, IsRequest(k)
  PROVE  /\ ledger[k] \in Events
         /\ ledger[k].group.source \in 1 .. cursor
         /\ ledger[k].group.try \in Nat
         /\ Reached(ledger[k].group, pending \cup replay \cup buffer)
         /\ Passed(ledger[k].group, retry)
         /\ \A t \in pending \cup strays :
              ~ t.quiet /\ SameAttempt(ledger[k].group, t)
                => ledger[k].group = t.group
<1>1. k \in DOMAIN ledger /\ ledger \in Seq(Events)
  BY DEF Live, LedgerInv, TypeInv
<1>2. ledger[k] \in Events
  BY <1>1
<1>3. ledger[k].group.try \in Nat
  BY <1>2 DEF Events, Groups, Sources
<1> QED
  BY <1>2, <1>3 DEF LedgerInv, ChargeInv

LEMMA StartGenerateHolds ==
  ASSUME LedgerInv, StartGenerate
  PROVE  LedgerInv'
<1> USE DEF LedgerInv
<1>1. PICK stale \in SUBSET { t \in buffer : t.try < MaxTries } :
        /\ buffer' = buffer \ stale
        /\ retry' = retry \cup { Again(t) : t \in stale }
        /\ pending' = pending \cup { Replayed(t) : t \in replay }
        /\ replay' = {}
        /\ Dispose(EndedAtEntry(stale), "dropped")
  BY Zenon DEF StartGenerate
<1>2. /\ pc \in {"idle", "batch"} /\ pc' = "generate"
      /\ UNCHANGED << life, cursor, strays, saved, orphaned >>
  BY DEF StartGenerate
<1>3. stale \subseteq buffer
  BY <1>1
<1> DEFINE G == EndedAtEntry(stale)
           more == { Again(t) : t \in stale }
           runs == { Replayed(t) : t \in replay }
<1>4. Keeps(G)
  <2>1. stale \cup replay \in SUBSET Tasks /\ cursor \in Nat
        /\ OneEach(stale \cup replay, cursor)
    BY <1>3 DEF TypeInv, HeldInv, OneEach, Apart
  <2>2. IsFiniteSet(G) /\ G \in SUBSET Groups
    BY <2>1, GroupsFinite DEF EndedAtEntry
  <2>3. ledger' = ledger \o Dispositions(G, "dropped")
    BY <1>1 DEF Dispose
  <2> HIDE DEF G
  <2> QED
    BY <1>2, <2>2, <2>3, DisposeKeeps
<1>5. \A t \in stale \cup replay : t.group \in G
  BY DEF EndedAtEntry, GroupsOf
<1> HIDE DEF G
<1>6. \A u \in more : \E t \in stale :
        u = Again(t) /\ u \in Tasks /\ u.group = t.group /\ u.try = t.try + 1
  BY <1>3, AgainFacts DEF TypeInv
<1>7. \A u \in runs : \E t \in replay :
        /\ u = Replayed(t) /\ u \in Tasks /\ u.quiet
        /\ u.group.source = t.group.source
        /\ u.try = t.try /\ u.group.try = t.try
  BY ReplayFacts DEF TypeInv
<1> HIDE DEF more, runs
<1>8. /\ pending' = pending \cup runs /\ retry' = retry \cup more
      /\ replay' = {} /\ buffer' = buffer \ stale
      /\ pending = {} \/ replay = {}
  BY <1>1, <1>2 DEF more, runs, StageInv
<1>9. TypeInv'
  BY <1>2, <1>4, <1>6, <1>7, <1>8 DEF TypeInv, Keeps
<1>10. StageInv'
  BY <1>2, <1>8 DEF StageInv
<1>11. HeldInv'
  <2>1. OneEach(pending', cursor)
    BY <1>7, <1>8 DEF HeldInv, OneEach
  <2>2. OneEach(retry', cursor)
    <3>1. OneEach(more, cursor)
      BY <1>3, <1>6 DEF HeldInv, OneEach
    <3>2. Apart(retry, more)
      BY <1>3, <1>6 DEF HeldInv, Apart
    <3> QED
      BY <3>1, <3>2, <1>8 DEF HeldInv, OneEach, Apart
  <2>3. OneEach(buffer', cursor) /\ Apart(retry', buffer')
    BY <1>3, <1>6, <1>8 DEF HeldInv, OneEach, Apart
  <2>4. Apart(pending', retry')
    BY <1>3, <1>2, <1>6, <1>7, <1>8 DEF HeldInv, Apart, StageInv
  <2>5. Apart(pending', buffer')
    BY <1>3, <1>7, <1>8 DEF HeldInv, Apart
  <2>6. \A t \in pending' : t.try = t.group.try
    BY <1>7, <1>8 DEF HeldInv
  <2> QED
    BY <1>2, <1>8, <2>1, <2>2, <2>3, <2>4, <2>5, <2>6
       DEF HeldInv, OneEach, Apart
<1>12. ASSUME NEW k \in Live, IsRequest(k)
       PROVE  LET g == ledger[k].group IN
              /\ Reached(g, pending' \cup replay' \cup buffer')
              /\ Passed(g, retry')
              /\ \A t \in pending' \cup strays' :
                   ~ t.quiet /\ SameAttempt(g, t) => g = t.group
              /\ Held(g, pending \cup replay \cup buffer) =>
                   \/ g \in G
                   \/ Held(g, pending' \cup replay' \cup buffer')
  <2> DEFINE g == ledger[k].group
  <2>1. /\ g.try \in Nat /\ Reached(g, pending \cup replay \cup buffer)
        /\ Passed(g, retry)
        /\ \A t \in pending \cup strays :
             ~ t.quiet /\ SameAttempt(g, t) => g = t.group
    BY <1>12, ChargedFacts
  <2> HIDE DEF g
  <2>2. Reached(g, pending' \cup replay' \cup buffer')
    BY <2>1, <1>7, <1>8 DEF Reached
  <2>3. Passed(g, retry')
    <3>1. ASSUME NEW u \in more, g.source = u.group.source
          PROVE  g.try < u.try
      <4>1. PICK t \in stale : u.group = t.group /\ u.try = t.try + 1
        BY <1>6
      <4>2. t.try \in Nat /\ t \in buffer
        BY <1>3, HeldFacts
      <4>3. g.try <= t.try
        BY <2>1, <3>1, <4>1, <4>2 DEF Reached
      <4> QED
        BY <2>1, <4>1, <4>2, <4>3
    <3> QED
      BY <2>1, <3>1, <1>8 DEF Passed
  <2>4. \A t \in pending' \cup strays' :
          ~ t.quiet /\ SameAttempt(g, t) => g = t.group
    BY <2>1, <1>2, <1>7, <1>8
  <2>5. Held(g, pending \cup replay \cup buffer) =>
          g \in G \/ Held(g, pending' \cup replay' \cup buffer')
    BY <1>5, <1>8 DEF Held
  <2> QED
    BY <2>2, <2>3, <2>4, <2>5 DEF g
<1>13. cursor' \in Nat /\ cursor <= cursor'
  BY <1>2 DEF TypeInv
<1>14. \A t \in strays' : t \in strays \/ t.group \in G
  BY <1>2
<1> QED
  BY <1>4, <1>9, <1>10, <1>11, <1>12, <1>13, <1>14, KeepingStep, Zenon

LEMMA SubmitHolds ==
  ASSUME LedgerInv, Submit
  PROVE  LedgerInv'
<1> USE DEF LedgerInv
<1>1. /\ pc = "generate" /\ pc' = "generate" /\ replay = {} /\ strays = {}
      /\ UNCHANGED << life, strays, replay, buffer, ledger, saved, orphaned >>
  BY DEF Submit, StageInv
<1>2. PICK u :
        /\ u \in Tasks /\ u.group.try = u.try
        /\ pending' = pending \cup {u}
        /\ \/ \E t \in retry :
                /\ retry' = retry \ {t} /\ cursor' = cursor
                /\ u.group.source = t.group.source /\ u.try = t.try
           \/ /\ retry' = retry /\ cursor' = cursor + 1
              /\ u.group.source = cursor + 1 /\ cursor < NumSources
  <2>1. CASE \E t \in retry : /\ retry' = retry \ {t}
                              /\ pending' = pending \cup { Resampled(t) }
                              /\ UNCHANGED cursor
    <3>1. PICK t \in retry : /\ retry' = retry \ {t}
                             /\ pending' = pending \cup { Resampled(t) }
                             /\ UNCHANGED cursor
      BY <2>1
    <3>2. t \in Tasks /\ life \in 1 .. MaxLives
      BY DEF TypeInv
    <3> DEFINE u == Resampled(t)
    <3>3. /\ u \in Tasks /\ u.group.source = t.group.source
          /\ u.try = t.try /\ u.group.try = t.try
      BY <3>2, ResampleFacts
    <3> HIDE DEF u
    <3>4. pending' = pending \cup {u}
      BY <3>1 DEF u
    <3> QED
      BY <3>1, <3>3, <3>4
  <2>2. CASE /\ cursor < NumSources /\ cursor' = cursor + 1
             /\ pending' =
                  pending \cup { Task(GroupOf(cursor + 1, 0), FALSE) }
             /\ UNCHANGED retry
    <3> DEFINE g == GroupOf(cursor + 1, 0)
               u == Task(g, FALSE)
    <3>1. g \in Groups /\ g.source = cursor + 1 /\ g.try = 0
      <4>1. /\ cursor + 1 \in Sources /\ life \in 1 .. MaxLives
            /\ 0 \in 0 .. MaxTries
        BY <2>2, ConstantFacts DEF TypeInv, Sources
      <4> QED
        BY <4>1, GroupFacts
    <3>2. pending' = pending \cup {u}
      BY <2>2
    <3> HIDE DEF g
    <3>3. u \in Tasks /\ u.group = g /\ u.try = g.try
      BY <3>1, TaskFacts
    <3> HIDE DEF u
    <3> QED
      BY <2>2, <3>1, <3>2, <3>3
  <2> QED
    BY <2>1, <2>2 DEF Submit
<1>3. Keeps({})
  BY <1>1, SilenceKeeps
<1>4. /\ cursor' \in 0 .. NumSources /\ cursor' \in Nat
      /\ cursor <= cursor' /\ cursor \in Nat
  BY <1>2, ConstantFacts DEF TypeInv
<1>5. \A t \in pending \cup retry \cup buffer \cup strays :
        t.group.source \in 1 .. cursor /\ t.group.source \in 1 .. cursor'
  BY <1>4, <1>1 DEF HeldInv, OneEach
<1>6. u.group.source \in 1 .. cursor'
  BY <1>2, <1>4, <1>5
<1>7. \A t \in pending \cup retry' \cup buffer :
        t.group.source # u.group.source
  <2>1. CASE \E t \in retry :
               /\ retry' = retry \ {t} /\ cursor' = cursor
               /\ u.group.source = t.group.source /\ u.try = t.try
    BY <2>1 DEF HeldInv, OneEach, Apart
  <2>2. CASE /\ retry' = retry /\ cursor' = cursor + 1
             /\ u.group.source = cursor + 1
    BY <2>2, <1>4, <1>5
  <2> QED
    BY <1>2, <2>1, <2>2
<1>8. retry' \subseteq retry
  BY <1>2
<1>9. TypeInv'
  BY <1>1, <1>2, <1>3, <1>4, <1>8 DEF TypeInv, Keeps
<1>10. StageInv'
  BY <1>1 DEF StageInv
<1>11. HeldInv'
  <2>1. OneEach(pending', cursor') /\ OneEach(retry', cursor')
        /\ OneEach(buffer', cursor')
    BY <1>1, <1>2, <1>5, <1>6, <1>7, <1>8 DEF HeldInv, OneEach
  <2>2. Apart(pending', retry') /\ Apart(pending', buffer')
        /\ Apart(retry', buffer')
    BY <1>1, <1>2, <1>7, <1>8 DEF HeldInv, Apart
  <2>3. \A t \in pending' : t.try = t.group.try
    BY <1>2 DEF HeldInv
  <2> QED
    BY <1>1, <2>1, <2>2, <2>3 DEF HeldInv, OneEach, Apart
<1>12. ASSUME NEW k \in Live, IsRequest(k)
       PROVE  LET g == ledger[k].group IN
              /\ Reached(g, pending' \cup replay' \cup buffer')
              /\ Passed(g, retry')
              /\ \A t \in pending' \cup strays' :
                   ~ t.quiet /\ SameAttempt(g, t) => g = t.group
              /\ Held(g, pending \cup replay \cup buffer) =>
                   \/ g \in {}
                   \/ Held(g, pending' \cup replay' \cup buffer')
  <2> DEFINE g == ledger[k].group
  <2>1. /\ g.try \in Nat /\ Reached(g, pending \cup replay \cup buffer)
        /\ Passed(g, retry) /\ g.source \in 1 .. cursor
        /\ \A t \in pending \cup strays :
             ~ t.quiet /\ SameAttempt(g, t) => g = t.group
    BY <1>12, ChargedFacts
  <2> HIDE DEF g
  <2>2. g.source = u.group.source => g.try < u.try
    BY <2>1, <1>2, <1>4 DEF Passed
  <2>3. u.try \in Nat
    BY <1>2 DEF Tasks
  <2>4. g.source = u.group.source => g.try <= u.try /\ g.try # u.try
    BY <2>1, <2>2, <2>3
  <2>5. Reached(g, pending' \cup replay' \cup buffer')
    BY <2>1, <2>4, <1>1, <1>2 DEF Reached
  <2>6. Passed(g, retry')
    BY <2>1, <1>8 DEF Passed
  <2>7. \A t \in pending' \cup strays' :
          ~ t.quiet /\ SameAttempt(g, t) => g = t.group
    BY <2>1, <2>4, <1>1, <1>2 DEF SameAttempt
  <2>8. Held(g, pending \cup replay \cup buffer) =>
          Held(g, pending' \cup replay' \cup buffer')
    BY <1>1, <1>2 DEF Held
  <2> QED
    BY <2>5, <2>6, <2>7, <2>8 DEF g
<1>13. \A t \in strays' : t \in strays \/ t.group \in {}
  BY <1>1
<1> QED
  BY <1>3, <1>4, <1>9, <1>10, <1>11, <1>12, <1>13, KeepingStep, Zenon

(* A task that has finished leaves the pending ones, its group disposed of *)
(* or in the buffer.                                                       *)
LEMMA HarvestAgainHolds ==
  ASSUME LedgerInv, NEW t \in pending, HarvestAgain(t)
  PROVE  LedgerInv'
<1> USE DEF LedgerInv
<1> DEFINE u == Again(t)
<1>1. /\ pc = "generate" /\ pending' = pending \ {t}
      /\ UNCHANGED << pc, life, cursor, strays, replay, buffer, saved,
                      orphaned >>
      /\ retry' = retry \cup {u}
      /\ ledger' = ledger \o Dispositions({t.group}, "dropped")
  BY DEF HarvestAgain, Reap, Dispose
<1>2. /\ t \in Tasks /\ t.group \in Groups /\ t.try = t.group.try
      /\ t.group.source \in 1 .. cursor
      /\ u \in Tasks /\ u.group = t.group /\ u.try = t.try + 1
      /\ t.try \in Nat
  <2>1. /\ t \in Tasks /\ t.group \in Groups /\ t.try = t.group.try
        /\ t.group.source \in 1 .. cursor /\ t.try \in Nat
    BY HeldFacts
  <2>2. t.try < MaxTries
    BY DEF HarvestAgain
  <2> QED
    BY <2>1, <2>2, AgainFacts
<1> HIDE DEF u
<1>3. Keeps({t.group})
  <2>1. IsFiniteSet({t.group}) /\ {t.group} \in SUBSET Groups
    BY <1>2, FS_Singleton
  <2> QED
    BY <1>1, <2>1, DisposeKeeps
<1>4. cursor' \in Nat /\ cursor <= cursor'
  BY <1>1 DEF TypeInv
<1>5. /\ \A v \in pending' \cup retry \cup buffer :
           v.group.source # t.group.source
      /\ strays = {} /\ replay = {}
  BY <1>1 DEF HeldInv, OneEach, Apart, StageInv
<1>6. TypeInv'
  BY <1>1, <1>2, <1>3 DEF TypeInv, Keeps
<1>7. StageInv'
  BY <1>1 DEF StageInv
<1>8. HeldInv'
  BY <1>1, <1>2, <1>5 DEF HeldInv, OneEach, Apart
<1>9. ASSUME NEW k \in Live, IsRequest(k)
      PROVE  LET g == ledger[k].group IN
              /\ Reached(g, pending' \cup replay' \cup buffer')
              /\ Passed(g, retry')
              /\ \A v \in pending' \cup strays' :
                   ~ v.quiet /\ SameAttempt(g, v) => g = v.group
              /\ Held(g, pending \cup replay \cup buffer) =>
                   \/ g \in {t.group}
                   \/ Held(g, pending' \cup replay' \cup buffer')
  <2> DEFINE g == ledger[k].group
  <2>1. /\ g.try \in Nat /\ Reached(g, pending \cup replay \cup buffer)
        /\ Passed(g, retry)
        /\ \A v \in pending \cup strays :
             ~ v.quiet /\ SameAttempt(g, v) => g = v.group
    BY <1>9, ChargedFacts
  <2> HIDE DEF g
  <2>2. g.source = u.group.source => g.try < u.try
    BY <2>1, <1>2 DEF Reached
  <2>3. Reached(g, pending' \cup replay' \cup buffer')
    BY <2>1, <1>1 DEF Reached
  <2>4. Passed(g, retry')
    BY <2>1, <2>2, <1>1 DEF Passed
  <2>5. Held(g, pending \cup replay \cup buffer) =>
          g \in {t.group} \/ Held(g, pending' \cup replay' \cup buffer')
    BY <1>1 DEF Held
  <2> QED
    BY <2>1, <2>3, <2>4, <2>5, <1>1 DEF g
<1>10. \A v \in strays' : v \in strays \/ v.group \in {t.group}
  BY <1>1
<1> QED
  BY <1>3, <1>4, <1>6, <1>7, <1>8, <1>9, <1>10, KeepingStep, Zenon

LEMMA HarvestRejectedHolds ==
  ASSUME LedgerInv, NEW t \in pending, HarvestRejected(t)
  PROVE  LedgerInv'
<1> USE DEF LedgerInv
<1>1. /\ pc = "generate" /\ pending' = pending \ {t}
      /\ UNCHANGED << pc, life, cursor, strays, replay, retry, buffer, saved,
                      orphaned >>
      /\ ledger' = ledger \o Dispositions({t.group}, "dropped")
  BY DEF HarvestRejected, Reap, Dispose
<1>2. t.group \in Groups
  BY HeldFacts
<1>3. Keeps({t.group})
  <2>1. IsFiniteSet({t.group}) /\ {t.group} \in SUBSET Groups
    BY <1>2, FS_Singleton
  <2> QED
    BY <1>1, <2>1, DisposeKeeps
<1>4. cursor' \in Nat /\ cursor <= cursor'
  BY <1>1 DEF TypeInv
<1>5. TypeInv'
  BY <1>1, <1>3 DEF TypeInv, Keeps
<1>6. StageInv'
  BY <1>1 DEF StageInv
<1>7. HeldInv'
  BY <1>1 DEF HeldInv, OneEach, Apart
<1>8. ASSUME NEW k \in Live, IsRequest(k)
      PROVE  LET g == ledger[k].group IN
              /\ Reached(g, pending' \cup replay' \cup buffer')
              /\ Passed(g, retry')
              /\ \A v \in pending' \cup strays' :
                   ~ v.quiet /\ SameAttempt(g, v) => g = v.group
              /\ Held(g, pending \cup replay \cup buffer) =>
                   \/ g \in {t.group}
                   \/ Held(g, pending' \cup replay' \cup buffer')
  <2> DEFINE g == ledger[k].group
  <2>1. /\ g.try \in Nat /\ Reached(g, pending \cup replay \cup buffer)
        /\ Passed(g, retry)
        /\ \A v \in pending \cup strays :
             ~ v.quiet /\ SameAttempt(g, v) => g = v.group
    BY <1>8, ChargedFacts
  <2> HIDE DEF g
  <2>2. Reached(g, pending' \cup replay' \cup buffer')
    BY <2>1, <1>1 DEF Reached
  <2>3. Held(g, pending \cup replay \cup buffer) =>
          g \in {t.group} \/ Held(g, pending' \cup replay' \cup buffer')
    BY <1>1 DEF Held
  <2> QED
    BY <2>1, <2>2, <2>3, <1>1 DEF g
<1>9. \A v \in strays' : v \in strays \/ v.group \in {t.group}
  BY <1>1
<1> QED
  BY <1>3, <1>4, <1>5, <1>6, <1>7, <1>8, <1>9, KeepingStep, Zenon

LEMMA HarvestValidHolds ==
  ASSUME LedgerInv, NEW t \in pending, HarvestValid(t)
  PROVE  LedgerInv'
<1> USE DEF LedgerInv
<1>1. /\ pc = "generate" /\ pending' = pending \ {t}
      /\ buffer' = buffer \cup {t}
      /\ UNCHANGED << pc, life, cursor, strays, replay, retry, ledger, saved,
                      orphaned >>
  BY DEF HarvestValid, Reap
<1>2. t \in Tasks /\ t.group.source \in 1 .. cursor
  BY HeldFacts
<1>3. Keeps({})
  BY <1>1, SilenceKeeps
<1>4. cursor' \in Nat /\ cursor <= cursor'
  BY <1>1 DEF TypeInv
<1>5. TypeInv'
  BY <1>1, <1>2, <1>3 DEF TypeInv, Keeps
<1>6. StageInv'
  BY <1>1 DEF StageInv
<1>7. HeldInv'
  BY <1>1, <1>2 DEF HeldInv, OneEach, Apart, StageInv
<1>8. ASSUME NEW k \in Live, IsRequest(k)
      PROVE  LET g == ledger[k].group IN
              /\ Reached(g, pending' \cup replay' \cup buffer')
              /\ Passed(g, retry')
              /\ \A v \in pending' \cup strays' :
                   ~ v.quiet /\ SameAttempt(g, v) => g = v.group
              /\ Held(g, pending \cup replay \cup buffer) =>
                   \/ g \in {}
                   \/ Held(g, pending' \cup replay' \cup buffer')
  <2> DEFINE g == ledger[k].group
  <2>1. /\ g.try \in Nat /\ Reached(g, pending \cup replay \cup buffer)
        /\ Passed(g, retry)
        /\ \A v \in pending \cup strays :
             ~ v.quiet /\ SameAttempt(g, v) => g = v.group
    BY <1>8, ChargedFacts
  <2> HIDE DEF g
  <2>2. Reached(g, pending' \cup replay' \cup buffer')
    BY <2>1, <1>1 DEF Reached
  <2>3. Held(g, pending \cup replay \cup buffer) =>
          Held(g, pending' \cup replay' \cup buffer')
    BY <1>1 DEF Held
  <2> QED
    BY <2>1, <2>2, <2>3, <1>1 DEF g
<1>9. \A v \in strays' : v \in strays \/ v.group \in {}
  BY <1>1
<1> QED
  BY <1>3, <1>4, <1>5, <1>6, <1>7, <1>8, <1>9, KeepingStep, Zenon

(* A heartbeat moves the tracker alone.                                    *)
LEMMA PeekHolds ==
  ASSUME LedgerInv,
         UNCHANGED << pc, life, collector, ledger, saved, orphaned >>
  PROVE  LedgerInv'
<1>1. UNCHANGED << pc, life, cursor, pending, strays, replay, retry, buffer,
                   ledger, saved, orphaned >>
  BY DEF collector
<1>2. TypeInv' /\ StageInv' /\ HeldInv'
  BY <1>1 DEF LedgerInv, TypeInv, StageInv, HeldInv, OneEach, Apart
<1>3. Live' = Live /\ Durable' = Durable
  BY <1>1 DEF Live, Durable
<1>4. ChargeInv'
  BY <1>1, <1>3 DEF LedgerInv, ChargeInv, IsRequest, Reached, Passed,
                    SameAttempt
<1>5. SettleInv'
  BY <1>1, <1>3 DEF LedgerInv, SettleInv, IsRequest, Settled, DispositionsOf,
                    Held
<1>6. ChargedOnce'
  BY <1>1 DEF LedgerInv, ChargedOnce, Requests
<1> QED
  BY <1>2, <1>4, <1>5, <1>6 DEF LedgerInv

(* The groups that an optimizer batch takes are accepted.                  *)
LEMMA ReturnBatchHolds ==
  ASSUME LedgerInv, ReturnBatch
  PROVE  LedgerInv'
<1> USE DEF LedgerInv
<1>1. PICK selected \in SUBSET buffer :
        /\ buffer' = buffer \ selected
        /\ ledger' = ledger \o Dispositions(GroupsOf(selected), "accepted")
  BY Zenon DEF ReturnBatch
<1>2. /\ pc = "generate" /\ pc' = "batch"
      /\ UNCHANGED << life, cursor, pending, strays, replay, retry, saved,
                      orphaned >>
  BY DEF ReturnBatch
<1> DEFINE G == GroupsOf(selected)
<1>3. Keeps(G)
  <2>1. selected \in SUBSET Tasks /\ cursor \in Nat
        /\ OneEach(selected, cursor)
    BY <1>1 DEF TypeInv, HeldInv, OneEach
  <2>2. IsFiniteSet(G) /\ G \in SUBSET Groups
    BY <2>1, GroupsFinite
  <2>3. ledger' = ledger \o Dispositions(G, "accepted")
    BY <1>1
  <2> HIDE DEF G
  <2> QED
    BY <1>2, <2>2, <2>3, DisposeKeeps
<1>4. \A t \in selected : t.group \in G
  BY DEF GroupsOf
<1> HIDE DEF G
<1>5. cursor' \in Nat /\ cursor <= cursor'
  BY <1>2 DEF TypeInv
<1>6. TypeInv'
  BY <1>1, <1>2, <1>3 DEF TypeInv, Keeps
<1>7. StageInv'
  BY <1>2 DEF StageInv
<1>8. HeldInv'
  BY <1>1, <1>2 DEF HeldInv, OneEach, Apart
<1>9. ASSUME NEW k \in Live, IsRequest(k)
      PROVE  LET g == ledger[k].group IN
              /\ Reached(g, pending' \cup replay' \cup buffer')
              /\ Passed(g, retry')
              /\ \A v \in pending' \cup strays' :
                   ~ v.quiet /\ SameAttempt(g, v) => g = v.group
              /\ Held(g, pending \cup replay \cup buffer) =>
                   \/ g \in G
                   \/ Held(g, pending' \cup replay' \cup buffer')
  <2> DEFINE g == ledger[k].group
  <2>1. /\ g.try \in Nat /\ Reached(g, pending \cup replay \cup buffer)
        /\ Passed(g, retry)
        /\ \A v \in pending \cup strays :
             ~ v.quiet /\ SameAttempt(g, v) => g = v.group
    BY <1>9, ChargedFacts
  <2> HIDE DEF g
  <2>2. Reached(g, pending' \cup replay' \cup buffer')
    BY <2>1, <1>1, <1>2 DEF Reached
  <2>3. Held(g, pending \cup replay \cup buffer) =>
          g \in G \/ Held(g, pending' \cup replay' \cup buffer')
    BY <1>1, <1>2, <1>4 DEF Held
  <2> QED
    BY <2>1, <2>2, <2>3, <1>2 DEF g
<1>10. \A v \in strays' : v \in strays \/ v.group \in G
  BY <1>2
<1> QED
  BY <1>3, <1>5, <1>6, <1>7, <1>8, <1>9, <1>10, KeepingStep, Zenon

(* At the end of the budget what is left in the buffer is dropped, and the *)
(* terminal discard drops the tasks that run as well.                      *)
LEMMA EndHolds ==
  ASSUME LedgerInv,
         pc \in {"generate", "batch"}, pc' = "stopped",
         ledger' = ledger \o Dispositions(GroupsOf(pending \cup buffer),
                                          "dropped"),
         strays' = strays \cup pending,
         pending' = {}, replay' = {}, retry' = {}, buffer' = {},
         UNCHANGED << life, cursor, saved, orphaned >>
  PROVE  LedgerInv'
<1> USE DEF LedgerInv
<1> DEFINE G == GroupsOf(pending \cup buffer)
<1>1. replay = {} /\ strays = {}
  BY DEF StageInv
<1>2. Keeps(G)
  <2>1. pending \cup buffer \in SUBSET Tasks /\ cursor \in Nat
        /\ OneEach(pending \cup buffer, cursor)
    BY DEF TypeInv, HeldInv, OneEach, Apart
  <2>2. IsFiniteSet(G) /\ G \in SUBSET Groups
    BY <2>1, GroupsFinite
  <2>3. ledger' = ledger \o Dispositions(G, "dropped")
    OBVIOUS
  <2> HIDE DEF G
  <2> QED
    BY <2>2, <2>3, DisposeKeeps
<1>3. \A t \in pending \cup buffer : t.group \in G
  BY DEF GroupsOf
<1> HIDE DEF G
<1>4. cursor' \in Nat /\ cursor <= cursor'
  BY DEF TypeInv
<1>5. TypeInv'
  BY <1>2 DEF TypeInv, Keeps
<1>6. StageInv'
  BY DEF StageInv
<1>7. HeldInv'
  BY <1>1 DEF HeldInv, OneEach, Apart
<1>8. ASSUME NEW k \in Live, IsRequest(k)
      PROVE  LET g == ledger[k].group IN
              /\ Reached(g, pending' \cup replay' \cup buffer')
              /\ Passed(g, retry')
              /\ \A v \in pending' \cup strays' :
                   ~ v.quiet /\ SameAttempt(g, v) => g = v.group
              /\ Held(g, pending \cup replay \cup buffer) =>
                   \/ g \in G
                   \/ Held(g, pending' \cup replay' \cup buffer')
  <2> DEFINE g == ledger[k].group
  <2>1. \A v \in pending \cup strays :
             ~ v.quiet /\ SameAttempt(g, v) => g = v.group
    BY <1>8, ChargedFacts
  <2> HIDE DEF g
  <2>2. Reached(g, pending' \cup replay' \cup buffer') /\ Passed(g, retry')
    BY DEF Reached, Passed
  <2>3. Held(g, pending \cup replay \cup buffer) => g \in G
    BY <1>1, <1>3 DEF Held
  <2> QED
    BY <2>1, <2>2, <2>3 DEF g
<1>9. \A v \in strays' : v \in strays \/ v.group \in G
  BY <1>3
<1> QED
  BY <1>2, <1>4, <1>5, <1>6, <1>7, <1>8, <1>9, KeepingStep, Zenon

LEMMA StopAtBudgetHolds ==
  ASSUME LedgerInv, StopAtBudget
  PROVE  LedgerInv'
<1>1. pending = {} /\ pending \cup buffer = buffer
      /\ strays \cup pending = strays
  BY DEF StopAtBudget
<1>2. replay = {} /\ retry = {}
  BY DEF StopAtBudget, LedgerInv, StageInv
<1>3. ledger' = ledger \o Dispositions(GroupsOf(pending \cup buffer),
                                       "dropped")
  BY <1>1 DEF StopAtBudget, Dispose
<1>4. /\ pc \in {"generate", "batch"} /\ pc' = "stopped"
      /\ strays' = strays \cup pending
      /\ pending' = {} /\ replay' = {} /\ retry' = {} /\ buffer' = {}
      /\ UNCHANGED << life, cursor, saved, orphaned >>
  BY <1>1, <1>2 DEF StopAtBudget
<1> QED
  BY <1>3, <1>4, EndHolds

LEMMA DiscardTerminalHolds ==
  ASSUME LedgerInv, DiscardTerminal
  PROVE  LedgerInv'
BY EndHolds DEF DiscardTerminal, Dispose

(* A checkpoint makes all the events up to now durable, and the tasks that *)
(* it saves are those that the requests need.                              *)
LEMMA CheckpointHolds ==
  ASSUME LedgerInv, Checkpoint
  PROVE  LedgerInv'
<1> USE DEF LedgerInv
<1> DEFINE held == pending \cup replay \cup retry
<1>1. /\ saved' = [ cursor |-> cursor, buffer |-> buffer,
                    offset |-> Len(ledger), tasks |-> held ]
      /\ UNCHANGED << pc, life, cursor, pending, strays, replay, retry,
                      buffer, ledger, orphaned >>
  BY DEF Checkpoint, LedgerOffset, collector
<1>2. ledger \in Seq(Events) /\ Len(ledger) \in Nat
      /\ Live \subseteq 1 .. Len(ledger)
  BY DEF TypeInv, Live
<1>3. /\ saved'.cursor = cursor /\ saved'.buffer = buffer
      /\ saved'.offset = Len(ledger) /\ saved'.tasks = held
  BY <1>1
<1>4. replay = {} /\ held = pending \cup retry
  <2>1. pc # "idle"
    BY DEF Checkpoint
  <2> QED
    BY <2>1 DEF StageInv
<1> HIDE DEF held
<1>5. saved' \in Checkpoints
  BY <1>1, <1>2, <1>4 DEF Checkpoints, TypeInv
<1>6. TypeInv'
  <2>1. saved'.offset # None => saved'.offset <= Len(ledger')
    BY <1>1, <1>2, <1>3
  <2>2. ledger' \in Seq(Events) /\ orphaned' \subseteq DOMAIN ledger'
    BY <1>1 DEF TypeInv
  <2>3. /\ pc' \in {"idle", "generate", "batch", "stopped"}
        /\ life' \in 1 .. MaxLives /\ cursor' \in 0 .. NumSources
        /\ pending' \subseteq Tasks /\ strays' \subseteq Tasks
        /\ replay' \subseteq Tasks /\ retry' \subseteq Tasks
        /\ buffer' \subseteq Tasks
    BY <1>1 DEF TypeInv
  <2> QED
    BY <2>1, <2>2, <2>3, <1>5 DEF TypeInv
<1>7. StageInv'
  BY <1>1 DEF StageInv
<1>8. HeldInv'
  <2>1. /\ OneEach(held, cursor) /\ OneEach(buffer, cursor)
        /\ Apart(held, buffer)
    BY <1>4 DEF HeldInv, OneEach, Apart
  <2> QED
    BY <2>1, <1>1, <1>3 DEF HeldInv, OneEach, Apart
<1>9. Live' = Live /\ Durable' = Live
  <2>1. Live' = Live
    BY <1>1 DEF Live
  <2>2. saved'.offset # None
    BY <1>2, <1>3, LedgerAssumption
  <2>3. \A k \in Live : k <= saved'.offset
    BY <1>2, <1>3
  <2> QED
    BY <2>1, <2>2, <2>3 DEF Durable
<1>10. ASSUME NEW k \in Live, IsRequest(k)
       PROVE  LET g == ledger[k].group IN
              /\ g.source \in 1 .. cursor
              /\ Reached(g, held \cup buffer)
              /\ Settled(g, Live) \/ Held(g, held \cup buffer)
  <2> DEFINE g == ledger[k].group
  <2>1. /\ g.try \in Nat /\ Reached(g, pending \cup replay \cup buffer)
        /\ Passed(g, retry) /\ g.source \in 1 .. cursor
    BY <1>10, ChargedFacts
  <2>2. Settled(g, Live) \/ Held(g, pending \cup replay \cup buffer)
    BY <1>10 DEF SettleInv
  <2> HIDE DEF g
  <2>3. \A t \in retry : g.source = t.group.source => g.try <= t.try
    <3> TAKE t \in retry
    <3>1. t.try \in Nat
      BY HeldFacts
    <3> QED
      BY <2>1, <3>1 DEF Passed
  <2>4. Reached(g, held \cup buffer)
    BY <2>1, <2>3, <1>4 DEF Reached
  <2>5. Held(g, pending \cup replay \cup buffer) => Held(g, held \cup buffer)
    BY <1>4 DEF Held
  <2> QED
    BY <2>1, <2>2, <2>4, <2>5 DEF g
<1>11. \A k : IsRequest(k)' <=> IsRequest(k)
  BY <1>1 DEF IsRequest
<1>12. ChargeInv'
  BY <1>1, <1>3, <1>9, <1>10, <1>11
     DEF ChargeInv, Reached, Passed, SameAttempt
<1>13. SettleInv'
  BY <1>1, <1>3, <1>9, <1>10, <1>11
     DEF SettleInv, Settled, DispositionsOf, Held
<1>14. ChargedOnce'
  BY <1>1 DEF ChargedOnce, Requests
<1> QED
  BY <1>6, <1>7, <1>8, <1>12, <1>13, <1>14

(* After a crash the durable events and the saved tasks are all there is.  *)
LEMMA CrashAndLoadHolds ==
  ASSUME LedgerInv, CrashAndLoad
  PROVE  LedgerInv'
<1> USE DEF LedgerInv
<1> DEFINE late == { k \in DOMAIN ledger :
                       saved.offset = None \/ k > saved.offset }
<1>1. /\ life' = life + 1 /\ orphaned' = orphaned \cup late
      /\ cursor' = saved.cursor /\ buffer' = saved.buffer
      /\ replay' = saved.tasks
      /\ pending' = {} /\ strays' = {} /\ retry' = {}
      /\ pc' = "idle" /\ ledger' = ledger /\ saved' = saved
  BY DEF CrashAndLoad
<1>2. /\ saved.cursor \in 0 .. NumSources /\ saved.tasks \subseteq Tasks
      /\ saved.buffer \subseteq Tasks
      /\ saved.offset \in Nat \cup {None}
  BY DEF TypeInv, Checkpoints
<1>3. ledger \in Seq(Events) /\ DOMAIN ledger \subseteq Nat
  BY DEF TypeInv
<1>4. late = DOMAIN ledger \ { k \in DOMAIN ledger :
                                 saved.offset # None /\ k <= saved.offset }
  <2>1. CASE saved.offset = None
    BY <2>1
  <2>2. CASE saved.offset \in Nat
    <3>1. \A k \in DOMAIN ledger :
            k > saved.offset <=> ~ (k <= saved.offset)
      BY <2>2, <1>3
    <3>2. saved.offset # None
      BY <2>2, LedgerAssumption
    <3> QED
      BY <3>1, <3>2
  <2> QED
    BY <2>1, <2>2, <1>2
<1> HIDE DEF late
<1>5. Live' = Durable
  BY <1>1, <1>4 DEF Live, Durable
<1>6. Durable' = Durable
  BY <1>1, <1>5 DEF Live, Durable
<1>7. late \subseteq DOMAIN ledger
  BY <1>4
<1>8. TypeInv'
  <2>1. life' \in 1 .. MaxLives
    BY <1>1, ConstantFacts DEF TypeInv, CrashAndLoad
  <2> QED
    BY <2>1, <1>1, <1>2, <1>7 DEF TypeInv
<1>9. StageInv'
  BY <1>1 DEF StageInv
<1>10. HeldInv'
  BY <1>1 DEF HeldInv, OneEach, Apart
<1>11. \A k : IsRequest(k)' <=> IsRequest(k)
  BY <1>1 DEF IsRequest
<1>12. ChargeInv'
  BY <1>1, <1>5, <1>6, <1>11 DEF ChargeInv, Reached, Passed, SameAttempt
<1>13. SettleInv'
  BY <1>1, <1>5, <1>6, <1>11
     DEF SettleInv, Settled, DispositionsOf, Held
<1>14. ChargedOnce'
  BY <1>1 DEF ChargedOnce, Requests
<1> QED
  BY <1>8, <1>9, <1>10, <1>12, <1>13, <1>14

-----------------------------------------------------------------------------
(* The outcome of a group.                                                 *)

(* The greatest of finitely many numbers.                                  *)
LEMMA Greatest ==
  ASSUME NEW S \in SUBSET Int, S # {}, IsFiniteSet(S)
  PROVE  \E x \in S : \A y \in S : x >= y
<1> DEFINE Up(x) == { y \in S : y >= x }
           T == { Up(x) : x \in S }
           R == StrictSubsetOrdering(S)
<1>1. T # {} /\ T \subseteq FiniteSubsetsOf(S)
  <2>1. \A x \in S : Up(x) \in SUBSET S /\ IsFiniteSet(Up(x))
    BY FS_Subset
  <2> QED
    BY <2>1 DEF FiniteSubsetsOf
<1>2. IsWellFoundedOn(R, FiniteSubsetsOf(S))
  BY FS_StrictSubsetOrderingWellFounded
<1>3. PICK t \in T : \A u \in T : ~ (<< u, t >> \in R)
  <2> HIDE DEF T, R
  <2> QED
    BY <1>1, <1>2, WFMin
<1>4. PICK x \in S : t = Up(x)
  OBVIOUS
<1>5. ASSUME NEW y \in S, ~ (x >= y) PROVE FALSE
  <2>1. Up(y) \in T /\ Up(y) \in SUBSET S /\ Up(x) \in SUBSET S
    OBVIOUS
  <2>2. x \in Int /\ y \in Int /\ x < y
    BY <1>5
  <2>3. ASSUME NEW z \in S, z >= y PROVE z >= x
    <3>1. z \in Int
      OBVIOUS
    <3> QED
      BY <2>2, <2>3, <3>1
  <2>4. Up(y) \subseteq Up(x)
    BY <2>3
  <2>5. x \in Up(x) /\ x \notin Up(y)
    BY <2>2
  <2>6. << Up(y), Up(x) >> \in R
    <3> HIDE DEF Up
    <3> QED
      BY <2>1, <2>4, <2>5 DEF StrictSubsetOrdering
  <2> QED
    BY <1>3, <1>4, <2>1, <2>6
<1> QED
  BY <1>5

(* A group that is settled has an outcome: its latest disposition.         *)
LEMMA SettledOutcome ==
  ASSUME TypeInv, NEW g, NEW read \in SUBSET DOMAIN ledger, Settled(g, read)
  PROVE  Outcome(g, read) \in {"dropped", "accepted"}
<1> DEFINE said == DispositionsOf(g, read)
           last == CHOOSE k \in said : \A j \in said : j <= k
<1>1. ledger \in Seq(Events) /\ Len(ledger) \in Nat
  BY DEF TypeInv
<1>2. said # {} /\ said \subseteq 1 .. Len(ledger)
  BY <1>1 DEF Settled, DispositionsOf
<1>3. \A k \in said : ledger[k] \in Events /\ ledger[k].kind = "disposition"
  BY <1>1, <1>2 DEF DispositionsOf
<1>4. Outcome(g, read) = ledger[last].as
  BY <1>2 DEF Outcome
<1> HIDE DEF said
<1>5. IsFiniteSet(said) /\ said \in SUBSET Int
  <2>1. IsFiniteSet(1 .. Len(ledger))
    BY <1>1, FS_Interval
  <2>2. IsFiniteSet(said)
    BY <1>2, <2>1, FS_Subset, Zenon
  <2>3. said \subseteq Int
    BY <1>1, <1>2
  <2> QED
    BY <2>2, <2>3
<1>6. \E k \in said : \A j \in said : j <= k
  <2>1. PICK k \in said : \A j \in said : k >= j
    BY <1>2, <1>5, Greatest
  <2>2. \A j \in said : k \in Int /\ j \in Int /\ k >= j
    BY <2>1, <1>5
  <2>3. \A j \in said : j <= k
    BY <2>2
  <2> QED
    BY <2>3
<1>7. last \in said
  BY <1>6
<1> HIDE DEF last
<1>8. ledger[last].as \in {"dropped", "accepted"}
  BY <1>3, <1>7 DEF Events
<1> QED
  BY <1>4, <1>8

-----------------------------------------------------------------------------
(* The tracker.                                                            *)

Trackers ==
  [ offset : Nat, seen : SUBSET Nat, dropped : Int,
    tokens : [ Groups -> Nat ],
    disposition : [ Groups -> {"none", "dropped", "accepted"} ] ]

(* Outcome, of any file: the disposition of a group that comes last among  *)
(* some lines.                                                             *)
Said(file, g, read) ==
  { k \in read : file[k].kind = "disposition" /\ file[k].group = g }
Latest(lines) == CHOOSE k \in lines : \A j \in lines : j <= k
Verdict(file, g, read) ==
  LET said == Said(file, g, read)
  IN  IF said = {} THEN "none" ELSE file[Latest(said)].as

CostOf(file, g, read) ==
  { k \in read : file[k].kind = "request" /\ file[k].group = g }
DroppedCost(file, read) ==
  { k \in read : /\ file[k].kind = "request"
                 /\ IsDropped(Verdict(file, file[k].group, read)) }

(* A tracker adds up these lines of the file and no others.                *)
Counts(t, file, read) ==
  /\ t \in Trackers
  /\ \A g \in Groups : /\ t.tokens[g] = Cardinality(CostOf(file, g, read))
                       /\ t.disposition[g] = Verdict(file, g, read)
  /\ t.dropped = Cardinality(DroppedCost(file, read))

-----------------------------------------------------------------------------
LEMMA ApplyRequestFields ==
  ASSUME NEW t \in Trackers, NEW e \in Events, e.kind = "request"
  PROVE  LET u == Apply(t, e)  g == e.group IN
         /\ u \in Trackers /\ u.seen = t.seen /\ u.offset = t.offset
         /\ u.tokens = [ t.tokens EXCEPT ![g] = @ + 1 ]
         /\ u.disposition = t.disposition
         /\ u.dropped = t.dropped + Cost(1, t.disposition[g])
<1> DEFINE g == e.group
           n == t.dropped + Cost(1, t.disposition[g])
           f == [ t.tokens EXCEPT ![g] = @ + 1 ]
<1>1. g \in Groups /\ t.tokens \in [ Groups -> Nat ] /\ t.dropped \in Int
  BY DEF Events, Trackers
<1>2. f \in [ Groups -> Nat ]
  BY <1>1
<1>3. n \in Int
  BY <1>1 DEF Cost
<1>4. Apply(t, e) = [ t EXCEPT !.tokens = f, !.dropped = n ]
  BY DEF Apply, ApplyRequest, Trackers
<1> HIDE DEF f, n
<1>5. LET u == Apply(t, e) IN
      /\ u \in Trackers /\ u.seen = t.seen /\ u.offset = t.offset
      /\ u.tokens = f /\ u.disposition = t.disposition /\ u.dropped = n
  BY <1>2, <1>3, <1>4 DEF Trackers
<1> QED
  BY <1>5 DEF f, n

LEMMA ApplyDispositionFields ==
  ASSUME NEW t \in Trackers, NEW e \in Events, e.kind = "disposition"
  PROVE  LET u == Apply(t, e)  g == e.group IN
         /\ u \in Trackers /\ u.seen = t.seen /\ u.offset = t.offset
         /\ u.tokens = t.tokens
         /\ u.disposition = [ t.disposition EXCEPT ![g] = e.as ]
         /\ u.dropped = t.dropped + Cost(t.tokens[g], e.as)
                                  - Cost(t.tokens[g], t.disposition[g])
<1> DEFINE g == e.group
           n == t.dropped + Cost(t.tokens[g], e.as)
                          - Cost(t.tokens[g], t.disposition[g])
           f == [ t.disposition EXCEPT ![g] = e.as ]
           D == [ Groups -> {"none", "dropped", "accepted"} ]
<1>1. g \in Groups /\ t.tokens \in [ Groups -> Nat ] /\ t.dropped \in Int
      /\ t.disposition \in D /\ e.as \in {"none", "dropped", "accepted"}
  BY DEF Events, Trackers
<1>2. f \in D
  BY <1>1
<1>3. n \in Int
  BY <1>1 DEF Cost
<1>4. Apply(t, e) = [ t EXCEPT !.disposition = f, !.dropped = n ]
  BY DEF Apply, ApplyDisposition, Trackers
<1> HIDE DEF f, n
<1>5. LET u == Apply(t, e) IN
      /\ u \in Trackers /\ u.seen = t.seen /\ u.offset = t.offset
      /\ u.tokens = t.tokens /\ u.disposition = f /\ u.dropped = n
  BY <1>2, <1>3, <1>4 DEF Trackers
<1> QED
  BY <1>5 DEF f, n

(* Cardinalities of lines.                                                 *)
LEMMA LinesFinite ==
  ASSUME NEW n \in Nat, NEW S \in SUBSET (1 .. n)
  PROVE  IsFiniteSet(S) /\ Cardinality(S) \in Nat
<1>1. IsFiniteSet(1 .. n)
  BY FS_Interval
<1>2. IsFiniteSet(S)
  BY <1>1, FS_Subset, Zenon
<1> QED
  BY <1>2, FS_CardinalityType, Zenon

LEMMA ReadNext ==
  ASSUME NEW n \in Nat, NEW k \in 1 .. n, NEW read \in SUBSET (1 .. k - 1)
  PROVE  k \notin read /\ k \in Nat /\ read \cup {k} \subseteq 1 .. k
<1>1. \A j \in read : j \in Int /\ 1 <= j /\ j <= k - 1
  OBVIOUS
<1>2. k \in Int /\ 1 <= k
  OBVIOUS
<1>3. \A j \in read : j \in 1 .. k /\ j # k
  BY <1>1, <1>2
<1> QED
  BY <1>2, <1>3

(* The line that is read next, of a request.                               *)
LEMMA RequestCounts ==
  ASSUME NEW file \in Seq(Events), NEW k \in 1 .. Len(file),
         NEW read \in SUBSET (1 .. k - 1), NEW t, Counts(t, file, read),
         file[k].kind = "request"
  PROVE  Counts(Apply(t, file[k]), file, read \cup {k})
<1> DEFINE e == file[k]
           g == e.group
           u == Apply(t, e)
           more == read \cup {k}
<1>1. e \in Events /\ g \in Groups /\ t \in Trackers
      /\ t.tokens \in [ Groups -> Nat ] /\ t.dropped \in Int
  <2>1. e \in Events
    OBVIOUS
  <2> QED
    BY <2>1 DEF Events, Counts, Trackers
<1>2. /\ u \in Trackers /\ u.seen = t.seen /\ u.offset = t.offset
      /\ u.tokens = [ t.tokens EXCEPT ![g] = @ + 1 ]
      /\ u.disposition = t.disposition
      /\ u.dropped = t.dropped + Cost(1, t.disposition[g])
  BY <1>1, ApplyRequestFields
<1>3. k \notin read /\ k \in Nat /\ more \subseteq 1 .. k
  <2>1. Len(file) \in Nat
    OBVIOUS
  <2> QED
    BY <2>1, ReadNext
<1>4. \A h : Said(file, h, more) = Said(file, h, read)
  BY DEF Said
<1>5. ASSUME NEW h
      PROVE  Verdict(file, h, more) = Verdict(file, h, read)
  <2>1. Said(file, h, more) = Said(file, h, read)
    BY <1>4
  <2> QED
    BY <2>1 DEF Verdict
<1>6. ASSUME NEW h \in Groups
      PROVE  u.tokens[h] = Cardinality(CostOf(file, h, more))
  <2>1. t.tokens[h] = Cardinality(CostOf(file, h, read))
    BY DEF Counts
  <2>2. CASE h = g
    <3>1. CostOf(file, h, more) = CostOf(file, h, read) \cup {k}
      BY <2>2 DEF CostOf
    <3>2. k \notin CostOf(file, h, read)
      BY <1>3 DEF CostOf
    <3>3. IsFiniteSet(CostOf(file, h, read))
      <4>1. CostOf(file, h, read) \in SUBSET (1 .. k)
        BY <1>3 DEF CostOf
      <4> QED
        BY <4>1, <1>3, LinesFinite
    <3>4. Cardinality(CostOf(file, h, more))
            = Cardinality(CostOf(file, h, read)) + 1
      BY <3>1, <3>2, <3>3, FS_AddElement
    <3> QED
      BY <3>4, <2>1, <2>2, <1>1, <1>2
  <2>3. CASE h # g
    <3>1. CostOf(file, h, more) = CostOf(file, h, read)
      BY <2>3 DEF CostOf
    <3> QED
      BY <3>1, <2>1, <2>3, <1>1, <1>2
  <2> QED
    BY <2>2, <2>3
<1>7. u.dropped = Cardinality(DroppedCost(file, more))
  <2>1. t.dropped = Cardinality(DroppedCost(file, read))
    BY DEF Counts
  <2>2. t.disposition[g] = Verdict(file, g, read)
    BY <1>1 DEF Counts
  <2>3. CASE IsDropped(t.disposition[g])
    <3>1. DroppedCost(file, more) = DroppedCost(file, read) \cup {k}
      BY <2>2, <2>3, <1>5 DEF DroppedCost
    <3>2. k \notin DroppedCost(file, read)
      BY <1>3 DEF DroppedCost
    <3>3. IsFiniteSet(DroppedCost(file, read))
      <4>1. DroppedCost(file, read) \in SUBSET (1 .. k)
        BY <1>3 DEF DroppedCost
      <4> QED
        BY <4>1, <1>3, LinesFinite
    <3>4. Cardinality(DroppedCost(file, more))
            = Cardinality(DroppedCost(file, read)) + 1
      BY <3>1, <3>2, <3>3, FS_AddElement
    <3> QED
      BY <3>4, <2>1, <2>3, <1>2 DEF Cost
  <2>4. CASE ~ IsDropped(t.disposition[g])
    <3>1. DroppedCost(file, more) = DroppedCost(file, read)
      BY <2>2, <2>4, <1>5 DEF DroppedCost
    <3> QED
      BY <3>1, <2>1, <2>4, <1>1, <1>2 DEF Cost
  <2> QED
    BY <2>3, <2>4
<1>8. \A h \in Groups : u.disposition[h] = Verdict(file, h, more)
  BY <1>2, <1>5 DEF Counts
<1> QED
  BY <1>2, <1>6, <1>7, <1>8 DEF Counts

(* ... and of a disposition.                                               *)
LEMMA DispositionCounts ==
  ASSUME NEW file \in Seq(Events), NEW k \in 1 .. Len(file),
         NEW read \in SUBSET (1 .. k - 1), NEW t, Counts(t, file, read),
         file[k].kind = "disposition"
  PROVE  Counts(Apply(t, file[k]), file, read \cup {k})
<1> DEFINE e == file[k]
           g == e.group
           u == Apply(t, e)
           more == read \cup {k}
           costs == CostOf(file, g, read)
           old == DroppedCost(file, read)
           new == DroppedCost(file, more)
<1>1. e \in Events /\ g \in Groups /\ t \in Trackers
      /\ t.disposition \in [ Groups -> {"none", "dropped", "accepted"} ]
  <2>1. e \in Events
    OBVIOUS
  <2> QED
    BY <2>1 DEF Events, Counts, Trackers
<1>2. /\ u \in Trackers /\ u.seen = t.seen /\ u.offset = t.offset
      /\ u.tokens = t.tokens
      /\ u.disposition = [ t.disposition EXCEPT ![g] = e.as ]
      /\ u.dropped = t.dropped + Cost(t.tokens[g], e.as)
                               - Cost(t.tokens[g], t.disposition[g])
  BY <1>1, ApplyDispositionFields
<1>3. k \notin read /\ k \in Nat /\ more \subseteq 1 .. k
  <2>1. Len(file) \in Nat
    OBVIOUS
  <2> QED
    BY <2>1, ReadNext
<1>4. \A h : CostOf(file, h, more) = CostOf(file, h, read)
  BY DEF CostOf
<1>5. ASSUME NEW h, h # g
      PROVE  Verdict(file, h, more) = Verdict(file, h, read)
  <2>1. Said(file, h, more) = Said(file, h, read)
    BY <1>5 DEF Said
  <2> QED
    BY <2>1 DEF Verdict
<1>6. Verdict(file, g, more) = e.as
  <2> DEFINE said == Said(file, g, more)
             last == Latest(said)
  <2>1. k \in said /\ said \subseteq more
    BY DEF Said
  <2>2. Verdict(file, g, more) = file[last].as
    BY <2>1 DEF Verdict
  <2> HIDE DEF said
  <2>3. \A j \in said : j \in Int /\ j <= k
    BY <2>1, <1>3
  <2>4. last \in said /\ \A j \in said : j <= last
    BY <2>1, <2>3 DEF Latest
  <2> HIDE DEF last
  <2>5. last = k
    BY <2>1, <2>3, <2>4, <1>3
  <2> QED
    BY <2>2, <2>5
<1>7. t.tokens[g] = Cardinality(costs) /\ t.dropped = Cardinality(old)
      /\ t.disposition[g] = Verdict(file, g, read)
  BY <1>1 DEF Counts
<1>8. IsFiniteSet(costs) /\ IsFiniteSet(old)
      /\ Cardinality(costs) \in Nat /\ Cardinality(old) \in Nat
  <2>1. costs \in SUBSET (1 .. k) /\ old \in SUBSET (1 .. k)
    BY <1>3 DEF CostOf, DroppedCost
  <2> HIDE DEF costs, old
  <2> QED
    BY <2>1, <1>3, LinesFinite
<1>9. IF IsDropped(Verdict(file, g, read)) THEN costs \subseteq old
                                           ELSE costs \cap old = {}
  BY DEF CostOf, DroppedCost
<1>10. new = (old \ costs) \cup (IF IsDropped(e.as) THEN costs ELSE {})
  BY <1>5, <1>6 DEF CostOf, DroppedCost
<1> HIDE DEF costs, old, new
<1>11. IsFiniteSet(old \ costs)
       /\ Cardinality(old \ costs)
            = t.dropped - Cost(t.tokens[g], t.disposition[g])
  <2>1. CASE IsDropped(Verdict(file, g, read))
    <3>1. costs \subseteq old /\ old \cap costs = costs
      BY <2>1, <1>9
    <3>2. Cardinality(old \ costs) = Cardinality(old) - Cardinality(costs)
      BY <3>1, <1>8, FS_Difference
    <3> QED
      BY <3>2, <2>1, <1>7, <1>8, FS_Difference DEF Cost
  <2>2. CASE ~ IsDropped(Verdict(file, g, read))
    <3>1. old \ costs = old
      BY <2>2, <1>9
    <3>2. Cost(t.tokens[g], t.disposition[g]) = 0
      BY <2>2, <1>7 DEF Cost
    <3>3. t.dropped - 0 = Cardinality(old)
      BY <1>7, <1>8
    <3> QED
      BY <3>1, <3>2, <3>3, <1>8
  <2> QED
    BY <2>1, <2>2
<1>12. Cardinality(new) = Cardinality(old \ costs) + Cost(t.tokens[g], e.as)
  <2>1. CASE IsDropped(e.as)
    <3>1. new = (old \ costs) \cup costs /\ (old \ costs) \cap costs = {}
      BY <2>1, <1>10
    <3>2. Cardinality({}) = 0 /\ Cardinality(old \ costs) \in Nat
      BY <1>11, FS_EmptySet, FS_CardinalityType
    <3>3. Cardinality(new) = Cardinality(old \ costs) + Cardinality(costs)
      <4>1. Cardinality((old \ costs) \cup costs)
              = Cardinality(old \ costs) + Cardinality(costs)
                  - Cardinality((old \ costs) \cap costs)
        BY <1>8, <1>11, FS_Union
      <4>2. Cardinality((old \ costs) \cap costs) = 0
            /\ Cardinality(new) = Cardinality((old \ costs) \cup costs)
        BY <3>1, <3>2, Zenon
      <4> HIDE DEF costs, old, new
      <4> QED
        BY <4>1, <4>2, <3>2, <1>8
    <3> QED
      BY <3>3, <2>1, <1>7 DEF Cost
  <2>2. CASE ~ IsDropped(e.as)
    <3>1. new = old \ costs
      BY <2>2, <1>10
    <3>2. Cardinality(old \ costs) \in Nat
      BY <1>11, FS_CardinalityType
    <3> QED
      BY <3>1, <3>2, <2>2 DEF Cost
  <2> QED
    BY <2>1, <2>2
<1>13. u.dropped = Cardinality(new)
  <2>1. Cost(t.tokens[g], e.as) \in Int
        /\ Cost(t.tokens[g], t.disposition[g]) \in Int /\ t.dropped \in Int
    BY <1>7, <1>8 DEF Cost
  <2> QED
    BY <2>1, <1>2, <1>11, <1>12
<1>14. ASSUME NEW h \in Groups
       PROVE  /\ u.tokens[h] = Cardinality(CostOf(file, h, more))
              /\ u.disposition[h] = Verdict(file, h, more)
  <2>1. u.tokens[h] = Cardinality(CostOf(file, h, more))
    BY <1>2, <1>4 DEF Counts
  <2>2. u.disposition[h] = IF h = g THEN e.as ELSE t.disposition[h]
    BY <1>1, <1>2
  <2>3. t.disposition[h] = Verdict(file, h, read)
    BY DEF Counts
  <2> QED
    BY <2>1, <2>2, <2>3, <1>5, <1>6
<1> QED
  BY <1>2, <1>13, <1>14 DEF Counts, new

LEMMA ApplyCounts ==
  ASSUME NEW file \in Seq(Events), NEW k \in 1 .. Len(file),
         NEW read \in SUBSET (1 .. k - 1), NEW t, Counts(t, file, read)
  PROVE  Counts(Apply(t, file[k]), file, read \cup {k})
<1>1. file[k] \in Events
  OBVIOUS
<1>2. file[k].kind \in {"request", "disposition"}
  BY <1>1 DEF Events
<1> QED
  BY <1>2, RequestCounts, DispositionCounts

(* What holds at a number and carries over from each number to the next    *)
(* holds up to a bound.                                                    *)
LEMMA UpTo ==
  ASSUME NEW a \in Int, NEW b \in Int, a <= b, NEW S, a \in S,
         \A n \in a .. b - 1 : n \in S => n + 1 \in S
  PROVE  a .. b \subseteq S
<1> DEFINE Good == { n \in a .. b : a .. n \subseteq S }
<1>1. a \in Good
  OBVIOUS
<1>2. Good \in SUBSET Int /\ IsFiniteSet(Good)
  <2>1. IsFiniteSet(a .. b) /\ Good \subseteq a .. b
    BY FS_Interval
  <2> HIDE DEF Good
  <2>2. IsFiniteSet(Good)
    BY <2>1, FS_Subset, Zenon
  <2> QED
    BY <2>1, <2>2
<1>3. PICK n \in Good : \A m \in Good : n >= m
  <2> HIDE DEF Good
  <2> QED
    BY <1>1, <1>2, Greatest
<1>4. n \in a .. b /\ a .. n \subseteq S
  OBVIOUS
<1>5. ASSUME n < b PROVE FALSE
  <2>1. n \in S /\ n \in a .. b - 1
    BY <1>4, <1>5
  <2>2. n + 1 \in S
    BY <2>1
  <2>3. \A m \in a .. n + 1 : m \in a .. n \/ m = n + 1
    BY <1>4
  <2>4. n + 1 \in Good
    BY <2>1, <2>2, <2>3, <1>4
  <2>5. n >= n + 1
    BY <2>4, <1>3
  <2> QED
    BY <2>1, <2>5
<1>6. n = b
  BY <1>4, <1>5
<1> QED
  BY <1>4, <1>6


(* What reading the lines from a to b in order leaves behind at each.      *)
Reading(f, t, file, a, b) ==
  f = [ k \in a .. b |-> IF k = a THEN t ELSE Apply(f[k - 1], file[k]) ]

LEMMA ReadingExists ==
  ASSUME NEW a \in Int, NEW b \in Int, a <= b, NEW t, NEW file
  PROVE  \E f : Reading(f, t, file, a, b)
<1> DEFINE S == { n \in a .. b : \E f : Reading(f, t, file, a, n) }
<1>1. a \in S
  <2> DEFINE f == [ k \in a .. a |-> t ]
  <2>1. \A k \in a .. a : k = a
    OBVIOUS
  <2>2. f = [ k \in a .. a |->
                IF k = a THEN t ELSE Apply(f[k - 1], file[k]) ]
    BY <2>1
  <2> HIDE DEF f
  <2>3. Reading(f, t, file, a, a)
    BY <2>2 DEF Reading
  <2> QED
    BY <2>3
<1>2. ASSUME NEW n \in a .. b - 1, n \in S
      PROVE  n + 1 \in S
  <2>1. PICK f : Reading(f, t, file, a, n)
    BY <1>2
  <2>2. f = [ k \in a .. n |->
                IF k = a THEN t ELSE Apply(f[k - 1], file[k]) ]
    BY <2>1 DEF Reading
  <2> DEFINE next == Apply(f[n], file[n + 1])
             h == [ k \in a .. n + 1 |-> IF k = n + 1 THEN next ELSE f[k] ]
  <2>3. n \in Int /\ a <= n /\ n + 1 # a /\ n + 1 \in a .. b
    OBVIOUS
  <2> HIDE DEF next
  <2>4. ASSUME NEW k \in a .. n + 1
        PROVE  h[k] = IF k = a THEN t ELSE Apply(h[k - 1], file[k])
    <3>1. CASE k = n + 1
      <4>1. h[k] = next /\ h[n] = f[n] /\ k - 1 = n
        BY <3>1, <2>3
      <4> HIDE DEF h
      <4> QED
        BY <4>1, <3>1, <2>3 DEF next
    <3>2. CASE k # n + 1
      <4>1. k \in a .. n
        BY <3>2, <2>3
      <4>2. h[k] = f[k]
        BY <3>2
      <4>3. f[k] = IF k = a THEN t ELSE Apply(f[k - 1], file[k])
        BY <4>1, <2>2
      <4>4. k # a => h[k - 1] = f[k - 1]
        BY <4>1, <2>3
      <4> HIDE DEF h
      <4> QED
        BY <4>2, <4>3, <4>4
    <3> QED
      BY <3>1, <3>2
  <2>5. h = [ k \in a .. n + 1 |->
                IF k = a THEN t ELSE Apply(h[k - 1], file[k]) ]
    <3>1. h = [ k \in a .. n + 1 |-> h[k] ]
      OBVIOUS
    <3> HIDE DEF h
    <3> QED
      BY <3>1, <2>4, Zenon
  <2> HIDE DEF h
  <2>6. Reading(h, t, file, a, n + 1)
    BY <2>5 DEF Reading
  <2> QED
    BY <2>3, <2>6
<1> HIDE DEF S
<1>3. a .. b \subseteq S
  BY <1>1, <1>2, UpTo
<1>4. b \in S
  BY <1>3
<1> QED
  BY <1>4 DEF S

LEMMA ApplyKeepsPlace ==
  ASSUME NEW t \in Trackers, NEW e \in Events
  PROVE  /\ Apply(t, e) \in Trackers /\ Apply(t, e).seen = t.seen
         /\ Apply(t, e).offset = t.offset
<1>1. e.kind \in {"request", "disposition"}
  BY DEF Events
<1> QED
  BY <1>1, ApplyRequestFields, ApplyDispositionFields

(* A tracker that adds up the lines it has seen, which lie before its      *)
(* position in the file.                                                   *)
Exact(t, file) ==
  /\ Counts(t, file, t.seen)
  /\ t.offset <= Len(file) /\ t.seen \subseteq 1 .. t.offset

LEMMA ReadExact ==
  ASSUME NEW file \in Seq(Events), NEW t, Exact(t, file),
         NEW end \in t.offset .. Len(file)
  PROVE  /\ Exact(Read(t, file, end), file)
         /\ Read(t, file, end).offset = end
         /\ Read(t, file, end) \in Trackers
<1> DEFINE a == t.offset
           after == CHOOSE f : f = [ k \in a .. end |->
                      IF k = a THEN t ELSE Apply(f[k - 1], file[k]) ]
           lines(n) == t.seen \cup (a + 1 .. n)
           S == { n \in a .. end : /\ Counts(after[n], file, lines(n))
                                   /\ after[n].seen = t.seen }
<1>1. t \in Trackers /\ a \in Nat /\ end \in Nat /\ a <= end
      /\ end <= Len(file) /\ Len(file) \in Nat /\ t.seen \subseteq 1 .. a
  BY DEF Exact, Counts, Trackers
<1>2. Read(t, file, end)
        = [ after[end] EXCEPT !.offset = end,
                              !.seen = @ \cup (a + 1 .. end) ]
  BY DEF Read
<1>3. after = [ k \in a .. end |->
                  IF k = a THEN t ELSE Apply(after[k - 1], file[k]) ]
  <2>1. \E f : Reading(f, t, file, a, end)
    <3> HIDE DEF a
    <3> QED
      BY <1>1, ReadingExists
  <2>2. \E f : f = [ k \in a .. end |->
                       IF k = a THEN t ELSE Apply(f[k - 1], file[k]) ]
    BY <2>1, Zenon DEF Reading
  <2> QED
    BY <2>2, Zenon
<1> HIDE DEF a, after
<1>4. a \in S
  <2>1. after[a] = t
    BY <1>1, <1>3
  <2>2. lines(a) = t.seen
    BY <1>1
  <2>3. Counts(t, file, t.seen) /\ a \in a .. end
    BY <1>1 DEF Exact
  <2> HIDE DEF lines
  <2>4. Counts(after[a], file, lines(a)) /\ after[a].seen = t.seen
    BY <2>1, <2>2, <2>3, Zenon
  <2> QED
    BY <2>3, <2>4
<1>5. ASSUME NEW n \in a .. end - 1, n \in S
      PROVE  n + 1 \in S
  <2> DEFINE k == n + 1
  <2>1. k \in a .. end /\ k \in 1 .. Len(file) /\ k # a /\ k - 1 = n
        /\ n \in Nat
    BY <1>1
  <2>2. after[k] = Apply(after[n], file[k])
    BY <2>1, <1>3
  <2>3. lines(n) \in SUBSET (1 .. k - 1) /\ lines(k) = lines(n) \cup {k}
    BY <1>1, <2>1
  <2>4. Counts(after[n], file, lines(n)) /\ after[n].seen = t.seen
    BY <1>5
  <2>5. file[k] \in Events /\ after[n] \in Trackers
    BY <2>1, <2>4 DEF Counts
  <2> HIDE DEF k, lines
  <2>6. Counts(after[k], file, lines(n) \cup {k})
    <3>1. Counts(Apply(after[n], file[k]), file, lines(n) \cup {k})
      BY <2>1, <2>3, <2>4, ApplyCounts
    <3> QED
      BY <3>1, <2>2, Zenon
  <2>7. after[k].seen = t.seen
    BY <2>2, <2>4, <2>5, ApplyKeepsPlace
  <2>8. k \in S
    BY <2>1, <2>3, <2>6, <2>7
  <2> QED
    BY <2>8 DEF k
<1> HIDE DEF S
<1>6. end \in S
  <2>1. a .. end \subseteq S
    BY <1>1, <1>4, <1>5, UpTo
  <2> QED
    BY <2>1, <1>1
<1> DEFINE last == after[end]
           u == Read(t, file, end)
<1>7. Counts(last, file, lines(end)) /\ last.seen = t.seen
      /\ last \in Trackers
  BY <1>6 DEF S, Counts
<1> HIDE DEF last
<1>8. lines(end) \in SUBSET Nat /\ lines(end) \subseteq 1 .. end
  BY <1>1
<1>9. u = [ last EXCEPT !.offset = end, !.seen = @ \cup (a + 1 .. end) ]
  BY <1>2 DEF last
<1> HIDE DEF u
<1>10. /\ u \in Trackers /\ u.offset = end /\ u.seen = lines(end)
       /\ u.tokens = last.tokens /\ u.disposition = last.disposition
       /\ u.dropped = last.dropped
  BY <1>1, <1>7, <1>8, <1>9 DEF Trackers
<1> HIDE DEF lines
<1>11. Counts(u, file, u.seen)
  BY <1>7, <1>10 DEF Counts
<1> QED
  BY <1>1, <1>8, <1>10, <1>11 DEF Exact, u

LEMMA EmptyExact ==
  ASSUME NEW file \in Seq(Events)
  PROVE  Exact(EmptyTracker, file) /\ EmptyTracker.offset = 0
<1> DEFINE t == EmptyTracker
<1>1. /\ t \in Trackers /\ t.offset = 0 /\ t.seen = {} /\ t.dropped = 0
      /\ \A g \in Groups : t.tokens[g] = 0 /\ t.disposition[g] = "none"
  BY DEF EmptyTracker, Trackers
<1> HIDE DEF t
<1>2. \A g : CostOf(file, g, {}) = {} /\ Verdict(file, g, {}) = "none"
  BY DEF CostOf, Verdict, Said
<1>3. DroppedCost(file, {}) = {} /\ Cardinality({}) = 0
  BY FS_EmptySet DEF DroppedCost
<1>4. Counts(t, file, {})
  BY <1>1, <1>2, <1>3 DEF Counts
<1> QED
  BY <1>1, <1>4 DEF Exact, t

(* What a tracker has added up is not changed by what is appended.         *)
LEMMA ExactGrows ==
  ASSUME NEW file \in Seq(Events), NEW new \in Seq(Events), NEW t,
         Exact(t, file)
  PROVE  Exact(t, file \o new)
<1> DEFINE more == file \o new
<1>1. /\ Len(file) \in Nat /\ Len(new) \in Nat
      /\ Len(more) = Len(file) + Len(new)
      /\ \A k \in 1 .. Len(file) : more[k] = file[k]
  OBVIOUS
<1>2. t \in Trackers /\ t.offset \in Nat /\ t.offset <= Len(file)
      /\ t.seen \subseteq 1 .. t.offset
  BY DEF Exact, Counts, Trackers
<1> HIDE DEF more
<1>3. \A k \in t.seen : more[k] = file[k]
  BY <1>1, <1>2
<1>4. \A g : CostOf(more, g, t.seen) = CostOf(file, g, t.seen)
  BY <1>3 DEF CostOf
<1>5. ASSUME NEW g
      PROVE  Verdict(more, g, t.seen) = Verdict(file, g, t.seen)
  <2> DEFINE said == Said(file, g, t.seen)
  <2>1. Said(more, g, t.seen) = said /\ said \subseteq t.seen
    BY <1>3 DEF Said
  <2>2. ASSUME said # {} PROVE more[Latest(said)] = file[Latest(said)]
    <3>1. IsFiniteSet(said) /\ said \in SUBSET Int
      <4>1. said \in SUBSET (1 .. t.offset)
        BY <1>2, <2>1
      <4>2. IsFiniteSet(said)
        BY <4>1, <1>2, LinesFinite
      <4> QED
        BY <4>1, <4>2, <1>2
    <3> HIDE DEF said
    <3>2. PICK k \in said : \A j \in said : k >= j
      BY <2>2, <3>1, Greatest
    <3>3. \A j \in said : k \in Int /\ j \in Int /\ k >= j
      BY <3>1, <3>2
    <3>4. \A j \in said : j <= k
      BY <3>3
    <3>5. Latest(said) \in said
      BY <3>4 DEF Latest
    <3> QED
      BY <3>5, <2>1, <1>3
  <2>3. Verdict(more, g, t.seen)
          = IF said = {} THEN "none" ELSE more[Latest(said)].as
    BY <2>1, Zenon DEF Verdict
  <2>4. Verdict(file, g, t.seen)
          = IF said = {} THEN "none" ELSE file[Latest(said)].as
    BY Zenon DEF Verdict
  <2> HIDE DEF said
  <2> QED
    BY <2>2, <2>3, <2>4
<1>6. DroppedCost(more, t.seen) = DroppedCost(file, t.seen)
  BY <1>3, <1>5 DEF DroppedCost
<1>7. Counts(t, more, t.seen)
  BY <1>4, <1>5, <1>6 DEF Exact, Counts
<1>8. t.offset <= Len(more)
  BY <1>1, <1>2
<1> QED
  BY <1>2, <1>7, <1>8 DEF Exact, more

TrackerInv ==
  /\ tracker # None => Exact(tracker, ledger)
  /\ window # None => window \in Nat /\ window <= Len(ledger)

(* A new tracker of a resumed job skips what its job is not built on.      *)
LEMMA TrackedExact ==
  ASSUME TypeInv, TrackerInv
  PROVE  Exact(Tracked, ledger)
<1>1. ledger \in Seq(Events) /\ Len(ledger) \in Nat
  BY DEF TypeInv
<1>2. ASSUME window # None
      PROVE  LET t == [ ReadTo(EmptyTracker, window)
                          EXCEPT !.offset = Len(ledger) ]
             IN  Exact(t, ledger)
  <2> DEFINE r == Read(EmptyTracker, ledger, window)
             t == [ r EXCEPT !.offset = Len(ledger) ]
  <2>1. Exact(EmptyTracker, ledger) /\ EmptyTracker.offset = 0
    BY <1>1, EmptyExact
  <2>2. window \in EmptyTracker.offset .. Len(ledger)
        /\ window \in Nat /\ window <= Len(ledger)
    BY <1>1, <1>2, <2>1 DEF TrackerInv
  <2>3. Exact(r, ledger) /\ r.offset = window /\ r \in Trackers
    BY <1>1, <2>1, <2>2, ReadExact
  <2> HIDE DEF r
  <2>4. /\ t \in Trackers /\ t.offset = Len(ledger) /\ t.seen = r.seen
        /\ t.tokens = r.tokens /\ t.disposition = r.disposition
        /\ t.dropped = r.dropped
    BY <1>1, <2>3 DEF Trackers
  <2> HIDE DEF t
  <2>5. r.seen \subseteq 1 .. Len(ledger)
    BY <1>1, <2>2, <2>3 DEF Exact
  <2>6. Counts(t, ledger, t.seen)
    BY <2>3, <2>4 DEF Exact, Counts
  <2>7. Exact(t, ledger)
    BY <1>1, <2>4, <2>5, <2>6 DEF Exact
  <2> QED
    BY <2>7 DEF t, r, ReadTo
<1>3. Exact(NewTracker, ledger)
  BY <1>1, <1>2, EmptyExact DEF NewTracker
<1> QED
  BY <1>3 DEF Tracked, TrackerInv

LEMMA ExactIsDroppedCost ==
  ASSUME TypeInv, Exact(tracker, ledger)
  PROVE  DroppedCostExact
<1> DEFINE read == tracker.seen
<1>1. ledger \in Seq(Events) /\ Len(ledger) \in Nat
  BY DEF TypeInv
<1>2. read \subseteq DOMAIN ledger
  BY <1>1 DEF Exact, Counts, Trackers
<1> HIDE DEF read
<1>3. \A g : Outcome(g, read) = Verdict(ledger, g, read)
  BY Zenon DEF Outcome, Verdict, DispositionsOf, Said, Latest
<1>4. { k \in read \cap Requests : IsDropped(Outcome(ledger[k].group, read)) }
        = DroppedCost(ledger, read)
  BY <1>2, <1>3 DEF Requests, DroppedCost
<1>5. tracker.dropped = Cardinality(DroppedCost(ledger, read))
  BY DEF Exact, Counts, read
<1> QED
  BY <1>4, <1>5 DEF DroppedCostExact, read

LEMMA TaskDispositions ==
  ASSUME LedgerInv, NEW tasks, tasks \subseteq Tasks, OneEach(tasks, cursor),
         NEW d \in {"dropped", "accepted"}
  PROVE  Dispositions(GroupsOf(tasks), d) \in Seq(Events)
<1>1. cursor \in Nat /\ tasks \in SUBSET Tasks
  BY ConstantFacts DEF LedgerInv, TypeInv
<1>2. IsFiniteSet(GroupsOf(tasks)) /\ GroupsOf(tasks) \in SUBSET Groups
  BY <1>1, GroupsFinite
<1> QED
  BY <1>2, DispositionsCover

LEMMA TrackerKept ==
  ASSUME TypeInv, TrackerInv, NEW new \in Seq(Events),
         ledger' = ledger \o new, window' = window,
         tracker' = tracker \/ tracker' = Tracked
  PROVE  TrackerInv'
<1>1. ledger \in Seq(Events) /\ Len(ledger) \in Nat
  BY DEF TypeInv
<1>2. Len(ledger') = Len(ledger) + Len(new) /\ Len(new) \in Nat
  BY <1>1
<1>3. window' # None => window' \in Nat /\ window' <= Len(ledger')
  BY <1>1, <1>2 DEF TrackerInv
<1>4. Exact(Tracked, ledger') /\ (tracker # None => Exact(tracker, ledger'))
  <2>1. Exact(Tracked, ledger) /\ (tracker # None => Exact(tracker, ledger))
    BY TrackedExact DEF TrackerInv
  <2>2. Exact(Tracked, ledger \o new)
        /\ (tracker # None => Exact(tracker, ledger \o new))
    BY <1>1, <2>1, ExactGrows
  <2> QED
    BY <2>2, Zenon
<1>5. tracker' # None => Exact(tracker', ledger')
  BY <1>4, Zenon
<1> QED
  BY <1>3, <1>5, Zenon DEF TrackerInv

LEMMA TrackerSilent ==
  ASSUME TypeInv, TrackerInv, UNCHANGED << ledger, window >>,
         tracker' = tracker \/ tracker' = Tracked
  PROVE  TrackerInv'
<1>1. << >> \in Seq(Events) /\ ledger' = ledger \o << >>
  BY DEF TypeInv
<1> QED
  BY <1>1, TrackerKept

LEMMA TrackerDisposes ==
  ASSUME LedgerInv, TrackerInv, NEW tasks, tasks \subseteq Tasks,
         OneEach(tasks, cursor), Dispose(GroupsOf(tasks), "dropped"),
         window' = window
  PROVE  TrackerInv'
<1>1. Dispositions(GroupsOf(tasks), "dropped") \in Seq(Events)
  BY TaskDispositions
<1>2. /\ ledger' = ledger \o Dispositions(GroupsOf(tasks), "dropped")
      /\ tracker' = tracker \/ tracker' = Tracked
  BY DEF Dispose
<1> QED
  BY <1>1, <1>2, TrackerKept DEF LedgerInv

LEMMA TrackerInit ==
  ASSUME Init
  PROVE  TrackerInv
BY DEF Init, TrackerInv

LEMMA TrackerStep ==
  ASSUME LedgerInv, TrackerInv, [Next]_vars
  PROVE  TrackerInv'
<1>0. TypeInv /\ HeldInv /\ StageInv /\ ledger \in Seq(Events)
      /\ Len(ledger) \in Nat
  BY DEF LedgerInv, TypeInv
<1>1. CASE SendRequest
  <2>1. PICK t \in pending \cup strays :
          ledger' = Append(ledger, Request(t.group))
    BY <1>1 DEF SendRequest
  <2> DEFINE new == << Request(t.group) >>
  <2>2. t.group \in Groups
    BY <1>0 DEF TypeInv, Tasks
  <2>3. Request(t.group) \in Events
    BY <2>2 DEF Request, Events
  <2>4. new \in Seq(Events) /\ ledger' = ledger \o new
    BY <2>1, <2>3, <1>0
  <2>5. UNCHANGED << window, tracker >>
    BY <1>1 DEF SendRequest
  <2> HIDE DEF new
  <2> QED
    BY <2>4, <2>5, <1>0, TrackerKept
<1>2. CASE StartGenerate
  <2>1. PICK stale \in SUBSET { t \in buffer : t.try < MaxTries } :
          Dispose(EndedAtEntry(stale), "dropped")
    BY <1>2, Zenon DEF StartGenerate
  <2> DEFINE tasks == stale \cup replay
  <2>2. tasks \subseteq Tasks /\ OneEach(tasks, cursor)
    BY <1>0, <2>1 DEF TypeInv, HeldInv, OneEach, Apart
  <2>3. Dispose(GroupsOf(tasks), "dropped")
    BY <2>1 DEF EndedAtEntry
  <2>4. window' = window
    BY <1>2 DEF StartGenerate
  <2> HIDE DEF tasks
  <2> QED
    BY <2>2, <2>3, <2>4, TrackerDisposes
<1>3. CASE Submit
  BY <1>0, <1>3, TrackerSilent DEF Submit
<1>4. CASE Harvest
  <2>1. PICK t \in pending :
          HarvestAgain(t) \/ HarvestRejected(t) \/ HarvestValid(t)
    BY <1>4 DEF Harvest
  <2>2. CASE HarvestValid(t)
    BY <1>0, <2>2, TrackerSilent DEF HarvestValid, Reap
  <2>3. CASE HarvestAgain(t) \/ HarvestRejected(t)
    <3>1. Dispose({t.group}, "dropped") /\ window' = window
      BY <2>3 DEF HarvestAgain, HarvestRejected, Reap
    <3>2. GroupsOf({t}) = {t.group}
      BY DEF GroupsOf
    <3>3. {t} \subseteq Tasks /\ OneEach({t}, cursor)
      BY <1>0 DEF TypeInv, HeldInv, OneEach
    <3> QED
      BY <3>1, <3>2, <3>3, TrackerDisposes
  <2> QED
    BY <2>1, <2>2, <2>3
<1>5. CASE Peek
  <2>1. Exact(Tracked, ledger)
    BY <1>0, TrackedExact
  <2>2. Len(ledger) \in Tracked.offset .. Len(ledger)
    BY <1>0, <2>1 DEF Exact, Counts, Trackers
  <2>3. Exact(ReadTo(Tracked, Len(ledger)), ledger)
    BY <1>0, <2>1, <2>2, ReadExact DEF ReadTo
  <2>4. /\ tracker' = ReadTo(Tracked, Len(ledger))
        /\ UNCHANGED << ledger, window >>
    BY <1>5 DEF Peek
  <2> QED
    BY <2>3, <2>4, Zenon DEF TrackerInv
<1>6. CASE ReturnBatch
  <2>1. PICK selected \in SUBSET buffer :
          LET written == ledger \o Dispositions(GroupsOf(selected),
                                                "accepted")
          IN  /\ ledger' = written
              /\ tracker' = Read(Tracked, written, Len(written))
    BY <1>6, Zenon DEF ReturnBatch
  <2> DEFINE new == Dispositions(GroupsOf(selected), "accepted")
             written == ledger \o new
  <2>2. new \in Seq(Events)
    <3>1. selected \subseteq Tasks /\ OneEach(selected, cursor)
      BY <1>0, <2>1 DEF TypeInv, HeldInv, OneEach
    <3> QED
      BY <3>1, TaskDispositions
  <2>3. ledger' = written /\ tracker' = Read(Tracked, written, Len(written))
        /\ window' = window
    BY <1>6, <2>1 DEF ReturnBatch
  <2> HIDE DEF new
  <2>4. written \in Seq(Events) /\ Len(written) \in Nat
        /\ Len(ledger) <= Len(written)
    BY <1>0, <2>2
  <2>5. Exact(Tracked, written)
    BY <1>0, <2>2, TrackedExact, ExactGrows
  <2> HIDE DEF written
  <2>6. Len(written) \in Tracked.offset .. Len(written)
    BY <2>4, <2>5 DEF Exact, Counts, Trackers
  <2>7. Exact(tracker', ledger')
    BY <2>3, <2>4, <2>5, <2>6, ReadExact
  <2>8. window' # None => window' \in Nat /\ window' <= Len(ledger')
    BY <1>0, <2>3, <2>4 DEF TrackerInv
  <2> QED
    BY <2>7, <2>8 DEF TrackerInv
<1>7. CASE StopAtBudget
  BY <1>0, <1>7, TrackerDisposes DEF StopAtBudget, TypeInv, HeldInv
<1>8. CASE DiscardTerminal
  <2> DEFINE tasks == pending \cup buffer
  <2>1. tasks \subseteq Tasks /\ OneEach(tasks, cursor)
    BY <1>0 DEF TypeInv, HeldInv, OneEach, Apart
  <2>2. Dispose(GroupsOf(tasks), "dropped") /\ window' = window
    BY <1>8 DEF DiscardTerminal
  <2> HIDE DEF tasks
  <2> QED
    BY <2>1, <2>2, TrackerDisposes
<1>9. CASE Checkpoint
  BY <1>0, <1>9, TrackerSilent DEF Checkpoint
<1>10. CASE CrashAndLoad
  <2>1. tracker' = None /\ window' = saved.offset /\ ledger' = ledger
    BY <1>10 DEF CrashAndLoad, ResumeWindow
  <2>2. saved.offset # None => saved.offset \in Nat
                               /\ saved.offset <= Len(ledger)
    BY <1>0 DEF TypeInv, Checkpoints
  <2> QED
    BY <2>1, <2>2 DEF TrackerInv
<1>11. CASE UNCHANGED vars
  BY <1>0, <1>11, TrackerSilent DEF vars
<1> QED
  BY <1>1, <1>2, <1>3, <1>4, <1>5, <1>6, <1>7, <1>8, <1>9, <1>10, <1>11
     DEF Next, Done

-----------------------------------------------------------------------------
(* The theorems.                                                           *)

LEMMA LedgerInit ==
  ASSUME Init
  PROVE  LedgerInv
<1>1. /\ NoCheckpoint.cursor = 0 /\ NoCheckpoint.tasks = {}
      /\ NoCheckpoint.buffer = {} /\ NoCheckpoint.offset = None
      /\ NoCheckpoint \in Checkpoints
  BY ConstantFacts DEF NoCheckpoint, Checkpoints
<1>2. /\ Live = {} /\ Durable = {} /\ DOMAIN ledger = {}
  BY DEF Init, Live, Durable
<1>3. TypeInv
  BY <1>1, ConstantFacts DEF Init, TypeInv
<1>4. StageInv
  BY DEF Init, StageInv
<1>5. HeldInv
  BY <1>1 DEF Init, HeldInv, OneEach, Apart
<1>6. ChargeInv /\ SettleInv
  BY <1>2 DEF Init, ChargeInv, SettleInv
<1>7. ChargedOnce
  BY <1>2 DEF ChargedOnce, Requests
<1> QED
  BY <1>3, <1>4, <1>5, <1>6, <1>7 DEF LedgerInv

LEMMA LedgerStep ==
  ASSUME LedgerInv, [Next]_vars
  PROVE  LedgerInv'
<1>1. CASE SendRequest
  BY <1>1, SendRequestHolds
<1>2. CASE StartGenerate
  BY <1>2, StartGenerateHolds
<1>3. CASE Submit
  BY <1>3, SubmitHolds
<1>4. CASE Harvest
  BY <1>4, HarvestAgainHolds, HarvestRejectedHolds, HarvestValidHolds
     DEF Harvest
<1>5. CASE Peek
  BY <1>5, PeekHolds DEF Peek
<1>6. CASE ReturnBatch
  BY <1>6, ReturnBatchHolds
<1>7. CASE StopAtBudget
  BY <1>7, StopAtBudgetHolds
<1>8. CASE DiscardTerminal
  BY <1>8, DiscardTerminalHolds
<1>9. CASE Checkpoint
  BY <1>9, CheckpointHolds
<1>10. CASE CrashAndLoad
  BY <1>10, CrashAndLoadHolds
<1>11. CASE UNCHANGED vars
  <2>1. UNCHANGED << pc, life, collector, ledger, saved, orphaned >>
    BY <1>11 DEF vars
  <2> QED
    BY <2>1, PeekHolds
<1> QED
  BY <1>1, <1>2, <1>3, <1>4, <1>5, <1>6, <1>7, <1>8, <1>9, <1>10, <1>11
     DEF Next, Done

(* The invariant above, of every reachable state.                          *)
THEOREM LedgerInvariance == Spec => []LedgerInv
BY LedgerInit, LedgerStep, PTL DEF Spec

(* usage_group_id gives one group to an attempt at a source, and a replay  *)
(* runs with its accounting off: among the requests that a resumed job may *)
(* build on, no attempt is charged to two groups.                          *)
THEOREM NoAttemptChargedTwice == Spec => []ChargedOnce
<1>1. LedgerInv => ChargedOnce
  BY DEF LedgerInv
<1> QED
  BY <1>1, LedgerInvariance, PTL

(* No path through retries, replays, the partial tail and the terminal     *)
(* discard loses a group: when the run has ended, every group that cost    *)
(* anything has an outcome.                                                *)
THEOREM EveryCostHasAnOutcome == Spec => []SettledAtStop
<1>1. LedgerInv => SettledAtStop
  <2> SUFFICES ASSUME LedgerInv, pc = "stopped",
                      NEW k \in Requests \ orphaned
               PROVE  Outcome(ledger[k].group, Live) # "none"
    BY DEF SettledAtStop, Live
  <2>1. k \in Live /\ IsRequest(k)
    BY DEF Requests, Live, IsRequest
  <2>2. pending = {} /\ replay = {} /\ buffer = {}
    BY DEF LedgerInv, StageInv
  <2>3. Settled(ledger[k].group, Live)
    BY <2>1, <2>2 DEF LedgerInv, SettleInv, Held
  <2>4. Live \in SUBSET DOMAIN ledger
    BY DEF Live
  <2>5. Outcome(ledger[k].group, Live) \in {"dropped", "accepted"}
    BY <2>3, <2>4, SettledOutcome DEF LedgerInv
  <2> QED
    BY <2>5
<1> QED
  BY <1>1, LedgerInvariance, PTL

(* The dropped tokens that the tracker reports are the requests it has     *)
(* read of groups whose latest outcome it has read is a drop, in whatever  *)
(* order requests and dispositions reach the file, after any change of     *)
(* mind, and over any number of resumes.                                   *)
THEOREM DroppedCostIsExact == Spec => []DroppedCostExact
<1>1. Init => TrackerInv
  BY TrackerInit
<1>2. LedgerInv /\ TrackerInv /\ [Next]_vars => TrackerInv'
  BY TrackerStep
<1>3. LedgerInv /\ TrackerInv => DroppedCostExact
  <2> SUFFICES ASSUME LedgerInv, TrackerInv PROVE DroppedCostExact
    OBVIOUS
  <2>1. CASE tracker = None
    BY <2>1 DEF DroppedCostExact
  <2>2. CASE tracker # None
    BY <2>2, ExactIsDroppedCost DEF TrackerInv, LedgerInv
  <2> QED
    BY <2>1, <2>2
<1> QED
  BY <1>1, <1>2, <1>3, LedgerInvariance, PTL DEF Spec
=============================================================================
