------------------------ MODULE LanesCollectorProofs ------------------------
(***************************************************************************)
(* Proofs about LanesCollector for every budget, interval, batch size,     *)
(* lookahead, number of updates, resample limit and topology.              *)
(***************************************************************************)
EXTENDS LanesCollector, FiniteSetTheorems, SequenceTheorems, TLAPS

-----------------------------------------------------------------------------
(* Types.                                                                  *)

AllKinds == {"root", "beam"}

Descriptors ==
  [ src : Nat, kinds : (SUBSET AllKinds) \ {{}}, attempt : Nat ]

Tasks ==
  [ src : Nat, kinds : (SUBSET AllKinds) \ {{}}, attempt : Nat, rid : Int,
    ver : Int, mixed : BOOLEAN, active : BOOLEAN ]

Carried == [ src : Nat, kind : AllKinds, rid : Int, ver : Int, mixed : BOOLEAN ]

TypeInv ==
  /\ rid \in Int /\ version \in Int /\ cursor \in Nat /\ scheduled \in Nat
  /\ pending \in SUBSET Tasks /\ replay \in SUBSET Descriptors
  /\ resample \in Seq(Descriptors) /\ buffer \in Seq(Carried)
  /\ saved.rid \in Int /\ saved.cursor \in Nat /\ saved.scheduled \in Nat
  /\ saved.tasks \in SUBSET Descriptors /\ saved.buffer \in Seq(Carried)

GroupOf(b) == << b.src, b.kind >>

(* E gives the groups each member of a sequence has to account for: what    *)
(* the sequence accounts for, and that no two places share a group.        *)
Cover(s, E) == UNION { E[x] : x \in ToSet(s) }

Apart(s, E) ==
  \A i, j \in DOMAIN s : i # j => E[s[i]] \cap E[s[j]] = {}

OfCarried == [ b \in Carried |-> { GroupOf(b) } ]
OfDescriptor == [ d \in Descriptors |-> Expected(d) ]

-----------------------------------------------------------------------------
(* Facts about numbers.                                                    *)

(* What holds for 0 and carries over from each number to the next holds up *)
(* to a bound.                                                             *)
LEMMA UpTo ==
  ASSUME NEW N \in Nat, NEW S, 0 \in S,
         \A n \in 0 .. N - 1 : n \in S => n + 1 \in S
  PROVE  0 .. N \subseteq S
<1> DEFINE Bad == (0 .. N) \ S
           Down(x) == 0 .. x
           T == { Down(x) : x \in Bad }
           R == StrictSubsetOrdering(Nat)
<1> SUFFICES ASSUME Bad # {} PROVE FALSE
  OBVIOUS
<1>1. T # {} /\ T \subseteq FiniteSubsetsOf(Nat)
  <2>1. \A x \in Bad : Down(x) \in SUBSET Nat /\ IsFiniteSet(Down(x))
    BY FS_Interval
  <2> QED
    BY <2>1 DEF FiniteSubsetsOf
<1>2. IsWellFoundedOn(R, FiniteSubsetsOf(Nat))
  BY FS_StrictSubsetOrderingWellFounded
<1>3. PICK t \in T : \A u \in T : ~ (<< u, t >> \in R)
  <2> HIDE DEF T, R
  <2> QED
    BY <1>1, <1>2, WFMin
<1>4. PICK x \in Bad : t = Down(x)
  OBVIOUS
<1>5. x \in 1 .. N
  OBVIOUS
<1>6. x - 1 \in 0 .. N - 1 /\ (x - 1) + 1 = x
  BY <1>5
<1>7. x - 1 \notin S
  BY <1>6
<1>8. x - 1 \in Bad
  BY <1>6, <1>7
<1>9. Down(x - 1) \in T
  BY <1>8
<1>10. /\ Down(x - 1) \subseteq Down(x) /\ x \in Down(x)
       /\ x \notin Down(x - 1) /\ Down(x) \subseteq Nat
  BY <1>5
<1>11. << Down(x - 1), Down(x) >> \in R
  <2> HIDE DEF Down
  <2> QED
    BY <1>10 DEF StrictSubsetOrdering
<1> QED
  BY <1>3, <1>4, <1>9, <1>11

-----------------------------------------------------------------------------
(* Facts about sequences.                                                  *)

(* The members of a sequence of groups, and of two in a row.               *)
LEMMA ToSetConcat ==
  ASSUME NEW T, NEW s \in Seq(T), NEW t \in Seq(T)
  PROVE  ToSet(s \o t) = ToSet(s) \cup ToSet(t)
<1>1. /\ s \o t \in Seq(T) /\ Len(s \o t) = Len(s) + Len(t)
      /\ \A i \in 1 .. Len(s) + Len(t) :
           (s \o t)[i] = IF i <= Len(s) THEN s[i] ELSE t[i - Len(s)]
  BY ConcatProperties
<1>2. /\ DOMAIN s = 1 .. Len(s) /\ DOMAIN t = 1 .. Len(t)
      /\ DOMAIN (s \o t) = 1 .. Len(s) + Len(t)
      /\ Len(s) \in Nat /\ Len(t) \in Nat
  BY <1>1, LenProperties
<1> DEFINE u == s \o t
<1> HIDE DEF u
<1>3. ASSUME NEW x \in ToSet(u) PROVE x \in ToSet(s) \cup ToSet(t)
  <2>1. PICK i \in 1 .. Len(s) + Len(t) : x = u[i]
    BY <1>3, <1>2 DEF ToSet, u
  <2>2. CASE i <= Len(s)
    BY <2>1, <2>2, <1>1, <1>2 DEF ToSet, u
  <2>3. CASE i > Len(s)
    <3>1. i - Len(s) \in 1 .. Len(t) /\ x = t[i - Len(s)]
      BY <2>1, <2>3, <1>1, <1>2 DEF u
    <3> QED
      BY <3>1, <1>2 DEF ToSet
  <2> QED
    BY <2>2, <2>3, <1>2
<1>4. ASSUME NEW x \in ToSet(s) PROVE x \in ToSet(u)
  <2>1. PICK i \in 1 .. Len(s) : x = s[i]
    BY <1>4, <1>2 DEF ToSet
  <2>2. i \in 1 .. Len(s) + Len(t) /\ u[i] = x
    BY <2>1, <1>1, <1>2 DEF u
  <2> QED
    BY <2>2, <1>2 DEF ToSet, u
<1>5. ASSUME NEW x \in ToSet(t) PROVE x \in ToSet(u)
  <2>1. PICK i \in 1 .. Len(t) : x = t[i]
    BY <1>5, <1>2 DEF ToSet
  <2>2. i + Len(s) \in 1 .. Len(s) + Len(t) /\ ~ (i + Len(s) <= Len(s))
        /\ (i + Len(s)) - Len(s) = i
    BY <2>1, <1>2
  <2>3. u[i + Len(s)] = x
    BY <2>1, <2>2, <1>1 DEF u
  <2> QED
    BY <2>2, <2>3, <1>2 DEF ToSet, u
<1> QED
  BY <1>3, <1>4, <1>5 DEF u

(* What is left of a sequence without its first n members.                 *)
LEMMA SubSeqTail ==
  ASSUME NEW T, NEW s \in Seq(T), NEW n \in 0 .. Len(s)
  PROVE  LET b == SubSeq(s, n + 1, Len(s))
         IN  /\ b \in Seq(T) /\ Len(b) = Len(s) - n
             /\ DOMAIN b = 1 .. Len(s) - n
             /\ \A i \in 1 .. Len(s) - n : b[i] = s[n + i]
<1>1. Len(s) \in Nat /\ \A i \in 1 .. Len(s) : s[i] \in T
  BY LenProperties, ElementOfSeq
<1>2. /\ SubSeq(s, n + 1, Len(s)) \in Seq(T)
      /\ Len(SubSeq(s, n + 1, Len(s))) = Len(s) - n
      /\ \A i \in 1 .. Len(s) - n : SubSeq(s, n + 1, Len(s))[i] = s[n + i]
  <2>1. n + 1 \in Int /\ Len(s) \in Int /\ \A i \in n + 1 .. Len(s) : s[i] \in T
    BY <1>1
  <2>2. /\ SubSeq(s, n + 1, Len(s)) \in Seq(T)
        /\ Len(SubSeq(s, n + 1, Len(s))) =
             IF n + 1 <= Len(s) THEN Len(s) - (n + 1) + 1 ELSE 0
        /\ \A i \in 1 .. Len(s) - (n + 1) + 1 :
             SubSeq(s, n + 1, Len(s))[i] = s[n + 1 + i - 1]
    BY <2>1, SubSeqProperties
  <2>3. \A i \in 1 .. Len(s) - n : n + 1 + i - 1 = n + i
    OBVIOUS
  <2>4. Len(s) - (n + 1) + 1 = Len(s) - n
    BY <1>1
  <2>5. ASSUME NEW i \in 1 .. Len(s) - n
        PROVE  SubSeq(s, n + 1, Len(s))[i] = s[n + i]
    <3>1. i \in 1 .. Len(s) - (n + 1) + 1
      BY <2>4
    <3>2. SubSeq(s, n + 1, Len(s))[i] = s[n + 1 + i - 1]
      BY <2>2, <3>1
    <3> QED
      BY <2>3, <3>2
  <2>6. ~ (n + 1 <= Len(s)) => Len(s) - n = 0
    <3> DEFINE m == Len(s)
    <3>1. m \in Nat /\ n \in Int /\ 0 <= n /\ n <= m
      BY <1>1
    <3> HIDE DEF m
    <3>2. ~ (n + 1 <= m) => m - n = 0
      BY <3>1
    <3> QED
      BY <3>2 DEF m
  <2>7. Len(SubSeq(s, n + 1, Len(s))) = Len(s) - n
    BY <2>2, <2>4, <2>6
  <2>8. SubSeq(s, n + 1, Len(s)) \in Seq(T)
    BY <2>2
  <2>9. \A i \in 1 .. Len(s) - n : SubSeq(s, n + 1, Len(s))[i] = s[n + i]
    BY <2>5
  <2> QED
    BY <2>7, <2>8, <2>9, Zenon
<1>3. DOMAIN SubSeq(s, n + 1, Len(s)) = 1 .. Len(s) - n
  BY <1>2, LenProperties
<1> QED
  BY <1>2, <1>3

(* A sequence is made of its first n members and the others.               *)
LEMMA ToSetSplit ==
  ASSUME NEW T, NEW s \in Seq(T), NEW n \in 0 .. Len(s)
  PROVE  /\ SubSeq(s, 1, n) \in Seq(T) /\ SubSeq(s, n + 1, Len(s)) \in Seq(T)
         /\ ToSet(SubSeq(s, 1, n)) = { s[i] : i \in 1 .. n }
         /\ ToSet(SubSeq(s, n + 1, Len(s))) = { s[i] : i \in n + 1 .. Len(s) }
<1>1. /\ Len(s) \in Nat /\ DOMAIN s = 1 .. Len(s)
      /\ \A i \in 1 .. Len(s) : s[i] \in T
  BY LenProperties, ElementOfSeq
<1>2. /\ SubSeq(s, 1, n) \in Seq(T) /\ Len(SubSeq(s, 1, n)) = n
      /\ \A i \in 1 .. n : SubSeq(s, 1, n)[i] = s[i]
  <2>1. 1 \in Int /\ n \in Int /\ \A i \in 1 .. n : s[i] \in T
    BY <1>1
  <2>2. /\ SubSeq(s, 1, n) \in Seq(T)
        /\ Len(SubSeq(s, 1, n)) = IF 1 <= n THEN n - 1 + 1 ELSE 0
        /\ \A i \in 1 .. n - 1 + 1 : SubSeq(s, 1, n)[i] = s[1 + i - 1]
    BY <2>1, SubSeqProperties
  <2>3. n - 1 + 1 = n /\ \A i \in 1 .. n : 1 + i - 1 = i
    OBVIOUS
  <2>4. ~ (1 <= n) => n = 0
    OBVIOUS
  <2>5. \A i \in 1 .. n : SubSeq(s, 1, n)[i] = s[i]
    BY <2>2, <2>3
  <2> QED
    BY <2>2, <2>3, <2>4, <2>5
<1>3. /\ SubSeq(s, n + 1, Len(s)) \in Seq(T)
      /\ Len(SubSeq(s, n + 1, Len(s))) = Len(s) - n
      /\ \A i \in 1 .. Len(s) - n : SubSeq(s, n + 1, Len(s))[i] = s[n + i]
  BY SubSeqTail
<1> DEFINE a == SubSeq(s, 1, n)
           b == SubSeq(s, n + 1, Len(s))
<1>4. DOMAIN a = 1 .. n /\ DOMAIN b = 1 .. Len(s) - n
  BY <1>2, <1>3, LenProperties
<1> HIDE DEF a, b
<1>5. ToSet(a) = { s[i] : i \in 1 .. n }
  BY <1>2, <1>4 DEF ToSet, a
<1>6. ToSet(b) = { s[i] : i \in n + 1 .. Len(s) }
  <2>1. \A i \in n + 1 .. Len(s) : /\ i - n \in 1 .. Len(s) - n
                                   /\ n + (i - n) = i
    BY <1>1
  <2>2. \A i \in 1 .. Len(s) - n : n + i \in n + 1 .. Len(s)
    BY <1>1
  <2>3. \A i \in 1 .. Len(s) - n : b[i] = s[n + i]
    BY <1>3 DEF b
  <2>4. ToSet(b) = { b[i] : i \in 1 .. Len(s) - n }
    BY <1>4 DEF ToSet
  <2>5. ToSet(b) = { s[n + i] : i \in 1 .. Len(s) - n }
    BY <2>3, <2>4
  <2>6. ASSUME NEW i \in 1 .. Len(s) - n
        PROVE  s[n + i] \in { s[j] : j \in n + 1 .. Len(s) }
    BY <2>2
  <2>7. ASSUME NEW j \in n + 1 .. Len(s)
        PROVE  s[j] \in { s[n + i] : i \in 1 .. Len(s) - n }
    BY <2>1
  <2> QED
    BY <2>5, <2>6, <2>7
<1> QED
  BY <1>2, <1>3, <1>5, <1>6 DEF a, b

(* As many members as places, if no two places share a member.             *)
LEMMA CountPlaces ==
  ASSUME NEW N \in Nat, NEW S, NEW f \in [ 1 .. N -> S ],
         \A i, j \in 1 .. N : f[i] = f[j] => i = j,
         \A x \in S : \E i \in 1 .. N : f[i] = x
  PROVE  Cardinality(S) = N
<1>1. f \in Bijection(1 .. N, S)
  BY DEF Bijection, Injection, Surjection, IsInjective
<1>2. IsFiniteSet(1 .. N) /\ Cardinality(1 .. N) = N
  <2>1. 1 \in Int /\ N \in Int
    OBVIOUS
  <2>2. /\ IsFiniteSet(1 .. N)
        /\ Cardinality(1 .. N) = IF 1 > N THEN 0 ELSE N - 1 + 1
    BY <2>1, FS_Interval
  <2>3. (IF 1 > N THEN 0 ELSE N - 1 + 1) = N
    OBVIOUS
  <2> QED
    BY <2>2, <2>3
<1> QED
  BY <1>1, <1>2, FS_Bijection DEF ExistsBijection

(* Sequences that account for different groups can be put in a row.        *)
LEMMA ApartConcat ==
  ASSUME NEW T, NEW s \in Seq(T), NEW t \in Seq(T), NEW E,
         Apart(s, E), Apart(t, E), Cover(s, E) \cap Cover(t, E) = {}
  PROVE  Apart(s \o t, E)
<1>1. /\ Len(s \o t) = Len(s) + Len(t) /\ s \o t \in Seq(T)
      /\ \A i \in 1 .. Len(s) + Len(t) :
           (s \o t)[i] = IF i <= Len(s) THEN s[i] ELSE t[i - Len(s)]
  BY ConcatProperties
<1>2. /\ DOMAIN s = 1 .. Len(s) /\ DOMAIN t = 1 .. Len(t)
      /\ DOMAIN (s \o t) = 1 .. Len(s) + Len(t)
      /\ Len(s) \in Nat /\ Len(t) \in Nat
  BY <1>1, LenProperties
<1> DEFINE u == s \o t
           m == Len(s)
<1>3. \A i \in 1 .. m : E[s[i]] \subseteq Cover(s, E)
  BY <1>2 DEF Cover, ToSet
<1>4. \A i \in 1 .. Len(t) : E[t[i]] \subseteq Cover(t, E)
  BY <1>2 DEF Cover, ToSet
<1>5. \A i \in 1 .. m + Len(t) :
        \/ i \in 1 .. m /\ u[i] = s[i]
        \/ i - m \in 1 .. Len(t) /\ u[i] = t[i - m]
  BY <1>1, <1>2
<1> HIDE DEF u, m
<1>6. ASSUME NEW i \in 1 .. m + Len(t), NEW j \in 1 .. m + Len(t), i # j
      PROVE  E[u[i]] \cap E[u[j]] = {}
  <2>1. CASE i \in 1 .. m /\ u[i] = s[i] /\ j \in 1 .. m /\ u[j] = s[j]
    BY <2>1, <1>2, <1>6 DEF Apart, m
  <2>2. CASE /\ i - m \in 1 .. Len(t) /\ u[i] = t[i - m]
             /\ j - m \in 1 .. Len(t) /\ u[j] = t[j - m]
    <3>1. m \in Nat /\ i - m # j - m
      BY <1>2, <1>6 DEF m
    <3> QED
      BY <2>2, <3>1, <1>2 DEF Apart
  <2>3. CASE /\ i \in 1 .. m /\ u[i] = s[i]
             /\ j - m \in 1 .. Len(t) /\ u[j] = t[j - m]
    BY <2>3, <1>3, <1>4
  <2>4. CASE /\ i - m \in 1 .. Len(t) /\ u[i] = t[i - m]
             /\ j \in 1 .. m /\ u[j] = s[j]
    BY <2>4, <1>3, <1>4
  <2> QED
    BY <1>5, <2>1, <2>2, <2>3, <2>4
<1> QED
  BY <1>2, <1>6 DEF Apart, u, m

(* A sequence cut in two accounts for its groups in two parts.             *)
LEMMA ApartSplit ==
  ASSUME NEW T, NEW s \in Seq(T), NEW n \in 0 .. Len(s), NEW E, Apart(s, E)
  PROVE  LET a == SubSeq(s, 1, n)
             b == SubSeq(s, n + 1, Len(s))
         IN  /\ Cover(a, E) \cap Cover(b, E) = {}
             /\ Cover(a, E) \cup Cover(b, E) = Cover(s, E)
             /\ Apart(b, E)
<1> DEFINE a == SubSeq(s, 1, n)
           b == SubSeq(s, n + 1, Len(s))
           m == Len(s)
<1>1. m \in Nat /\ DOMAIN s = 1 .. m /\ n \in Int /\ 0 <= n /\ n <= m
  BY LenProperties
<1>2. /\ ToSet(a) = { s[i] : i \in 1 .. n }
      /\ ToSet(b) = { s[i] : i \in n + 1 .. m }
      /\ b \in Seq(T)
  BY ToSetSplit
<1>3. DOMAIN b = 1 .. m - n /\ \A i \in 1 .. m - n : b[i] = s[n + i]
  BY SubSeqTail
<1> HIDE DEF a, b, m
<1>4. ASSUME NEW i \in 1 .. n, NEW j \in n + 1 .. m
      PROVE  E[s[i]] \cap E[s[j]] = {}
  <2>1. i \in 1 .. m /\ j \in 1 .. m /\ i # j
    BY <1>1
  <2> QED
    BY <2>1, <1>1 DEF Apart
<1>5. Cover(a, E) \cap Cover(b, E) = {}
  <2> SUFFICES ASSUME NEW x \in ToSet(a), NEW y \in ToSet(b)
               PROVE  E[x] \cap E[y] = {}
    BY DEF Cover
  <2>1. PICK i \in 1 .. n : x = s[i]
    BY <1>2
  <2>2. PICK j \in n + 1 .. m : y = s[j]
    BY <1>2
  <2> QED
    BY <1>4, <2>1, <2>2
<1>6. \A i : i \in 1 .. m <=> i \in 1 .. n \/ i \in n + 1 .. m
  BY <1>1
<1>7. Cover(a, E) \cup Cover(b, E) = Cover(s, E)
  <2>1. ToSet(s) = { s[i] : i \in 1 .. m }
    BY <1>1 DEF ToSet
  <2>2. ToSet(s) = ToSet(a) \cup ToSet(b)
    BY <1>2, <1>6, <2>1
  <2> QED
    BY <2>2 DEF Cover
<1>8. ASSUME NEW i \in 1 .. m - n, NEW j \in 1 .. m - n, i # j
      PROVE  E[b[i]] \cap E[b[j]] = {}
  <2>1. n + i \in 1 .. m /\ n + j \in 1 .. m /\ n + i # n + j
    BY <1>1, <1>8
  <2> QED
    BY <2>1, <1>1, <1>3 DEF Apart
<1>9. Apart(b, E)
  BY <1>3, <1>8 DEF Apart
<1> QED
  BY <1>5, <1>7, <1>9 DEF a, b

-----------------------------------------------------------------------------
(* What _drop_stale_buffer keeps.                                          *)

(* A sequence of one group.                                                *)
LEMMA OneInARow ==
  ASSUME NEW T, NEW x \in T
  PROVE  /\ << x >> \in Seq(T) /\ ToSet(<< x >>) = {x}
         /\ \A E : Apart(<< x >>, E) /\ Cover(<< x >>, E) = E[x]
<1>1. DOMAIN << x >> = {1} /\ << x >>[1] = x /\ << x >> \in Seq(T)
  OBVIOUS
<1>2. ToSet(<< x >>) = {x}
  BY <1>1 DEF ToSet
<1> QED
  BY <1>1, <1>2 DEF Apart, Cover

(* Appending is putting a sequence of one behind.                          *)
LEMMA AppendOne ==
  ASSUME NEW T, NEW s \in Seq(T), NEW x \in T
  PROVE  Append(s, x) = s \o << x >>
BY AppendIsConcat

Keep(prefix, i) ==
  IF Stale(buffer[i]) THEN prefix ELSE Append(prefix, buffer[i])

(* The recursion of FreshBuffer has a solution.                            *)
LEMMA KeepSolved ==
  ASSUME buffer \in Seq(Carried)
  PROVE  \E f : f = [ i \in 0 .. Len(buffer) |->
                        IF i = 0 THEN << >> ELSE Keep(f[i - 1], i) ]
<1> DEFINE N == Len(buffer)
           Solves(f, n) ==
             f = [ i \in 0 .. n |-> IF i = 0 THEN << >> ELSE Keep(f[i - 1], i) ]
           S == { n \in 0 .. N : \E f : Solves(f, n) }
<1>1. N \in Nat
  BY LenProperties
<1> HIDE DEF N
<1>2. 0 \in S
  <2> DEFINE f == [ i \in 0 .. 0 |-> << >> ]
  <2>1. \A i \in 0 .. 0 : i = 0
    OBVIOUS
  <2>2. Solves(f, 0)
    BY <2>1
  <2> HIDE DEF Solves, f
  <2> QED
    BY <1>1, <2>2
<1>3. ASSUME NEW n \in 0 .. N - 1, n \in S PROVE n + 1 \in S
  <2>1. PICK f : Solves(f, n)
    BY <1>3
  <2> DEFINE g == [ i \in 0 .. n + 1 |->
                      IF i = 0 THEN << >> ELSE Keep(f[i - 1], i) ]
  <2>2. \A i \in 0 .. n + 1 : i # 0 => i - 1 \in 0 .. n /\ i - 1 \in 0 .. n + 1
    OBVIOUS
  <2>3. \A j \in 0 .. n : j \in 0 .. n + 1 /\ g[j] = f[j]
    <3>1. \A j \in 0 .. n : j \in 0 .. n + 1
      OBVIOUS
    <3>2. \A j \in 0 .. n :
            f[j] = IF j = 0 THEN << >> ELSE Keep(f[j - 1], j)
      <4> DEFINE h == [ i \in 0 .. n |->
                          IF i = 0 THEN << >> ELSE Keep(f[i - 1], i) ]
      <4>1. f = h
        BY <2>1
      <4>2. \A j \in 0 .. n :
              h[j] = IF j = 0 THEN << >> ELSE Keep(f[j - 1], j)
        OBVIOUS
      <4> HIDE DEF h
      <4> QED
        BY <4>1, <4>2
    <3> QED
      BY <3>1, <3>2
  <2>4. \A i \in 0 .. n + 1 : i # 0 => g[i - 1] = f[i - 1]
    BY <2>2, <2>3
  <2>5. g = [ i \in 0 .. n + 1 |-> IF i = 0 THEN << >> ELSE Keep(g[i - 1], i) ]
    <3>1. \A i \in 0 .. n + 1 :
            (IF i = 0 THEN << >> ELSE Keep(f[i - 1], i))
              = (IF i = 0 THEN << >> ELSE Keep(g[i - 1], i))
      BY <2>4
    <3> QED
      BY <3>1
  <2>6. n + 1 \in 0 .. N
    BY <1>1
  <2> QED
    BY <2>5, <2>6
<1>4. 0 .. N \subseteq S
  <2> HIDE DEF S
  <2> QED
    BY <1>1, <1>2, <1>3, UpTo
<1>5. N \in S
  BY <1>1, <1>4
<1> QED
  BY <1>5 DEF N

(* What FreshBuffer makes of the first n groups of the buffer.             *)
KeptOf(s, n) ==
  /\ s \in Seq(Carried)
  /\ ToSet(s) = { buffer[j] : j \in { i \in 1 .. n : ~ Stale(buffer[i]) } }
  /\ Apart(buffer, OfCarried) => Apart(s, OfCarried)

(* One group more.                                                         *)
LEMMA KeepOne ==
  ASSUME buffer \in Seq(Carried), NEW n \in 0 .. Len(buffer) - 1,
         NEW s, KeptOf(s, n)
  PROVE  KeptOf(Keep(s, n + 1), n + 1)
<1> DEFINE m == n + 1
           b == buffer[m]
<1>1. /\ m \in 1 .. Len(buffer) /\ DOMAIN buffer = 1 .. Len(buffer)
      /\ \A i \in 1 .. n : i \in 1 .. Len(buffer) /\ i # m
      /\ \A i : i \in 1 .. m <=> i \in 1 .. n \/ i = m
  BY LenProperties
<1>2. b \in Carried
  BY <1>1, ElementOfSeq
<1> HIDE DEF m
<1>3. CASE Stale(b)
  <2>1. Keep(s, m) = s
    BY <1>3 DEF Keep
  <2>2. { i \in 1 .. m : ~ Stale(buffer[i]) }
          = { i \in 1 .. n : ~ Stale(buffer[i]) }
    BY <1>1, <1>3
  <2> QED
    BY <2>1, <2>2 DEF KeptOf, m
<1>4. CASE ~ Stale(b)
  <2> DEFINE t == << b >>
  <2>1. s \in Seq(Carried)
    BY DEF KeptOf
  <2>2. Keep(s, m) = s \o t
    BY <1>2, <1>4, <2>1, AppendOne DEF Keep
  <2>3. /\ t \in Seq(Carried) /\ ToSet(t) = {b}
        /\ Apart(t, OfCarried) /\ Cover(t, OfCarried) = OfCarried[b]
    BY <1>2, OneInARow
  <2> HIDE DEF t
  <2>4. s \o t \in Seq(Carried) /\ ToSet(s \o t) = ToSet(s) \cup {b}
    BY <2>1, <2>3, ToSetConcat, ConcatProperties
  <2>5. { i \in 1 .. m : ~ Stale(buffer[i]) }
          = { i \in 1 .. n : ~ Stale(buffer[i]) } \cup {m}
    BY <1>1, <1>4
  <2>6. ToSet(s \o t)
          = { buffer[j] : j \in { i \in 1 .. m : ~ Stale(buffer[i]) } }
    BY <2>4, <2>5 DEF KeptOf
  <2>7. ASSUME Apart(buffer, OfCarried) PROVE Apart(s \o t, OfCarried)
    <3>1. Cover(s, OfCarried) \cap OfCarried[b] = {}
      <4> SUFFICES ASSUME NEW x \in ToSet(s)
                   PROVE  OfCarried[x] \cap OfCarried[b] = {}
        BY DEF Cover
      <4>1. PICK j \in 1 .. n : x = buffer[j]
        BY DEF KeptOf
      <4> QED
        BY <1>1, <2>7, <4>1 DEF Apart
    <3> QED
      BY <2>1, <2>3, <2>7, <3>1, ApartConcat DEF KeptOf
  <2> QED
    BY <2>2, <2>4, <2>6, <2>7 DEF KeptOf, m
<1> QED
  BY <1>3, <1>4

(* The groups that are not stale, in a buffer that repeats none.           *)
LEMMA FreshBufferIs ==
  ASSUME buffer \in Seq(Carried)
  PROVE  /\ FreshBuffer \in Seq(Carried)
         /\ ToSet(FreshBuffer) = { b \in ToSet(buffer) : ~ Stale(b) }
         /\ Apart(buffer, OfCarried) => Apart(FreshBuffer, OfCarried)
<1> DEFINE kept[n \in 0 .. Len(buffer)] ==
             IF n = 0 THEN << >>
             ELSE IF Stale(buffer[n]) THEN kept[n - 1]
             ELSE Append(kept[n - 1], buffer[n])
           N == Len(buffer)
<1>1. N \in Nat /\ DOMAIN buffer = 1 .. N
  BY LenProperties
<1>2. FreshBuffer = kept[N]
  BY DEF FreshBuffer
<1>3. kept = [ i \in 0 .. N |->
                 IF i = 0 THEN << >> ELSE Keep(kept[i - 1], i) ]
  <2>1. kept = CHOOSE g : g = [ i \in 0 .. N |->
                 IF i = 0 THEN << >> ELSE Keep(g[i - 1], i) ]
    BY DEF kept, Keep
  <2> HIDE DEF kept
  <2>2. \E g : g = [ i \in 0 .. N |->
                       IF i = 0 THEN << >> ELSE Keep(g[i - 1], i) ]
    BY KeepSolved
  <2> QED
    BY <2>1, <2>2
<1> HIDE DEF kept, N
<1>4. /\ kept[0] = << >>
      /\ \A n \in 1 .. N : kept[n] = Keep(kept[n - 1], n)
  <2>1. \A i \in 0 .. N :
          kept[i] = IF i = 0 THEN << >> ELSE Keep(kept[i - 1], i)
    <3> DEFINE h == [ i \in 0 .. N |->
                        IF i = 0 THEN << >> ELSE Keep(kept[i - 1], i) ]
    <3>1. \A i \in 0 .. N :
            h[i] = IF i = 0 THEN << >> ELSE Keep(kept[i - 1], i)
      OBVIOUS
    <3>2. kept = h
      BY <1>3
    <3> HIDE DEF h
    <3> QED
      BY <3>1, <3>2
  <2>2. 0 \in 0 .. N /\ \A n \in 1 .. N : n \in 0 .. N /\ n # 0
    BY <1>1
  <2> QED
    BY <2>1, <2>2
<1> DEFINE S == { n \in 0 .. N : KeptOf(kept[n], n) }
<1>5. 0 \in S
  <2>1. 0 \in 0 .. N /\ { i \in 1 .. 0 : ~ Stale(buffer[i]) } = {}
    BY <1>1
  <2>2. DOMAIN << >> = {}
    OBVIOUS
  <2>3. << >> \in Seq(Carried)
    BY EmptySeq
  <2>4. KeptOf(<< >>, 0)
    BY <2>1, <2>2, <2>3 DEF KeptOf, Apart, ToSet
  <2> QED
    BY <1>4, <2>1, <2>4
<1>6. ASSUME NEW n \in 0 .. N - 1, n \in S PROVE n + 1 \in S
  <2>1. n + 1 \in 1 .. N /\ n + 1 \in 0 .. N /\ (n + 1) - 1 = n
    BY <1>1
  <2>2. kept[n + 1] = Keep(kept[n], n + 1)
    BY <1>4, <2>1
  <2>3. KeptOf(kept[n], n)
    BY <1>6
  <2>4. KeptOf(Keep(kept[n], n + 1), n + 1)
    BY <2>3, KeepOne DEF N
  <2> QED
    BY <2>1, <2>2, <2>4
<1>7. 0 .. N \subseteq S
  <2> HIDE DEF S
  <2> QED
    BY <1>1, <1>5, <1>6, UpTo
<1>8. KeptOf(FreshBuffer, N)
  BY <1>1, <1>2, <1>7
<1>9. { buffer[j] : j \in { i \in 1 .. N : ~ Stale(buffer[i]) } }
        = { b \in ToSet(buffer) : ~ Stale(b) }
  BY <1>1 DEF ToSet
<1> QED
  BY <1>8, <1>9 DEF KeptOf

-----------------------------------------------------------------------------
(* The groups tasks, queues and buffers have to account for.               *)

(* Two sets of tasks account together for the groups of each.              *)
LEMMA ExpectedUnion ==
  ASSUME NEW S, NEW T
  PROVE  ExpectedOf(S \cup T) = ExpectedOf(S) \cup ExpectedOf(T)
BY DEF ExpectedOf

(* One task, and none.                                                     *)
LEMMA ExpectedOne ==
  ASSUME NEW t
  PROVE  /\ ExpectedOf({t}) = Expected(t) /\ NoOverlap({t})
         /\ ExpectedOf({}) = {} /\ NoOverlap({})
BY DEF ExpectedOf, NoOverlap

(* Taking a task away takes its groups away and no other.                  *)
LEMMA ExpectedRemove ==
  ASSUME NEW S, NEW t \in S, NoOverlap(S)
  PROVE  /\ ExpectedOf(S \ {t}) = ExpectedOf(S) \ Expected(t)
         /\ Expected(t) \subseteq ExpectedOf(S)
         /\ NoOverlap(S \ {t})
<1>1. \A u \in S \ {t} : Expected(u) \cap Expected(t) = {}
  BY DEF NoOverlap
<1>2. NoOverlap(S \ {t})
  BY DEF NoOverlap
<1>3. ExpectedOf(S) = ExpectedOf(S \ {t}) \cup Expected(t)
  BY DEF ExpectedOf
<1>4. ExpectedOf(S \ {t}) \cap Expected(t) = {}
  BY <1>1 DEF ExpectedOf
<1> QED
  BY <1>2, <1>3, <1>4

(* Sets of tasks without a common group can be merged.                     *)
LEMMA ExpectedMerge ==
  ASSUME NEW S, NEW T, NoOverlap(S), NoOverlap(T),
         ExpectedOf(S) \cap ExpectedOf(T) = {}
  PROVE  NoOverlap(S \cup T)
<1>1. \A t \in S : Expected(t) \subseteq ExpectedOf(S)
  BY DEF ExpectedOf
<1>2. \A t \in T : Expected(t) \subseteq ExpectedOf(T)
  BY DEF ExpectedOf
<1> QED
  BY <1>1, <1>2 DEF NoOverlap

(* What is done to every task of a set and leaves its groups alone leaves  *)
(* the groups of the set alone.                                            *)
LEMMA ExpectedImage ==
  ASSUME NEW S, NEW f, \A t \in S : Expected(f[t]) = Expected(t)
  PROVE  /\ ExpectedOf({ f[t] : t \in S }) = ExpectedOf(S)
         /\ NoOverlap(S) => NoOverlap({ f[t] : t \in S })
<1>1. ExpectedOf({ f[t] : t \in S }) = ExpectedOf(S)
  BY DEF ExpectedOf
<1>2. ASSUME NoOverlap(S) PROVE NoOverlap({ f[t] : t \in S })
  BY <1>2 DEF NoOverlap
<1> QED
  BY <1>1, <1>2

(* A task that asks for something accounts for something.                  *)
LEMMA ExpectedSome ==
  ASSUME NEW t, t.kinds # {}
  PROVE  Expected(t) # {}
<1>1. PICK k \in t.kinds : TRUE
  OBVIOUS
<1>2. << t.src, k >> \in Expected(t)
  BY DEF Expected
<1> QED
  BY <1>2

(* A queue without a repeated group is a set of tasks without one, and has *)
(* as many tasks.                                                          *)
LEMMA QueueExpected ==
  ASSUME NEW q \in Seq(Descriptors)
  PROVE  /\ Cover(q, OfDescriptor) = ExpectedOf(ToSet(q))
         /\ Apart(q, OfDescriptor) => /\ NoOverlap(ToSet(q))
                                      /\ Cardinality(ToSet(q)) = Len(q)
<1>1. /\ Len(q) \in Nat /\ DOMAIN q = 1 .. Len(q)
      /\ \A i \in 1 .. Len(q) : q[i] \in Descriptors
  BY LenProperties, ElementOfSeq
<1>2. \A d \in Descriptors : OfDescriptor[d] = Expected(d)
  BY DEF OfDescriptor
<1>3. \A d \in ToSet(q) : \E i \in 1 .. Len(q) : q[i] = d
  BY <1>1 DEF ToSet
<1>4. ToSet(q) \subseteq Descriptors
  BY <1>1, <1>3
<1>5. Cover(q, OfDescriptor) = ExpectedOf(ToSet(q))
  BY <1>2, <1>4 DEF Cover, ExpectedOf
<1>6. ASSUME Apart(q, OfDescriptor)
      PROVE  NoOverlap(ToSet(q)) /\ Cardinality(ToSet(q)) = Len(q)
  <2>1. \A i, j \in 1 .. Len(q) :
          i # j => Expected(q[i]) \cap Expected(q[j]) = {}
    BY <1>1, <1>2, <1>6 DEF Apart
  <2>2. NoOverlap(ToSet(q))
    BY <1>3, <2>1 DEF NoOverlap
  <2>3. ASSUME NEW i \in 1 .. Len(q), NEW j \in 1 .. Len(q), q[i] = q[j]
        PROVE  i = j
    <3>1. q[i].kinds # {}
      BY <1>1 DEF Descriptors
    <3>2. Expected(q[i]) # {}
      BY <3>1, ExpectedSome
    <3> QED
      BY <2>1, <2>3, <3>2
  <2>4. q \in [ 1 .. Len(q) -> ToSet(q) ]
    <3>1. \A i \in 1 .. Len(q) : q[i] \in ToSet(q)
      BY <1>1 DEF ToSet
    <3>2. q \in [ 1 .. Len(q) -> Descriptors ]
      BY LenProperties
    <3> QED
      BY <3>1, <3>2
  <2>5. Cardinality(ToSet(q)) = Len(q)
    BY <1>1, <1>3, <2>3, <2>4, CountPlaces
  <2> QED
    BY <2>2, <2>5
<1> QED
  BY <1>5, <1>6

(* A buffer without a repeated group holds as many groups as it has places. *)
LEMMA BufferGroups ==
  ASSUME NEW buf \in Seq(Carried)
  PROVE  /\ Cover(buf, OfCarried) = GroupsOf(buf)
         /\ Apart(buf, OfCarried) => Cardinality(GroupsOf(buf)) = Len(buf)
<1>1. /\ Len(buf) \in Nat /\ DOMAIN buf = 1 .. Len(buf)
      /\ \A i \in 1 .. Len(buf) : buf[i] \in Carried
  BY LenProperties, ElementOfSeq
<1>2. \A b \in Carried : OfCarried[b] = { GroupOf(b) }
  BY DEF OfCarried
<1>3. \A b \in ToSet(buf) : \E i \in 1 .. Len(buf) : buf[i] = b
  BY <1>1 DEF ToSet
<1>4. ToSet(buf) \subseteq Carried
  BY <1>1, <1>3
<1>5. Cover(buf, OfCarried) = GroupsOf(buf)
  <2>1. GroupsOf(buf) = { GroupOf(b) : b \in ToSet(buf) }
    BY DEF GroupsOf, GroupOf
  <2>2. Cover(buf, OfCarried) = { GroupOf(b) : b \in ToSet(buf) }
    BY <1>2, <1>4 DEF Cover
  <2> QED
    BY <2>1, <2>2
<1>6. ASSUME Apart(buf, OfCarried) PROVE Cardinality(GroupsOf(buf)) = Len(buf)
  <2> DEFINE f == [ i \in 1 .. Len(buf) |-> GroupOf(buf[i]) ]
  <2>1. \A i, j \in 1 .. Len(buf) : f[i] = f[j] => i = j
    BY <1>1, <1>2, <1>6 DEF Apart
  <2>2. \A i \in 1 .. Len(buf) : buf[i] \in ToSet(buf)
    BY <1>1 DEF ToSet
  <2>3. f \in [ 1 .. Len(buf) -> GroupsOf(buf) ]
    BY <2>2 DEF GroupsOf, GroupOf
  <2>4. \A x \in GroupsOf(buf) : \E i \in 1 .. Len(buf) : f[i] = x
    BY <1>3 DEF GroupsOf, GroupOf
  <2> HIDE DEF f
  <2> QED
    BY <1>1, <2>1, <2>3, <2>4, CountPlaces
<1> QED
  BY <1>5, <1>6

(* Every kind once.                                                        *)
LEMMA InOrderIs ==
  ASSUME NEW S \in SUBSET AllKinds
  PROVE  /\ InOrder(S) \in Seq(S) /\ ToSet(InOrder(S)) = S
         /\ \A i, j \in DOMAIN InOrder(S) :
              InOrder(S)[i] = InOrder(S)[j] => i = j
<1>1. CASE S = {}
  <2>1. InOrder(S) = << >> /\ DOMAIN << >> = {}
    BY <1>1 DEF InOrder
  <2>2. << >> \in Seq(S)
    BY EmptySeq
  <2> QED
    BY <1>1, <2>1, <2>2 DEF ToSet
<1>2. CASE S = {"root", "beam"}
  <2>1. InOrder(S) = << "root", "beam" >>
    BY <1>2 DEF InOrder
  <2> DEFINE s == << "root", "beam" >>
  <2>2. DOMAIN s = {1, 2} /\ s[1] = "root" /\ s[2] = "beam" /\ s \in Seq(S)
    BY <1>2
  <2>3. InOrder(S) = s
    BY <2>1
  <2> HIDE DEF s
  <2>4. ToSet(s) = S
    BY <1>2, <2>2 DEF ToSet
  <2> QED
    BY <2>2, <2>3, <2>4
<1>3. CASE S # {} /\ S # {"root", "beam"}
  <2>1. PICK k \in S : S = {k}
    BY <1>3 DEF AllKinds
  <2>2. InOrder(S) = << k >>
    BY <1>3, <2>1 DEF InOrder
  <2> DEFINE s == << k >>
  <2>3. DOMAIN s = {1} /\ s[1] = k /\ s \in Seq(S)
    BY <2>1
  <2>4. InOrder(S) = s
    BY <2>2
  <2> HIDE DEF s
  <2>5. ToSet(s) = S
    BY <2>1, <2>3 DEF ToSet
  <2> QED
    BY <2>3, <2>4, <2>5
<1> QED
  BY <1>1, <1>2, <1>3

-----------------------------------------------------------------------------
(* What a harvested task leaves behind.                                    *)

Rows(t, S) == [ i \in DOMAIN InOrder(S) |-> Buffered(t, InOrder(S)[i]) ]
Again(t, S) == [ i \in DOMAIN InOrder(S) |-> ResampleOf(t, InOrder(S)[i]) ]

(* A sequence made from another one.                                       *)
LEMMA SeqImage ==
  ASSUME NEW T, NEW U, NEW q \in Seq(T), NEW f \in [ DOMAIN q -> U ]
  PROVE  f \in Seq(U) /\ DOMAIN f = DOMAIN q
<1>1. Len(q) \in Nat /\ DOMAIN q = 1 .. Len(q)
  BY LenProperties
<1>2. f \in [ 1 .. Len(q) -> U ]
  BY <1>1
<1>3. f \in Seq(U)
  BY <1>1, <1>2, SeqDef
<1> QED
  BY <1>3

(* Its valid groups, once each and with its labels.                        *)
LEMMA RowsAre ==
  ASSUME NEW t \in Tasks, NEW S \in SUBSET t.kinds
  PROVE  /\ Rows(t, S) \in Seq(Carried) /\ Apart(Rows(t, S), OfCarried)
         /\ GroupsOf(Rows(t, S)) = { t.src } \X S
         /\ \A b \in ToSet(Rows(t, S)) :
              b.rid = t.rid /\ b.ver = t.ver /\ b.mixed = t.mixed
<1> DEFINE q == InOrder(S)
           s == Rows(t, S)
<1>1. t.src \in Nat /\ t.kinds \subseteq AllKinds /\ t.rid \in Int
      /\ t.ver \in Int /\ t.mixed \in BOOLEAN /\ S \subseteq AllKinds
  BY DEF Tasks
<1>2. /\ q \in Seq(S) /\ ToSet(q) = S
      /\ \A i, j \in DOMAIN q : q[i] = q[j] => i = j
  BY <1>1, InOrderIs
<1>3. s = [ i \in DOMAIN q |-> Buffered(t, q[i]) ]
  BY DEF Rows
<1> HIDE DEF q, s
<1>4. \A i \in DOMAIN q : q[i] \in S
  BY <1>2 DEF ToSet
<1>5. \A k \in S : /\ Buffered(t, k) \in Carried
                   /\ GroupOf(Buffered(t, k)) = << t.src, k >>
                   /\ Buffered(t, k).rid = t.rid
                   /\ Buffered(t, k).ver = t.ver
                   /\ Buffered(t, k).mixed = t.mixed
  BY <1>1 DEF Carried, Buffered, GroupOf
<1>6. s \in [ DOMAIN q -> Carried ]
  BY <1>3, <1>4, <1>5
<1>7. s \in Seq(Carried) /\ DOMAIN s = DOMAIN q
  BY <1>2, <1>6, SeqImage
<1>8. ToSet(s) = { Buffered(t, k) : k \in S }
  <2>1. ToSet(s) = { Buffered(t, q[i]) : i \in DOMAIN q }
    BY <1>3, <1>7 DEF ToSet
  <2>2. S = { q[i] : i \in DOMAIN q }
    BY <1>2 DEF ToSet
  <2> QED
    BY <2>1, <2>2
<1>9. GroupsOf(s) = { t.src } \X S
  <2>1. GroupsOf(s) = { GroupOf(b) : b \in ToSet(s) }
    BY DEF GroupsOf, GroupOf
  <2>2. GroupsOf(s) = { << t.src, k >> : k \in S }
    BY <2>1, <1>8, <1>5
  <2> QED
    BY <2>2
<1>10. Apart(s, OfCarried)
  <2>1. \A i \in DOMAIN q : OfCarried[s[i]] = { << t.src, q[i] >> }
    BY <1>3, <1>4, <1>5 DEF OfCarried
  <2> QED
    BY <1>2, <1>7, <2>1 DEF Apart
<1>11. \A b \in ToSet(s) : b.rid = t.rid /\ b.ver = t.ver /\ b.mixed = t.mixed
  BY <1>5, <1>8
<1> QED
  BY <1>7, <1>9, <1>10, <1>11 DEF s

(* Its groups to be sampled again, each on its own.                        *)
LEMMA AgainIs ==
  ASSUME NEW t \in Tasks, NEW S \in SUBSET t.kinds
  PROVE  /\ Again(t, S) \in Seq(Descriptors)
         /\ Apart(Again(t, S), OfDescriptor)
         /\ ExpectedOf(ToSet(Again(t, S))) = { t.src } \X S
<1> DEFINE q == InOrder(S)
           s == Again(t, S)
<1>1. t.src \in Nat /\ t.kinds \subseteq AllKinds /\ t.attempt \in Nat
      /\ S \subseteq AllKinds
  BY DEF Tasks
<1>2. /\ q \in Seq(S) /\ ToSet(q) = S
      /\ \A i, j \in DOMAIN q : q[i] = q[j] => i = j
  BY <1>1, InOrderIs
<1>3. s = [ i \in DOMAIN q |-> ResampleOf(t, q[i]) ]
  BY DEF Again
<1> HIDE DEF q, s
<1>4. \A i \in DOMAIN q : q[i] \in S
  BY <1>2 DEF ToSet
<1>5. \A k \in S : /\ ResampleOf(t, k) \in Descriptors
                   /\ Expected(ResampleOf(t, k)) = { << t.src, k >> }
  <2> TAKE k \in S
  <2>1. {k} \in SUBSET AllKinds /\ {k} # {} /\ t.attempt + 1 \in Nat
    BY <1>1
  <2>2. ResampleOf(t, k) =
          [ src |-> t.src, kinds |-> {k}, attempt |-> t.attempt + 1 ]
    BY DEF ResampleOf
  <2>3. ResampleOf(t, k) \in Descriptors
    BY <1>1, <2>1, <2>2 DEF Descriptors
  <2>4. Expected(ResampleOf(t, k)) = { t.src } \X {k}
    BY <2>2 DEF Expected
  <2> QED
    BY <2>3, <2>4
<1>6. s \in [ DOMAIN q -> Descriptors ]
  BY <1>3, <1>4, <1>5
<1>7. s \in Seq(Descriptors) /\ DOMAIN s = DOMAIN q
  BY <1>2, <1>6, SeqImage
<1>8. ToSet(s) = { ResampleOf(t, k) : k \in S }
  <2>1. ToSet(s) = { ResampleOf(t, q[i]) : i \in DOMAIN q }
    BY <1>3, <1>7 DEF ToSet
  <2>2. S = { q[i] : i \in DOMAIN q }
    BY <1>2 DEF ToSet
  <2> QED
    BY <2>1, <2>2
<1>9. ExpectedOf(ToSet(s)) = { t.src } \X S
  <2>1. ExpectedOf(ToSet(s)) = UNION { { << t.src, k >> } : k \in S }
    BY <1>5, <1>8 DEF ExpectedOf
  <2> QED
    BY <2>1
<1>10. Apart(s, OfDescriptor)
  <2>1. \A i \in DOMAIN q : OfDescriptor[s[i]] = { << t.src, q[i] >> }
    BY <1>3, <1>4, <1>5 DEF OfDescriptor
  <2> QED
    BY <1>2, <1>7, <2>1 DEF Apart
<1> QED
  BY <1>7, <1>9, <1>10 DEF s

-----------------------------------------------------------------------------
(* Type correctness.                                                       *)

(* A dispatched descriptor is a task, and a task queued is a descriptor.   *)
LEMMA DispatchedType ==
  ASSUME TypeInv, NEW d \in Descriptors
  PROVE  Dispatched(d) \in Tasks /\ Expected(Dispatched(d)) = Expected(d)
BY DEF TypeInv, Descriptors, Tasks, Dispatched, Expected

LEMMA DescriptorType ==
  ASSUME NEW t \in Tasks
  PROVE  Descriptor(t) \in Descriptors /\ Expected(Descriptor(t)) = Expected(t)
BY DEF Descriptors, Tasks, Descriptor, Expected

(* What becomes of a task at its policy boundary and under an update.      *)
Passive(t) == [ t EXCEPT !.active = FALSE ]
Under(t, b) == [ t EXCEPT !.mixed = @ \/ b ]

(* Neither changes the groups the task has to account for.                 *)
LEMMA PassiveType ==
  ASSUME NEW t \in Tasks
  PROVE  /\ Passive(t) \in Tasks /\ Expected(Passive(t)) = Expected(t)
         /\ Passive(t).rid = t.rid /\ Passive(t).ver = t.ver
         /\ Passive(t).mixed = t.mixed
BY DEF Tasks, Passive, Expected

LEMMA UnderType ==
  ASSUME NEW t \in Tasks, NEW b \in BOOLEAN
  PROVE  /\ Under(t, b) \in Tasks /\ Expected(Under(t, b)) = Expected(t)
         /\ Under(t, b).rid = t.rid /\ Under(t, b).ver = t.ver
         /\ Under(t, b).mixed <=> t.mixed \/ b
<1>1. t.mixed \in BOOLEAN
  BY DEF Tasks
<1>2. (t.mixed \/ b) \in BOOLEAN
  OBVIOUS
<1>3. Under(t, b) = [ t EXCEPT !.mixed = t.mixed \/ b ]
  BY DEF Under
<1> DEFINE c == t.mixed \/ b
<1> HIDE DEF c
<1>4. c \in BOOLEAN
  BY <1>2 DEF c
<1>5. Under(t, b) = [ t EXCEPT !.mixed = c ]
  BY <1>3 DEF c
<1>6. /\ Under(t, b) \in Tasks /\ Expected(Under(t, b)) = Expected(t)
      /\ Under(t, b).rid = t.rid /\ Under(t, b).ver = t.ver
      /\ Under(t, b).mixed = c
  BY <1>4, <1>5 DEF Tasks, Expected
<1> QED
  BY <1>6 DEF c

(* The kinds of an instance are kinds.                                     *)
LEMMA KindsType == Kinds \in (SUBSET AllKinds) \ {{}}
BY LanesAssumption DEF AllKinds

(* The last boundary at or below an attempt is an attempt.                 *)
LEMMA BoundaryType ==
  ASSUME NEW n \in Nat
  PROVE  BoundaryAt(n) \in Nat
<1>1. Interval \in Nat \ {0}
  BY LanesAssumption
<1>2. n \div Interval \in Nat
  BY <1>1
<1> DEFINE q == n \div Interval
<1> HIDE DEF q
<1>3. q * Interval \in Nat
  BY <1>1, <1>2 DEF q
<1> QED
  BY <1>3 DEF BoundaryAt, q

(* What is live is asked for as a descriptor.                              *)
LEMMA LiveType ==
  ASSUME TypeInv
  PROVE  Live \in SUBSET Descriptors
<1>1. \A t \in pending : Descriptor(t) \in Descriptors
  BY DescriptorType DEF TypeInv
<1>2. ToSet(resample) \subseteq Descriptors
  <2>1. resample \in Seq(Descriptors)
    BY DEF TypeInv
  <2> QED
    BY <2>1, LenProperties, ElementOfSeq DEF ToSet
<1> QED
  BY <1>1, <1>2 DEF Live, TypeInv

(* The first state has the types.                                          *)
LEMMA TypeInit == Init => TypeInv
<1> SUFFICES ASSUME Init PROVE TypeInv
  OBVIOUS
<1>1. /\ rid = 0 /\ version = -1 /\ cursor = 0 /\ scheduled = 0
      /\ pending = {} /\ replay = {} /\ resample = << >> /\ buffer = << >>
  BY DEF Init
<1>2. << >> \in Seq(Descriptors) /\ << >> \in Seq(Carried)
  BY EmptySeq
<1>3. ToSet(resample) = {}
  BY <1>1 DEF ToSet
<1>4. /\ saved.rid = rid /\ saved.cursor = cursor
      /\ saved.scheduled = scheduled /\ saved.tasks = {}
      /\ saved.buffer = buffer
  BY <1>1, <1>3 DEF Init, CheckpointState, Live
<1> QED
  BY <1>1, <1>2, <1>4 DEF TypeInv

(* Entering the collector keeps the types of everything it moves.          *)
LEMMA EnterType ==
  ASSUME TypeInv, Enter
  PROVE  /\ pending' \in SUBSET Tasks /\ replay' = {}
         /\ buffer' \in Seq(Carried)
         /\ UNCHANGED << rid, version, cursor, resample, saved >>
<1>1. Replayed \subseteq Tasks
  BY DispatchedType DEF Replayed, TypeInv
<1>2. FreshBuffer \in Seq(Carried)
  BY FreshBufferIs DEF TypeInv
<1> QED
  BY <1>1, <1>2 DEF Enter, TypeInv

(* A harvest, too.                                                         *)
LEMMA HarvestType ==
  ASSUME TypeInv, Harvest
  PROVE  TypeInv'
<1>1. PICK t \in pending : ReapStale(t) \/ ReapResult(t)
  BY DEF Harvest
<1>2. /\ pending' = pending \ {t}
      /\ UNCHANGED << rid, version, cursor, scheduled, replay, saved >>
  BY <1>1 DEF ReapStale, ReapResult, Reap
<1>3. CASE ReapStale(t)
  <2>1. UNCHANGED << resample, buffer >>
    BY <1>3 DEF ReapStale
  <2> QED
    BY <1>2, <2>1 DEF TypeInv
<1>4. CASE ReapResult(t)
  <2>1. PICK outcome \in Outcomes(t) :
          LET valid == { k \in t.kinds : outcome[k] = "valid" }
              again == { k \in t.kinds : /\ outcome[k] = "no variance"
                                         /\ t.attempt < ResampleLimit }
          IN  /\ buffer' = buffer \o Rows(t, valid)
              /\ resample' = resample \o Again(t, again)
    BY <1>4 DEF ReapResult, Rows, Again
  <2> DEFINE valid == { k \in t.kinds : outcome[k] = "valid" }
             again == { k \in t.kinds : /\ outcome[k] = "no variance"
                                        /\ t.attempt < ResampleLimit }
  <2>2. t \in Tasks
    BY DEF TypeInv
  <2>3. valid \in SUBSET t.kinds /\ again \in SUBSET t.kinds
    OBVIOUS
  <2>4. buffer' = buffer \o Rows(t, valid)
        /\ resample' = resample \o Again(t, again)
    BY <2>1
  <2> HIDE DEF valid, again
  <2>5. Rows(t, valid) \in Seq(Carried) /\ Again(t, again) \in Seq(Descriptors)
    BY <2>2, <2>3, RowsAre, AgainIs
  <2>6. buffer' \in Seq(Carried) /\ resample' \in Seq(Descriptors)
    BY <2>4, <2>5, ConcatProperties DEF TypeInv
  <2> QED
    BY <1>2, <2>6 DEF TypeInv
<1> QED
  BY <1>1, <1>3, <1>4

(* What is taken off a queue or a buffer.                                  *)
LEMMA HeadAndTail ==
  ASSUME NEW q \in Seq(Descriptors), q # << >>
  PROVE  /\ Head(q) \in Descriptors /\ Tail(q) \in Seq(Descriptors)
         /\ Len(q) \in Nat \ {0} /\ Tail(q) = SubSeq(q, 2, Len(q))
BY HeadTailProperties, TailIsSubSeq, EmptySeq

(* A batch is popped only when the buffer holds one.                       *)
LEMMA BatchInBuffer ==
  ASSUME TypeInv, BatchReady
  PROVE  Batch \in 0 .. Len(buffer)
<1>1. Len(buffer) \in Nat
  BY LenProperties DEF TypeInv
<1>2. Batch \in Nat
  BY LanesAssumption
<1>3. Len(buffer) >= Batch
  BY DEF BatchReady
<1> QED
  BY <1>1, <1>2, <1>3

(* Every step keeps the types: one step per action.                        *)
LEMMA TypeNext == TypeInv /\ [Next]_vars => TypeInv'
<1> SUFFICES ASSUME TypeInv, [Next]_vars PROVE TypeInv'
  OBVIOUS
<1>1. CASE StartGenerate \/ ResumeGenerate
  <2>1. Enter
    BY <1>1 DEF StartGenerate, ResumeGenerate
  <2>2. scheduled' = scheduled \/ scheduled' = BoundaryAt(cursor)
    BY <1>1 DEF StartGenerate, ResumeGenerate
  <2>3. scheduled' \in Nat
    BY <2>2, BoundaryType DEF TypeInv
  <2> QED
    BY <2>1, <2>3, EnterType DEF TypeInv
<1>2. CASE Harvest
  BY <1>2, HarvestType
<1>3. CASE \/ EndHarvest \/ SubmitHitsBoundary \/ SubmitHitsBudget
           \/ EndSubmit \/ KeepWaiting \/ FullBatchHitsBoundary
           \/ UNCHANGED vars
  BY <1>3
     DEF EndHarvest, SubmitHitsBoundary, SubmitHitsBudget, EndSubmit,
         KeepWaiting, FullBatchHitsBoundary, vars, work, TypeInv
<1>4. CASE SubmitResample
  <2>1. /\ resample # << >> /\ resample' = Tail(resample)
        /\ pending' = pending \cup { Dispatched(Head(resample)) }
        /\ UNCHANGED << rid, version, cursor, scheduled, replay, buffer,
                        saved >>
    BY <1>4 DEF SubmitResample
  <2>2. Head(resample) \in Descriptors /\ Tail(resample) \in Seq(Descriptors)
    BY <2>1, HeadAndTail DEF TypeInv
  <2>3. Dispatched(Head(resample)) \in Tasks
    BY <2>2, DispatchedType
  <2> QED
    BY <2>1, <2>2, <2>3 DEF TypeInv
<1>5. CASE \E eligible \in BOOLEAN : SubmitFresh(eligible)
  <2> DEFINE d == [ src |-> cursor, kinds |-> Kinds, attempt |-> 0 ]
  <2>1. /\ cursor' = cursor + 1
        /\ pending' = pending \/ pending' = pending \cup { Dispatched(d) }
        /\ UNCHANGED << rid, version, scheduled, replay, resample, buffer,
                        saved >>
    BY <1>5 DEF SubmitFresh
  <2>2. d \in Descriptors
    BY KindsType DEF TypeInv, Descriptors
  <2> HIDE DEF d
  <2>3. Dispatched(d) \in Tasks
    BY <2>2, DispatchedType
  <2>4. cursor + 1 \in Nat
    BY DEF TypeInv
  <2> QED
    BY <2>1, <2>3, <2>4 DEF TypeInv
<1>6. CASE StopAtBudget \/ DiscardTerminal
  <2>1. /\ buffer' = << >>
        /\ pending' = pending \/ pending' = {}
        /\ replay' = replay \/ replay' = {}
        /\ resample' = resample \/ resample' = << >>
        /\ UNCHANGED << rid, version, cursor, scheduled, saved >>
    BY <1>6 DEF StopAtBudget, DiscardTerminal
  <2>2. << >> \in Seq(Carried) /\ << >> \in Seq(Descriptors)
    BY EmptySeq
  <2> QED
    BY <2>1, <2>2 DEF TypeInv
<1>7. CASE PopBatch
  <2>1. /\ BatchReady /\ buffer' = SubSeq(buffer, Batch + 1, Len(buffer))
        /\ UNCHANGED << rid, version, cursor, scheduled, pending, replay,
                        resample, saved >>
    BY <1>7 DEF PopBatch
  <2>2. buffer' \in Seq(Carried)
    BY <2>1, BatchInBuffer, SubSeqTail DEF TypeInv
  <2> QED
    BY <2>1, <2>2 DEF TypeInv
<1>8. CASE UpdateWeights
  <2>1. /\ version' = rid - 1 /\ rid' = rid + 1
        /\ pending' = { Under(t, version # rid - 1) : t \in pending }
        /\ UNCHANGED << cursor, scheduled, replay, resample, buffer, saved >>
    BY <1>8 DEF UpdateWeights, Under
  <2>2. pending' \subseteq Tasks
    BY <2>1, UnderType DEF TypeInv
  <2>3. rid - 1 \in Int /\ rid + 1 \in Int
    BY DEF TypeInv
  <2> QED
    BY <2>1, <2>2, <2>3 DEF TypeInv
<1>9. CASE Checkpoint
  <2>1. /\ saved'.rid = rid /\ saved'.cursor = cursor
        /\ saved'.scheduled = scheduled /\ saved'.tasks = Live
        /\ saved'.buffer = buffer
        /\ UNCHANGED << rid, version, cursor, scheduled, work >>
    BY <1>9 DEF Checkpoint, CheckpointState
  <2> QED
    BY <2>1, LiveType DEF TypeInv, work
<1>10. CASE CrashAndLoad
  <2>1. /\ rid' = saved.rid /\ version' = saved.rid - 1
        /\ cursor' = saved.cursor /\ scheduled' = saved.scheduled
        /\ pending' = {} /\ replay' = saved.tasks /\ resample' = << >>
        /\ buffer' = saved.buffer /\ UNCHANGED saved
    BY <1>10 DEF CrashAndLoad
  <2>2. saved.rid - 1 \in Int /\ << >> \in Seq(Descriptors)
    BY EmptySeq DEF TypeInv
  <2> QED
    BY <2>1, <2>2 DEF TypeInv
<1>11. CASE \E t \in pending : PolicyDone(t)
  <2>1. PICK t \in pending : PolicyDone(t)
    BY <1>11
  <2>2. /\ pending' = (pending \ {t}) \cup { Passive(t) }
        /\ UNCHANGED << rid, version, cursor, scheduled, replay, resample,
                        buffer, saved >>
    BY <2>1 DEF PolicyDone, Passive
  <2>3. Passive(t) \in Tasks
    BY PassiveType DEF TypeInv
  <2> QED
    BY <2>2, <2>3 DEF TypeInv
<1> QED
  BY <1>1, <1>2, <1>3, <1>4, <1>5, <1>6, <1>7, <1>8, <1>9, <1>10, <1>11
     DEF Next, Collect

-----------------------------------------------------------------------------
(* No batch is trained past an open boundary.                              *)

(* A restart untrains what was trained since the checkpoint.               *)
TrainedInv == saved.accepted \subseteq accepted

(* Nothing is trained at first, and training only adds.                    *)
LEMMA TrainedInit == Init => TrainedInv
BY DEF Init, CheckpointState, TrainedInv

LEMMA TrainedNext == TrainedInv /\ [Next]_vars => TrainedInv'
<1> SUFFICES ASSUME TrainedInv, [Next]_vars PROVE TrainedInv'
  OBVIOUS
<1>1. CASE PopBatch
  BY <1>1 DEF PopBatch, TrainedInv
<1>2. CASE Checkpoint
  BY <1>2 DEF Checkpoint, CheckpointState, TrainedInv
<1>3. CASE CrashAndLoad
  BY <1>3 DEF CrashAndLoad, TrainedInv
<1>4. CASE StartGenerate \/ ResumeGenerate
  BY <1>4 DEF StartGenerate, ResumeGenerate, Enter, TrainedInv
<1>5. CASE Harvest
  <2>1. UNCHANGED << accepted, saved >>
    BY <1>5 DEF Harvest, ReapStale, ReapResult, Reap
  <2> QED
    BY <2>1 DEF TrainedInv
<1>6. CASE \/ EndHarvest \/ SubmitResample \/ SubmitHitsBoundary
           \/ SubmitHitsBudget \/ EndSubmit
           \/ \E eligible \in BOOLEAN : SubmitFresh(eligible)
           \/ KeepWaiting \/ StopAtBudget \/ FullBatchHitsBoundary
           \/ UpdateWeights \/ DiscardTerminal
           \/ \E t \in pending : PolicyDone(t)
           \/ UNCHANGED vars
  BY <1>6
     DEF EndHarvest, SubmitResample, SubmitHitsBoundary, SubmitHitsBudget,
         EndSubmit, SubmitFresh, KeepWaiting, StopAtBudget,
         FullBatchHitsBoundary, UpdateWeights, DiscardTerminal, PolicyDone,
         vars, TrainedInv
<1> QED
  BY <1>1, <1>2, <1>3, <1>4, <1>5, <1>6 DEF Next, Collect

(* Only a pop trains, and it looks at the boundary first.                  *)
LEMMA BoundaryStep ==
  TypeInv /\ TrainedInv /\ [Next]_vars =>
    [ accepted' \subseteq accepted \/ BoundaryAt(cursor) <= scheduled ]_vars
<1> SUFFICES ASSUME TypeInv, TrainedInv, [Next]_vars
             PROVE  accepted' \subseteq accepted
                      \/ BoundaryAt(cursor) <= scheduled
  OBVIOUS
<1>1. CASE PopBatch
  <2>1. ~ (BoundaryAt(cursor) > scheduled)
    BY <1>1 DEF PopBatch, BoundaryPending
  <2>2. BoundaryAt(cursor) \in Nat /\ scheduled \in Nat
    BY BoundaryType DEF TypeInv
  <2> QED
    BY <2>1, <2>2
<1>2. CASE Checkpoint
  BY <1>2 DEF Checkpoint
<1>3. CASE CrashAndLoad
  BY <1>3 DEF CrashAndLoad, TrainedInv
<1>4. CASE StartGenerate \/ ResumeGenerate
  BY <1>4 DEF StartGenerate, ResumeGenerate, Enter
<1>5. CASE Harvest
  BY <1>5 DEF Harvest, ReapStale, ReapResult, Reap
<1>6. CASE \/ EndHarvest \/ SubmitResample \/ SubmitHitsBoundary
           \/ SubmitHitsBudget \/ EndSubmit
           \/ \E eligible \in BOOLEAN : SubmitFresh(eligible)
           \/ KeepWaiting \/ StopAtBudget \/ FullBatchHitsBoundary
           \/ UpdateWeights \/ DiscardTerminal
           \/ \E t \in pending : PolicyDone(t)
           \/ UNCHANGED vars
  BY <1>6
     DEF EndHarvest, SubmitResample, SubmitHitsBoundary, SubmitHitsBudget,
         EndSubmit, SubmitFresh, KeepWaiting, StopAtBudget,
         FullBatchHitsBoundary, UpdateWeights, DiscardTerminal, PolicyDone,
         vars
<1> QED
  BY <1>1, <1>2, <1>3, <1>4, <1>5, <1>6 DEF Next, Collect

-----------------------------------------------------------------------------
(* How old a group can be.  A task under which the weights changed is at   *)
(* least two versions behind by the time anyone looks at its result.       *)

Labelled(t) == t.ver <= version /\ t.rid <= rid

FreshInv ==
  /\ version <= rid - 1
  /\ \A t \in pending : Labelled(t) /\ (t.mixed => StaleLag(t) > 1)
  /\ \A b \in ToSet(buffer) : Labelled(b) /\ ~ b.mixed
  /\ pc \in {"harvest", "submit", "check"} =>
       \A b \in ToSet(buffer) : ~ Stale(b)
  /\ \A b \in ToSet(saved.buffer) :
       b.ver <= saved.rid - 1 /\ b.rid <= saved.rid /\ ~ b.mixed

(* The verdict on a group's age is about numbers.                          *)
LEMMA AgeTypes ==
  ASSUME TypeInv
  PROVE  /\ rid \in Int /\ version \in Int /\ saved.rid \in Int
         /\ \A t \in pending \cup ToSet(buffer) \cup ToSet(saved.buffer) :
              t.ver \in Int /\ t.rid \in Int /\ t.mixed \in BOOLEAN
<1>1. ASSUME NEW s \in Seq(Carried) PROVE ToSet(s) \subseteq Carried
  BY LenProperties, ElementOfSeq DEF ToSet
<1>2. /\ buffer \in Seq(Carried) /\ saved.buffer \in Seq(Carried)
      /\ pending \subseteq Tasks
  BY DEF TypeInv
<1>3. ToSet(buffer) \subseteq Carried /\ ToSet(saved.buffer) \subseteq Carried
  BY <1>1, <1>2
<1>4. \A t \in Tasks : t.ver \in Int /\ t.rid \in Int /\ t.mixed \in BOOLEAN
  BY DEF Tasks
<1>5. \A b \in Carried : b.ver \in Int /\ b.rid \in Int /\ b.mixed \in BOOLEAN
  BY DEF Carried
<1>6. rid \in Int /\ version \in Int /\ saved.rid \in Int
  BY DEF TypeInv
<1> QED
  BY <1>2, <1>3, <1>4, <1>5, <1>6

(* A dispatched task carries the labels of the moment.                     *)
LEMMA DispatchedAge ==
  ASSUME TypeInv, NEW d
  PROVE  Labelled(Dispatched(d)) /\ Dispatched(d).mixed = FALSE
<1>1. /\ Dispatched(d).ver = version /\ Dispatched(d).rid = rid
      /\ Dispatched(d).mixed = FALSE
  BY DEF Dispatched
<1> QED
  BY <1>1, AgeTypes DEF Labelled

(* The first state has no groups.                                          *)
LEMMA FreshInit == Init => FreshInv
<1> SUFFICES ASSUME Init PROVE FreshInv
  OBVIOUS
<1>1. pending = {} /\ buffer = << >> /\ version <= rid - 1
  BY DEF Init
<1>2. saved.buffer = << >>
  BY <1>1 DEF Init, CheckpointState
<1>3. \A s : s = << >> => ToSet(s) = {}
  BY DEF ToSet
<1> QED
  BY <1>1, <1>2, <1>3 DEF FreshInv

(* A harvest buffers what is not stale, under its labels.                  *)
LEMMA HarvestFresh ==
  ASSUME TypeInv, FreshInv, Harvest
  PROVE  /\ pending' \subseteq pending /\ pc' = pc
         /\ UNCHANGED << rid, version, saved >>
         /\ \A b \in ToSet(buffer') :
              Labelled(b) /\ ~ b.mixed /\ ~ Stale(b)
<1>1. PICK t \in pending : ReapStale(t) \/ ReapResult(t)
  BY DEF Harvest
<1>2. /\ pending' = pending \ {t} /\ pc' = pc /\ pc = "harvest"
      /\ UNCHANGED << rid, version, saved >>
  BY <1>1 DEF ReapStale, ReapResult, Reap
<1>3. \A b \in ToSet(buffer) : Labelled(b) /\ ~ b.mixed /\ ~ Stale(b)
  BY <1>2 DEF FreshInv
<1>4. CASE ReapStale(t)
  BY <1>2, <1>3, <1>4 DEF ReapStale
<1>5. CASE ReapResult(t)
  <2>1. PICK S \in SUBSET t.kinds : buffer' = buffer \o Rows(t, S)
    BY <1>5 DEF ReapResult, Rows
  <2>2. t \in Tasks /\ ~ Stale(t) /\ Labelled(t)
        /\ (t.mixed => StaleLag(t) > 1)
    BY <1>5 DEF TypeInv, FreshInv, ReapResult
  <2>3. ~ t.mixed
    BY <2>2, AgeTypes DEF Stale, StaleLag
  <2>4. /\ Rows(t, S) \in Seq(Carried)
        /\ \A b \in ToSet(Rows(t, S)) :
             b.rid = t.rid /\ b.ver = t.ver /\ b.mixed = t.mixed
    BY <2>2, RowsAre
  <2>5. ToSet(buffer') = ToSet(buffer) \cup ToSet(Rows(t, S))
    BY <2>1, <2>4, ToSetConcat DEF TypeInv
  <2>6. \A b \in ToSet(Rows(t, S)) : Labelled(b) /\ ~ b.mixed /\ ~ Stale(b)
    BY <2>2, <2>3, <2>4 DEF Labelled, Stale, StaleLag
  <2> QED
    BY <1>2, <1>3, <2>5, <2>6
<1> QED
  BY <1>1, <1>4, <1>5

(* Every step keeps the labels honest: one step per action.                *)
LEMMA FreshNext == TypeInv /\ FreshInv /\ [Next]_vars => FreshInv'
<1> SUFFICES ASSUME TypeInv, FreshInv, [Next]_vars PROVE FreshInv'
  OBVIOUS
<1>1. ASSUME UNCHANGED << rid, version, saved >>,
             \A t \in pending' : \/ t \in pending
                                 \/ Labelled(t) /\ t.mixed = FALSE,
             \A b \in ToSet(buffer') : \/ b \in ToSet(buffer)
                                       \/ Labelled(b) /\ ~ b.mixed,
             pc' \in {"harvest", "submit", "check"} =>
               \A b \in ToSet(buffer') : ~ Stale(b)
      PROVE  FreshInv'
  BY <1>1 DEF FreshInv, Labelled, Stale, StaleLag
<1>2. CASE StartGenerate \/ ResumeGenerate
  <2>1. Enter
    BY <1>2 DEF StartGenerate, ResumeGenerate
  <2>2. /\ buffer' = FreshBuffer /\ pending' = pending \cup Replayed
        /\ UNCHANGED << rid, version, saved >>
    BY <2>1 DEF Enter
  <2>3. \A b \in ToSet(buffer') : b \in ToSet(buffer) /\ ~ Stale(b)
    BY <2>2, FreshBufferIs DEF TypeInv
  <2>4. \A t \in pending' : t \in pending \/ \E d : t = Dispatched(d)
    BY <2>2 DEF Replayed
  <2> QED
    BY <1>1, <2>2, <2>3, <2>4, DispatchedAge
<1>3. CASE Harvest
  BY <1>1, <1>3, HarvestFresh
<1>4. CASE SubmitResample \/ \E eligible \in BOOLEAN : SubmitFresh(eligible)
  <2>1. /\ pc' = pc /\ buffer' = buffer
        /\ UNCHANGED << rid, version, saved >>
    BY <1>4 DEF SubmitResample, SubmitFresh
  <2>2. \A t \in pending' : t \in pending \/ \E d : t = Dispatched(d)
    BY <1>4 DEF SubmitResample, SubmitFresh
  <2>3. pc' \in {"harvest", "submit", "check"} =>
          \A b \in ToSet(buffer') : ~ Stale(b)
    BY <2>1 DEF FreshInv
  <2> QED
    BY <1>1, <2>1, <2>2, <2>3, DispatchedAge
<1>5. CASE \/ EndHarvest \/ EndSubmit \/ KeepWaiting \/ SubmitHitsBudget
           \/ SubmitHitsBoundary \/ FullBatchHitsBoundary
  <2>1. /\ pc' \in {"harvest", "submit", "check"} =>
             pc \in {"harvest", "submit", "check"}
        /\ UNCHANGED << rid, version, saved, pending, buffer >>
    BY <1>5
       DEF EndHarvest, EndSubmit, KeepWaiting, SubmitHitsBudget,
           SubmitHitsBoundary, FullBatchHitsBoundary, Preserve, work,
           Draws, Submitting, BatchReady
  <2>2. pc' \in {"harvest", "submit", "check"} =>
          \A b \in ToSet(buffer') : ~ Stale(b)
    BY <2>1 DEF FreshInv
  <2> QED
    BY <1>1, <2>1, <2>2
<1>6. CASE StopAtBudget \/ DiscardTerminal
  <2>1. /\ buffer' = << >> /\ pending' \subseteq pending /\ pc' = "stopped"
        /\ UNCHANGED << rid, version, saved >>
    BY <1>6 DEF StopAtBudget, DiscardTerminal
  <2>2. ToSet(buffer') = {}
    BY <2>1 DEF ToSet
  <2> QED
    BY <1>1, <2>1, <2>2
<1>7. CASE PopBatch
  <2>1. /\ BatchReady /\ buffer' = SubSeq(buffer, Batch + 1, Len(buffer))
        /\ pc' = "prefetch" /\ UNCHANGED << rid, version, saved, pending >>
    BY <1>7 DEF PopBatch
  <2>2. ToSet(buffer') = { buffer[i] : i \in Batch + 1 .. Len(buffer) }
    BY <2>1, BatchInBuffer, ToSetSplit DEF TypeInv
  <2>3. /\ DOMAIN buffer = 1 .. Len(buffer)
        /\ \A i \in Batch + 1 .. Len(buffer) : i \in 1 .. Len(buffer)
    <3>1. Batch \in Nat /\ Len(buffer) \in Nat
          /\ DOMAIN buffer = 1 .. Len(buffer)
      BY LanesAssumption, LenProperties DEF TypeInv
    <3> QED
      BY <3>1
  <2>4. ToSet(buffer') \subseteq ToSet(buffer)
    BY <2>2, <2>3 DEF ToSet
  <2> QED
    BY <1>1, <2>1, <2>4
<1>8. CASE UpdateWeights
  <2>1. /\ version' = rid - 1 /\ rid' = rid + 1 /\ pc' = "batch"
        /\ pending' = { Under(t, version # rid - 1) : t \in pending }
        /\ UNCHANGED << buffer, saved >>
    BY <1>8 DEF UpdateWeights, Under
  <2>2. version <= rid - 1
    BY DEF FreshInv
  <2>3. ASSUME NEW t \in pending
        PROVE  LET u == Under(t, version # rid - 1)
               IN  /\ u.ver <= rid - 1 /\ u.rid <= rid + 1
                   /\ u.mixed => rid - u.ver > 1
    <3> DEFINE u == Under(t, version # rid - 1)
    <3>1. u.ver = t.ver /\ u.rid = t.rid
          /\ (u.mixed <=> t.mixed \/ version # rid - 1)
      BY UnderType DEF TypeInv
    <3> HIDE DEF u
    <3>2. /\ t.ver <= version /\ t.rid <= rid
          /\ t.mixed => rid - 1 - t.ver > 1
      BY DEF FreshInv, Labelled, StaleLag
    <3>3. t.ver \in Int /\ t.rid \in Int /\ rid \in Int /\ version \in Int
      BY AgeTypes
    <3> QED
      BY <2>2, <3>1, <3>2, <3>3 DEF u
  <2>4. \A b \in ToSet(buffer) :
          b.ver <= rid - 1 /\ b.rid <= rid + 1 /\ ~ b.mixed
    BY <2>2, AgeTypes DEF FreshInv, Labelled
  <2>5. rid - 1 <= rid + 1 - 1 /\ rid + 1 - 1 = rid
    BY AgeTypes
  <2>6. ASSUME NEW u \in pending'
        PROVE  /\ u.ver <= version' /\ u.rid <= rid'
               /\ u.mixed => rid' - 1 - u.ver > 1
    <3>1. PICK t \in pending : u = Under(t, version # rid - 1)
      BY <2>1
    <3>2. /\ u.ver <= rid - 1 /\ u.rid <= rid + 1
          /\ u.mixed => rid - u.ver > 1
      BY <2>3, <3>1
    <3>3. version' = rid - 1 /\ rid' = rid + 1
      BY <2>1
    <3>4. rid \in Int /\ u.ver \in Int /\ u.rid \in Int
      BY <3>1, UnderType, AgeTypes DEF TypeInv
    <3> QED
      BY <3>2, <3>3, <3>4
  <2>7. \A b \in ToSet(buffer') :
          b.ver <= version' /\ b.rid <= rid' /\ ~ b.mixed
    BY <2>1, <2>4
  <2>8. \A b \in ToSet(saved'.buffer) :
          b.ver <= saved'.rid - 1 /\ b.rid <= saved'.rid /\ ~ b.mixed
    BY <2>1 DEF FreshInv
  <2>9. version' <= rid' - 1 /\ pc' \notin {"harvest", "submit", "check"}
    BY <2>1, AgeTypes
  <2> QED
    BY <2>6, <2>7, <2>8, <2>9 DEF FreshInv, Labelled, StaleLag
<1>9. CASE Checkpoint
  <2>1. /\ saved'.rid = rid /\ saved'.buffer = buffer
        /\ UNCHANGED << pc, rid, version, pending, buffer >>
    BY <1>9 DEF Checkpoint, CheckpointState, work
  <2>2. \A b \in ToSet(buffer) : b.ver <= rid - 1 /\ b.rid <= rid /\ ~ b.mixed
    BY AgeTypes DEF FreshInv, Labelled
  <2> QED
    BY <2>1, <2>2 DEF FreshInv, Labelled, Stale, StaleLag
<1>10. CASE CrashAndLoad
  <2>1. /\ rid' = saved.rid /\ version' = saved.rid - 1 /\ pending' = {}
        /\ buffer' = saved.buffer /\ pc' = "idle" /\ UNCHANGED saved
    BY <1>10 DEF CrashAndLoad
  <2>2. saved.rid - 1 <= saved.rid - 1
    BY AgeTypes
  <2> QED
    BY <2>1, <2>2 DEF FreshInv, Labelled
<1>11. CASE \E t \in pending : PolicyDone(t)
  <2>1. PICK t \in pending : PolicyDone(t)
    BY <1>11
  <2>2. /\ pending' = (pending \ {t}) \cup { Passive(t) }
        /\ UNCHANGED << pc, rid, version, buffer, saved >>
    BY <2>1 DEF PolicyDone, Passive
  <2>3. /\ Passive(t).rid = t.rid /\ Passive(t).ver = t.ver
        /\ Passive(t).mixed = t.mixed
    BY PassiveType DEF TypeInv
  <2>4. \A u \in pending' : Labelled(u) /\ (u.mixed => StaleLag(u) > 1)
    BY <2>2, <2>3 DEF FreshInv, Labelled, StaleLag
  <2> QED
    BY <2>2, <2>4 DEF FreshInv, Labelled, Stale, StaleLag
<1>12. CASE UNCHANGED vars
  BY <1>12 DEF vars, work, FreshInv, Labelled, Stale, StaleLag
<1> QED
  BY <1>2, <1>3, <1>4, <1>5, <1>6, <1>7, <1>8, <1>9, <1>10, <1>11, <1>12
     DEF Next, Collect

-----------------------------------------------------------------------------
(* GroupsConserved, spelled out.                                           *)

InFlight == ExpectedOf(pending)
Restored == ExpectedOf(replay)
Queued   == ExpectedOf(ToSet(resample))
Held     == GroupsOf(buffer)

Disjoint(A, B) == A \cap B = {}

(* Six sets partition a seventh, and four a fifth.                         *)
Six(A, B, C, D, E, F, G) ==
  /\ Disjoint(A, B) /\ Disjoint(A, C) /\ Disjoint(A, D) /\ Disjoint(A, E)
  /\ Disjoint(A, F) /\ Disjoint(B, C) /\ Disjoint(B, D) /\ Disjoint(B, E)
  /\ Disjoint(B, F) /\ Disjoint(C, D) /\ Disjoint(C, E) /\ Disjoint(C, F)
  /\ Disjoint(D, E) /\ Disjoint(D, F) /\ Disjoint(E, F)
  /\ A \cup B \cup C \cup D \cup E \cup F = G

Four(A, B, C, D, G) ==
  /\ Disjoint(A, B) /\ Disjoint(A, C) /\ Disjoint(A, D)
  /\ Disjoint(B, C) /\ Disjoint(B, D) /\ Disjoint(C, D)
  /\ A \cup B \cup C \cup D = G

(* A family of six partitions what its members partition ...               *)
LEMMA SixPartition ==
  ASSUME NEW A, NEW B, NEW C, NEW D, NEW E, NEW F, NEW G
  PROVE  Partitions(<< A, B, C, D, E, F >>, G) <=> Six(A, B, C, D, E, F, G)
<1> DEFINE s == << A, B, C, D, E, F >>
<1>1. DOMAIN s = {1, 2, 3, 4, 5, 6}
  OBVIOUS
<1>2. s[1] = A /\ s[2] = B /\ s[3] = C /\ s[4] = D /\ s[5] = E /\ s[6] = F
  OBVIOUS
<1> HIDE DEF s
<1>3. UNION { s[i] : i \in DOMAIN s } = A \cup B \cup C \cup D \cup E \cup F
  <2>1. { s[i] : i \in DOMAIN s } = {A, B, C, D, E, F}
    BY <1>1, <1>2
  <2> QED
    BY <2>1
<1>4. (\A i, j \in DOMAIN s : i # j => s[i] \cap s[j] = {}) <=>
        /\ Disjoint(A, B) /\ Disjoint(A, C) /\ Disjoint(A, D)
        /\ Disjoint(A, E) /\ Disjoint(A, F) /\ Disjoint(B, C)
        /\ Disjoint(B, D) /\ Disjoint(B, E) /\ Disjoint(B, F)
        /\ Disjoint(C, D) /\ Disjoint(C, E) /\ Disjoint(C, F)
        /\ Disjoint(D, E) /\ Disjoint(D, F) /\ Disjoint(E, F)
  BY <1>1, <1>2 DEF Disjoint
<1> QED
  BY <1>3, <1>4 DEF Partitions, Six, s

(* ... and so does a family of four.                                       *)
LEMMA FourPartition ==
  ASSUME NEW A, NEW B, NEW C, NEW D, NEW G
  PROVE  Partitions(<< A, B, C, D >>, G) <=> Four(A, B, C, D, G)
<1> DEFINE s == << A, B, C, D >>
<1>1. DOMAIN s = {1, 2, 3, 4}
  OBVIOUS
<1>2. s[1] = A /\ s[2] = B /\ s[3] = C /\ s[4] = D
  OBVIOUS
<1> HIDE DEF s
<1>3. UNION { s[i] : i \in DOMAIN s } = A \cup B \cup C \cup D
  <2>1. { s[i] : i \in DOMAIN s } = {A, B, C, D}
    BY <1>1, <1>2
  <2> QED
    BY <2>1
<1>4. (\A i, j \in DOMAIN s : i # j => s[i] \cap s[j] = {}) <=>
        /\ Disjoint(A, B) /\ Disjoint(A, C) /\ Disjoint(A, D)
        /\ Disjoint(B, C) /\ Disjoint(B, D) /\ Disjoint(C, D)
  BY <1>1, <1>2 DEF Disjoint
<1> QED
  BY <1>3, <1>4 DEF Partitions, Four, s

(* Where the groups are, that no place holds one twice, and the same of    *)
(* what a checkpoint restores.                                             *)
Placement ==
  Six(InFlight, Restored, Queued, Held, accepted, closed, Drawn(cursor))

EachOnce ==
  /\ NoOverlap(pending) /\ NoOverlap(replay)
  /\ Apart(resample, OfDescriptor) /\ Apart(buffer, OfCarried)

SavedOnce ==
  /\ Four(ExpectedOf(saved.tasks), GroupsOf(saved.buffer), saved.accepted,
          saved.closed, Drawn(saved.cursor))
  /\ NoOverlap(saved.tasks) /\ Apart(saved.buffer, OfCarried)

OnceInv == Placement /\ EachOnce /\ SavedOnce

(* Spelled out so, it is the same property.                                *)
LEMMA OnceConserves == TypeInv /\ OnceInv => GroupsConserved
<1> SUFFICES ASSUME TypeInv, OnceInv PROVE GroupsConserved
  OBVIOUS
<1>1. /\ Placement /\ NoOverlap(pending) /\ NoOverlap(replay)
      /\ Apart(resample, OfDescriptor) /\ Apart(buffer, OfCarried)
      /\ resample \in Seq(Descriptors) /\ buffer \in Seq(Carried)
  BY DEF OnceInv, EachOnce, TypeInv
<1>2. /\ NoOverlap(ToSet(resample))
      /\ Cardinality(ToSet(resample)) = Len(resample)
  BY <1>1, QueueExpected
<1>3. Cardinality(GroupsOf(buffer)) = Len(buffer)
  BY <1>1, BufferGroups
<1>4. Partitions(<< ExpectedOf(pending), ExpectedOf(replay),
                    ExpectedOf(ToSet(resample)), GroupsOf(buffer), accepted,
                    closed >>, Drawn(cursor))
  BY <1>1, SixPartition DEF Placement, InFlight, Restored, Queued, Held
<1>5. Partitions(<< ExpectedOf(saved.tasks), GroupsOf(saved.buffer),
                    saved.accepted, saved.closed >>, Drawn(saved.cursor))
  BY FourPartition DEF OnceInv, SavedOnce
<1> QED
  BY <1>1, <1>2, <1>3, <1>4, <1>5 DEF GroupsConserved

(* Nothing is drawn at first.                                              *)
LEMMA OnceInit == Init => OnceInv
<1> SUFFICES ASSUME Init PROVE OnceInv
  OBVIOUS
<1>1. /\ pending = {} /\ replay = {} /\ resample = << >> /\ buffer = << >>
      /\ accepted = {} /\ closed = {} /\ cursor = 0
  BY DEF Init
<1>2. \A s : s = << >> => ToSet(s) = {} /\ DOMAIN s = {}
  BY DEF ToSet
<1>3. /\ InFlight = {} /\ Restored = {} /\ Queued = {} /\ Held = {}
      /\ GroupsOf(<< >>) = {}
  BY <1>1, <1>2, ExpectedOne DEF InFlight, Restored, Queued, Held, GroupsOf
<1>4. Drawn(0) = {}
  <2>1. 0 .. 0 - 1 = {}
    OBVIOUS
  <2> QED
    BY <2>1 DEF Drawn
<1>5. Placement
  BY <1>1, <1>3, <1>4 DEF Placement, Six, Disjoint
<1>6. EachOnce
  BY <1>1, <1>2, ExpectedOne DEF EachOnce, Apart
<1>7. Live = {}
  BY <1>1, <1>2 DEF Live
<1>8. /\ saved.tasks = {} /\ saved.buffer = << >> /\ saved.accepted = {}
      /\ saved.closed = {} /\ saved.cursor = 0
  BY <1>1, <1>7 DEF Init, CheckpointState
<1>9. SavedOnce
  BY <1>2, <1>3, <1>4, <1>8, ExpectedOne
     DEF SavedOnce, Four, Disjoint, Apart
<1> QED
  BY <1>5, <1>6, <1>9 DEF OnceInv

-----------------------------------------------------------------------------
(* Every step moves groups and neither loses nor repeats one.              *)

(* Entering the collector gives stale groups up and puts restored tasks    *)
(* into flight.                                                            *)
LEMMA EnterOnce ==
  ASSUME TypeInv, Placement, EachOnce, Enter
  PROVE  Placement' /\ EachOnce'
<1>1. /\ buffer' = FreshBuffer /\ pending' = pending \cup Replayed
      /\ closed' = closed \cup (GroupsOf(buffer) \ GroupsOf(FreshBuffer))
      /\ replay' = {} /\ UNCHANGED << cursor, resample, accepted >>
  BY DEF Enter
<1>2. /\ ToSet(FreshBuffer) \subseteq ToSet(buffer)
      /\ Apart(FreshBuffer, OfCarried)
  BY FreshBufferIs DEF TypeInv, EachOnce
<1>3. GroupsOf(FreshBuffer) \subseteq GroupsOf(buffer)
  BY <1>2 DEF GroupsOf
<1>4. ExpectedOf(Replayed) = Restored /\ NoOverlap(Replayed)
  <2> DEFINE f == [ d \in replay |-> Dispatched(d) ]
  <2>1. \A d \in replay : f[d] = Dispatched(d)
    OBVIOUS
  <2>2. \A d \in replay : Expected(f[d]) = Expected(d)
    BY <2>1, DispatchedType DEF TypeInv
  <2>3. Replayed = { f[d] : d \in replay }
    BY <2>1 DEF Replayed
  <2> HIDE DEF f
  <2> QED
    BY <2>2, <2>3, ExpectedImage DEF EachOnce, Restored
<1>5. Disjoint(InFlight, Restored)
  BY DEF Placement, Six
<1>6. InFlight' = InFlight \cup Restored /\ NoOverlap(pending')
  BY <1>1, <1>4, <1>5, ExpectedUnion, ExpectedMerge
     DEF InFlight, EachOnce, Disjoint
<1>7. Restored' = {} /\ NoOverlap(replay')
  BY <1>1, ExpectedOne DEF Restored
<1>8. /\ Queued' = Queued /\ Held' = GroupsOf(FreshBuffer)
      /\ closed' = closed \cup (Held \ Held') /\ Held' \subseteq Held
  BY <1>1, <1>3 DEF Queued, Held
<1>9. Drawn(cursor)' = Drawn(cursor) /\ accepted' = accepted
  BY <1>1
<1>10. Placement'
  BY <1>6, <1>7, <1>8, <1>9 DEF Placement, Six, Disjoint
<1>11. EachOnce'
  BY <1>1, <1>2, <1>6, <1>7 DEF EachOnce
<1> QED
  BY <1>10, <1>11

(* What changes the tasks in flight in place leaves their groups.          *)
LEMMA InPlaceOnce ==
  ASSUME Placement, EachOnce, NEW f,
         \A t \in pending : Expected(f[t]) = Expected(t),
         pending' = { f[t] : t \in pending },
         UNCHANGED << cursor, replay, resample, buffer, accepted, closed >>
  PROVE  Placement' /\ EachOnce'
<1>1. InFlight' = InFlight /\ NoOverlap(pending')
  BY ExpectedImage DEF InFlight, EachOnce
<1>2. /\ Restored' = Restored /\ Queued' = Queued /\ Held' = Held
      /\ Drawn(cursor)' = Drawn(cursor)
  BY DEF Restored, Queued, Held
<1>3. Placement'
  BY <1>1, <1>2 DEF Placement
<1>4. EachOnce'
  BY <1>1 DEF EachOnce
<1> QED
  BY <1>3, <1>4

(* A task at its policy boundary.                                          *)
LEMMA PolicyOnce ==
  ASSUME TypeInv, Placement, EachOnce, NEW t \in pending, PolicyDone(t)
  PROVE  Placement' /\ EachOnce'
<1> DEFINE f == [ u \in pending |-> IF u = t THEN Passive(t) ELSE u ]
<1>1. \A u \in pending : f[u] = IF u = t THEN Passive(t) ELSE u
  OBVIOUS
<1>2. \A u \in pending : Expected(f[u]) = Expected(u)
  BY <1>1, PassiveType DEF TypeInv
<1>3. pending' = (pending \ {t}) \cup { Passive(t) }
  BY DEF PolicyDone, Passive
<1>4. pending' = { f[u] : u \in pending }
  BY <1>1, <1>3
<1>5. UNCHANGED << cursor, replay, resample, buffer, accepted, closed >>
  BY DEF PolicyDone
<1> HIDE DEF f
<1> QED
  BY <1>2, <1>4, <1>5, InPlaceOnce

(* A weight update under the tasks in flight.                              *)
LEMMA UpdateOnce ==
  ASSUME TypeInv, Placement, EachOnce, UpdateWeights
  PROVE  Placement' /\ EachOnce'
<1> DEFINE f == [ u \in pending |-> Under(u, version # rid - 1) ]
<1>1. \A u \in pending : f[u] = Under(u, version # rid - 1)
  OBVIOUS
<1>2. \A u \in pending : Expected(f[u]) = Expected(u)
  BY <1>1, UnderType DEF TypeInv
<1>3. pending' = { Under(u, version # rid - 1) : u \in pending }
  BY DEF UpdateWeights, Under
<1>4. pending' = { f[u] : u \in pending }
  BY <1>1, <1>3
<1>5. UNCHANGED << cursor, replay, resample, buffer, accepted, closed >>
  BY DEF UpdateWeights
<1> HIDE DEF f
<1> QED
  BY <1>2, <1>4, <1>5, InPlaceOnce

(* A harvested task's groups go three ways, each to one of them.           *)
LEMMA HarvestOnce ==
  ASSUME TypeInv, Placement, EachOnce, Harvest
  PROVE  Placement' /\ EachOnce'
<1>1. PICK t \in pending : ReapStale(t) \/ ReapResult(t)
  BY DEF Harvest
<1>2. /\ pending' = pending \ {t} /\ UNCHANGED << cursor, replay, accepted >>
  BY <1>1 DEF ReapStale, ReapResult, Reap
<1>3. /\ InFlight' = InFlight \ Expected(t) /\ Expected(t) \subseteq InFlight
      /\ NoOverlap(pending')
  BY <1>2, ExpectedRemove DEF EachOnce, InFlight
<1>4. /\ Restored' = Restored /\ NoOverlap(replay')
      /\ Drawn(cursor)' = Drawn(cursor) /\ accepted' = accepted
  BY <1>2 DEF Restored, EachOnce
<1>5. CASE ReapStale(t)
  <2>1. /\ closed' = closed \cup Expected(t)
        /\ UNCHANGED << resample, buffer >>
    BY <1>5 DEF ReapStale
  <2>2. Queued' = Queued /\ Held' = Held
    BY <2>1 DEF Queued, Held
  <2>3. Placement'
    BY <1>3, <1>4, <2>1, <2>2 DEF Placement, Six, Disjoint
  <2>4. EachOnce'
    BY <1>3, <1>4, <2>1 DEF EachOnce
  <2> QED
    BY <2>3, <2>4
<1>6. CASE ReapResult(t)
  <2>1. PICK outcome \in Outcomes(t) :
          LET valid == { k \in t.kinds : outcome[k] = "valid" }
              again == { k \in t.kinds : /\ outcome[k] = "no variance"
                                         /\ t.attempt < ResampleLimit }
          IN  /\ buffer' = buffer \o Rows(t, valid)
              /\ resample' = resample \o Again(t, again)
              /\ closed' = closed \cup
                   ({ t.src } \X (t.kinds \ (valid \cup again)))
    BY <1>6 DEF ReapResult, Rows, Again
  <2> DEFINE valid == { k \in t.kinds : outcome[k] = "valid" }
             again == { k \in t.kinds : /\ outcome[k] = "no variance"
                                        /\ t.attempt < ResampleLimit }
             rest == t.kinds \ (valid \cup again)
             Of(S) == { t.src } \X S
  <2>2. valid \in SUBSET t.kinds /\ again \in SUBSET t.kinds
    OBVIOUS
  <2>3. valid \cap again = {}
    OBVIOUS
  <2>4. /\ buffer' = buffer \o Rows(t, valid)
        /\ resample' = resample \o Again(t, again)
        /\ closed' = closed \cup Of(rest)
    BY <2>1
  <2> HIDE DEF valid, again
  <2>5. /\ Of(valid) \cap Of(again) = {} /\ Of(valid) \cap Of(rest) = {}
        /\ Of(again) \cap Of(rest) = {}
        /\ Of(valid) \cup Of(again) \cup Of(rest) = Expected(t)
    BY <2>2, <2>3 DEF Expected
  <2>6. t \in Tasks
    BY DEF TypeInv
  <2>7. /\ Rows(t, valid) \in Seq(Carried)
        /\ Apart(Rows(t, valid), OfCarried)
        /\ GroupsOf(Rows(t, valid)) = Of(valid)
    BY <2>2, <2>6, RowsAre
  <2>8. /\ Again(t, again) \in Seq(Descriptors)
        /\ Apart(Again(t, again), OfDescriptor)
        /\ ExpectedOf(ToSet(Again(t, again))) = Of(again)
    BY <2>2, <2>6, AgainIs
  <2> HIDE DEF Of, rest
  <2>9. Expected(t) \cap Held = {} /\ Expected(t) \cap Queued = {}
    BY <1>3 DEF Placement, Six, Disjoint
  <2>10. Held' = Held \cup Of(valid) /\ Apart(buffer', OfCarried)
    <3>1. buffer \in Seq(Carried) /\ Apart(buffer, OfCarried)
      BY DEF TypeInv, EachOnce
    <3>2. ToSet(buffer') = ToSet(buffer) \cup ToSet(Rows(t, valid))
      BY <2>4, <2>7, <3>1, ToSetConcat
    <3>3. GroupsOf(buffer') = GroupsOf(buffer) \cup GroupsOf(Rows(t, valid))
      BY <3>2 DEF GroupsOf
    <3>4. Cover(buffer, OfCarried) \cap Cover(Rows(t, valid), OfCarried) = {}
      BY <2>5, <2>7, <2>9, <3>1, BufferGroups DEF Held
    <3>5. Apart(buffer', OfCarried)
      BY <2>4, <2>7, <3>1, <3>4, ApartConcat
    <3> QED
      BY <2>7, <3>3, <3>5 DEF Held
  <2>11. Queued' = Queued \cup Of(again) /\ Apart(resample', OfDescriptor)
    <3>1. resample \in Seq(Descriptors) /\ Apart(resample, OfDescriptor)
      BY DEF TypeInv, EachOnce
    <3>2. ToSet(resample') = ToSet(resample) \cup ToSet(Again(t, again))
      BY <2>4, <2>8, <3>1, ToSetConcat
    <3>3. ExpectedOf(ToSet(resample'))
            = ExpectedOf(ToSet(resample)) \cup Of(again)
      BY <2>8, <3>2, ExpectedUnion
    <3>4. Cover(resample, OfDescriptor)
            \cap Cover(Again(t, again), OfDescriptor) = {}
      BY <2>5, <2>8, <2>9, <3>1, QueueExpected DEF Queued
    <3>5. Apart(resample', OfDescriptor)
      BY <2>4, <2>8, <3>1, <3>4, ApartConcat
    <3> QED
      BY <3>3, <3>5 DEF Queued
  <2>12. Placement'
    BY <1>3, <1>4, <2>4, <2>5, <2>10, <2>11 DEF Placement, Six, Disjoint
  <2>13. EachOnce'
    BY <1>3, <1>4, <2>10, <2>11 DEF EachOnce
  <2> QED
    BY <2>12, <2>13
<1> QED
  BY <1>1, <1>5, <1>6

(* The head of a queue accounts for other groups than the rest of it.      *)
LEMMA QueueHead ==
  ASSUME NEW q \in Seq(Descriptors), q # << >>, Apart(q, OfDescriptor)
  PROVE  /\ Expected(Head(q)) \cap ExpectedOf(ToSet(Tail(q))) = {}
         /\ Expected(Head(q)) \cup ExpectedOf(ToSet(Tail(q)))
              = ExpectedOf(ToSet(q))
         /\ Apart(Tail(q), OfDescriptor)
<1>1. /\ Head(q) \in Descriptors /\ Tail(q) \in Seq(Descriptors)
      /\ Len(q) \in Nat \ {0} /\ Tail(q) = SubSeq(q, 2, Len(q))
  BY HeadAndTail
<1>2. 1 \in 0 .. Len(q) /\ 1 + 1 = 2
  BY <1>1
<1> DEFINE a == SubSeq(q, 1, 1)
           b == SubSeq(q, 1 + 1, Len(q))
<1>3. /\ a \in Seq(Descriptors) /\ ToSet(a) = { q[i] : i \in 1 .. 1 }
  BY <1>2, ToSetSplit
<1>4. /\ Cover(a, OfDescriptor) \cap Cover(b, OfDescriptor) = {}
      /\ Cover(a, OfDescriptor) \cup Cover(b, OfDescriptor)
           = Cover(q, OfDescriptor)
      /\ Apart(b, OfDescriptor)
  BY <1>2, ApartSplit
<1>5. b = Tail(q)
  BY <1>1, <1>2
<1> HIDE DEF a, b
<1>6. ToSet(a) = { Head(q) }
  <2>1. q[1] = Head(q)
    BY <1>1
  <2>2. 1 .. 1 = {1}
    OBVIOUS
  <2> QED
    BY <1>3, <2>1, <2>2
<1>7. /\ Cover(a, OfDescriptor) = Expected(Head(q))
      /\ Cover(b, OfDescriptor) = ExpectedOf(ToSet(Tail(q)))
      /\ Cover(q, OfDescriptor) = ExpectedOf(ToSet(q))
  BY <1>1, <1>3, <1>5, <1>6, QueueExpected, ExpectedOne
<1> QED
  BY <1>4, <1>5, <1>7

(* A resample goes from the queue into flight.                             *)
LEMMA ResampleOnce ==
  ASSUME TypeInv, Placement, EachOnce, SubmitResample
  PROVE  Placement' /\ EachOnce'
<1> DEFINE d == Head(resample)
           G == Expected(d)
<1>1. /\ resample # << >> /\ resample' = Tail(resample)
      /\ pending' = pending \cup { Dispatched(d) }
      /\ UNCHANGED << cursor, replay, buffer, accepted, closed >>
  BY DEF SubmitResample
<1>2. /\ resample \in Seq(Descriptors) /\ Apart(resample, OfDescriptor)
      /\ NoOverlap(pending)
  BY DEF TypeInv, EachOnce
<1>3. d \in Descriptors
  BY <1>1, <1>2, HeadAndTail
<1>4. /\ G \cap Queued' = {} /\ G \cup Queued' = Queued
      /\ Apart(resample', OfDescriptor)
  BY <1>1, <1>2, QueueHead DEF Queued
<1> HIDE DEF d
<1>5. Expected(Dispatched(d)) = G
  BY <1>3, DispatchedType
<1> HIDE DEF G
<1>6. InFlight \cap G = {}
  BY <1>4 DEF Placement, Six, Disjoint
<1>7. InFlight' = InFlight \cup G /\ NoOverlap(pending')
  <2>1. /\ ExpectedOf({ Dispatched(d) }) = G
        /\ NoOverlap({ Dispatched(d) })
    BY <1>5, ExpectedOne
  <2> QED
    BY <1>1, <1>2, <1>6, <2>1, ExpectedUnion, ExpectedMerge DEF InFlight
<1>8. /\ Restored' = Restored /\ Held' = Held
      /\ Drawn(cursor)' = Drawn(cursor)
      /\ accepted' = accepted /\ closed' = closed
  BY <1>1 DEF Restored, Held
<1>9. Placement'
  BY <1>4, <1>6, <1>7, <1>8 DEF Placement, Six, Disjoint
<1>10. EachOnce'
  BY <1>1, <1>4, <1>7 DEF EachOnce
<1> QED
  BY <1>9, <1>10

(* A draw adds the groups of one instance.                                 *)
LEMMA DrawnNext ==
  ASSUME NEW n \in Nat
  PROVE  /\ Drawn(n + 1) = Drawn(n) \cup ({n} \X Kinds)
         /\ Drawn(n) \cap ({n} \X Kinds) = {}
<1>1. 0 .. (n + 1) - 1 = (0 .. n - 1) \cup {n} /\ n \notin 0 .. n - 1
  OBVIOUS
<1> DEFINE a == 0 .. n - 1
           b == 0 .. (n + 1) - 1
<1>2. b = a \cup {n} /\ n \notin a
  BY <1>1
<1>3. Drawn(n + 1) = b \X Kinds /\ Drawn(n) = a \X Kinds
  BY DEF Drawn
<1> HIDE DEF a, b
<1> QED
  BY <1>2, <1>3

(* A fresh instance goes into flight, or is given up where it is drawn.    *)
LEMMA FreshOnce ==
  ASSUME TypeInv, Placement, EachOnce, NEW e \in BOOLEAN, SubmitFresh(e)
  PROVE  Placement' /\ EachOnce'
<1> DEFINE d == [ src |-> cursor, kinds |-> Kinds, attempt |-> 0 ]
           G == {cursor} \X Kinds
<1>1. /\ cursor' = cursor + 1
      /\ UNCHANGED << replay, resample, buffer, accepted >>
      /\ \/ /\ pending' = pending \cup { Dispatched(d) }
            /\ closed' = closed
         \/ closed' = closed \cup G /\ pending' = pending
  BY DEF SubmitFresh
<1>2. Drawn(cursor)' = Drawn(cursor) \cup G /\ Drawn(cursor) \cap G = {}
  <2>1. Drawn(cursor)' = Drawn(cursor + 1)
    BY <1>1 DEF Drawn
  <2> QED
    BY <2>1, DrawnNext DEF TypeInv
<1>3. Expected(Dispatched(d)) = G
  <2>1. d \in Descriptors
    BY KindsType DEF TypeInv, Descriptors
  <2>2. Expected(d) = G
    BY DEF Expected
  <2> HIDE DEF d
  <2> QED
    BY <2>1, <2>2, DispatchedType
<1> HIDE DEF d, G
<1>4. /\ Restored' = Restored /\ Queued' = Queued /\ Held' = Held
      /\ accepted' = accepted
  BY <1>1 DEF Restored, Queued, Held
<1>5. /\ InFlight \cap G = {} /\ Restored \cap G = {} /\ Queued \cap G = {}
      /\ Held \cap G = {} /\ accepted \cap G = {} /\ closed \cap G = {}
  BY <1>2 DEF Placement, Six
<1>6. CASE pending' = pending \cup { Dispatched(d) } /\ closed' = closed
  <2>1. /\ ExpectedOf({ Dispatched(d) }) = G /\ NoOverlap({ Dispatched(d) })
        /\ NoOverlap(pending)
    BY <1>3, ExpectedOne DEF EachOnce
  <2>2. InFlight' = InFlight \cup G /\ NoOverlap(pending')
    BY <1>5, <1>6, <2>1, ExpectedUnion, ExpectedMerge DEF InFlight
  <2>3. Placement'
    BY <1>2, <1>4, <1>5, <1>6, <2>2 DEF Placement, Six, Disjoint
  <2>4. EachOnce'
    BY <1>1, <2>2 DEF EachOnce
  <2> QED
    BY <2>3, <2>4
<1>7. CASE closed' = closed \cup G /\ pending' = pending
  <2>1. InFlight' = InFlight
    BY <1>7 DEF InFlight
  <2>2. Placement'
    BY <1>2, <1>4, <1>5, <1>7, <2>1 DEF Placement, Six, Disjoint
  <2>3. EachOnce'
    BY <1>1, <1>7 DEF EachOnce
  <2> QED
    BY <2>2, <2>3
<1> QED
  BY <1>1, <1>6, <1>7

(* A batch is the front of the buffer.                                     *)
LEMMA PopOnce ==
  ASSUME TypeInv, Placement, EachOnce, PopBatch
  PROVE  Placement' /\ EachOnce'
<1> DEFINE a == SubSeq(buffer, 1, Batch)
           b == SubSeq(buffer, Batch + 1, Len(buffer))
<1>1. /\ BatchReady /\ accepted' = accepted \cup GroupsOf(a) /\ buffer' = b
      /\ UNCHANGED << cursor, pending, replay, resample, closed >>
  BY DEF PopBatch
<1>2. /\ buffer \in Seq(Carried) /\ Apart(buffer, OfCarried)
      /\ Batch \in 0 .. Len(buffer)
  BY <1>1, BatchInBuffer DEF TypeInv, EachOnce
<1>3. a \in Seq(Carried) /\ b \in Seq(Carried)
  BY <1>2, ToSetSplit
<1>4. /\ Cover(a, OfCarried) \cap Cover(b, OfCarried) = {}
      /\ Cover(a, OfCarried) \cup Cover(b, OfCarried) = Cover(buffer, OfCarried)
      /\ Apart(b, OfCarried)
  BY <1>2, ApartSplit
<1> HIDE DEF a, b
<1>5. GroupsOf(a) \cap Held' = {} /\ GroupsOf(a) \cup Held' = Held
  BY <1>1, <1>2, <1>3, <1>4, BufferGroups DEF Held
<1>6. /\ InFlight' = InFlight /\ Restored' = Restored /\ Queued' = Queued
      /\ Drawn(cursor)' = Drawn(cursor) /\ closed' = closed
  BY <1>1 DEF InFlight, Restored, Queued
<1>7. Placement'
  BY <1>1, <1>5, <1>6 DEF Placement, Six, Disjoint
<1>8. EachOnce'
  BY <1>1, <1>4 DEF EachOnce
<1> QED
  BY <1>7, <1>8

(* What is left at the end of the budget is given up.                      *)
LEMMA StopOnce ==
  ASSUME Placement, EachOnce, StopAtBudget
  PROVE  Placement' /\ EachOnce'
<1>1. /\ closed' = closed \cup Held /\ buffer' = << >>
      /\ UNCHANGED << cursor, pending, replay, resample, accepted >>
  BY DEF StopAtBudget, Held
<1>2. Held' = {} /\ Apart(buffer', OfCarried)
  BY <1>1 DEF Held, GroupsOf, ToSet, Apart
<1>3. /\ InFlight' = InFlight /\ Restored' = Restored /\ Queued' = Queued
      /\ Drawn(cursor)' = Drawn(cursor) /\ accepted' = accepted
  BY <1>1 DEF InFlight, Restored, Queued
<1>4. Placement'
  BY <1>1, <1>2, <1>3 DEF Placement, Six, Disjoint
<1>5. EachOnce'
  BY <1>1, <1>2 DEF EachOnce
<1> QED
  BY <1>4, <1>5

(* What is live, in descriptors: everything that is not yet decided and    *)
(* not in the buffer.                                                      *)
LEMMA LiveOnce ==
  ASSUME TypeInv, Placement, EachOnce
  PROVE  /\ ExpectedOf(Live) = InFlight \cup Restored \cup Queued
         /\ NoOverlap(Live)
<1> DEFINE f == [ t \in pending |-> Descriptor(t) ]
           D == { Descriptor(t) : t \in pending }
<1>1. ExpectedOf(D) = InFlight /\ NoOverlap(D)
  <2>1. \A t \in pending : f[t] = Descriptor(t)
    OBVIOUS
  <2>2. \A t \in pending : Expected(f[t]) = Expected(t)
    BY <2>1, DescriptorType DEF TypeInv
  <2>3. D = { f[t] : t \in pending }
    BY <2>1
  <2> HIDE DEF f, D
  <2> QED
    BY <2>2, <2>3, ExpectedImage DEF EachOnce, InFlight
<1>2. Live = (D \cup replay) \cup ToSet(resample)
  BY DEF Live
<1> HIDE DEF D
<1>3. NoOverlap(replay) /\ NoOverlap(ToSet(resample))
  BY QueueExpected DEF EachOnce, TypeInv
<1>4. /\ InFlight \cap Restored = {} /\ InFlight \cap Queued = {}
      /\ Restored \cap Queued = {}
  BY DEF Placement, Six, Disjoint
<1>5. /\ ExpectedOf(D \cup replay) = InFlight \cup Restored
      /\ NoOverlap(D \cup replay)
  BY <1>1, <1>3, <1>4, ExpectedUnion, ExpectedMerge DEF Restored
<1>6. (InFlight \cup Restored) \cap Queued = {}
  BY <1>4
<1> QED
  BY <1>2, <1>3, <1>5, <1>6, ExpectedUnion, ExpectedMerge DEF Queued

(* At the terminal batch everything open is given up.                      *)
LEMMA DiscardOnce ==
  ASSUME TypeInv, Placement, EachOnce, DiscardTerminal
  PROVE  Placement' /\ EachOnce'
<1>1. /\ closed' = closed \cup ExpectedOf(Live) \cup Held
      /\ pending' = {} /\ replay' = {} /\ resample' = << >>
      /\ buffer' = << >> /\ UNCHANGED << cursor, accepted >>
  BY DEF DiscardTerminal, Held
<1>2. ExpectedOf(Live) = InFlight \cup Restored \cup Queued
  BY LiveOnce
<1>3. \A s : s = << >> => ToSet(s) = {} /\ DOMAIN s = {}
  BY DEF ToSet
<1>4. /\ InFlight' = {} /\ Restored' = {} /\ Queued' = {} /\ Held' = {}
  BY <1>1, <1>3, ExpectedOne DEF InFlight, Restored, Queued, Held, GroupsOf
<1>5. Drawn(cursor)' = Drawn(cursor) /\ accepted' = accepted
  BY <1>1
<1>6. Placement'
  BY <1>1, <1>2, <1>4, <1>5 DEF Placement, Six, Disjoint
<1>7. EachOnce'
  BY <1>1, <1>3, ExpectedOne DEF EachOnce, Apart
<1> QED
  BY <1>6, <1>7

(* A checkpoint takes everything along ...                                 *)
LEMMA CheckpointOnce ==
  ASSUME TypeInv, OnceInv, Checkpoint
  PROVE  SavedOnce'
<1>1. /\ saved'.tasks = Live /\ saved'.buffer = buffer
      /\ saved'.accepted = accepted /\ saved'.closed = closed
      /\ saved'.cursor = cursor
  BY DEF Checkpoint, CheckpointState
<1>2. /\ ExpectedOf(Live) = InFlight \cup Restored \cup Queued
      /\ NoOverlap(Live) /\ Placement /\ Apart(buffer, OfCarried)
  BY LiveOnce DEF OnceInv, EachOnce
<1>3. Four(ExpectedOf(Live), Held, accepted, closed, Drawn(cursor))
  BY <1>2 DEF Placement, Six, Four, Disjoint
<1> QED
  BY <1>1, <1>2, <1>3 DEF SavedOnce, Held

(* ... and a restart puts it back, every task to be replayed.              *)
LEMMA LoadOnce ==
  ASSUME SavedOnce, CrashAndLoad
  PROVE  Placement' /\ EachOnce'
<1>1. /\ cursor' = saved.cursor /\ pending' = {} /\ replay' = saved.tasks
      /\ resample' = << >> /\ buffer' = saved.buffer
      /\ accepted' = saved.accepted /\ closed' = saved.closed
  BY DEF CrashAndLoad
<1>2. \A s : s = << >> => ToSet(s) = {} /\ DOMAIN s = {}
  BY DEF ToSet
<1>3. /\ InFlight' = {} /\ Restored' = ExpectedOf(saved.tasks)
      /\ Queued' = {} /\ Held' = GroupsOf(saved.buffer)
      /\ Drawn(cursor)' = Drawn(saved.cursor)
  BY <1>1, <1>2, ExpectedOne DEF InFlight, Restored, Queued, Held, Drawn
<1>4. Placement'
  BY <1>1, <1>3 DEF SavedOnce, Placement, Six, Four, Disjoint
<1>5. EachOnce'
  BY <1>1, <1>2, ExpectedOne DEF SavedOnce, EachOnce, Apart
<1> QED
  BY <1>4, <1>5

(* One step per action.                                                    *)
LEMMA OnceNext == TypeInv /\ OnceInv /\ [Next]_vars => OnceInv'
<1> SUFFICES ASSUME TypeInv, OnceInv, [Next]_vars PROVE OnceInv'
  OBVIOUS
<1>1. Placement /\ EachOnce /\ SavedOnce
  BY DEF OnceInv
<1>2. ASSUME Placement', EachOnce', UNCHANGED saved PROVE OnceInv'
  BY <1>1, <1>2 DEF OnceInv, SavedOnce
<1>3. ASSUME UNCHANGED << cursor, work, accepted, closed >>
      PROVE  Placement' /\ EachOnce'
  BY <1>1, <1>3
     DEF work, Placement, EachOnce, InFlight, Restored, Queued, Held
<1>4. CASE StartGenerate \/ ResumeGenerate
  <2>1. Enter /\ UNCHANGED saved
    BY <1>4 DEF StartGenerate, ResumeGenerate, Enter
  <2> QED
    BY <1>1, <1>2, <2>1, EnterOnce
<1>5. CASE Harvest
  <2>1. UNCHANGED saved
    BY <1>5 DEF Harvest, ReapStale, ReapResult, Reap
  <2> QED
    BY <1>1, <1>2, <1>5, <2>1, HarvestOnce
<1>6. CASE \/ EndHarvest \/ EndSubmit \/ KeepWaiting \/ SubmitHitsBudget
           \/ SubmitHitsBoundary \/ FullBatchHitsBoundary
           \/ UNCHANGED vars
  <2>1. UNCHANGED << cursor, work, accepted, closed, saved >>
    BY <1>6
       DEF EndHarvest, EndSubmit, KeepWaiting, SubmitHitsBudget,
           SubmitHitsBoundary, FullBatchHitsBoundary, vars
  <2> QED
    BY <1>2, <1>3, <2>1
<1>7. CASE SubmitResample
  <2>1. UNCHANGED saved
    BY <1>7 DEF SubmitResample
  <2> QED
    BY <1>1, <1>2, <1>7, <2>1, ResampleOnce
<1>8. CASE \E e \in BOOLEAN : SubmitFresh(e)
  <2>1. UNCHANGED saved
    BY <1>8 DEF SubmitFresh
  <2> QED
    BY <1>1, <1>2, <1>8, <2>1, FreshOnce
<1>9. CASE StopAtBudget
  <2>1. UNCHANGED saved
    BY <1>9 DEF StopAtBudget
  <2> QED
    BY <1>1, <1>2, <1>9, <2>1, StopOnce
<1>10. CASE PopBatch
  <2>1. UNCHANGED saved
    BY <1>10 DEF PopBatch
  <2> QED
    BY <1>1, <1>2, <1>10, <2>1, PopOnce
<1>11. CASE UpdateWeights
  <2>1. UNCHANGED saved
    BY <1>11 DEF UpdateWeights
  <2> QED
    BY <1>1, <1>2, <1>11, <2>1, UpdateOnce
<1>12. CASE DiscardTerminal
  <2>1. UNCHANGED saved
    BY <1>12 DEF DiscardTerminal
  <2> QED
    BY <1>1, <1>2, <1>12, <2>1, DiscardOnce
<1>13. CASE Checkpoint
  <2>1. UNCHANGED << cursor, work, accepted, closed >>
    BY <1>13 DEF Checkpoint
  <2> QED
    BY <1>3, <1>13, <2>1, CheckpointOnce DEF OnceInv
<1>14. CASE CrashAndLoad
  <2>1. UNCHANGED saved
    BY <1>14 DEF CrashAndLoad
  <2> QED
    BY <1>1, <1>2, <1>14, <2>1, LoadOnce
<1>15. CASE \E t \in pending : PolicyDone(t)
  <2>1. UNCHANGED saved
    BY <1>15 DEF PolicyDone
  <2> QED
    BY <1>1, <1>2, <1>15, <2>1, PolicyOnce
<1> QED
  BY <1>4, <1>5, <1>6, <1>7, <1>8, <1>9, <1>10, <1>11, <1>12, <1>13, <1>14,
     <1>15
     DEF Next, Collect

-----------------------------------------------------------------------------
(* What a boundary interrupts can be resumed.                              *)

(* A later attempt has no earlier boundary.                                *)
LEMMA BoundaryMonotonic ==
  ASSUME NEW m \in Nat, NEW n \in Nat, m <= n
  PROVE  BoundaryAt(m) <= BoundaryAt(n)
<1> DEFINE p == m \div Interval
           q == n \div Interval
<1>1. Interval \in Nat \ {0}
  BY LanesAssumption
<1>2. /\ p \in Nat /\ q \in Nat
      /\ p * Interval <= m /\ n < (q + 1) * Interval
  BY <1>1
<1> HIDE DEF p, q
<1>3. p * Interval < (q + 1) * Interval
  BY <1>1, <1>2
<1>4. p < q + 1
  BY <1>1, <1>2, <1>3
<1>5. p <= q
  BY <1>2, <1>4
<1>6. p * Interval <= q * Interval
  BY <1>1, <1>2, <1>5
<1> QED
  BY <1>6 DEF BoundaryAt, p, q

(* Tasks are finitely many; what was restored is dispatched by the first   *)
(* step of a call; nothing is preserved outside one; and a boundary that   *)
(* is raised was crossed.                                                  *)
PartialInv ==
  /\ IsFiniteSet(pending) /\ IsFiniteSet(replay) /\ IsFiniteSet(saved.tasks)
  /\ pc \in {"harvest", "submit", "check", "boundary"} => replay = {}
  /\ pc \in {"idle", "prefetch", "returned", "batch", "stopped"} =>
       partial = NoPartial
  /\ saved.partial = NoPartial
  /\ boundary \in Nat /\ boundary <= BoundaryAt(cursor)
  /\ saved.boundary \in Nat /\ saved.boundary <= BoundaryAt(saved.cursor)
  /\ pc = "boundary" =>
       /\ partial = [ rid |-> rid, boundary |-> boundary,
                      groups |-> BufferKinds(buffer),
                      tasks |-> Cardinality(pending) + Len(resample) ]
       /\ \A b \in ToSet(buffer) : ~ Stale(b)

(* That is all the resume check asks for.                                  *)
LEMMA PartialResumes == PartialInv => PartialResumable
<1> SUFFICES ASSUME PartialInv PROVE PartialResumable
  OBVIOUS
<1>1. pc = "boundary" =>
        partial.tasks
          = Cardinality(pending) + Cardinality(replay) + Len(resample)
  <2> SUFFICES ASSUME pc = "boundary"
               PROVE  partial.tasks = Cardinality(pending)
                        + Cardinality(replay) + Len(resample)
    OBVIOUS
  <2>1. partial.tasks = Cardinality(pending) + Len(resample) /\ replay = {}
    BY DEF PartialInv
  <2>2. Cardinality(replay) = 0
    BY <2>1, FS_EmptySet
  <2>3. Cardinality(pending) \in Nat
    BY FS_CardinalityType DEF PartialInv
  <2>4. Cardinality(pending) + 0 = Cardinality(pending)
    BY <2>3
  <2> QED
    BY <2>1, <2>2, <2>4
<1>2. pc = "boundary" =>
        /\ partial.rid = rid /\ partial.boundary = boundary
        /\ boundary <= BoundaryAt(cursor)
        /\ \A b \in ToSet(buffer) : ~ Stale(b)
        /\ partial.groups = BufferKinds(buffer)
  BY DEF PartialInv
<1>3. pc \in {"idle", "batch", "stopped"} => partial = NoPartial
  BY DEF PartialInv
<1> QED
  BY <1>1, <1>2, <1>3 DEF PartialResumable

(* What a finite set is turned into is finite.                             *)
LEMMA FiniteImage ==
  ASSUME NEW S, NEW f, IsFiniteSet(S)
  PROVE  IsFiniteSet({ f[x] : x \in S })
<1> DEFINE T == { f[x] : x \in S }
           g == [ x \in S |-> f[x] ]
<1>1. g \in [ S -> T ] /\ \A y \in T : \E x \in S : g[x] = y
  OBVIOUS
<1> HIDE DEF g, T
<1>2. g \in Surjection(S, T)
  BY <1>1 DEF Surjection
<1>3. IsFiniteSet(T)
  BY <1>2, FS_Surjection
<1> QED
  BY <1>3 DEF T

(* What is live is finite.                                                 *)
LEMMA LiveFinite ==
  ASSUME TypeInv, IsFiniteSet(pending), IsFiniteSet(replay)
  PROVE  IsFiniteSet(Live)
<1> DEFINE f == [ t \in pending |-> Descriptor(t) ]
           D == { Descriptor(t) : t \in pending }
           N == Len(resample)
<1>1. IsFiniteSet(D)
  <2>1. D = { f[t] : t \in pending }
    OBVIOUS
  <2> HIDE DEF f, D
  <2> QED
    BY <2>1, FiniteImage
<1>2. IsFiniteSet(ToSet(resample))
  <2>1. N \in Nat /\ DOMAIN resample = 1 .. N
    BY LenProperties DEF TypeInv
  <2>2. IsFiniteSet(1 .. N)
    BY <2>1, FS_Interval
  <2>3. ToSet(resample) = { resample[i] : i \in 1 .. N }
    BY <2>1 DEF ToSet
  <2> HIDE DEF N
  <2> DEFINE I == 1 .. N
  <2> HIDE DEF I
  <2>4. IsFiniteSet({ resample[i] : i \in I })
    BY <2>2, FiniteImage DEF I
  <2> QED
    BY <2>3, <2>4 DEF I
<1>3. Live = (D \cup replay) \cup ToSet(resample)
  BY DEF Live
<1> HIDE DEF D
<1> QED
  BY <1>1, <1>2, <1>3, FS_Union

(* The first state has no work and no boundary.                            *)
LEMMA PartialInit == Init => PartialInv
<1> SUFFICES ASSUME Init PROVE PartialInv
  OBVIOUS
<1>1. /\ pc = "idle" /\ pending = {} /\ replay = {} /\ resample = << >>
      /\ partial = NoPartial /\ boundary = 0 /\ cursor = 0
  BY DEF Init
<1>2. IsFiniteSet({}) /\ BoundaryAt(0) \in Nat
  BY FS_EmptySet, BoundaryType
<1>3. 0 <= BoundaryAt(0)
  BY <1>2
<1>4. Live = {}
  BY <1>1 DEF Live, ToSet
<1>5. /\ saved.tasks = {} /\ saved.partial = NoPartial /\ saved.boundary = 0
      /\ saved.cursor = 0
  BY <1>1, <1>4 DEF Init, CheckpointState
<1> QED
  BY <1>1, <1>2, <1>3, <1>5 DEF PartialInv

(* What a call that has nothing left to restore preserves is what it holds. *)
LEMMA PreservePartial ==
  ASSUME NEW raised \in Nat, Preserve(raised), raised <= BoundaryAt(cursor'),
         IsFiniteSet(pending'), replay' = {},
         UNCHANGED << rid, resample, saved >>, PartialInv,
         \A b \in ToSet(buffer') : ~ Stale(b), version' = version
  PROVE  PartialInv'
<1>1. /\ pc' = "boundary" /\ boundary' = raised
      /\ partial' = [ rid |-> rid, boundary |-> raised,
                      groups |-> BufferKinds(buffer'),
                      tasks |-> Cardinality(pending') + Len(resample) ]
  BY DEF Preserve
<1>2. partial' = [ rid |-> rid', boundary |-> boundary',
                   groups |-> BufferKinds(buffer'),
                   tasks |-> Cardinality(pending') + Len(resample') ]
  BY <1>1
<1>3. \A b \in ToSet(buffer') :
        ~ (b.rid < rid' - 1 \/ rid' - 1 - b.ver > 1)
  BY DEF Stale, StaleLag
<1>4. IsFiniteSet(replay')
  BY FS_EmptySet
<1>5. boundary' \in Nat /\ boundary' <= BoundaryAt(cursor')
  BY <1>1
<1>6. /\ IsFiniteSet(saved'.tasks) /\ saved'.partial = NoPartial
      /\ saved'.boundary \in Nat
      /\ saved'.boundary <= BoundaryAt(saved'.cursor)
  BY DEF PartialInv
<1> QED
  BY <1>1, <1>2, <1>3, <1>4, <1>5, <1>6
     DEF PartialInv, Stale, StaleLag, BoundaryAt, BufferKinds, NoPartial

(* Every step keeps what the resume relies on: one step per action.        *)
LEMMA PartialNext ==
  TypeInv /\ FreshInv /\ PartialInv /\ [Next]_vars => PartialInv'
<1> SUFFICES ASSUME TypeInv, FreshInv, PartialInv, [Next]_vars
             PROVE  PartialInv'
  OBVIOUS
<1>1. ASSUME pc' # "boundary", UNCHANGED saved,
             IsFiniteSet(pending'), IsFiniteSet(replay'),
             pc' \in {"harvest", "submit", "check"} => replay' = {},
             pc' \in {"idle", "prefetch", "returned", "batch", "stopped"} =>
               partial' = NoPartial,
             boundary' \in Nat, boundary' <= BoundaryAt(cursor)'
      PROVE  PartialInv'
  BY <1>1 DEF PartialInv, NoPartial, BoundaryAt
<1>2. /\ IsFiniteSet(pending) /\ IsFiniteSet(replay) /\ IsFiniteSet({})
      /\ boundary \in Nat /\ boundary <= BoundaryAt(cursor)
      /\ BoundaryAt(cursor) \in Nat
  BY FS_EmptySet, BoundaryType DEF PartialInv, TypeInv
<1>3. CASE StartGenerate \/ ResumeGenerate
  <2>1. Enter /\ (scheduled' = scheduled \/ scheduled' = BoundaryAt(cursor))
    BY <1>3 DEF StartGenerate, ResumeGenerate
  <2>2. /\ buffer' = FreshBuffer /\ pending' = pending \cup Replayed
        /\ replay' = {}
        /\ UNCHANGED << rid, version, cursor, resample, saved >>
    BY <2>1 DEF Enter
  <2>3. \A b \in ToSet(buffer') : ~ Stale(b)
    BY <2>2, FreshBufferIs DEF TypeInv
  <2>4. IsFiniteSet(pending')
    <3> DEFINE f == [ d \in replay |-> Dispatched(d) ]
    <3>1. Replayed = { f[d] : d \in replay }
      BY DEF Replayed
    <3> HIDE DEF f
    <3>2. IsFiniteSet(Replayed)
      BY <1>2, <3>1, FiniteImage
    <3> QED
      BY <1>2, <2>2, <3>2, FS_Union
  <2>5. OpenBoundary \in Nat /\ OpenBoundary <= BoundaryAt(cursor)
    BY <1>2 DEF OpenBoundary
  <2>6. CASE Preserve(OpenBoundary)
    BY <2>2, <2>3, <2>4, <2>5, <2>6, PreservePartial
  <2>7. CASE Preserve(BoundaryAt(cursor))
    BY <1>2, <2>2, <2>3, <2>4, <2>7, PreservePartial
  <2>8. CASE pc' = "harvest" /\ boundary' = 0
    <3>1. BoundaryAt(cursor)' = BoundaryAt(cursor)
      BY <2>2
    <3>2. boundary' \in Nat /\ boundary' <= BoundaryAt(cursor)'
      BY <1>2, <2>8, <3>1
    <3> QED
      BY <1>1, <1>2, <2>2, <2>4, <2>8, <3>2
  <2> QED
    BY <2>1, <2>6, <2>7, <2>8 DEF Enter
<1>4. CASE Harvest
  <2>1. PICK t \in pending : Reap(t)
    BY <1>4 DEF Harvest, ReapStale, ReapResult
  <2>2. /\ pc = "harvest" /\ pc' = pc /\ pending' = pending \ {t}
        /\ UNCHANGED << cursor, replay, boundary, saved >>
    BY <2>1 DEF Reap
  <2>3. IsFiniteSet(pending')
    BY <1>2, <2>2, FS_RemoveElement
  <2>4. replay = {}
    BY <2>2 DEF PartialInv
  <2> QED
    BY <1>1, <1>2, <2>2, <2>3, <2>4
<1>5. CASE EndHarvest \/ KeepWaiting
  <2>1. /\ pc \in {"harvest", "check"}
        /\ pc' \in {"harvest", "submit", "check"}
        /\ UNCHANGED << cursor, pending, replay, boundary, saved >>
    BY <1>5 DEF EndHarvest, KeepWaiting, work
  <2>2. replay = {}
    BY <2>1 DEF PartialInv
  <2> QED
    BY <1>1, <1>2, <2>1, <2>2
<1>6. CASE SubmitHitsBudget \/ SubmitHitsBoundary
  <2>1. /\ pc \in {"submit", "prefetch"} /\ pc' = pc
        /\ boundary' \in {boundary, BoundaryAt(cursor)}
        /\ UNCHANGED << cursor, pending, replay, partial, saved >>
    BY <1>6 DEF SubmitHitsBudget, SubmitHitsBoundary, Draws, Submitting, work
  <2>2. /\ pc = "submit" => replay = {}
        /\ pc = "prefetch" => partial = NoPartial
    BY DEF PartialInv
  <2>3. BoundaryAt(cursor)' = BoundaryAt(cursor)
    BY <2>1
  <2>4. boundary' \in Nat /\ boundary' <= BoundaryAt(cursor)'
    BY <1>2, <2>1, <2>3
  <2> QED
    BY <1>1, <1>2, <2>1, <2>2, <2>4
<1>7. CASE SubmitResample
  <2>1. /\ pc \in {"submit", "prefetch"} /\ pc' = pc
        /\ pending' = pending \cup { Dispatched(Head(resample)) }
        /\ UNCHANGED << cursor, replay, boundary, partial, saved >>
    BY <1>7 DEF SubmitResample, Submitting
  <2>2. IsFiniteSet(pending')
    BY <1>2, <2>1, FS_AddElement
  <2>3. /\ pc = "submit" => replay = {}
        /\ pc = "prefetch" => partial = NoPartial
    BY DEF PartialInv
  <2> QED
    BY <1>1, <1>2, <2>1, <2>2, <2>3
<1>8. CASE \E eligible \in BOOLEAN : SubmitFresh(eligible)
  <2> DEFINE d == [ src |-> cursor, kinds |-> Kinds, attempt |-> 0 ]
  <2>1. /\ pc \in {"submit", "prefetch"} /\ pc' = pc
        /\ cursor' = cursor + 1
        /\ pending' = pending \/ pending' = pending \cup { Dispatched(d) }
        /\ UNCHANGED << replay, boundary, partial, saved >>
    BY <1>8 DEF SubmitFresh, Draws, Submitting
  <2>2. IsFiniteSet(pending')
    BY <1>2, <2>1, FS_AddElement
  <2>3. /\ pc = "submit" => replay = {}
        /\ pc = "prefetch" => partial = NoPartial
    BY DEF PartialInv
  <2>4. BoundaryAt(cursor)' = BoundaryAt(cursor + 1)
    BY <2>1 DEF BoundaryAt
  <2>5. cursor \in Nat /\ cursor + 1 \in Nat /\ cursor <= cursor + 1
    BY DEF TypeInv
  <2>6. /\ BoundaryAt(cursor) <= BoundaryAt(cursor + 1)
        /\ BoundaryAt(cursor + 1) \in Nat
    BY <2>5, BoundaryMonotonic, BoundaryType
  <2>7. boundary' \in Nat /\ boundary' <= BoundaryAt(cursor)'
    BY <1>2, <2>1, <2>4, <2>6
  <2> QED
    BY <1>1, <1>2, <2>1, <2>2, <2>3, <2>7
<1>9. CASE EndSubmit
  <2>1. /\ pc \in {"submit", "prefetch"}
        /\ UNCHANGED << rid, version, cursor, work, saved >>
    BY <1>9 DEF EndSubmit, Submitting
  <2>2. /\ pc = "submit" => replay = {} /\ \A b \in ToSet(buffer) : ~ Stale(b)
        /\ pc = "prefetch" => partial = NoPartial
    BY DEF PartialInv, FreshInv
  <2>3. CASE pc = "submit" /\ boundary # 0
    <3>1. Preserve(boundary)
      BY <1>9, <2>3 DEF EndSubmit
    <3>2. /\ IsFiniteSet(pending') /\ replay' = {}
          /\ UNCHANGED << rid, resample, saved, version >>
          /\ \A b \in ToSet(buffer') : ~ Stale(b)
          /\ boundary <= BoundaryAt(cursor')
      BY <1>2, <2>1, <2>2, <2>3 DEF work
    <3> QED
      BY <1>2, <3>1, <3>2, PreservePartial
  <2>4. CASE ~ (pc = "submit" /\ boundary # 0)
    <3>1. /\ pc' = IF pc = "submit" THEN "check" ELSE "returned"
          /\ UNCHANGED << boundary, partial >>
      BY <1>9, <2>4 DEF EndSubmit
    <3> QED
      BY <1>1, <1>2, <2>1, <2>2, <3>1 DEF work
  <2> QED
    BY <2>3, <2>4
<1>10. CASE FullBatchHitsBoundary
  <2>1. /\ pc = "check" /\ Preserve(BoundaryAt(cursor))
        /\ UNCHANGED << rid, version, cursor, work, saved >>
    BY <1>10 DEF FullBatchHitsBoundary, BatchReady
  <2>2. replay = {} /\ \A b \in ToSet(buffer) : ~ Stale(b)
    BY <2>1 DEF PartialInv, FreshInv
  <2>3. /\ IsFiniteSet(pending') /\ replay' = {}
        /\ UNCHANGED << rid, resample, saved, version >>
        /\ \A b \in ToSet(buffer') : ~ Stale(b)
        /\ BoundaryAt(cursor) <= BoundaryAt(cursor')
    BY <1>2, <2>1, <2>2 DEF work
  <2> QED
    BY <1>2, <2>1, <2>3, PreservePartial
<1>11. CASE StopAtBudget \/ PopBatch \/ DiscardTerminal
  <2>1. /\ pc' \in {"stopped", "prefetch"} /\ partial' = NoPartial
        /\ pending' \in {pending, {}} /\ replay' \in {replay, {}}
        /\ UNCHANGED << cursor, boundary, saved >>
    BY <1>11 DEF StopAtBudget, PopBatch, DiscardTerminal
  <2> QED
    BY <1>1, <1>2, <2>1
<1>12. CASE UpdateWeights
  <2>1. /\ pc = "returned" /\ pc' = "batch"
        /\ pending' = { Under(t, version # rid - 1) : t \in pending }
        /\ UNCHANGED << cursor, replay, boundary, partial, saved >>
    BY <1>12 DEF UpdateWeights, Under
  <2>2. IsFiniteSet(pending')
    <3> DEFINE f == [ t \in pending |-> Under(t, version # rid - 1) ]
    <3>1. pending' = { f[t] : t \in pending }
      BY <2>1
    <3> HIDE DEF f
    <3> QED
      BY <1>2, <3>1, FiniteImage
  <2>3. partial = NoPartial
    BY <2>1 DEF PartialInv
  <2> QED
    BY <1>1, <1>2, <2>1, <2>2, <2>3
<1>13. CASE Checkpoint
  <2>1. /\ saved'.tasks = Live /\ saved'.partial = partial
        /\ saved'.boundary = boundary /\ saved'.cursor = cursor
        /\ pc \in {"batch", "stopped"}
        /\ UNCHANGED << pc, cursor, pending, replay, boundary, partial >>
    BY <1>13 DEF Checkpoint, CheckpointState, work
  <2>2. IsFiniteSet(Live) /\ partial = NoPartial
    BY <1>2, <2>1, LiveFinite DEF PartialInv
  <2> QED
    BY <1>2, <2>1, <2>2 DEF PartialInv, NoPartial, BoundaryAt
<1>14. CASE CrashAndLoad
  <2>1. /\ pc' = "idle" /\ cursor' = saved.cursor /\ pending' = {}
        /\ replay' = saved.tasks /\ boundary' = saved.boundary
        /\ partial' = saved.partial /\ UNCHANGED saved
    BY <1>14 DEF CrashAndLoad
  <2>2. /\ IsFiniteSet(saved.tasks) /\ saved.partial = NoPartial
        /\ saved.boundary \in Nat
        /\ saved.boundary <= BoundaryAt(saved.cursor)
    BY DEF PartialInv
  <2>3. BoundaryAt(cursor)' = BoundaryAt(saved.cursor)
    BY <2>1 DEF BoundaryAt
  <2> QED
    BY <1>1, <1>2, <2>1, <2>2, <2>3
<1>15. CASE \E t \in pending : PolicyDone(t)
  <2>1. PICK t \in pending : PolicyDone(t)
    BY <1>15
  <2>2. /\ pc \in {"harvest", "submit", "prefetch"} /\ pc' = pc
        /\ pending' = (pending \ {t}) \cup { Passive(t) }
        /\ UNCHANGED << cursor, replay, boundary, partial, saved >>
    BY <2>1 DEF PolicyDone, Passive
  <2>3. IsFiniteSet(pending')
    BY <1>2, <2>2, FS_RemoveElement, FS_AddElement
  <2>4. /\ pc \in {"harvest", "submit"} => replay = {}
        /\ pc = "prefetch" => partial = NoPartial
    BY DEF PartialInv
  <2> QED
    BY <1>1, <1>2, <2>2, <2>3, <2>4
<1>16. CASE UNCHANGED vars
  BY <1>16
     DEF vars, work, PartialInv, Stale, StaleLag, BoundaryAt, BufferKinds,
         NoPartial
<1> QED
  BY <1>3, <1>4, <1>5, <1>6, <1>7, <1>8, <1>9, <1>10, <1>11, <1>12, <1>13,
     <1>14, <1>15, <1>16
     DEF Next, Collect

-----------------------------------------------------------------------------
(* The strengthened invariant holds in every run.                          *)
IInv == TypeInv /\ TrainedInv /\ FreshInv /\ OnceInv /\ PartialInv

THEOREM Invariance == Spec => []IInv
<1>1. Init => IInv
  BY TypeInit, TrainedInit, FreshInit, OnceInit, PartialInit DEF IInv
<1>2. IInv /\ [Next]_vars => IInv'
  BY TypeNext, TrainedNext, FreshNext, OnceNext, PartialNext DEF IInv
<1> QED
  BY <1>1, <1>2, PTL DEF Spec

(* Every group of every instance drawn, root or beam, is in exactly one    *)
(* place, whatever becomes of its sibling, of the batch, of the boundary   *)
(* that interrupts it or of the job; and so it is in the checkpoint.       *)
THEOREM GroupsAreConserved == Spec => []GroupsConserved
<1>1. IInv => GroupsConserved
  BY OnceConserves DEF IInv
<1> QED
  BY <1>1, Invariance, PTL

(* The stale=1 contract, though groups wait in the buffer from call to     *)
(* call and nothing looks again at the pop.                                *)
THEOREM LaneBatchIsFresh == Spec => []LaneBatchFresh
<1>1. IInv => LaneBatchFresh
  <2> SUFFICES ASSUME IInv, pc = "check", NEW b \in ToSet(buffer)
               PROVE  /\ ~ b.mixed /\ StaleLag(b) \in 0 .. 1
                      /\ b.rid \in rid - 1 .. rid
    BY DEF LaneBatchFresh
  <2>1. /\ ~ b.mixed /\ b.ver <= version /\ b.rid <= rid
        /\ version <= rid - 1 /\ ~ Stale(b)
    BY DEF IInv, FreshInv, Labelled
  <2>2. b.ver \in Int /\ b.rid \in Int /\ rid \in Int /\ version \in Int
    BY AgeTypes DEF IInv
  <2> QED
    BY <2>1, <2>2 DEF Stale, StaleLag
<1> QED
  BY <1>1, Invariance, PTL

(* No batch is popped past a validation boundary that is not scheduled,    *)
(* whether a draw of this call, a prefetch of the last one or nothing met  *)
(* the boundary.                                                           *)
THEOREM NoBatchPastBoundary == Spec => NoTrainingPastBoundary
<1>1. IInv /\ [Next]_vars =>
        [ accepted' \subseteq accepted \/ BoundaryAt(cursor) <= scheduled ]_vars
  BY BoundaryStep DEF IInv
<1> QED
  BY <1>1, Invariance, PTL DEF Spec, NoTrainingPastBoundary

(* A call that resumes behind a boundary finds exactly what the boundary   *)
(* interrupted: the RuntimeErrors of the resume check are unreachable.     *)
THEOREM PartialIsResumable == Spec => []PartialResumable
<1>1. IInv => PartialResumable
  BY PartialResumes DEF IInv
<1> QED
  BY <1>1, Invariance, PTL

=============================================================================
