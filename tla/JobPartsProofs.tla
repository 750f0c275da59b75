---------------------------- MODULE JobPartsProofs ----------------------------
(***************************************************************************)
(* Safety of the worker's choice of a job and of its scheduler, for any     *)
(* jobs, limits and settings.  Admission needs only that the counters are   *)
(* not too low: what runs is counted (Counted), one job per subscription.   *)
(* The scheduler is a pool (SchedulerIsPool) because a job has one place in  *)
(* one group of one queue (PoolInv).                                        *)
(* The job store under concurrent callers, failed writes and exits: what a  *)
(* reader has seen stays true (ReadersAgree), and every step is one of the  *)
(* moves of JobHistory, for any number of callers, records and faults.      *)
(***************************************************************************)
EXTENDS JobParts, FiniteSetTheorems, SequenceTheorems, WellFoundedInduction, TLAPS

\* The counters hold a slot, a class slot and a subscription for what runs.
Counted ==
  /\ \A j \in running : subscription[j] # NoSubscription => subscriptions[subscription[j]] > 0
  /\ \A j \in running \cap bulk : all_subscriptions > 0
Numbers ==
  /\ total \in Nat /\ by_class \in [Classes -> Nat]
  /\ subscriptions \in [Subscriptions -> Nat] /\ all_subscriptions \in Nat
Covers ==
  /\ running \subseteq Jobs /\ IsFiniteSet(running)
  /\ Cardinality(running) <= total
  /\ \A c \in Classes : Cardinality(OfClass(running, c)) <= by_class[c]
Admitted == Numbers /\ Covers /\ Counted /\ Exclusive

----------------------------------------------------------------------------
(* The operators.                                                          *)

\* A set of natural numbers that is not empty has a least element.
LEMMA LeastNatural ==
  ASSUME NEW S \in SUBSET Nat, S # {}
  PROVE  Least(S) \in S /\ \A n \in S : Least(S) <= n
<1>1. \A x, y \in Nat : x < y => <<x, y>> \in OpToRel(<, Nat)
  BY DEF OpToRel
<1>2. \E R : IsWellFoundedOn(R, Nat) /\ \A x, y \in Nat : x < y => <<x, y>> \in R
  BY <1>1, NatLessThanWellFounded, Zenon
<1>3. PICK R : IsWellFoundedOn(R, Nat) /\ \A x, y \in Nat : x < y => <<x, y>> \in R
  BY <1>2
<1>4. PICK x \in S : \A y \in S : ~(<<y, x>> \in R)
  <2>1. IsWellFoundedOn(R, Nat) /\ S \subseteq Nat /\ S # {}
    BY <1>3
  <2> QED
    BY <2>1, WFMin
<1>5. ASSUME NEW y \in S PROVE x <= y
  <2>1. x \in Nat /\ y \in Nat /\ ~(y < x)
    BY <1>3, <1>4
  <2> QED
    BY <2>1
<1> QED
  BY <1>5 DEF Least

\* There are six slots, each of a priority.
LEMMA SixSlots ==
  /\ Slots = 6
  /\ PRIORITY_SLOTS[1] = "high" /\ PRIORITY_SLOTS[2] = "normal" /\ PRIORITY_SLOTS[3] = "high"
  /\ PRIORITY_SLOTS[4] = "low" /\ PRIORITY_SLOTS[5] = "high" /\ PRIORITY_SLOTS[6] = "normal"
BY DEF Slots, PRIORITY_SLOTS

\* The slots are walked in a circle.
LEMMA SlotPriority ==
  ASSUME NEW t \in Nat, NEW k \in Nat
  PROVE  (t + k) % Slots \in 0 .. 5 /\ Slot(t, k) \in Levels
<1>1. (t + k) % 6 \in 0 .. 5
  OBVIOUS
<1> QED
  BY <1>1, SixSlots DEF Slot, Levels

\* pop_next finds the first slot with a ready group, and its first job may run.
LEMMA PoppedIs ==
  ASSUME NEW q, NEW t \in 0 .. 5, NEW ready, Hits(q, t, ready) # {}
  PROVE  \E k \in 0 .. 5 :
           /\ PopNext(q, t, ready).job \in ready
           /\ PopNext(q, t, ready).cursor = (t + k + 1) % 6
           /\ PopNext(q, t, ready).prio = Slot(t, k)
           /\ \A n \in 0 .. 5 : n < k => Ready(q[Slot(t, n)], ready) = {}
<1> DEFINE hits == Hits(q, t, ready)
           k == Least(hits)
           p == Slot(t, k)
           group == Ready(q[p], ready)
           i == Least(group)
<1>1. hits \in SUBSET Nat /\ hits \subseteq 0 .. 5
  BY SixSlots DEF Hits
<1>2. k \in hits /\ \A n \in hits : k <= n
  BY <1>1, LeastNatural
<1>3. group # {} /\ k \in 0 .. 5
  BY <1>1, <1>2 DEF Hits
<1>4. group \in SUBSET Nat
  BY DEF Ready
<1>5. i \in group
  <2> HIDE DEF group
  <2> QED
    BY <1>3, <1>4, LeastNatural
<1>6. PopNext(q, t, ready).job = Head(q[p][i].jobs)
  BY DEF PopNext
<1>7. Head(q[p][i].jobs) \in ready
  BY <1>5 DEF Ready
<1>8. \A n \in 0 .. 5 : n < k => Ready(q[Slot(t, n)], ready) = {}
  <2> SUFFICES ASSUME NEW n \in 0 .. 5, n < k, Ready(q[Slot(t, n)], ready) # {} PROVE FALSE
    OBVIOUS
  <2>1. n \in hits
    BY SixSlots DEF Hits
  <2> QED
    BY <1>1, <1>2, <2>1
<1>9. PopNext(q, t, ready).cursor = (t + k + 1) % 6 /\ PopNext(q, t, ready).prio = Slot(t, k)
  BY SixSlots DEF PopNext
<1> HIDE DEF k
<1> QED
  BY <1>3, <1>6, <1>7, <1>8, <1>9

----------------------------------------------------------------------------
(* The scheduler's priorities.                                             *)

\* How many slots of others the cursor has passed since the last slot of p.
Since(p, t) == IF p = "high" THEN (t + 1) % 2
               ELSE IF p = "normal" THEN IF t < 2 THEN t ELSE t - 2 ELSE (t + 2) % 6
\* What is passed over is passed over at most once per slot of another priority.
BypassInv ==
  /\ turn \in 0 .. 5 /\ bypassed \in [Levels -> Nat]
  /\ \A p \in Levels : bypassed[p] <= Since(p, turn)

LEMMA SinceNat == \A p \in Levels, t \in 0 .. 5 : Since(p, t) \in Nat
BY DEF Since

\* A slot that is not p's is one more slot of others.
LEMMA OneSlot ==
  ASSUME NEW p \in Levels, NEW t \in 0 .. 5, PRIORITY_SLOTS[t + 1] # p
  PROVE  Since(p, (t + 1) % 6) = Since(p, t) + 1
<1> USE SixSlots DEF Since, Levels
<1>1. CASE t = 0
  BY <1>1
<1>2. CASE t = 1
  BY <1>2
<1>3. CASE t = 2
  BY <1>3
<1>4. CASE t = 3
  BY <1>4
<1>5. CASE t = 4
  BY <1>5
<1>6. CASE t = 5
  BY <1>6
<1> QED
  BY <1>1, <1>2, <1>3, <1>4, <1>5, <1>6

\* If none of the slots walked is p's, they all count as others.
LEMMA SinceGrows ==
  ASSUME NEW p \in Levels, NEW t \in 0 .. 5, NEW k \in 0 .. 5,
         \A n \in 0 .. k : Slot(t, n) # p
  PROVE  Since(p, (t + k + 1) % 6) >= Since(p, t) + 1
<1>1. ASSUME NEW n \in 0 .. k
      PROVE  Since(p, (t + n + 1) % 6) = Since(p, (t + n) % 6) + 1
  <2>1. (t + n) % 6 \in 0 .. 5 /\ (((t + n) % 6) + 1) % 6 = (t + n + 1) % 6
    OBVIOUS
  <2>2. PRIORITY_SLOTS[((t + n) % 6) + 1] # p
    BY <1>1, SixSlots DEF Slot
  <2> QED
    BY <2>1, <2>2, OneSlot
<1> DEFINE far == [n \in 0 .. 6 |-> Since(p, (t + n) % 6)]
<1>2. far \in [0 .. 6 -> Nat]
  <2>1. \A n \in 0 .. 6 : (t + n) % 6 \in 0 .. 5
    OBVIOUS
  <2> QED
    BY <2>1, SinceNat
<1>3. \A n \in 0 .. k : far[n + 1] = far[n] + 1
  BY <1>1
<1>4. far[0] = Since(p, t) /\ far[k + 1] = Since(p, (t + k + 1) % 6)
  <2>1. (t + 0) % 6 = t
    OBVIOUS
  <2> QED
    BY <2>1
<1> HIDE DEF far
<1>5. k = 0 \/ k = 1 \/ k = 2 \/ k = 3 \/ k = 4 \/ k = 5
  OBVIOUS
<1>6. far[k + 1] >= far[0] + 1
  BY <1>2, <1>3, <1>5
<1> QED
  BY <1>4, <1>6

LEMMA BypassInit == SchedulerInit => BypassInv
BY DEF SchedulerInit, BypassInv, Since

LEMMA BypassStep ==
  ASSUME BypassInv, [SchedulerNext]_fvars
  PROVE  BypassInv'
<1>1. CASE UNCHANGED fvars \/ \E j \in Pushed, p \in Levels : push(j, p)
  BY <1>1 DEF BypassInv, fvars, push
<1>2. ASSUME NEW ready \in SUBSET Pushed, pop_next(ready) PROVE BypassInv'
  <2>1. turn \in 0 .. 5 /\ bypassed \in [Levels -> Nat] /\ Hits(lanes, turn, ready) # {}
    BY <1>2 DEF BypassInv, pop_next
  <2> DEFINE r == PopNext(lanes, turn, ready)
  <2>2. /\ turn' = r.cursor
        /\ bypassed' = [p \in Levels |->
             IF p # r.prio /\ Ready(lanes[p], ready) # {} THEN bypassed[p] + 1 ELSE 0]
    BY <1>2 DEF pop_next
  <2>3. PICK k \in 0 .. 5 :
          /\ r.cursor = (turn + k + 1) % 6 /\ r.prio = Slot(turn, k)
          /\ \A n \in 0 .. 5 : n < k => Ready(lanes[Slot(turn, n)], ready) = {}
    BY <2>1, PoppedIs
  <2> HIDE DEF r
  <2>4. turn' \in 0 .. 5 /\ bypassed' \in [Levels -> Nat]
    BY <2>1, <2>2, <2>3
  <2>5. ASSUME NEW p \in Levels PROVE bypassed'[p] <= Since(p, turn')
    <3>1. Since(p, turn') \in Nat
      BY <2>4, SinceNat
    <3>2. CASE p = r.prio \/ Ready(lanes[p], ready) = {}
      BY <2>2, <3>1, <3>2
    <3>3. CASE p # r.prio /\ Ready(lanes[p], ready) # {}
      <4>1. \A n \in 0 .. k : Slot(turn, n) # p
        BY <2>3, <3>3
      <4>2. Since(p, turn') >= Since(p, turn) + 1 /\ Since(p, turn) \in Nat
        BY <2>1, <2>2, <2>3, <4>1, SinceGrows, SinceNat
      <4>3. bypassed[p] <= Since(p, turn) /\ bypassed[p] \in Nat
        BY <2>1 DEF BypassInv
      <4> QED
        BY <2>2, <3>1, <3>3, <4>2, <4>3
    <3> QED
      BY <3>2, <3>3
  <2> QED
    BY <2>4, <2>5 DEF BypassInv
<1> QED
  BY <1>1, <1>2 DEF SchedulerNext

\* Whatever is pushed and whatever may run: a priority that has a job that may
\* run is passed over at most once (high), three times (normal), five (low).
THEOREM SchedulerWeightedFair == SchedulerInit /\ [][SchedulerNext]_fvars => []WeightedFair
<1>1. BypassInv => WeightedFair
  BY DEF BypassInv, WeightedFair, Since, Levels
<1> QED
  BY <1>1, BypassInit, BypassStep, PTL

----------------------------------------------------------------------------
(* Sequences without repetition, and what they have in them.               *)

Once(s) == \A i, k \in DOMAIN s : s[i] = s[k] => i = k

LEMMA InSeq ==
  ASSUME NEW S, NEW s \in Seq(S)
  PROVE  /\ Len(s) \in Nat /\ DOMAIN s = 1 .. Len(s) /\ \A i \in 1 .. Len(s) : s[i] \in S
         /\ \A x : x \in ToSet(s) <=> \E i \in 1 .. Len(s) : x = s[i]
         /\ ToSet(s) \subseteq S
<1>1. Len(s) \in Nat /\ DOMAIN s = 1 .. Len(s) /\ \A i \in 1 .. Len(s) : s[i] \in S
  OBVIOUS
<1> QED
  BY <1>1 DEF ToSet

LEMMA AppendSingle ==
  ASSUME NEW S, NEW s \in Seq(S), Once(s), NEW x \in S, x \notin ToSet(s)
  PROVE  Append(s, x) \in Seq(S) /\ Once(Append(s, x)) /\ ToSet(Append(s, x)) = ToSet(s) \cup {x}
<1> DEFINE t == Append(s, x)
<1>1. /\ Len(s) \in Nat /\ DOMAIN s = 1 .. Len(s) /\ \A i \in 1 .. Len(s) : s[i] \in S
      /\ \A y : y \in ToSet(s) <=> \E i \in 1 .. Len(s) : y = s[i]
  BY InSeq
<1>2. /\ t \in Seq(S) /\ DOMAIN t = 1 .. Len(s) + 1
      /\ \A i \in 1 .. Len(s) : t[i] = s[i]
      /\ t[Len(s) + 1] = x
  BY <1>1
<1> HIDE DEF t
<1>3. \A i : i \in 1 .. Len(s) + 1 <=> i \in 1 .. Len(s) \/ i = Len(s) + 1
  BY <1>1
<1>4. Once(t)
  <2> SUFFICES ASSUME NEW i \in 1 .. Len(s) + 1, NEW k \in 1 .. Len(s) + 1, t[i] = t[k] PROVE i = k
    BY <1>2 DEF Once
  <2> QED
    BY <1>1, <1>2, <1>3 DEF Once
<1>5. \A y : y \in ToSet(t) <=> \E i \in 1 .. Len(s) + 1 : y = t[i]
  BY <1>2 DEF ToSet
<1>6. \A y : y \in ToSet(t) <=> y \in ToSet(s) \/ y = x
  <2>1. x \in ToSet(t)
    BY <1>2, <1>3, <1>5
  <2>2. ASSUME NEW y \in ToSet(s) PROVE y \in ToSet(t)
    BY <1>1, <1>2, <1>3, <1>5
  <2>3. ASSUME NEW y \in ToSet(t), y # x PROVE y \in ToSet(s)
    BY <1>1, <1>2, <1>3, <1>5, <2>3
  <2> QED
    BY <2>1, <2>2, <2>3
<1> QED
  BY <1>2, <1>4, <1>6 DEF t

LEMMA ConcatSingle ==
  ASSUME NEW S, NEW s \in Seq(S), NEW t \in Seq(S), Once(s), Once(t), ToSet(s) \cap ToSet(t) = {}
  PROVE  s \o t \in Seq(S) /\ Once(s \o t) /\ ToSet(s \o t) = ToSet(s) \cup ToSet(t)
<1> DEFINE c == s \o t
<1>1. /\ Len(s) \in Nat /\ Len(t) \in Nat /\ DOMAIN s = 1 .. Len(s) /\ DOMAIN t = 1 .. Len(t)
  BY InSeq
<1>2. /\ c \in Seq(S) /\ Len(c) = Len(s) + Len(t)
      /\ \A i \in 1 .. Len(s) + Len(t) : c[i] = IF i <= Len(s) THEN s[i] ELSE t[i - Len(s)]
  BY ConcatProperties
<1> HIDE DEF c
<1>3. DOMAIN c = 1 .. Len(s) + Len(t)
  BY <1>2
<1>4. ASSUME NEW i \in DOMAIN c
      PROVE  \/ i <= Len(s) /\ i \in DOMAIN s /\ c[i] = s[i] /\ c[i] \in ToSet(s)
             \/ ~(i <= Len(s)) /\ i - Len(s) \in DOMAIN t /\ c[i] = t[i - Len(s)] /\ c[i] \in ToSet(t)
  <2>1. CASE i <= Len(s)
    <3>1. i \in DOMAIN s /\ c[i] = s[i]
      BY <1>1, <1>2, <1>3, <2>1
    <3> QED
      BY <2>1, <3>1 DEF ToSet
  <2>2. CASE ~(i <= Len(s))
    <3>1. i - Len(s) \in DOMAIN t /\ c[i] = t[i - Len(s)]
      BY <1>1, <1>2, <1>3, <2>2
    <3> QED
      BY <2>2, <3>1 DEF ToSet
  <2> QED
    BY <2>1, <2>2
<1>5. Once(c)
  <2> SUFFICES ASSUME NEW i \in DOMAIN c, NEW k \in DOMAIN c, c[i] = c[k] PROVE i = k
    BY DEF Once
  <2>0. i \in Nat /\ k \in Nat
    BY <1>1, <1>3
  <2>1. CASE i <= Len(s) /\ k <= Len(s)
    BY <1>4, <2>1 DEF Once
  <2>2. CASE ~(i <= Len(s)) /\ ~(k <= Len(s))
    <3>1. i - Len(s) \in DOMAIN t /\ k - Len(s) \in DOMAIN t /\ t[i - Len(s)] = t[k - Len(s)]
      BY <1>4, <2>2
    <3>2. i - Len(s) = k - Len(s)
      BY <3>1 DEF Once
    <3> QED
      BY <1>1, <2>0, <3>2
  <2>3. CASE (i <= Len(s) /\ ~(k <= Len(s))) \/ (~(i <= Len(s)) /\ k <= Len(s))
    <3>1. c[i] \in ToSet(s) \cap ToSet(t)
      BY <1>4, <2>3
    <3> QED
      BY <3>1
  <2> QED
    BY <2>1, <2>2, <2>3
<1>6. ASSUME NEW x PROVE x \in ToSet(c) <=> x \in ToSet(s) \cup ToSet(t)
  <2>1. ASSUME x \in ToSet(c) PROVE x \in ToSet(s) \cup ToSet(t)
    BY <1>4, <2>1 DEF ToSet
  <2>2. ASSUME NEW i \in DOMAIN s, x = s[i] PROVE x \in ToSet(c)
    <3>1. i \in DOMAIN c /\ c[i] = s[i]
      BY <1>1, <1>2, <1>3
    <3> QED
      BY <2>2, <3>1 DEF ToSet
  <2>3. ASSUME NEW i \in DOMAIN t, x = t[i] PROVE x \in ToSet(c)
    <3>1. i + Len(s) \in 1 .. Len(s) + Len(t) /\ ~(i + Len(s) <= Len(s)) /\ (i + Len(s)) - Len(s) = i
      BY <1>1
    <3>2. i + Len(s) \in DOMAIN c /\ c[i + Len(s)] = t[i]
      BY <1>2, <1>3, <3>1
    <3> QED
      BY <2>3, <3>2 DEF ToSet
  <2> QED
    BY <2>1, <2>2, <2>3 DEF ToSet
<1> QED
  BY <1>2, <1>5, <1>6 DEF c

\* What is before and behind a place.
LEMMA PartSingle ==
  ASSUME NEW S, NEW s \in Seq(S), Once(s), NEW a \in 1 .. Len(s) + 1, NEW b \in a - 1 .. Len(s)
  PROVE  /\ SubSeq(s, a, b) \in Seq(S) /\ Once(SubSeq(s, a, b)) /\ Len(SubSeq(s, a, b)) = b - a + 1
         /\ \A x : x \in ToSet(SubSeq(s, a, b)) <=> \E k \in a .. b : x = s[k]
<1> DEFINE t == SubSeq(s, a, b)
<1>1. /\ Len(s) \in Nat /\ a \in Nat /\ a >= 1 /\ b \in Nat /\ a - 1 <= b /\ b <= Len(s) /\ a \in Int /\ b \in Int
      /\ DOMAIN s = 1 .. Len(s) /\ \A k \in 1 .. Len(s) : s[k] \in S
  BY InSeq
<1>2. \A k \in a .. b : s[k] \in S
  BY <1>1
<1>3. /\ t \in Seq(S) /\ Len(t) = (IF a <= b THEN b - a + 1 ELSE 0)
      /\ \A i \in 1 .. b - a + 1 : t[i] = s[a + i - 1]
  BY <1>1, <1>2, SubSeqProperties
<1> HIDE DEF t
<1>4. Len(t) = b - a + 1 /\ DOMAIN t = 1 .. b - a + 1
  BY <1>1, <1>3
<1>5. \A i \in 1 .. b - a + 1 : a + i - 1 \in a .. b /\ a + i - 1 \in DOMAIN s
  BY <1>1
<1>6. Once(t)
  <2> SUFFICES ASSUME NEW i \in 1 .. b - a + 1, NEW k \in 1 .. b - a + 1, t[i] = t[k] PROVE i = k
    BY <1>4 DEF Once
  <2>1. a + i - 1 = a + k - 1
    BY <1>3, <1>5 DEF Once
  <2> QED
    BY <1>1, <2>1
<1>7. ASSUME NEW x PROVE x \in ToSet(t) <=> \E k \in a .. b : x = s[k]
  <2>1. x \in ToSet(t) <=> \E i \in 1 .. b - a + 1 : x = t[i]
    BY <1>4 DEF ToSet
  <2>2. ASSUME NEW i \in 1 .. b - a + 1, x = t[i] PROVE \E k \in a .. b : x = s[k]
    BY <1>3, <1>5, <2>2
  <2>3. ASSUME NEW k \in a .. b, x = s[k] PROVE \E i \in 1 .. b - a + 1 : x = t[i]
    <3>1. k - a + 1 \in 1 .. b - a + 1 /\ a + (k - a + 1) - 1 = k
      BY <1>1
    <3> QED
      BY <1>3, <2>3, <3>1
  <2> QED
    BY <2>1, <2>2, <2>3
<1> QED
  BY <1>3, <1>4, <1>6, <1>7 DEF t

LEMMA AroundSingle ==
  ASSUME NEW S, NEW s \in Seq(S), Once(s), NEW i \in 1 .. Len(s)
  PROVE  LET before == SubSeq(s, 1, i - 1)
             behind == SubSeq(s, i + 1, Len(s)) IN
         /\ before \in Seq(S) /\ behind \in Seq(S) /\ Once(before) /\ Once(behind)
         /\ Len(before) = i - 1 /\ Len(behind) = Len(s) - i
         /\ ToSet(before) \cap ToSet(behind) = {}
         /\ ToSet(before) \cup ToSet(behind) = ToSet(s) \ {s[i]}
<1>1. /\ Len(s) \in Nat /\ DOMAIN s = 1 .. Len(s) /\ i \in Nat /\ 1 <= i /\ i <= Len(s)
      /\ \A x : x \in ToSet(s) <=> \E k \in 1 .. Len(s) : x = s[k]
  BY InSeq
<1>2. PICK a \in 1 .. Len(s) + 1 : a = 1
  BY <1>1
<1>3. PICK b \in a - 1 .. Len(s) : b = i - 1
  BY <1>1, <1>2
<1>4. PICK c \in 1 .. Len(s) + 1 : c = i + 1
  BY <1>1
<1>0. Len(s) \in c - 1 .. Len(s)
  BY <1>1, <1>4
<1>5. PICK d \in c - 1 .. Len(s) : d = Len(s)
  BY <1>0
<1>6. /\ SubSeq(s, a, b) \in Seq(S) /\ Once(SubSeq(s, a, b)) /\ Len(SubSeq(s, a, b)) = b - a + 1
      /\ \A x : x \in ToSet(SubSeq(s, a, b)) <=> \E k \in a .. b : x = s[k]
  BY PartSingle
<1>7. /\ SubSeq(s, c, d) \in Seq(S) /\ Once(SubSeq(s, c, d)) /\ Len(SubSeq(s, c, d)) = d - c + 1
      /\ \A x : x \in ToSet(SubSeq(s, c, d)) <=> \E k \in c .. d : x = s[k]
  BY PartSingle
<1> DEFINE before == SubSeq(s, 1, i - 1)
           behind == SubSeq(s, i + 1, Len(s))
<1>8. before = SubSeq(s, a, b) /\ behind = SubSeq(s, c, d)
  BY <1>2, <1>3, <1>4, <1>5
<1> HIDE DEF before, behind
<1>9. b - a + 1 = i - 1 /\ d - c + 1 = Len(s) - i
  BY <1>1, <1>2, <1>3, <1>4, <1>5
<1>10. /\ \A k : k \in 1 .. Len(s) <=> k \in a .. b \/ k = i \/ k \in c .. d
       /\ i \notin a .. b /\ i \notin c .. d /\ \A k \in a .. b : k \notin c .. d
  BY <1>1, <1>2, <1>3, <1>4, <1>5
<1>11. \A x : x \in ToSet(before) <=> \E k \in a .. b : x = s[k]
  BY <1>6, <1>8
<1>12. \A x : x \in ToSet(behind) <=> \E k \in c .. d : x = s[k]
  BY <1>7, <1>8
<1>13. ToSet(before) \cap ToSet(behind) = {}
  <2> SUFFICES ASSUME NEW x, x \in ToSet(before), x \in ToSet(behind) PROVE FALSE
    OBVIOUS
  <2>1. PICK k \in a .. b : x = s[k]
    BY <1>11
  <2>2. PICK l \in c .. d : x = s[l]
    BY <1>12
  <2>3. k \in DOMAIN s /\ l \in DOMAIN s /\ k # l
    BY <1>1, <1>10
  <2> QED
    BY <2>1, <2>2, <2>3 DEF Once
<1>14. ASSUME NEW x PROVE x \in ToSet(before) \cup ToSet(behind) <=> x \in ToSet(s) \ {s[i]}
  <2>1. ASSUME NEW k \in 1 .. Len(s), k # i, x = s[k] PROVE x \in ToSet(s) \ {s[i]}
    <3>1. s[k] # s[i]
      BY <1>1, <2>1 DEF Once
    <3> QED
      BY <1>1, <2>1, <3>1
  <2>2. ASSUME x \in ToSet(before) \cup ToSet(behind) PROVE x \in ToSet(s) \ {s[i]}
    <3>1. PICK k \in 1 .. Len(s) : k # i /\ x = s[k]
      BY <1>10, <1>11, <1>12, <2>2
    <3> QED
      BY <2>1, <3>1
  <2>3. ASSUME x \in ToSet(s), x # s[i] PROVE x \in ToSet(before) \cup ToSet(behind)
    <3>1. PICK k \in 1 .. Len(s) : x = s[k]
      BY <1>1, <2>3
    <3>2. k \in a .. b \/ k \in c .. d
      BY <1>10, <2>3, <3>1
    <3> QED
      BY <1>11, <1>12, <3>1, <3>2
  <2> QED
    BY <2>2, <2>3
<1>15. ToSet(before) \cup ToSet(behind) = ToSet(s) \ {s[i]}
  BY <1>14
<1> QED
  BY <1>6, <1>7, <1>8, <1>9, <1>13, <1>15 DEF before, behind

LEMMA RemoveSingle ==
  ASSUME NEW S, NEW s \in Seq(S), Once(s), NEW i \in 1 .. Len(s)
  PROVE  /\ RemoveAt(s, i) \in Seq(S) /\ Once(RemoveAt(s, i))
         /\ ToSet(RemoveAt(s, i)) = ToSet(s) \ {s[i]}
<1> DEFINE before == SubSeq(s, 1, i - 1)
           behind == SubSeq(s, i + 1, Len(s))
<1>1. /\ before \in Seq(S) /\ behind \in Seq(S) /\ Once(before) /\ Once(behind)
      /\ ToSet(before) \cap ToSet(behind) = {}
      /\ ToSet(before) \cup ToSet(behind) = ToSet(s) \ {s[i]}
  BY AroundSingle
<1>2. RemoveAt(s, i) = before \o behind
  BY DEF RemoveAt
<1> HIDE DEF before, behind
<1> QED
  BY <1>1, <1>2, ConcatSingle

Changed(s, i, x) == [s EXCEPT ![i] = x]

LEMMA ChangedSingle ==
  ASSUME NEW S, NEW s \in Seq(S), Once(s), NEW i \in 1 .. Len(s), NEW x \in S, x \notin ToSet(s) \ {s[i]}
  PROVE  /\ Changed(s, i, x) \in Seq(S) /\ Once(Changed(s, i, x))
         /\ ToSet(Changed(s, i, x)) = (ToSet(s) \ {s[i]}) \cup {x}
<1> DEFINE t == [s EXCEPT ![i] = x]
<1>1. /\ Len(s) \in Nat /\ DOMAIN s = 1 .. Len(s)
      /\ \A y : y \in ToSet(s) <=> \E k \in 1 .. Len(s) : y = s[k]
  BY InSeq
<1>2. t \in Seq(S) /\ Len(t) = Len(s) /\ \A k \in 1 .. Len(s) : t[k] = IF k = i THEN x ELSE s[k]
  BY ExceptSeq
<1> HIDE DEF t
<1>3. DOMAIN t = 1 .. Len(s)
  BY <1>2
<1>4. \A k \in 1 .. Len(s) : k # i => s[k] \in ToSet(s) \ {s[i]} /\ s[k] # x
  BY <1>1 DEF Once
<1>5. Once(t)
  BY <1>1, <1>2, <1>3, <1>4 DEF Once
<1>6. \A y : y \in ToSet(t) <=> \E k \in 1 .. Len(s) : y = t[k]
  BY <1>3 DEF ToSet
<1>7. ASSUME NEW y PROVE y \in ToSet(t) <=> (y \in ToSet(s) /\ y # s[i]) \/ y = x
  <2>1. x \in ToSet(t)
    BY <1>2, <1>6
  <2>2. ASSUME y \in ToSet(s), y # s[i] PROVE y \in ToSet(t)
    <3>1. PICK k \in 1 .. Len(s) : y = s[k]
      BY <1>1, <2>2
    <3>2. k # i /\ t[k] = y
      BY <1>2, <2>2, <3>1
    <3> QED
      BY <1>6, <3>2
  <2>3. ASSUME y \in ToSet(t), y # x PROVE y \in ToSet(s) /\ y # s[i]
    <3>1. PICK k \in 1 .. Len(s) : y = t[k]
      BY <1>6, <2>3
    <3>2. k # i /\ y = s[k]
      BY <1>2, <2>3, <3>1
    <3> QED
      BY <1>4, <3>2
  <2> QED
    BY <2>1, <2>2, <2>3
<1>8. ToSet(t) = (ToSet(s) \ {s[i]}) \cup {x}
  BY <1>7
<1> QED
  BY <1>2, <1>5, <1>8 DEF t, Changed

LEMMA TailSingle ==
  ASSUME NEW S, NEW s \in Seq(S), Once(s), s # <<>>
  PROVE  /\ Head(s) \in S /\ Head(s) \in ToSet(s) /\ Tail(s) \in Seq(S) /\ Once(Tail(s))
         /\ ToSet(Tail(s)) = ToSet(s) \ {Head(s)}
<1>1. /\ Len(s) \in Nat /\ Len(s) # 0 /\ DOMAIN s = 1 .. Len(s) /\ \A k \in 1 .. Len(s) : s[k] \in S
      /\ \A y : y \in ToSet(s) <=> \E k \in 1 .. Len(s) : y = s[k]
  BY InSeq, EmptySeq
<1>2. Head(s) = s[1] /\ 1 \in 1 .. Len(s)
  BY <1>1
<1> DEFINE t == Tail(s)
<1>3. t \in Seq(S) /\ Len(t) = Len(s) - 1 /\ \A k \in 1 .. Len(s) - 1 : t[k] = s[k + 1]
  BY <1>1, HeadTailProperties
<1> HIDE DEF t
<1>4. DOMAIN t = 1 .. Len(s) - 1 /\ \A k \in 1 .. Len(s) - 1 : k + 1 \in 1 .. Len(s) /\ k + 1 # 1
  BY <1>1, <1>3
<1>5. Once(t)
  <2> SUFFICES ASSUME NEW i \in 1 .. Len(s) - 1, NEW k \in 1 .. Len(s) - 1, t[i] = t[k] PROVE i = k
    BY <1>4 DEF Once
  <2>1. i + 1 = k + 1
    BY <1>1, <1>3, <1>4 DEF Once
  <2> QED
    BY <1>1, <2>1
<1>6. \A y : y \in ToSet(t) <=> \E k \in 1 .. Len(s) - 1 : y = t[k]
  BY <1>4 DEF ToSet
<1>7. ASSUME NEW y PROVE y \in ToSet(t) <=> y \in ToSet(s) /\ y # s[1]
  <2>1. ASSUME y \in ToSet(t) PROVE y \in ToSet(s) /\ y # s[1]
    <3>1. PICK k \in 1 .. Len(s) - 1 : y = t[k]
      BY <1>6, <2>1
    <3>2. y = s[k + 1] /\ k + 1 \in 1 .. Len(s) /\ k + 1 # 1
      BY <1>3, <1>4, <3>1
    <3> QED
      BY <1>1, <1>2, <3>2 DEF Once
  <2>2. ASSUME y \in ToSet(s), y # s[1] PROVE y \in ToSet(t)
    <3>1. PICK k \in 1 .. Len(s) : y = s[k]
      BY <1>1, <2>2
    <3>2. k - 1 \in 1 .. Len(s) - 1 /\ (k - 1) + 1 = k
      BY <1>1, <2>2, <3>1
    <3>3. t[k - 1] = y
      BY <1>3, <3>1, <3>2
    <3> QED
      BY <1>6, <3>2, <3>3
  <2> QED
    BY <2>1, <2>2
<1>8. ToSet(t) = ToSet(s) \ {s[1]} /\ s[1] \in ToSet(s)
  BY <1>1, <1>2, <1>7
<1> QED
  BY <1>1, <1>2, <1>3, <1>5, <1>8 DEF t

----------------------------------------------------------------------------
(* Sets of groups that share neither their keys nor their jobs.            *)

JobsOf(G) == UNION {ToSet(g.jobs) : g \in G}
Shares(g, h) == g.key = h.key \/ ToSet(g.jobs) \cap ToSet(h.jobs) # {}
TidyGroups(G) == \A g \in G : /\ g.jobs # <<>> /\ Once(g.jobs)
                              /\ \A h \in G : Shares(g, h) => g = h
Tidy(q) == Once(q) /\ TidyGroups(ToSet(q))

LEMMA DropGroup ==
  ASSUME NEW G, TidyGroups(G), NEW g \in G
  PROVE  TidyGroups(G \ {g}) /\ JobsOf(G \ {g}) = JobsOf(G) \ ToSet(g.jobs)
<1>1. TidyGroups(G \ {g})
  BY DEF TidyGroups
<1>2. \A h \in G \ {g} : ToSet(g.jobs) \cap ToSet(h.jobs) = {}
  BY DEF TidyGroups, Shares
<1>3. ASSUME NEW x PROVE x \in JobsOf(G \ {g}) <=> x \in JobsOf(G) \ ToSet(g.jobs)
  BY <1>2 DEF JobsOf
<1> QED
  BY <1>1, <1>3

LEMMA PutGroup ==
  ASSUME NEW G, TidyGroups(G), NEW n, n.jobs # <<>>, Once(n.jobs),
         \A h \in G : ~Shares(n, h)
  PROVE  n \notin G /\ TidyGroups(G \cup {n}) /\ JobsOf(G \cup {n}) = JobsOf(G) \cup ToSet(n.jobs)
<1>1. Shares(n, n) /\ \A h : Shares(h, n) => Shares(n, h)
  BY DEF Shares
<1>2. n \notin G
  BY <1>1
<1>3. TidyGroups(G \cup {n})
  BY <1>1 DEF TidyGroups
<1>4. ASSUME NEW x PROVE x \in JobsOf(G \cup {n}) <=> x \in JobsOf(G) \cup ToSet(n.jobs)
  BY DEF JobsOf
<1> QED
  BY <1>2, <1>3, <1>4

\* A group changed: it keeps its key, and gets only jobs that are new.
LEMMA ChangeGroup ==
  ASSUME NEW G, TidyGroups(G), NEW g \in G, NEW n, n.key = g.key, n.jobs # <<>>, Once(n.jobs),
         ToSet(n.jobs) \cap JobsOf(G) \subseteq ToSet(g.jobs)
  PROVE  /\ n \notin G \ {g} /\ TidyGroups((G \ {g}) \cup {n})
         /\ JobsOf((G \ {g}) \cup {n}) = (JobsOf(G) \ ToSet(g.jobs)) \cup ToSet(n.jobs)
<1>1. TidyGroups(G \ {g}) /\ JobsOf(G \ {g}) = JobsOf(G) \ ToSet(g.jobs)
  BY DropGroup
<1>2. ASSUME NEW h \in G \ {g}, Shares(n, h) PROVE FALSE
  <2>1. ~Shares(g, h)
    BY DEF TidyGroups
  <2>2. PICK x : x \in ToSet(n.jobs) \cap ToSet(h.jobs)
    BY <1>2, <2>1 DEF Shares
  <2>3. x \in JobsOf(G)
    BY <2>2 DEF JobsOf
  <2> QED
    BY <2>1, <2>2, <2>3 DEF Shares
<1> DEFINE rest == G \ {g}
<1>3. TidyGroups(rest) /\ \A h \in rest : ~Shares(n, h)
  BY <1>1, <1>2
<1> HIDE DEF rest
<1>4. n \notin rest /\ TidyGroups(rest \cup {n}) /\ JobsOf(rest \cup {n}) = JobsOf(rest) \cup ToSet(n.jobs)
  BY <1>3, PutGroup
<1> QED
  BY <1>1, <1>4 DEF rest

LEMMA QueueIs ==
  ASSUME NEW q \in Seq(Group)
  PROVE  InQueue(q) = JobsOf(ToSet(q))
<1>1. ASSUME NEW x PROVE x \in InQueue(q) <=> x \in JobsOf(ToSet(q))
  BY DEF InQueue, JobsOf, ToSet
<1> QED
  BY <1>1

LEMMA GroupOf ==
  ASSUME NEW q \in Seq(Group), NEW i \in DOMAIN q
  PROVE  /\ i \in 1 .. Len(q) /\ q[i] \in Group /\ q[i].key \in Keys /\ q[i].jobs \in Seq(Jobs)
         /\ q[i] \in ToSet(q) /\ ToSet(q[i].jobs) \subseteq Jobs
         /\ \A n \in Seq(Jobs) : /\ [q[i] EXCEPT !.jobs = n] \in Group
                               /\ [q[i] EXCEPT !.jobs = n].key = q[i].key
                               /\ [q[i] EXCEPT !.jobs = n].jobs = n
<1>1. i \in 1 .. Len(q) /\ q[i] \in Group /\ q[i] \in ToSet(q)
  BY InSeq
<1>2. q[i].key \in Keys /\ q[i].jobs \in Seq(Jobs)
  BY <1>1 DEF Group
<1>3. ToSet(q[i].jobs) \subseteq Jobs
  BY <1>2, InSeq
<1>4. \A n \in Seq(Jobs) : /\ [q[i] EXCEPT !.jobs = n] \in Group
                          /\ [q[i] EXCEPT !.jobs = n].key = q[i].key
                          /\ [q[i] EXCEPT !.jobs = n].jobs = n
  BY <1>1 DEF Group
<1> QED
  BY <1>1, <1>2, <1>3, <1>4

----------------------------------------------------------------------------
(* One priority's queue.                                                   *)

Rejobbed(q, i, m) == [q EXCEPT ![i].jobs = m]

LEMMA NewJobs ==
  ASSUME NEW q \in Seq(Group), Tidy(q), NEW i \in DOMAIN q, NEW m \in Seq(Jobs), m # <<>>, Once(m),
         ToSet(m) \cap InQueue(q) \subseteq ToSet(q[i].jobs)
  PROVE  \E n \in Group :
           /\ n = [q[i] EXCEPT !.jobs = m] /\ n \notin ToSet(q) \ {q[i]}
           /\ TidyGroups((ToSet(q) \ {q[i]}) \cup {n})
           /\ JobsOf((ToSet(q) \ {q[i]}) \cup {n}) = (InQueue(q) \ ToSet(q[i].jobs)) \cup ToSet(m)
<1> DEFINE G == ToSet(q)
<1>1. TidyGroups(G) /\ InQueue(q) = JobsOf(G) /\ q[i] \in G
  BY QueueIs, GroupOf DEF Tidy
<1>2. PICK n : n = [q[i] EXCEPT !.jobs = m]
  OBVIOUS
<1>3. n \in Group /\ n.key = q[i].key /\ n.jobs = m
  <2>1. /\ [q[i] EXCEPT !.jobs = m] \in Group /\ [q[i] EXCEPT !.jobs = m].key = q[i].key
        /\ [q[i] EXCEPT !.jobs = m].jobs = m
    <3>1. q \in Seq(Group) /\ i \in DOMAIN q /\ m \in Seq(Jobs)
      OBVIOUS
    <3> QED
      BY <3>1, GroupOf
  <2> QED
    BY <1>2, <2>1
<1> HIDE DEF G
<1>4. PICK g : g = q[i]
  OBVIOUS
<1>5. /\ TidyGroups(G) /\ g \in G /\ n.key = g.key /\ n.jobs # <<>> /\ Once(n.jobs)
      /\ ToSet(n.jobs) \cap JobsOf(G) \subseteq ToSet(g.jobs)
  BY <1>1, <1>3, <1>4
<1>6. /\ n \notin G \ {g} /\ TidyGroups((G \ {g}) \cup {n})
      /\ JobsOf((G \ {g}) \cup {n}) = (JobsOf(G) \ ToSet(g.jobs)) \cup ToSet(n.jobs)
  BY <1>5, ChangeGroup
<1> QED
  BY <1>1, <1>2, <1>3, <1>4, <1>6 DEF G

LEMMA RejobbedQueue ==
  ASSUME NEW q \in Seq(Group), Tidy(q), NEW i \in DOMAIN q, NEW m \in Seq(Jobs), m # <<>>, Once(m),
         ToSet(m) \cap InQueue(q) \subseteq ToSet(q[i].jobs)
  PROVE  /\ Rejobbed(q, i, m) \in Seq(Group) /\ Tidy(Rejobbed(q, i, m))
         /\ InQueue(Rejobbed(q, i, m)) = (InQueue(q) \ ToSet(q[i].jobs)) \cup ToSet(m)
<1>1. PICK n \in Group :
        /\ n = [q[i] EXCEPT !.jobs = m] /\ n \notin ToSet(q) \ {q[i]}
        /\ TidyGroups((ToSet(q) \ {q[i]}) \cup {n})
        /\ JobsOf((ToSet(q) \ {q[i]}) \cup {n}) = (InQueue(q) \ ToSet(q[i].jobs)) \cup ToSet(m)
  BY NewJobs
<1>2. Rejobbed(q, i, m) = Changed(q, i, n)
  BY <1>1 DEF Rejobbed, Changed
<1>3. /\ q \in Seq(Group) /\ Once(q) /\ i \in 1 .. Len(q)
      /\ n \in Group /\ n \notin ToSet(q) \ {q[i]}
  BY <1>1, GroupOf DEF Tidy
<1>4. /\ Changed(q, i, n) \in Seq(Group) /\ Once(Changed(q, i, n))
      /\ ToSet(Changed(q, i, n)) = (ToSet(q) \ {q[i]}) \cup {n}
  BY <1>3, ChangedSingle
<1>5. InQueue(Changed(q, i, n)) = JobsOf(ToSet(Changed(q, i, n)))
  BY <1>4, QueueIs
<1> QED
  BY <1>1, <1>2, <1>4, <1>5 DEF Tidy

\* A job that is in no group is put into the group of its key, or a new one.
LEMMA EnqueueAdds ==
  ASSUME NEW q \in Seq(Group), Tidy(q), NEW j \in Jobs, j \notin InQueue(q)
  PROVE  /\ Enqueue(q, j) \in Seq(Group) /\ Tidy(Enqueue(q, j))
         /\ InQueue(Enqueue(q, j)) = InQueue(q) \cup {j}
<1> DEFINE G == ToSet(q)
<1>1. /\ Once(q) /\ TidyGroups(G) /\ InQueue(q) = JobsOf(G) /\ j \notin JobsOf(G)
      /\ DOMAIN q = 1 .. Len(q) /\ \A x : x \in G <=> \E i \in DOMAIN q : x = q[i]
  BY InSeq, QueueIs DEF Tidy
<1>2. CASE ~\E i \in DOMAIN q : q[i].key = fairness_key[j]
  <2>1. PICK n : n = [key |-> fairness_key[j], jobs |-> <<j>>]
    OBVIOUS
  <2>2. n \in Group /\ n.jobs # <<>> /\ Once(n.jobs) /\ ToSet(n.jobs) = {j} /\ n.key = fairness_key[j]
    <3>1. <<j>> \in Seq(Jobs) /\ DOMAIN <<j>> = {1} /\ <<j>>[1] = j /\ <<j>> # <<>>
      OBVIOUS
    <3>2. Once(<<j>>) /\ ToSet(<<j>>) = {j}
      BY <3>1 DEF Once, ToSet
    <3>3. fairness_key[j] \in Keys
      BY FairnessKeyAssumption
    <3> QED
      BY <2>1, <3>1, <3>2, <3>3 DEF Group
  <2>3. Enqueue(q, j) = Append(q, n)
    BY <1>2, <2>1 DEF Enqueue
  <2>4. \A h \in G : ~Shares(n, h)
    <3> SUFFICES ASSUME NEW h \in G, Shares(n, h) PROVE FALSE
      OBVIOUS
    <3>1. PICK i \in DOMAIN q : h = q[i]
      BY <1>1
    <3>2. j \notin ToSet(h.jobs)
      BY <1>1 DEF JobsOf
    <3> QED
      BY <1>2, <2>2, <3>1, <3>2 DEF Shares
  <2> HIDE DEF G
  <2>5. n \notin G /\ TidyGroups(G \cup {n}) /\ JobsOf(G \cup {n}) = JobsOf(G) \cup {j}
    BY <1>1, <2>2, <2>4, PutGroup
  <2>6. Append(q, n) \in Seq(Group) /\ Once(Append(q, n)) /\ ToSet(Append(q, n)) = G \cup {n}
    <3>1. n \in Group /\ n \notin ToSet(q) /\ Once(q)
      BY <1>1, <2>2, <2>5 DEF G
    <3> QED
      BY <3>1, AppendSingle DEF G
  <2>7. InQueue(Append(q, n)) = JobsOf(ToSet(Append(q, n)))
    BY <2>6, QueueIs
  <2> QED
    BY <1>1, <2>3, <2>5, <2>6, <2>7 DEF Tidy
<1>3. CASE \E i \in DOMAIN q : q[i].key = fairness_key[j]
  <2>1. PICK i \in DOMAIN q : q[i].key = fairness_key[j]
    BY <1>3
  <2>2. q[i] \in G /\ q[i].jobs \in Seq(Jobs) /\ ToSet(q[i].jobs) \subseteq JobsOf(G) /\ j \notin ToSet(q[i].jobs)
    BY <1>1, GroupOf DEF JobsOf
  <2>3. PICK m \in Seq(Jobs) : m = Append(q[i].jobs, j)
    <3>1. PICK t : t = q[i].jobs
      OBVIOUS
    <3>2. Append(t, j) \in Seq(Jobs)
      BY <2>2, <3>1
    <3> QED
      BY <3>1, <3>2
  <2>4. m # <<>> /\ Once(m) /\ ToSet(m) = ToSet(q[i].jobs) \cup {j}
    <3>1. q[i].jobs \in Seq(Jobs) /\ Once(q[i].jobs) /\ j \notin ToSet(q[i].jobs)
      BY <1>1, <2>2 DEF TidyGroups
    <3>2. Once(m) /\ ToSet(m) = ToSet(q[i].jobs) \cup {j}
      BY <2>3, <3>1, AppendSingle
    <3> QED
      BY <2>2, <2>3, <3>2
  <2>5. \A k \in DOMAIN q : (q[k].key = fairness_key[j]) <=> k = i
    <3> SUFFICES ASSUME NEW k \in DOMAIN q, q[k].key = fairness_key[j] PROVE k = i
      BY <2>1
    <3>1. q[k] \in G /\ q[i] \in G /\ Shares(q[k], q[i])
      BY <1>1, <2>1 DEF Shares
    <3>2. q[k] = q[i]
      BY <1>1, <3>1 DEF TidyGroups
    <3> QED
      BY <1>1, <3>2 DEF Once
  <2>6. Enqueue(q, j) = Rejobbed(q, i, m)
    <3>1. Enqueue(q, j) = [k \in DOMAIN q |-> IF q[k].key = fairness_key[j]
                             THEN [q[k] EXCEPT !.jobs = Append(@, j)] ELSE q[k]]
      BY <1>3 DEF Enqueue
    <3> QED
      BY <2>3, <2>5, <3>1 DEF Rejobbed
  <2>7. /\ q \in Seq(Group) /\ Tidy(q) /\ i \in DOMAIN q /\ m \in Seq(Jobs) /\ m # <<>> /\ Once(m)
        /\ ToSet(m) \cap InQueue(q) \subseteq ToSet(q[i].jobs)
    BY <1>1, <2>4
  <2>8. /\ Rejobbed(q, i, m) \in Seq(Group) /\ Tidy(Rejobbed(q, i, m))
        /\ InQueue(Rejobbed(q, i, m)) = (InQueue(q) \ ToSet(q[i].jobs)) \cup ToSet(m)
    BY <2>7, RejobbedQueue
  <2> QED
    BY <1>1, <2>2, <2>4, <2>6, <2>8
<1> QED
  BY <1>2, <1>3

LEMMA DequeueAtDrops ==
  ASSUME NEW q \in Seq(Group), Tidy(q), NEW i \in DOMAIN q, NEW k \in DOMAIN q[i].jobs
  PROVE  /\ DequeueAt(q, i, k) \in Seq(Group) /\ Tidy(DequeueAt(q, i, k))
         /\ InQueue(DequeueAt(q, i, k)) = InQueue(q) \ {q[i].jobs[k]}
<1>1. PICK s : s = q[i].jobs
  OBVIOUS
<1>2. /\ s \in Seq(Jobs) /\ Once(s) /\ k \in 1 .. Len(s) /\ q[i] \in ToSet(q) /\ i \in 1 .. Len(q)
      /\ ToSet(s) \subseteq InQueue(q) /\ TidyGroups(ToSet(q)) /\ Once(q)
  <2>1. s \in Seq(Jobs) /\ q[i] \in ToSet(q) /\ i \in 1 .. Len(q)
    BY <1>1, GroupOf
  <2>2. k \in 1 .. Len(s)
    BY <1>1, <2>1, InSeq
  <2> QED
    BY <1>1, <2>1, <2>2 DEF Tidy, TidyGroups, InQueue
<1>3. PICK m : m = RemoveAt(s, k)
  OBVIOUS
<1>4. m \in Seq(Jobs) /\ Once(m) /\ ToSet(m) = ToSet(s) \ {s[k]}
  BY <1>2, <1>3, RemoveSingle
<1>5. s[k] \in ToSet(s)
  BY <1>1 DEF ToSet
<1>6. CASE m # <<>>
  <2>1. DequeueAt(q, i, k) = Rejobbed(q, i, m)
    BY <1>1, <1>3, <1>6 DEF DequeueAt, Rejobbed
  <2>2. /\ q \in Seq(Group) /\ Tidy(q) /\ i \in DOMAIN q /\ m \in Seq(Jobs) /\ m # <<>> /\ Once(m)
        /\ ToSet(m) \cap InQueue(q) \subseteq ToSet(q[i].jobs)
    BY <1>1, <1>4, <1>6
  <2>3. /\ Rejobbed(q, i, m) \in Seq(Group) /\ Tidy(Rejobbed(q, i, m))
        /\ InQueue(Rejobbed(q, i, m)) = (InQueue(q) \ ToSet(q[i].jobs)) \cup ToSet(m)
    BY <2>2, RejobbedQueue
  <2>4. (InQueue(q) \ ToSet(s)) \cup ToSet(m) = InQueue(q) \ {s[k]}
    BY <1>2, <1>4, <1>5
  <2> QED
    BY <1>1, <2>1, <2>3, <2>4
<1>7. CASE m = <<>>
  <2>1. DequeueAt(q, i, k) = RemoveAt(q, i)
    BY <1>1, <1>3, <1>7 DEF DequeueAt
  <2>2. ToSet(m) = {}
    BY <1>7 DEF ToSet
  <2>3. ToSet(s) = {s[k]}
    BY <1>4, <1>5, <2>2
  <2>4. /\ RemoveAt(q, i) \in Seq(Group) /\ Once(RemoveAt(q, i))
        /\ ToSet(RemoveAt(q, i)) = ToSet(q) \ {q[i]}
    BY <1>2, RemoveSingle
  <2>5. PICK G, g : G = ToSet(q) /\ g = q[i]
    OBVIOUS
  <2>6. TidyGroups(G) /\ g \in G
    BY <1>2, <2>5
  <2>7. TidyGroups(G \ {g}) /\ JobsOf(G \ {g}) = JobsOf(G) \ ToSet(g.jobs)
    BY <2>6, DropGroup
  <2>8. InQueue(RemoveAt(q, i)) = JobsOf(G \ {g}) /\ InQueue(q) = JobsOf(G)
    BY <2>4, <2>5, QueueIs
  <2> QED
    BY <1>1, <2>1, <2>3, <2>4, <2>5, <2>7, <2>8 DEF Tidy
<1> QED
  BY <1>6, <1>7

\* remove takes the job out, wherever it is.
LEMMA DequeueDrops ==
  ASSUME NEW q \in Seq(Group), Tidy(q), NEW j
  PROVE  /\ Dequeue(q, j) \in Seq(Group) /\ Tidy(Dequeue(q, j))
         /\ InQueue(Dequeue(q, j)) = InQueue(q) \ {j}
<1>1. CASE Holds(q, j) = {}
  <2>1. j \notin InQueue(q)
    BY <1>1 DEF Holds, InQueue
  <2> QED
    BY <1>1, <2>1 DEF Dequeue
<1>2. CASE Holds(q, j) # {}
  <2>1. PICK i : i = CHOOSE n \in Holds(q, j) : TRUE
    OBVIOUS
  <2>2. i \in DOMAIN q /\ j \in ToSet(q[i].jobs)
    <3>1. i \in Holds(q, j)
      BY <1>2, <2>1
    <3> QED
      BY <3>1 DEF Holds
  <2>3. PICK k : k = CHOOSE n \in DOMAIN q[i].jobs : q[i].jobs[n] = j
    OBVIOUS
  <2>4. k \in DOMAIN q[i].jobs /\ q[i].jobs[k] = j
    <3>1. \E n \in DOMAIN q[i].jobs : q[i].jobs[n] = j
      BY <2>2 DEF ToSet
    <3> QED
      BY <2>3, <3>1
  <2>5. Dequeue(q, j) = DequeueAt(q, i, k)
    BY <1>2, <2>1, <2>3 DEF Dequeue
  <2>6. q \in Seq(Group) /\ Tidy(q) /\ i \in DOMAIN q /\ k \in DOMAIN q[i].jobs
    BY <2>2, <2>4
  <2>7. /\ DequeueAt(q, i, k) \in Seq(Group) /\ Tidy(DequeueAt(q, i, k))
        /\ InQueue(DequeueAt(q, i, k)) = InQueue(q) \ {q[i].jobs[k]}
    BY <2>6, DequeueAtDrops
  <2> QED
    BY <2>4, <2>5, <2>7
<1> QED
  BY <1>1, <1>2

\* A pop takes the first job of the group; what is left of it goes last.
LEMMA PopGroupTakes ==
  ASSUME NEW q \in Seq(Group), Tidy(q), NEW i \in 1 .. Len(q)
  PROVE  /\ PopGroup(q, i) \in Seq(Group) /\ Tidy(PopGroup(q, i))
         /\ Head(q[i].jobs) \in InQueue(q) /\ Head(q[i].jobs) \in Jobs
         /\ InQueue(PopGroup(q, i)) = InQueue(q) \ {Head(q[i].jobs)}
<1>0. i \in DOMAIN q
  OBVIOUS
<1>1. PICK s : s = q[i].jobs
  OBVIOUS
<1>2. /\ s \in Seq(Jobs) /\ Once(s) /\ s # <<>> /\ q[i] \in ToSet(q)
      /\ ToSet(s) \subseteq InQueue(q) /\ TidyGroups(ToSet(q)) /\ Once(q)
  <2>1. s \in Seq(Jobs) /\ q[i] \in ToSet(q)
    BY <1>0, <1>1, GroupOf
  <2> QED
    BY <1>0, <1>1, <2>1 DEF Tidy, TidyGroups, InQueue
<1>3. PICK m : m = Tail(s)
  OBVIOUS
<1>4. /\ m \in Seq(Jobs) /\ Once(m) /\ ToSet(m) = ToSet(s) \ {Head(s)}
      /\ Head(s) \in ToSet(s) /\ Head(s) \in Jobs
  BY <1>2, <1>3, TailSingle
<1> DEFINE before == SubSeq(q, 1, i - 1)
           behind == SubSeq(q, i + 1, Len(q))
           ring == behind \o before
<1>5. /\ before \in Seq(Group) /\ behind \in Seq(Group) /\ Once(before) /\ Once(behind)
      /\ ToSet(before) \cap ToSet(behind) = {}
      /\ ToSet(before) \cup ToSet(behind) = ToSet(q) \ {q[i]}
  BY <1>2, AroundSingle
<1>6. PopGroup(q, i) = ring \o (IF m = <<>> THEN <<>> ELSE <<[q[i] EXCEPT !.jobs = m]>>)
  BY <1>1, <1>3 DEF PopGroup
<1> HIDE DEF before, behind
<1>7. ring \in Seq(Group) /\ Once(ring) /\ ToSet(ring) = ToSet(q) \ {q[i]}
  <2>1. /\ behind \in Seq(Group) /\ before \in Seq(Group) /\ Once(behind) /\ Once(before)
        /\ ToSet(behind) \cap ToSet(before) = {}
    BY <1>5
  <2>2. ring \in Seq(Group) /\ Once(ring) /\ ToSet(ring) = ToSet(behind) \cup ToSet(before)
    BY <2>1, ConcatSingle
  <2> QED
    BY <1>5, <2>2
<1> HIDE DEF ring
<1>8. CASE m = <<>>
  <2>1. PopGroup(q, i) = ring
    BY <1>6, <1>7, <1>8
  <2>2. ToSet(m) = {}
    BY <1>8 DEF ToSet
  <2>3. ToSet(s) = {Head(s)}
    BY <1>4, <2>2
  <2>5. PICK G, g : G = ToSet(q) /\ g = q[i]
    OBVIOUS
  <2>6. TidyGroups(G) /\ g \in G
    BY <1>2, <2>5
  <2>7. TidyGroups(G \ {g}) /\ JobsOf(G \ {g}) = JobsOf(G) \ ToSet(g.jobs)
    BY <2>6, DropGroup
  <2>8. InQueue(ring) = JobsOf(G \ {g}) /\ InQueue(q) = JobsOf(G)
    BY <1>7, <2>5, QueueIs
  <2> QED
    BY <1>1, <1>2, <1>4, <1>7, <2>1, <2>3, <2>5, <2>7, <2>8 DEF Tidy
<1>9. CASE m # <<>>
  <2>1. /\ q \in Seq(Group) /\ Tidy(q) /\ i \in DOMAIN q /\ m \in Seq(Jobs) /\ m # <<>> /\ Once(m)
        /\ ToSet(m) \cap InQueue(q) \subseteq ToSet(q[i].jobs)
    BY <1>0, <1>1, <1>4, <1>9
  <2>2. PICK n \in Group :
          /\ n = [q[i] EXCEPT !.jobs = m] /\ n \notin ToSet(q) \ {q[i]}
          /\ TidyGroups((ToSet(q) \ {q[i]}) \cup {n})
          /\ JobsOf((ToSet(q) \ {q[i]}) \cup {n}) = (InQueue(q) \ ToSet(q[i].jobs)) \cup ToSet(m)
    BY <2>1, NewJobs
  <2>3. PICK last : last = <<n>>
    OBVIOUS
  <2>4. last \in Seq(Group) /\ Once(last) /\ ToSet(last) = {n}
    <3>1. last \in Seq(Group) /\ DOMAIN last = {1} /\ last[1] = n
      BY <2>3
    <3> QED
      BY <3>1 DEF Once, ToSet
  <2>5. ring \in Seq(Group) /\ last \in Seq(Group) /\ Once(ring) /\ Once(last) /\ ToSet(ring) \cap ToSet(last) = {}
    BY <1>7, <2>2, <2>4
  <2>6. ring \o last \in Seq(Group) /\ Once(ring \o last) /\ ToSet(ring \o last) = ToSet(ring) \cup ToSet(last)
    BY <2>5, ConcatSingle
  <2>7. PopGroup(q, i) = ring \o last
    BY <1>6, <1>9, <2>2, <2>3
  <2>8. InQueue(ring \o last) = JobsOf(ToSet(ring \o last))
    BY <2>6, QueueIs
  <2>9. (InQueue(q) \ ToSet(s)) \cup ToSet(m) = InQueue(q) \ {Head(s)}
    BY <1>2, <1>4
  <2> QED
    BY <1>1, <1>2, <1>4, <1>7, <2>2, <2>4, <2>6, <2>7, <2>8, <2>9 DEF Tidy
<1> QED
  BY <1>8, <1>9

----------------------------------------------------------------------------
(* The lists of all priorities.                                           *)

\* A job is in one group of one queue, once.
Apart(lists) == \A p, l \in Levels : p # l => InQueue(lists[p]) \cap InQueue(lists[l]) = {}
PoolInv == lanes \in [Levels -> Seq(Group)] /\ (\A p \in Levels : Tidy(lanes[p])) /\ Apart(lanes)

LEMMA PendingAt ==
  ASSUME NEW lists, Apart(lists), NEW j \in Jobs, NEW p \in Levels, j \in InQueue(lists[p])
  PROVE  PendingIn(lists)[j] = p
<1>1. PICK l : l = CHOOSE n \in Levels : j \in InQueue(lists[n])
  OBVIOUS
<1>2. l \in Levels /\ j \in InQueue(lists[l])
  BY <1>1
<1>3. l = p
  BY <1>2 DEF Apart
<1> QED
  BY <1>1, <1>3 DEF PendingIn

LEMMA PendingNot ==
  ASSUME NEW lists, NEW j \in Jobs, \A p \in Levels : j \notin InQueue(lists[p])
  PROVE  PendingIn(lists)[j] = "out"
BY DEF PendingIn

LEMMA SamePending ==
  ASSUME NEW old, Apart(old), NEW new, Apart(new), NEW j \in Jobs,
         \A p \in Levels : j \in InQueue(old[p]) <=> j \in InQueue(new[p])
  PROVE  PendingIn(new)[j] = PendingIn(old)[j]
<1>1. CASE \E p \in Levels : j \in InQueue(old[p])
  BY <1>1, PendingAt
<1>2. CASE \A p \in Levels : j \notin InQueue(old[p])
  <2>1. PendingIn(old)[j] = "out"
    BY <1>2, PendingNot
  <2>2. \A p \in Levels : j \notin InQueue(new[p])
    BY <1>2
  <2> QED
    BY <2>1, <2>2, PendingNot
<1> QED
  BY <1>1, <1>2

LEMMA PoolInit == SchedulerInit => PoolInv /\ Pool!Init
<1> SUFFICES ASSUME SchedulerInit PROVE PoolInv /\ Pool!Init
  OBVIOUS
<1>1. lanes \in [Levels -> Seq(Group)] /\ \A p \in Levels : lanes[p] = <<>>
  BY DEF SchedulerInit, Empty
<1>2. Tidy(<<>>) /\ InQueue(<<>>) = {}
  BY DEF Tidy, Once, TidyGroups, ToSet, InQueue
<1>3. PoolInv
  BY <1>1, <1>2 DEF PoolInv, Apart
<1>4. \A j \in Jobs : PendingIn(lanes)[j] = "out"
  BY <1>1, <1>2, PendingNot
<1>5. PendingIn(lanes) = [j \in Jobs |-> "out"]
  BY <1>4 DEF PendingIn
<1> QED
  BY <1>3, <1>5 DEF Pool!Init

LEMMA PushMoves ==
  ASSUME PoolInv, NEW j \in Jobs, NEW p \in Levels, push(j, p)
  PROVE  PoolInv' /\ Pool!Push(j, p)
<1>1. PICK others : others = [l \in Levels |-> Dequeue(lanes[l], j)]
  OBVIOUS
<1>2. ASSUME NEW l \in Levels
      PROVE  others[l] \in Seq(Group) /\ Tidy(others[l]) /\ InQueue(others[l]) = InQueue(lanes[l]) \ {j}
  <2>1. lanes[l] \in Seq(Group) /\ Tidy(lanes[l])
    BY DEF PoolInv
  <2>2. others[l] = Dequeue(lanes[l], j)
    BY <1>1
  <2> QED
    BY <2>1, <2>2, DequeueDrops
<1>3. /\ Enqueue(others[p], j) \in Seq(Group) /\ Tidy(Enqueue(others[p], j))
      /\ InQueue(Enqueue(others[p], j)) = InQueue(lanes[p]) \cup {j}
  <2>1. others[p] \in Seq(Group) /\ Tidy(others[p]) /\ j \notin InQueue(others[p])
    BY <1>2
  <2>2. /\ Enqueue(others[p], j) \in Seq(Group) /\ Tidy(Enqueue(others[p], j))
        /\ InQueue(Enqueue(others[p], j)) = InQueue(others[p]) \cup {j}
    BY <2>1, EnqueueAdds
  <2> QED
    BY <1>2, <2>2
<1>4. /\ lanes' \in [Levels -> Seq(Group)]
      /\ \A l \in Levels : lanes'[l] = IF l = p THEN Enqueue(others[p], j) ELSE others[l]
  <2>1. lanes' = [others EXCEPT ![p] = Enqueue(@, j)]
    BY <1>1 DEF push, Push
  <2>2. others \in [Levels -> Seq(Group)]
    BY <1>1, <1>2
  <2> QED
    BY <1>3, <2>1, <2>2
<1>5. \A l \in Levels : /\ Tidy(lanes'[l])
                       /\ \A x : x \in InQueue(lanes'[l]) <=> (x = j /\ l = p) \/ (x # j /\ x \in InQueue(lanes[l]))
  BY <1>2, <1>3, <1>4
<1>6. Apart(lanes) /\ Apart(lanes')
  BY <1>5 DEF PoolInv, Apart
<1>7. PoolInv'
  BY <1>4, <1>5, <1>6 DEF PoolInv, Apart
<1>8. PendingIn(lanes')[j] = p
  BY <1>5, <1>6, PendingAt
<1>9. ASSUME NEW x \in Jobs, x # j PROVE PendingIn(lanes')[x] = PendingIn(lanes)[x]
  <2>1. \A l \in Levels : x \in InQueue(lanes[l]) <=> x \in InQueue(lanes'[l])
    BY <1>5, <1>9
  <2> QED
    BY <1>6, <2>1, SamePending
<1>10. PendingIn(lanes') = [PendingIn(lanes) EXCEPT ![j] = p]
  <2>1. PICK old, new : old = PendingIn(lanes) /\ new = PendingIn(lanes')
    OBVIOUS
  <2>2. DOMAIN old = Jobs /\ old = [x \in Jobs |-> old[x]] /\ new = [x \in Jobs |-> new[x]]
    BY <2>1 DEF PendingIn
  <2>3. new[j] = p /\ \A x \in Jobs : x # j => new[x] = old[x]
    BY <1>8, <1>9, <2>1
  <2>4. new = [old EXCEPT ![j] = p]
    BY <2>2, <2>3
  <2> QED
    BY <2>1, <2>4
<1> QED
  BY <1>7, <1>10 DEF Pool!Push

LEMMA PopMoves ==
  ASSUME PoolInv, turn \in Nat, NEW ready, pop_next(ready)
  PROVE  PoolInv' /\ \E j \in Jobs : Pool!Pop(j)
<1> DEFINE hits == Hits(lanes, turn, ready)
           k == Least(hits)
<1>1. k \in 0 .. 5 /\ Ready(lanes[Slot(turn, k)], ready) # {}
  <2>1. hits \in SUBSET Nat /\ hits \subseteq 0 .. 5 /\ hits # {}
    BY SixSlots DEF Hits, pop_next
  <2>2. k \in hits
    <3> HIDE DEF hits
    <3> QED
      BY <2>1, LeastNatural
  <2> QED
    BY <2>1, <2>2 DEF Hits
<1>2. PICK p \in Levels : p = Slot(turn, k)
  BY <1>1, SlotPriority
<1> DEFINE group == Ready(lanes[p], ready)
           i == Least(group)
<1>3. lanes' = [lanes EXCEPT ![p] = PopGroup(@, i)]
  BY <1>2 DEF pop_next, PopNext
<1>4. i \in group
  <2>1. group \in SUBSET Nat /\ group # {}
    BY <1>1, <1>2 DEF Ready
  <2> HIDE DEF group
  <2> QED
    BY <2>1, LeastNatural
<1>5. i \in 1 .. Len(lanes[p])
  BY <1>4 DEF Ready
<1> HIDE DEF i, group, k
<1>6. PICK j : j = Head(lanes[p][i].jobs)
  OBVIOUS
<1>7. /\ PopGroup(lanes[p], i) \in Seq(Group) /\ Tidy(PopGroup(lanes[p], i))
      /\ j \in InQueue(lanes[p]) /\ j \in Jobs
      /\ InQueue(PopGroup(lanes[p], i)) = InQueue(lanes[p]) \ {j}
  <2>1. lanes[p] \in Seq(Group) /\ Tidy(lanes[p]) /\ i \in 1 .. Len(lanes[p])
    BY <1>5 DEF PoolInv
  <2> QED
    BY <1>6, <2>1, PopGroupTakes
<1>8. /\ lanes' \in [Levels -> Seq(Group)]
      /\ \A l \in Levels : lanes'[l] = IF l = p THEN PopGroup(lanes[p], i) ELSE lanes[l]
  <2>1. lanes \in [Levels -> Seq(Group)]
    BY DEF PoolInv
  <2> QED
    BY <1>3, <1>7, <2>1
<1>9. \A l \in Levels : /\ Tidy(lanes'[l])
                       /\ \A x : x \in InQueue(lanes'[l]) <=> x # j /\ x \in InQueue(lanes[l])
  <2>1. \A l \in Levels : l # p => j \notin InQueue(lanes[l])
    BY <1>7 DEF PoolInv, Apart
  <2> QED
    BY <1>7, <1>8, <2>1 DEF PoolInv
<1>10. Apart(lanes) /\ Apart(lanes')
  BY <1>9 DEF PoolInv, Apart
<1>11. PoolInv'
  BY <1>8, <1>9, <1>10 DEF PoolInv, Apart
<1>12. PendingIn(lanes)[j] # "out" /\ PendingIn(lanes')[j] = "out"
  <2>1. PendingIn(lanes)[j] = p /\ p # "out"
    BY <1>7, <1>10, PendingAt DEF Levels
  <2> QED
    BY <1>7, <1>9, <2>1, PendingNot
<1>13. ASSUME NEW x \in Jobs, x # j PROVE PendingIn(lanes')[x] = PendingIn(lanes)[x]
  <2>1. \A l \in Levels : x \in InQueue(lanes[l]) <=> x \in InQueue(lanes'[l])
    BY <1>9, <1>13
  <2> QED
    BY <1>10, <2>1, SamePending
<1>14. PendingIn(lanes') = [PendingIn(lanes) EXCEPT ![j] = "out"]
  <2>1. PICK old, new : old = PendingIn(lanes) /\ new = PendingIn(lanes')
    OBVIOUS
  <2>2. DOMAIN old = Jobs /\ old = [x \in Jobs |-> old[x]] /\ new = [x \in Jobs |-> new[x]]
    BY <2>1 DEF PendingIn
  <2>3. new[j] = "out" /\ \A x \in Jobs : x # j => new[x] = old[x]
    BY <1>12, <1>13, <2>1
  <2>4. new = [old EXCEPT ![j] = "out"]
    BY <2>2, <2>3
  <2> QED
    BY <2>1, <2>4
<1> QED
  BY <1>7, <1>11, <1>12, <1>14 DEF Pool!Pop

\* Whatever is pushed and popped, and whatever may run: a push replaces the job's
\* one snapshot, and a pop takes one pending job and loses no other.
THEOREM SchedulerIsPool == SchedulerInit /\ [][SchedulerNext]_fvars => PoolSpec
<1>1. SchedulerInit => PoolInv /\ BypassInv /\ Pool!Init
  BY PoolInit, BypassInit
<1>2. PoolInv /\ BypassInv /\ [SchedulerNext]_fvars
      => PoolInv' /\ BypassInv' /\ [Pool!Next]_(PendingIn(lanes))
  <2> SUFFICES ASSUME PoolInv, BypassInv, [SchedulerNext]_fvars
               PROVE  PoolInv' /\ [Pool!Next]_(PendingIn(lanes))
    BY BypassStep
  <2>1. CASE UNCHANGED fvars
    BY <2>1 DEF fvars, PoolInv, Apart
  <2>2. ASSUME NEW j \in Pushed, NEW p \in Levels, push(j, p)
        PROVE  PoolInv' /\ [Pool!Next]_(PendingIn(lanes))
    <3>1. j \in Jobs
      BY PushedAssumption
    <3>2. PoolInv' /\ Pool!Push(j, p)
      BY <2>2, <3>1, PushMoves
    <3> QED
      BY <3>1, <3>2 DEF Pool!Next
  <2>3. ASSUME NEW ready \in SUBSET Pushed, pop_next(ready)
        PROVE  PoolInv' /\ [Pool!Next]_(PendingIn(lanes))
    <3>1. turn \in Nat
      BY DEF BypassInv
    <3>2. PoolInv' /\ \E j \in Jobs : Pool!Pop(j)
      BY <2>3, <3>1, PopMoves
    <3> QED
      BY <3>2 DEF Pool!Next
  <2> QED
    BY <2>1, <2>2, <2>3 DEF SchedulerNext
<1> QED
  BY <1>1, <1>2, PTL DEF PoolSpec, Pool!Spec

----------------------------------------------------------------------------
(* The worker's choice.                                                    *)

\* A job more, or one less, among those of a finite set that have a property.
LEMMA CountOfClass ==
  ASSUME NEW S, IsFiniteSet(S), NEW j, NEW c
  PROVE  /\ IsFiniteSet(OfClass(S, c)) /\ Cardinality(OfClass(S, c)) \in Nat
         /\ Cardinality(OfClass(S \cup {j}, c)) <=
              Cardinality(OfClass(S, c)) + (IF class[j] = c THEN 1 ELSE 0)
         /\ j \in S => Cardinality(OfClass(S \ {j}, c)) =
              Cardinality(OfClass(S, c)) - (IF class[j] = c THEN 1 ELSE 0)
<1>1. IsFiniteSet(OfClass(S, c))
  BY FS_Subset DEF OfClass
<1>2. Cardinality(OfClass(S, c)) \in Nat
  BY <1>1, FS_CardinalityType
<1>3. CASE class[j] = c
  <2>1. OfClass(S \cup {j}, c) = OfClass(S, c) \cup {j} /\ OfClass(S \ {j}, c) = OfClass(S, c) \ {j}
    BY <1>3 DEF OfClass
  <2>2. j \in S => j \in OfClass(S, c)
    BY <1>3 DEF OfClass
  <2> DEFINE C == OfClass(S, c)
  <2> HIDE DEF C
  <2>3. IsFiniteSet(C) /\ Cardinality(C) \in Nat
    BY <1>1, <1>2 DEF C
  <2>4. Cardinality(C \cup {j}) <= Cardinality(C) + 1
    <3>1. Cardinality(C \cup {j}) = IF j \in C THEN Cardinality(C) ELSE Cardinality(C) + 1
      BY <2>3, FS_AddElement, Zenon
    <3> QED
      BY <2>3, <3>1
  <2>5. j \in C => Cardinality(C \ {j}) = Cardinality(C) - 1
    BY <2>3, FS_RemoveElement
  <2> QED
    BY <1>1, <1>2, <1>3, <2>1, <2>2, <2>4, <2>5 DEF C
<1>4. CASE class[j] # c
  <2>1. OfClass(S \cup {j}, c) = OfClass(S, c) /\ OfClass(S \ {j}, c) = OfClass(S, c)
    BY <1>4 DEF OfClass
  <2> QED
    BY <1>1, <1>2, <1>4, <2>1
<1> QED
  BY <1>1, <1>2, <1>3, <1>4

\* A circuit that has sent out its probe has a running job.
ProbeTypes == circuits \in [Classes -> [failures : 0 .. Threshold,
                              opened : {"no", "cooling", "cooled"}, probe : BOOLEAN]]
LimitTypes == /\ settings \in SettingsChoices
              /\ limits.global \in Nat /\ limits.limit \in [Classes -> Nat]
AdmissionInv == cursor \in 0 .. 5 /\ Admitted /\ ProbeTypes /\ LimitTypes

LEMMA LimitsRead ==
  ASSUME NEW s \in SettingsChoices
  PROVE  from_settings(s).global \in Nat /\ from_settings(s).limit \in [Classes -> Nat]
BY AdmissionAssumption DEF from_settings, Atleast1, Smaller

LEMMA AdmissionInit == Init => AdmissionInv /\ ProbeHeld
<1> SUFFICES ASSUME Init PROVE AdmissionInv /\ ProbeHeld
  OBVIOUS
<1> USE AdmissionAssumption DEF Init
<1>1. Cardinality({}) = 0 /\ IsFiniteSet(running) /\ \A c \in Classes : OfClass(running, c) = {}
  BY FS_EmptySet DEF OfClass
<1>2. Covers
  <2>1. \A c \in Classes : Cardinality(OfClass(running, c)) = 0
    BY <1>1
  <2> QED
    BY <1>1, <2>1 DEF Covers
<1>3. Numbers /\ Counted /\ Exclusive
  BY DEF Numbers, Counted, Exclusive
<1>4. ProbeTypes /\ ProbeHeld
  BY DEF ProbeTypes, ProbeHeld, Closed
<1>5. LimitTypes
  BY LimitsRead DEF LimitTypes
<1> QED
  BY <1>2, <1>3, <1>4, <1>5 DEF AdmissionInv, Admitted

\* The job a round pops is one the limits, exclusions and circuits let through.
LEMMA PoppedJob ==
  ASSUME cursor \in 0 .. 5, Hits(queues, cursor, eligible) # {}
  PROVE  Popped.job \in eligible /\ Popped.cursor \in 0 .. 5
<1> DEFINE ready == eligible
<1> HIDE DEF ready
<1>1. Hits(queues, cursor, ready) # {} /\ cursor \in 0 .. 5
  BY DEF ready
<1>2. \E k \in 0 .. 5 : /\ PopNext(queues, cursor, ready).job \in ready
                        /\ PopNext(queues, cursor, ready).cursor = (cursor + k + 1) % 6
  <2> DEFINE q == queues
             t == cursor
  <2> HIDE DEF q, t
  <2>1. t \in 0 .. 5 /\ Hits(q, t, ready) # {}
    BY <1>1 DEF q, t
  <2>2. \E k \in 0 .. 5 : /\ PopNext(q, t, ready).job \in ready
                          /\ PopNext(q, t, ready).cursor = (t + k + 1) % 6
    <3>1. \E k \in 0 .. 5 :
            /\ PopNext(q, t, ready).job \in ready
            /\ PopNext(q, t, ready).cursor = (t + k + 1) % 6
            /\ PopNext(q, t, ready).prio = Slot(t, k)
            /\ \A n \in 0 .. 5 : n < k => Ready(q[Slot(t, n)], ready) = {}
      BY <2>1, PoppedIs, Zenon
    <3> QED
      BY <3>1
  <2> QED
    BY <2>2 DEF q, t
<1> QED
  BY <1>1, <1>2 DEF Popped, ready

\* What is started was free to start, and stays within the limits read last.
LEMMA AdmitKeeps ==
  ASSUME AdmissionInv, Admit
  PROVE  /\ AdmissionInv'
         /\ Popped.job \in Jobs /\ running' = running \cup {Popped.job}
         /\ Cardinality(running') <= limits.global
         /\ Cardinality(OfClass(running', class[Popped.job])) <= limits.limit[class[Popped.job]]
<1> USE AdmissionAssumption
<1> DEFINE j == Popped.job
<1>t. cursor \in 0 .. 5 /\ Numbers /\ Covers /\ Counted /\ Exclusive /\ ProbeTypes
      /\ LimitTypes
  BY DEF AdmissionInv, Admitted
<1>1. /\ Hits(queues, cursor, eligible) # {} /\ running' = running \cup {j} /\ start(j)
      /\ cursor' = Popped.cursor /\ circuits' = Marked(j)
  BY DEF Admit
<1>2. j \in eligible /\ cursor' \in 0 .. 5
  BY <1>t, <1>1, PoppedJob
<1> HIDE DEF j
<1>3. j \in Jobs /\ can_start(j) /\ class[j] \in Classes
  BY <1>2 DEF eligible
<1>4. Numbers'
  BY <1>t, <1>1, <1>3 DEF Numbers, start
<1>5. Exclusive'
  <2>1. ASSUME NEW i \in running
        PROVE  /\ subscription[i] = subscription[j] => subscription[i] = NoSubscription
               /\ i \notin bulk /\ (j \in bulk => subscription[i] = NoSubscription)
    <3>1. subscription[i] # NoSubscription =>
            subscription[i] \in Subscriptions /\ subscriptions[subscription[i]] > 0
      BY <1>t, <2>1 DEF Counted, Covers, Subscriptions
    <3>2. i \notin bulk
      BY <1>t, <1>3, <2>1 DEF Counted, can_start, Numbers
    <3> QED
      BY <1>t, <1>3, <3>1, <3>2 DEF can_start, Numbers
  <2>2. j \in bulk => subscription[j] = NoSubscription
    OBVIOUS
  <2> QED
    BY <1>t, <1>1, <2>1, <2>2 DEF Exclusive
<1>6. Counted'
  <2>1. \A s \in Subscriptions : subscriptions'[s] >= subscriptions[s]
    BY <1>t, <1>1 DEF start, Numbers
  <2>2. all_subscriptions' >= all_subscriptions
    BY <1>t, <1>1 DEF start, Numbers
  <2>3. ASSUME NEW i \in running', subscription[i] # NoSubscription
        PROVE  subscriptions'[subscription[i]] > 0
    <3>1. subscription[i] \in Subscriptions
      BY <1>t, <1>1, <1>3, <2>3 DEF Covers, Subscriptions
    <3>2. CASE i \in running
      BY <1>t, <1>4, <2>1, <2>3, <3>1, <3>2 DEF Counted, Numbers
    <3>3. CASE i = j
      BY <1>t, <1>1, <3>1, <3>3 DEF start, Numbers
    <3> QED
      BY <1>1, <3>2, <3>3
  <2>4. ASSUME NEW i \in running' \cap bulk PROVE all_subscriptions' > 0
    <3>1. CASE i \in running
      BY <1>t, <1>4, <2>2, <2>4, <3>1 DEF Counted, Numbers
    <3>2. CASE i = j
      BY <1>t, <1>1, <2>4, <3>2 DEF start, Numbers
    <3> QED
      BY <1>1, <2>4, <3>1, <3>2
  <2> QED
    BY <2>3, <2>4 DEF Counted
<1>7. /\ IsFiniteSet(running') /\ Cardinality(running') <= total'
      /\ Cardinality(running') <= limits.global
  <2>1. IsFiniteSet(running) /\ IsFiniteSet(running \cup {j})
        /\ Cardinality(running \cup {j}) <= Cardinality(running) + 1
    <3>1. IsFiniteSet(running) /\ Cardinality(running) \in Nat
      BY <1>t, FS_CardinalityType DEF Covers
    <3>2. /\ IsFiniteSet(running \cup {j})
          /\ Cardinality(running \cup {j}) =
               IF j \in running THEN Cardinality(running) ELSE Cardinality(running) + 1
      BY <3>1, FS_AddElement, Zenon
    <3> QED
      BY <3>1, <3>2
  <2>2. Cardinality(running) \in Nat /\ Cardinality(running \cup {j}) \in Nat
    BY <2>1, FS_CardinalityType
  <2> QED
    BY <1>t, <1>1, <1>3, <2>1, <2>2 DEF Covers, Numbers, start, can_start, LimitTypes
<1>8. ASSUME NEW c \in Classes
      PROVE  /\ Cardinality(OfClass(running', c)) <= by_class'[c]
             /\ c = class[j] => Cardinality(OfClass(running', c)) <= limits.limit[c]
  <2>1. /\ Cardinality(OfClass(running, c)) \in Nat
        /\ Cardinality(OfClass(running', c)) <=
             Cardinality(OfClass(running, c)) + (IF class[j] = c THEN 1 ELSE 0)
    BY <1>t, <1>1, CountOfClass DEF Covers
  <2>2. Cardinality(OfClass(running', c)) \in Nat
    BY <1>7, CountOfClass
  <2>3. by_class'[c] = by_class[c] + (IF class[j] = c THEN 1 ELSE 0) /\ by_class[c] \in Nat
    BY <1>t, <1>1 DEF start, Numbers
  <2> QED
    BY <1>t, <1>3, <2>1, <2>2, <2>3 DEF Covers, can_start, LimitTypes
<1>9. ProbeTypes' /\ LimitTypes'
  <2>1. Marked(j) = circuits \/ Marked(j) = [circuits EXCEPT ![class[j]].probe = TRUE]
    BY DEF Marked
  <2>2. ProbeTypes'
    <3>1. circuits[class[j]] \in [failures : 0 .. Threshold,
                                  opened : {"no", "cooling", "cooled"}, probe : BOOLEAN]
      BY <1>t, <1>3 DEF ProbeTypes
    <3>2. [circuits[class[j]] EXCEPT !.probe = TRUE] \in
            [failures : 0 .. Threshold, opened : {"no", "cooling", "cooled"}, probe : BOOLEAN]
      BY <3>1
    <3> QED
      BY <1>t, <1>1, <1>3, <2>1, <3>2 DEF ProbeTypes
  <2>3. LimitTypes'
    BY <1>t DEF LimitTypes, Admit
  <2> QED
    BY <2>2, <2>3
<1>10. Covers'
  BY <1>t, <1>1, <1>3, <1>7, <1>8 DEF Covers
<1> QED
  BY <1>1, <1>2, <1>3, <1>4, <1>5, <1>6, <1>7, <1>8, <1>9, <1>10 DEF AdmissionInv, Admitted, j

\* What ends gives back what it took, and no more.
LEMMA FinishKeeps ==
  ASSUME AdmissionInv, NEW j \in Jobs, NEW result, Finish(j, result), result \in AllResults
  PROVE  AdmissionInv'
<1> USE AdmissionAssumption
<1>t. cursor \in 0 .. 5 /\ Numbers /\ Covers /\ Counted /\ Exclusive /\ ProbeTypes
      /\ LimitTypes
  BY DEF AdmissionInv, Admitted
<1>1. /\ j \in running /\ running' = running \ {j} /\ finish(j) /\ class[j] \in Classes
      /\ circuits' = [circuits EXCEPT ![class[j]] = apply_reliability(@, result)]
      /\ UNCHANGED <<cursor, settings, limits>>
  BY DEF Finish, scheduler
<1>2. Numbers'
  BY <1>t, <1>1 DEF Numbers, finish, Decrement
<1>3. Exclusive'
  BY <1>t, <1>1 DEF Exclusive
<1>4. Counted'
  <2>1. ASSUME NEW i \in running', subscription[i] # NoSubscription
        PROVE  subscriptions'[subscription[i]] > 0
    <3>1. subscription[i] \in Subscriptions /\ subscription[i] # subscription[j]
      BY <1>t, <1>1, <2>1 DEF Covers, Subscriptions, Exclusive
    <3> QED
      BY <1>t, <1>1, <2>1, <3>1 DEF finish, Counted
  <2>2. ASSUME NEW i \in running' \cap bulk PROVE all_subscriptions' > 0
    <3>1. j \notin bulk
      BY <1>t, <1>1, <2>2 DEF Exclusive
    <3> QED
      BY <1>t, <1>1, <2>2, <3>1 DEF finish, Counted
  <2> QED
    BY <2>1, <2>2 DEF Counted
<1>5. Covers'
  <2>1. IsFiniteSet(running) /\ Cardinality(running) \in Nat
    BY <1>t, FS_CardinalityType DEF Covers
  <2>2. /\ IsFiniteSet(running \ {j}) /\ Cardinality(running \ {j}) \in Nat
        /\ Cardinality(running \ {j}) = Cardinality(running) - 1
    <3>1. /\ IsFiniteSet(running \ {j})
          /\ Cardinality(running \ {j}) =
               IF j \in running THEN Cardinality(running) - 1 ELSE Cardinality(running)
      BY <2>1, FS_RemoveElement, Zenon
    <3> QED
      BY <1>1, <3>1, FS_CardinalityType
  <2>3. Cardinality(running') <= total'
    BY <1>t, <1>1, <2>1, <2>2 DEF Covers, Numbers, finish, Decrement
  <2>4. ASSUME NEW c \in Classes PROVE Cardinality(OfClass(running', c)) <= by_class'[c]
    <3>1. /\ Cardinality(OfClass(running, c)) \in Nat
          /\ Cardinality(OfClass(running', c)) =
               Cardinality(OfClass(running, c)) - (IF class[j] = c THEN 1 ELSE 0)
      BY <1>1, <2>1, CountOfClass
    <3>2. Cardinality(OfClass(running', c)) \in Nat
      BY <1>1, <2>2, CountOfClass
    <3>3. by_class'[c] = (IF class[j] = c THEN Decrement(by_class[c]) ELSE by_class[c])
          /\ by_class[c] \in Nat
      BY <1>t, <1>1 DEF finish, Numbers
    <3> QED
      BY <1>t, <3>1, <3>2, <3>3 DEF Covers, Decrement
  <2> QED
    BY <1>t, <1>1, <2>2, <2>3, <2>4 DEF Covers
<1>6. ProbeTypes'
  <2> DEFINE c == circuits[class[j]]
             Circuit == [failures : 0 .. Threshold, opened : {"no", "cooling", "cooled"},
                         probe : BOOLEAN]
  <2>1. c \in Circuit
    BY <1>t, <1>1 DEF ProbeTypes
  <2> HIDE DEF c
  <2>2. Closed \in Circuit /\ [c EXCEPT !.probe = FALSE] \in Circuit
    <3>1. 0 \in 0 .. Threshold
      BY AdmissionAssumption
    <3>2. Closed \in Circuit
      BY <3>1 DEF Closed
    <3>3. [c EXCEPT !.probe = FALSE] \in Circuit
      BY <2>1
    <3> QED
      BY <3>2, <3>3
  <2>4. record_failure(c) \in Circuit
    <3>1. Smaller(c.failures + 1, Threshold) \in 0 .. Threshold
      BY <2>1 DEF Smaller
    <3> QED
      BY <2>1, <3>1 DEF record_failure
  <2>3. apply_reliability(c, result) \in Circuit
    BY <2>1, <2>2, <2>4 DEF apply_reliability, AllResults
  <2> QED
    BY <1>t, <1>1, <2>3 DEF ProbeTypes, c
<1>7. LimitTypes'
  BY <1>t, <1>1 DEF LimitTypes
<1> QED
  BY <1>t, <1>1, <1>2, <1>3, <1>4, <1>5, <1>6, <1>7 DEF AdmissionInv, Admitted

LEMMA AdmissionStep ==
  ASSUME AdmissionInv, [Next]_vars
  PROVE  AdmissionInv'
<1> USE AdmissionAssumption
<1>t. cursor \in 0 .. 5 /\ Numbers /\ Covers /\ Counted /\ Exclusive /\ ProbeTypes
      /\ LimitTypes
  BY DEF AdmissionInv, Admitted
\* Most steps change nothing of what is counted.
<1>a. ASSUME UNCHANGED <<counters, running>>, cursor' \in 0 .. 5, ProbeTypes', LimitTypes'
      PROVE  AdmissionInv'
  BY <1>t, <1>a DEF AdmissionInv, Admitted, Numbers, Covers, Counted, Exclusive, counters
<1>b. UNCHANGED circuits => ProbeTypes'
  BY <1>t DEF ProbeTypes
<1>1. CASE UNCHANGED vars \/ EndRound \/ Tick \/ \E j \in Jobs : Receive(j)
  BY <1>t, <1>a, <1>b, <1>1 DEF vars, scheduler, EndRound, Tick, Receive, LimitTypes
<1>2. CASE BeginRound
  <2>1. LimitTypes'
    BY <1>t, <1>2, LimitsRead DEF BeginRound, LimitTypes
  <2> QED
    BY <1>t, <1>a, <1>b, <1>2, <2>1 DEF BeginRound, scheduler
<1>3. CASE ClaimRefused
  <2>1. Popped.job \in eligible /\ Popped.cursor \in 0 .. 5
    BY <1>t, <1>3, PoppedJob DEF ClaimRefused
  <2> DEFINE c == class[Popped.job]
  <2>2. c \in Classes
    BY <2>1 DEF eligible
  <2>3. circuits' = [circuits EXCEPT ![c].probe = FALSE]
    BY <1>3 DEF ClaimRefused
  <2> HIDE DEF c
  <2>4. [circuits[c] EXCEPT !.probe = FALSE] \in
          [failures : 0 .. Threshold, opened : {"no", "cooling", "cooled"}, probe : BOOLEAN]
    BY <1>t, <2>2 DEF ProbeTypes
  <2>6. ProbeTypes'
    BY <1>t, <2>2, <2>3, <2>4 DEF ProbeTypes
  <2>7. LimitTypes' /\ UNCHANGED <<counters, running>> /\ cursor' = Popped.cursor
    BY <1>t, <1>3 DEF ClaimRefused, LimitTypes
  <2> QED
    BY <1>a, <2>1, <2>6, <2>7
<1>4. CASE Admit
  BY <1>4, AdmitKeeps
<1>5. ASSUME NEW j \in Jobs, NEW r \in Results, Finish(j, r) PROVE AdmissionInv'
  BY <1>5, FinishKeeps
<1>6. ASSUME NEW c \in Classes, CooldownElapses(c) PROVE AdmissionInv'
  <2>1. [circuits[c] EXCEPT !.opened = "cooled"] \in
          [failures : 0 .. Threshold, opened : {"no", "cooling", "cooled"}, probe : BOOLEAN]
    BY <1>t DEF ProbeTypes
  <2>2. ProbeTypes'
    BY <1>t, <1>6, <2>1 DEF ProbeTypes, CooldownElapses
  <2> QED
    BY <1>t, <1>a, <1>6, <2>2 DEF CooldownElapses, LimitTypes, scheduler
<1>7. ASSUME NEW s \in SettingsChoices, ChangeSettings(s) PROVE AdmissionInv'
  BY <1>t, <1>a, <1>b, <1>7 DEF ChangeSettings, LimitTypes, scheduler
<1> QED
  BY <1>1, <1>2, <1>3, <1>4, <1>5, <1>6, <1>7 DEF Next

\* No task goes without a look at its record: see ProbeHeld.
LEMMA ProbeStep ==
  ASSUME AdmissionInv, ProbeHeld, "gone" \notin Results, [Next]_vars
  PROVE  ProbeHeld'
<1> USE AdmissionAssumption
<1>t. cursor \in 0 .. 5 /\ ProbeTypes /\ running \subseteq Jobs
  BY DEF AdmissionInv, Admitted, Covers
<1>1. CASE UNCHANGED <<circuits, running>>
  BY <1>1 DEF ProbeHeld, OfClass
<1>2. CASE ClaimRefused
  <2>1. running' = running /\ \E c : circuits' = [circuits EXCEPT ![c].probe = FALSE]
    BY <1>2 DEF ClaimRefused
  <2>2. \A c \in Classes : circuits'[c].probe => circuits[c].probe
    BY <1>t, <2>1 DEF ProbeTypes
  <2> QED
    BY <2>1, <2>2 DEF ProbeHeld, OfClass
<1>3. CASE Admit
  <2> DEFINE j == Popped.job
  <2>1. running' = running \cup {j} /\ circuits' = Marked(j)
    BY <1>3 DEF Admit
  <2> HIDE DEF j
  <2>2. \A c \in Classes : circuits'[c].probe => circuits[c].probe \/ c = class[j]
    BY <1>t, <2>1 DEF ProbeTypes, Marked
  <2> QED
    BY <2>1, <2>2 DEF ProbeHeld, OfClass
<1>4. ASSUME NEW j \in Jobs, NEW r \in Results, Finish(j, r) PROVE ProbeHeld'
  <2>1. /\ running' = running \ {j} /\ class[j] \in Classes
        /\ circuits' = [circuits EXCEPT ![class[j]] = apply_reliability(@, r)]
    BY <1>4 DEF Finish
  <2> DEFINE k == circuits[class[j]]
  <2>2. k \in [failures : 0 .. Threshold, opened : {"no", "cooling", "cooled"}, probe : BOOLEAN]
    BY <1>t, <2>1 DEF ProbeTypes
  <2> HIDE DEF k
  <2>3. ~ apply_reliability(k, r).probe
    <3>1. [k EXCEPT !.probe = FALSE].probe = FALSE
      BY <2>2
    <3>2. r \in {"succeeded", "retryable", "permanent", "other"}
      BY DEF AllResults
    <3> QED
      BY <3>1, <3>2 DEF apply_reliability, Closed, record_failure
  <2>4. \A c \in Classes : circuits'[c].probe => circuits[c].probe /\ c # class[j]
    BY <1>t, <2>1, <2>3 DEF ProbeTypes, k
  <2> QED
    BY <2>1, <2>4 DEF ProbeHeld, OfClass
<1>5. ASSUME NEW c \in Classes, CooldownElapses(c) PROVE ProbeHeld'
  <2>1. \A d \in Classes : circuits'[d].probe = circuits[d].probe
    BY <1>t, <1>5 DEF CooldownElapses, ProbeTypes
  <2> QED
    BY <1>5, <2>1 DEF CooldownElapses, ProbeHeld, OfClass
<1> QED
  BY <1>1, <1>2, <1>3, <1>4, <1>5
     DEF Next, vars, Receive, BeginRound, EndRound, Tick, ChangeSettings

\* What runs together may run together: one job per subscription, and a job of
\* all subscriptions alone with those of none, for any settings and outcomes.
THEOREM ExclusionHolds == Spec => []Exclusive
<1>1. Init => AdmissionInv
  BY AdmissionInit
<1>2. AdmissionInv => Exclusive
  BY DEF AdmissionInv, Admitted
<1> QED
  BY <1>1, <1>2, AdmissionStep, PTL DEF Spec

\* While records outlive their tasks, a circuit that waits for its probe has
\* one running, so no class is blocked for good.
THEOREM AdmissionHolds ==
  ASSUME "gone" \notin Results
  PROVE  Spec => []AdmissionSound
<1>1. Init => AdmissionInv /\ ProbeHeld
  BY AdmissionInit
<1>2. AdmissionInv /\ ProbeHeld /\ [Next]_vars => ProbeHeld'
  BY ProbeStep
<1>3. AdmissionInv /\ ProbeHeld => AdmissionSound
  BY DEF AdmissionInv, Admitted, AdmissionSound
<1> QED
  BY <1>1, <1>2, <1>3, AdmissionStep, PTL DEF Spec

\* A job is started only within the limits the worker last read.
THEOREM LimitsHold == Spec => WithinLimits
<1>1. ASSUME AdmissionInv, [Next]_vars
      PROVE  [\A j \in running' \ running :
                /\ Cardinality(running') <= limits.global
                /\ Cardinality(OfClass(running', class[j])) <= limits.limit[class[j]]]_running
  <2>1. CASE Admit
    BY <1>1, <2>1, AdmitKeeps
  <2>2. CASE ~ Admit
    <3>1. running' \subseteq running
      BY <1>1, <2>2 DEF Next, vars, Receive, BeginRound, EndRound, Tick, ChangeSettings, Finish,
         ClaimRefused, CooldownElapses
    <3> QED
      BY <3>1
  <2> QED
    BY <2>1, <2>2
<1>2. Init => AdmissionInv
  BY AdmissionInit
<1> QED
  BY <1>1, <1>2, AdmissionStep, PTL DEF Spec, WithinLimits

----------------------------------------------------------------------------
(* The store. *)

Lists == [Ids -> Places]
Commit == [op : Requests, job : Ids, steps : Seq(Steps), jobs : Lists, archive : Seq(Ids)]

\* What may be left of a commit.
Left(op) ==
  CASE op \in Edits ->
         {<<"disk", "memory", "event">>, <<"memory", "event">>, <<"event">>}
    [] op = "archive_completed" ->
         {<<"archive", "disk", "memory">>, <<"disk", "memory">>, <<"memory">>}
    [] op = "clear_finished" ->
         {<<"disk", "memory", "archive">>, <<"memory", "archive">>, <<"archive">>}
    [] op = "prune_archive" -> {<<"archive">>}

Committing(c) == at[c] = "commit"

\* The lock is that of the commit under way; without a process there is none.
Locked ==
  /\ \A c \in Clients : Committing(c) <=> lock = c
  /\ \A c \in Clients : ~up => at[c] = "idle"
  /\ \A c \in Clients : Committing(c) => call[c].steps \in Left(call[c].op)
  /\ \A c \in Clients : Len(call[c].archive) <= MaxArchived

\* What one commit may make of a record that it leaves.
Onward(p, q) ==
  \/ q = p
  \/ p.status = "active" /\ is_terminal(q) /\ q.attempt = p.attempt
  \/ is_terminal(p) /\ q.status = "failed" /\ q.attempt = p.attempt
  \/ p.status = "failed" /\ q.status = "active" /\ q.attempt = p.attempt + 1

\* What memory, file, archive and readers hold of one job.  After a failure
\* the file may be one commit ahead of the memory, and the archive hold what
\* the memory still lists; neither may be behind.
Agree(j) ==
  /\ jobs[j] = Absent /\ told[j] = Absent => disk[j] \in {Absent, Begun}
  /\ jobs[j] = Absent /\ told[j] # Absent =>
       disk[j] = Absent /\ (j \in dropped \/ (is_terminal(told[j]) /\ j \in ToSet(archive)))
  /\ jobs[j] # Absent =>
       /\ told[j] = jobs[j]
       /\ \/ disk[j] # Absent /\ Onward(jobs[j], disk[j])
          \/ disk[j] = Absent /\ is_terminal(jobs[j]) /\ (j \in dropped \/ j \in ToSet(archive))
  /\ j \in ToSet(archive) => told[j] # Absent
  /\ j >= nextJob => jobs[j] = Absent /\ told[j] = Absent /\ disk[j] = Absent

\* What the snapshots of a commit make of a job.
Changes(r, j) ==
  /\ jobs[j] = Absent => r.jobs[j] = Absent \/ (told[j] = Absent /\ r.jobs[j] = Begun)
  /\ jobs[j] # Absent =>
       \/ r.jobs[j] # Absent /\ Onward(jobs[j], r.jobs[j])
       \/ /\ r.jobs[j] = Absent /\ is_terminal(jobs[j])
          /\ j \in dropped \/ (r.op = "archive_completed" /\ j \in ToSet(r.archive))
  /\ j >= nextJob => r.jobs[j] = Absent
  /\ r.op \in Edits /\ j # r.job => r.jobs[j] \in {Absent, jobs[j]}
  /\ r.op \in {"archive_completed", "clear_finished"} => r.jobs[j] \in {Absent, jobs[j]}

\* What they make of the archive.
Archives(r, j) ==
  /\ Head(r.steps) = "archive" /\ j \in ToSet(r.archive) =>
       told[j] # Absent /\ (jobs[j] = Absent => j \in ToSet(archive))
  /\ Head(r.steps) = "archive" /\ j \in ToSet(archive) => j \in ToSet(r.archive) \cup dropped
  /\ r.op = "clear_finished" => j \notin ToSet(r.archive) /\ (j \in ToSet(archive) => j \in dropped)
  /\ r.op = "archive_completed" /\ Head(r.steps) # "archive" /\ j \in ToSet(r.archive) =>
       j \in ToSet(archive)

\* How far it has come.
Written(r, j) ==
  /\ Head(r.steps) = "memory" => disk[j] = r.jobs[j]
  /\ Head(r.steps) = "event" => jobs[j] = r.jobs[j]

Commits(r, j) == Changes(r, j) /\ Archives(r, j) /\ Written(r, j)

\* Only the event that a commit has still to send is missing.
Followed(j) ==
  up /\ jobs[j] # Absent /\ announced[j] # jobs[j] =>
    \E c \in Clients : Committing(c) /\ call[c].steps = <<"event">> /\ j = call[c].job

StoreInv ==
  /\ StoreTypeOK /\ Locked
  /\ \A j \in Ids : Agree(j) /\ Followed(j)
  /\ \A c \in Clients : Committing(c) => \A j \in Ids : Commits(call[c], j)

----------------------------------------------------------------------------
(* The operators.                                                          *)

\* What a record may be.
LEMMA RecordIs ==
  ASSUME NEW p \in Places
  PROVE  /\ p = Absent \/ p.status \in {"active", "failed", "settled"}
         /\ p = Absent => p.status = "none" /\ ~is_terminal(p)
         /\ p.attempt \in 0 .. MaxAttempts
         /\ p.status = "active" => ~is_terminal(p)
         /\ p # Absent => p \in Records
BY StoreAssumption DEF Places, Records, Absent, is_terminal

LEMMA RecordSame ==
  ASSUME NEW p \in Records, NEW q \in Records, p.status = q.status, p.attempt = q.attempt
  PROVE  p = q
BY DEF Records

LEMMA FirstRecords ==
  /\ Absent \in Places /\ Begun \in Places /\ Begun # Absent /\ ~is_terminal(Absent) /\ ~is_terminal(Begun)
  /\ Begun.status = "active"
<1>1. Begun \in Records /\ Begun.status = "active" /\ Absent.status = "none"
  BY StoreAssumption DEF Begun, Absent, Records
<1> QED
  BY <1>1 DEF Places, is_terminal

LEMMA Stays == \A p : Onward(p, p)
BY DEF Onward

\* What an update makes of the record it accepts.
LEMMA UpdateIs ==
  ASSUME NEW op \in Updates, NEW p \in Places, accepts(op, p)
  PROVE  updated(op, p) \in Records /\ p # Absent /\ Onward(p, updated(op, p))
<1>1. p # Absent
  BY RecordIs DEF accepts, Updates
<1>2. p \in Records
  BY <1>1, RecordIs
<1>3. p.status \in {"active", "failed", "settled"} /\ p.attempt \in 1 .. MaxAttempts
  BY <1>2 DEF Records
<1>4. CASE op \in {"fail", "mark"}
  <2>1. updated(op, p) = [p EXCEPT !.status = "failed"]
    BY <1>4 DEF updated
  <2>2. /\ updated(op, p) \in Records /\ updated(op, p).status = "failed"
        /\ updated(op, p).attempt = p.attempt
    BY <1>2, <2>1 DEF Records
  <2> QED
    BY <1>1, <1>3, <2>2 DEF Onward, is_terminal
<1>5. CASE op = "settle"
  <2>1. updated(op, p) = [p EXCEPT !.status = "settled"] /\ p.status = "active"
    BY <1>5 DEF updated, accepts
  <2>2. /\ updated(op, p) \in Records /\ updated(op, p).status = "settled"
        /\ updated(op, p).attempt = p.attempt
    BY <1>2, <2>1 DEF Records
  <2> QED
    BY <1>1, <2>1, <2>2 DEF Onward, is_terminal
<1>6. CASE op = "retry"
  <2>1. /\ updated(op, p) = [status |-> "active", attempt |-> p.attempt + 1]
        /\ p.status = "failed" /\ p.attempt < MaxAttempts
    BY <1>6 DEF updated, accepts
  <2>2. p.attempt + 1 \in 1 .. MaxAttempts
    BY <1>3, <2>1, StoreAssumption
  <2>3. /\ updated(op, p) \in Records /\ updated(op, p).status = "active"
        /\ updated(op, p).attempt = p.attempt + 1
    BY <2>1, <2>2 DEF Records
  <2> QED
    BY <1>1, <2>1, <2>3 DEF Onward
<1> QED
  BY <1>4, <1>5, <1>6 DEF Updates

\* A set of natural numbers that is not empty has a least element.
LEMMA LeastElement ==
  ASSUME NEW S \in SUBSET Nat, S # {}
  PROVE  \E m \in S : \A n \in S : m <= n
<1>1. \A x, y \in Nat : x < y => <<x, y>> \in OpToRel(<, Nat)
  BY DEF OpToRel
<1>2. \E R : IsWellFoundedOn(R, Nat) /\ \A x, y \in Nat : x < y => <<x, y>> \in R
  BY <1>1, NatLessThanWellFounded, Zenon
<1>3. PICK R : IsWellFoundedOn(R, Nat) /\ \A x, y \in Nat : x < y => <<x, y>> \in R
  BY <1>2
<1>4. PICK x \in S : \A y \in S : ~(<<y, x>> \in R)
  <2>1. IsWellFoundedOn(R, Nat) /\ S \subseteq Nat /\ S # {}
    BY <1>3
  <2> QED
    BY <2>1, WFMin
<1>5. ASSUME NEW y \in S PROVE x <= y
  <2>1. x \in Nat /\ y \in Nat /\ ~(y < x)
    BY <1>3, <1>4
  <2> QED
    BY <2>1
<1> QED
  BY <1>5

Rising(s) == \A i, k \in DOMAIN s : i < k => s[i] < s[k]
Listed(n) == \A S \in SUBSET Ids :
  IsFiniteSet(S) /\ Cardinality(S) = n => \E s \in [1 .. n -> S] : Rising(s)

\* A set of one more id is listed by its least and the list of the others.
LEMMA ListOneMore ==
  ASSUME NEW n \in Nat, Listed(n) PROVE Listed(n + 1)
<1> SUFFICES ASSUME NEW S \in SUBSET Ids, IsFiniteSet(S), Cardinality(S) = n + 1
             PROVE  \E s \in [1 .. n + 1 -> S] : Rising(s)
  BY DEF Listed
<1>1. S # {} /\ S \in SUBSET Nat
  BY FS_EmptySet DEF Ids
<1>2. PICK m \in S : \A k \in S : m <= k
  BY <1>1, LeastElement
<1>3. IsFiniteSet(S \ {m}) /\ Cardinality(S \ {m}) = n
  <2>1. /\ IsFiniteSet(S \ {m})
        /\ Cardinality(S \ {m}) = IF m \in S THEN Cardinality(S) - 1 ELSE Cardinality(S)
    BY FS_RemoveElement, Zenon
  <2> QED
    BY <2>1
<1>4. PICK t \in [1 .. n -> S \ {m}] : Rising(t)
  BY <1>3 DEF Listed
<1> DEFINE s == [i \in 1 .. n + 1 |-> IF i = 1 THEN m ELSE t[i - 1]]
<1>5. s \in [1 .. n + 1 -> S]
  BY <1>4
<1>6. ASSUME NEW i \in 1 .. n + 1, NEW k \in 1 .. n + 1, i < k PROVE s[i] < s[k]
  <2>1. s[k] = t[k - 1] /\ k - 1 \in 1 .. n /\ t[k - 1] \in S \ {m}
    BY <1>4, <1>6
  <2>2. CASE i = 1
    <3>1. t[k - 1] # m /\ m <= t[k - 1] /\ m \in Nat /\ t[k - 1] \in Nat
      BY <1>1, <1>2, <2>1
    <3>2. s[i] = m
      BY <2>2
    <3>3. m < t[k - 1]
      BY <3>1
    <3> HIDE DEF s
    <3> QED
      BY <2>1, <3>2, <3>3
  <2>3. CASE i # 1
    <3>1. s[i] = t[i - 1] /\ i - 1 \in 1 .. n /\ i - 1 < k - 1
      BY <1>6, <2>3
    <3> QED
      BY <1>4, <2>1, <3>1 DEF Rising
  <2> QED
    BY <2>2, <2>3
<1>7. Rising(s)
  <2>1. DOMAIN s = 1 .. n + 1
    OBVIOUS
  <2> HIDE DEF s
  <2> QED
    BY <1>6, <2>1 DEF Rising
<1> QED
  BY <1>5, <1>7

\* Every set of ids can be listed in its order.
LEMMA AscendingList ==
  ASSUME NEW S \in SUBSET Ids
  PROVE  /\ Ascending(S) \in Seq(Ids)
         /\ ToSet(Ascending(S)) \subseteq S
<1>1. IsFiniteSet(S) /\ Cardinality(S) \in Nat
  <2>1. IsFiniteSet(Ids)
    BY StoreAssumption, FS_Interval DEF Ids
  <2> QED
    BY <2>1, FS_Subset, FS_CardinalityType
<1>2. Listed(0)
  <2> SUFFICES ASSUME NEW T \in SUBSET Ids PROVE \E s \in [1 .. 0 -> T] : Rising(s)
    BY DEF Listed
  <2> DEFINE s == [i \in 1 .. 0 |-> i]
  <2>1. s \in [1 .. 0 -> T] /\ Rising(s)
    BY DEF Rising
  <2> QED
    BY <2>1
<1>3. \A n \in Nat : Listed(n)
  <2> DEFINE Bad == {n \in Nat : ~Listed(n)}
  <2> SUFFICES Bad = {}
    OBVIOUS
  <2> SUFFICES ASSUME Bad # {} PROVE FALSE
    OBVIOUS
  <2>1. PICK n \in Bad : \A k \in Bad : n <= k
    <3>1. Bad \in SUBSET Nat
      OBVIOUS
    <3> HIDE DEF Bad
    <3> QED
      BY <3>1, LeastElement
  <2>2. n # 0
    BY <1>2, <2>1
  <2>3. n - 1 \in Nat /\ Listed(n - 1)
    BY <2>1, <2>2
  <2>4. Listed((n - 1) + 1)
    BY <2>3, ListOneMore
  <2> QED
    BY <2>1, <2>4
<1>4. \E s \in [1 .. Cardinality(S) -> S] : Rising(s)
  BY <1>1, <1>3 DEF Listed
<1>5. Ascending(S) \in [1 .. Cardinality(S) -> S]
  BY <1>4 DEF Ascending, Rising
<1>6. Ascending(S) \in Seq(S)
  BY <1>1, <1>5
<1> QED
  BY <1>5, <1>6, SeqMonotonic DEF ToSet

\* A list that is cut keeps its newest.
LEMMA NewestPart ==
  ASSUME NEW s \in Seq(Ids), NEW n \in Nat
  PROVE  /\ Newest(s, n) \in Seq(Ids) /\ Len(Newest(s, n)) <= n
         /\ ToSet(Newest(s, n)) \subseteq ToSet(s)
<1>1. Len(s) \in Nat /\ DOMAIN s = 1 .. Len(s) /\ \A i \in 1 .. Len(s) : s[i] \in Ids
  BY LenProperties, ElementOfSeq
<1>2. CASE Len(s) <= n
  BY <1>1, <1>2 DEF Newest
<1>3. CASE Len(s) > n
  <2> DEFINE k == Len(s) - n + 1
             p == SubSeq(s, k, Len(s))
  <2>1. k \in 1 .. Len(s) + 1 /\ Len(s) - k + 1 = n
    BY <1>1, <1>3
  <2>2. \A i \in k .. Len(s) : s[i] \in Ids
    BY <1>1, <2>1
  <2> HIDE DEF k
  <2>3. /\ p \in Seq(Ids)
        /\ Len(p) = IF k <= Len(s) THEN Len(s) - k + 1 ELSE 0
        /\ \A i \in 1 .. Len(s) - k + 1 : p[i] = s[k + i - 1]
    <3>1. k \in Int /\ Len(s) \in Int
      BY <1>1, <2>1
    <3> QED
      BY <2>2, <3>1, SubSeqProperties
  <2> HIDE DEF p
  <2>4. Len(p) <= n
    BY <1>1, <2>1, <2>3
  <2>5. DOMAIN p = 1 .. Len(p)
    BY <2>3, LenProperties
  <2>6. ToSet(p) \subseteq ToSet(s)
    <3>1. ASSUME NEW i \in 1 .. Len(p) PROVE p[i] \in ToSet(s)
      <4>1. k + i - 1 \in 1 .. Len(s) /\ p[i] = s[k + i - 1]
        BY <1>1, <2>1, <2>3
      <4> QED
        BY <1>1, <4>1 DEF ToSet
    <3> QED
      BY <2>5, <3>1 DEF ToSet
  <2>7. Newest(s, n) = p
    BY <1>3 DEF Newest, p, k
  <2> QED
    BY <2>3, <2>4, <2>6, <2>7
<1> QED
  BY <1>1, <1>2, <1>3

LEMMA JoinedSet ==
  ASSUME NEW s \in Seq(Ids), NEW t \in Seq(Ids)
  PROVE  s \o t \in Seq(Ids) /\ ToSet(s \o t) \subseteq ToSet(s) \cup ToSet(t)
<1>1. /\ s \o t \in Seq(Ids) /\ Len(s \o t) = Len(s) + Len(t)
      /\ \A i \in 1 .. Len(s) + Len(t) :
           (s \o t)[i] = IF i <= Len(s) THEN s[i] ELSE t[i - Len(s)]
  BY ConcatProperties
<1>2. /\ Len(s) \in Nat /\ Len(t) \in Nat /\ DOMAIN s = 1 .. Len(s) /\ DOMAIN t = 1 .. Len(t)
      /\ DOMAIN (s \o t) = 1 .. Len(s) + Len(t)
  BY <1>1, LenProperties
<1>3. ASSUME NEW i \in 1 .. Len(s) + Len(t) PROVE (s \o t)[i] \in ToSet(s) \cup ToSet(t)
  <2>1. CASE i <= Len(s)
    <3>1. i \in DOMAIN s /\ (s \o t)[i] = s[i]
      BY <1>1, <1>2, <2>1
    <3> QED
      BY <3>1 DEF ToSet
  <2>2. CASE ~(i <= Len(s))
    <3>1. i - Len(s) \in DOMAIN t /\ (s \o t)[i] = t[i - Len(s)]
      BY <1>1, <1>2, <2>2
    <3> QED
      BY <3>1 DEF ToSet
  <2> QED
    BY <2>1, <2>2
<1> QED
  BY <1>1, <1>2, <1>3 DEF ToSet

LEMMA SetOfList ==
  ASSUME NEW s \in Seq(Ids)
  PROVE  ToSet(s) \subseteq Ids
BY LenProperties, ElementOfSeq DEF ToSet

LEMMA NothingListed == ToSet(<<>>) = {}
BY DEF ToSet

\* What a call does to the archive: it adds what it takes from the memory, and
\* what it leaves out it drops.
LEMMA ArchiveSnapshotHolds ==
  ASSUME StoreTypeOK, NEW r, r.op \in Requests
  PROVE  /\ ArchiveSnapshot(r) \in Seq(Ids) /\ Len(ArchiveSnapshot(r)) <= MaxArchived
         /\ ToSet(ArchiveSnapshot(r)) \subseteq ToSet(archive) \cup Terminal(jobs)
         /\ r.op # "archive_completed" => ToSet(ArchiveSnapshot(r)) \subseteq ToSet(archive)
<1> USE StoreAssumption
<1>1. archive \in Seq(Ids) /\ Len(archive) <= MaxArchived
  BY DEF StoreTypeOK
<1>2. ToArchive \in SUBSET Ids /\ ToArchive \subseteq Terminal(jobs)
  BY DEF ToArchive, Oldest, Terminal
<1>3. archive \o Ascending(ToArchive) \in Seq(Ids)
      /\ ToSet(archive \o Ascending(ToArchive)) \subseteq ToSet(archive) \cup Terminal(jobs)
  BY <1>1, <1>2, AscendingList, JoinedSet
<1>4. CASE r.op = "archive_completed"
  BY <1>3, <1>4, NewestPart DEF ArchiveSnapshot, Edits, Updates
<1>5. CASE r.op = "clear_finished"
  <2>1. ArchiveSnapshot(r) = <<>>
    BY <1>5 DEF ArchiveSnapshot, Edits, Updates
  <2> QED
    BY <1>5, <2>1, NothingListed
<1>6. CASE r.op = "prune_archive"
  BY <1>1, <1>6, NewestPart DEF ArchiveSnapshot, Edits, Updates
<1>7. CASE r.op \in Edits
  BY <1>1, <1>7 DEF ArchiveSnapshot, Edits, Updates
<1> QED
  BY <1>4, <1>5, <1>6, <1>7 DEF Requests, Edits, Updates

\* A commit has a next step, and what is left after it.
LEMMA StepsLeft ==
  ASSUME NEW op \in Requests, NEW s \in Left(op)
  PROVE  /\ s \in Seq(Steps) /\ Tail(s) \in Seq(Steps)
         /\ Tail(s) = <<>> \/ Tail(s) \in Left(op)
         /\ Head(s) = "disk" =>
              \/ op \in Edits /\ Tail(s) = <<"memory", "event">>
              \/ op = "archive_completed" /\ Tail(s) = <<"memory">>
              \/ op = "clear_finished" /\ Tail(s) = <<"memory", "archive">>
         /\ Head(s) = "archive" =>
              \/ op = "archive_completed" /\ Tail(s) = <<"disk", "memory">>
              \/ op \in {"clear_finished", "prune_archive"} /\ Tail(s) = <<>>
         /\ Head(s) = "memory" =>
              \/ op \in Edits /\ Tail(s) = <<"event">>
              \/ op = "archive_completed" /\ Tail(s) = <<>>
              \/ op = "clear_finished" /\ Tail(s) = <<"archive">>
         /\ Head(s) = "event" <=> s = <<"event">>
         /\ Head(s) = "event" => op \in Edits /\ Tail(s) = <<>>
<1>1. CASE op \in Edits
  <2>1. CASE s = <<"disk", "memory", "event">>
    BY <1>1, <2>1 DEF Left, Steps
  <2>2. CASE s = <<"memory", "event">>
    BY <1>1, <2>2 DEF Left, Steps
  <2>3. CASE s = <<"event">>
    BY <1>1, <2>3 DEF Left, Steps
  <2> QED
    BY <1>1, <2>1, <2>2, <2>3 DEF Left, Edits, Updates
<1>2. CASE op = "archive_completed"
  <2>1. CASE s = <<"archive", "disk", "memory">>
    BY <1>2, <2>1 DEF Left, Steps
  <2>2. CASE s = <<"disk", "memory">>
    BY <1>2, <2>2 DEF Left, Steps
  <2>3. CASE s = <<"memory">>
    BY <1>2, <2>3 DEF Left, Steps
  <2> QED
    BY <1>2, <2>1, <2>2, <2>3 DEF Left
<1>3. CASE op = "clear_finished"
  <2>1. CASE s = <<"disk", "memory", "archive">>
    BY <1>3, <2>1 DEF Left, Steps
  <2>2. CASE s = <<"memory", "archive">>
    BY <1>3, <2>2 DEF Left, Steps
  <2>3. CASE s = <<"archive">>
    BY <1>3, <2>3 DEF Left, Steps
  <2> QED
    BY <1>3, <2>1, <2>2, <2>3 DEF Left
<1>4. CASE op = "prune_archive"
  <2>1. s = <<"archive">>
    BY <1>4 DEF Left
  <2> QED
    BY <1>4, <2>1 DEF Left, Steps
<1> QED
  BY <1>1, <1>2, <1>3, <1>4 DEF Requests, Edits, Updates

LEMMA NewCalls ==
  /\ NoCall \in Commit /\ Len(NoCall.archive) = 0
  /\ \A r \in Calls : r \in Commit /\ Len(r.archive) = 0
<1>1. 1 \in Ids /\ NoJobs \in Lists /\ <<>> \in Seq(Steps) /\ <<>> \in Seq(Ids) /\ Len(<<>>) = 0
  BY StoreAssumption, FirstRecords DEF Ids, NoJobs, Lists
<1>2. \A op \in Requests, j \in Ids : NewCall(op, j) \in Commit /\ Len(NewCall(op, j).archive) = 0
  BY <1>1 DEF NewCall, Commit
<1> QED
  BY <1>1, <1>2 DEF NoCall, Calls, Requests, Edits, Updates

----------------------------------------------------------------------------
(* The steps.                                                              *)

\* The types of what a commit works with.
LEMMA Types ==
  ASSUME StoreInv
  PROVE  /\ jobs \in Lists /\ disk \in Lists /\ announced \in Lists /\ told \in Lists
         /\ call \in [Clients -> Commit] /\ at \in [Clients -> {"idle", "wait", "commit"}]
         /\ archive \in Seq(Ids) /\ Len(archive) <= MaxArchived
         /\ nextJob \in 1 .. MaxJobs + 1 /\ dropped \subseteq Ids /\ up \in BOOLEAN
         /\ present \subseteq Clients /\ lock \in Clients \cup {Nobody}
         /\ faults \in Nat /\ crashes \in Nat
BY DEF StoreInv, StoreTypeOK, Lists, Commit

\* Taking the next step, or ending.
LEMMA EndKeeps ==
  ASSUME StoreInv, NEW c \in Clients, Committing(c), NEW rest,
         rest = <<>> \/ rest = Tail(call[c].steps), End(c, rest)
  PROVE  /\ call' \in [Clients -> Commit] /\ at' \in [Clients -> {"idle", "wait", "commit"}]
         /\ lock' \in Clients \cup {Nobody} /\ present' \subseteq Clients
         /\ \A d \in Clients : Committing(d)' <=> lock' = d
         /\ \A d \in Clients : Committing(d)' =>
              /\ d = c /\ rest # <<>>
              /\ call'[c].op = call[c].op /\ call'[c].job = call[c].job
              /\ call'[c].jobs = call[c].jobs /\ call'[c].archive = call[c].archive
              /\ call'[c].steps = rest /\ call'[c].steps \in Left(call'[c].op)
         /\ rest # <<>> => Committing(c)'
         /\ \A d \in Clients : Len(call'[d].archive) <= MaxArchived
         /\ up
<1>t. call \in [Clients -> Commit] /\ at \in [Clients -> {"idle", "wait", "commit"}]
      /\ present \subseteq Clients /\ lock \in Clients \cup {Nobody}
  BY Types
<1>1. /\ call[c].op \in Requests /\ call[c].steps \in Left(call[c].op) /\ lock = c /\ up
      /\ \A d \in Clients : Committing(d) <=> lock = d
      /\ \A d \in Clients : Len(call[d].archive) <= MaxArchived
  BY <1>t, Types DEF StoreInv, Locked, Committing, Commit
<1>2. rest \in Seq(Steps) /\ (rest = <<>> \/ rest \in Left(call[c].op))
  <2>1. Tail(call[c].steps) \in Seq(Steps)
        /\ (Tail(call[c].steps) = <<>> \/ Tail(call[c].steps) \in Left(call[c].op))
    BY <1>1, StepsLeft
  <2>2. <<>> \in Seq(Steps)
    OBVIOUS
  <2> QED
    BY <2>1, <2>2, Zenon
<1>3. CASE rest = <<>>
  <2>1. call' = [call EXCEPT ![c] = NoCall] /\ at' = [at EXCEPT ![c] = "idle"]
        /\ lock' = Nobody /\ present' = present \ {c}
    BY <1>3 DEF End
  <2>2. \A d \in Clients : ~Committing(d)'
    BY <1>t, <1>1, <2>1 DEF Committing
  <2>3. NoCall \in Commit /\ Len(NoCall.archive) <= MaxArchived
    BY NewCalls, StoreAssumption
  <2>4. call' \in [Clients -> Commit] /\ \A d \in Clients : Len(call'[d].archive) <= MaxArchived
    BY <1>t, <1>1, <2>1, <2>3
  <2>5. \A d \in Clients : lock' # d
    BY <2>1, StoreAssumption
  <2>6. at' \in [Clients -> {"idle", "wait", "commit"}] /\ present' \subseteq Clients
        /\ lock' \in Clients \cup {Nobody}
    BY <1>t, <2>1
  <2>7. \A d \in Clients : Committing(d)' <=> lock' = d
    BY <2>2, <2>5
  <2>8. up
    BY <1>1
  <2> QED
    BY <1>3, <2>2, <2>4, <2>6, <2>7, <2>8
<1>4. CASE rest # <<>>
  <2> DEFINE r == call[c]
  <2>1. call' = [call EXCEPT ![c] = [r EXCEPT !.steps = rest]]
        /\ UNCHANGED <<at, lock, present>>
    BY <1>4 DEF End
  <2>2. r \in Commit
    BY <1>t
  <2> HIDE DEF r
  <2>3. [r EXCEPT !.steps = rest] \in Commit
    BY <1>2, <2>2 DEF Commit
  <2>4. call'[c] = [r EXCEPT !.steps = rest] /\ call' \in [Clients -> Commit]
        /\ \A d \in Clients : d # c => call'[d] = call[d]
    BY <1>t, <2>1, <2>3
  <2>5. /\ call'[c].op = r.op /\ call'[c].job = r.job /\ call'[c].jobs = r.jobs
        /\ call'[c].archive = r.archive /\ call'[c].steps = rest
    BY <2>2, <2>4 DEF Commit
  <2>6. \A d \in Clients : Len(call'[d].archive) <= MaxArchived
    BY <1>1, <2>4, <2>5 DEF r
  <2>7. \A d \in Clients : Committing(d)' <=> Committing(d)
    BY <2>1 DEF Committing
  <2> QED
    BY <1>t, <1>1, <1>2, <1>4, <2>1, <2>4, <2>5, <2>6, <2>7 DEF r
<1> QED
  BY <1>3, <1>4

\* What the invariant says of a commit that takes a step.
LEMMA CommitFacts ==
  ASSUME StoreInv, NEW c \in Clients, Committing(c), NEW j \in Ids
  PROVE  /\ Agree(j) /\ Followed(j) /\ Changes(call[c], j)
         /\ Archives(call[c], j) /\ Written(call[c], j)
         /\ jobs[j] \in Places /\ disk[j] \in Places /\ told[j] \in Places
         /\ call[c].jobs[j] \in Places /\ call[c].op \in Requests
         /\ up /\ \A d \in Clients : Committing(d) => d = c
BY Types DEF StoreInv, Locked, Commits, Commit, Lists, Committing

LEMMA WriteDiskKeeps ==
  ASSUME StoreInv, NEW c \in Clients, At(c, "disk"), disk' = call[c].jobs, UNCHANGED archive,
         NEW rest, rest = <<>> \/ rest = Tail(call[c].steps), End(c, rest),
         UNCHANGED <<jobs, up, nextJob, announced, told, dropped>>
  PROVE  /\ \A j \in Ids : Agree(j)' /\ Followed(j)'
         /\ \A d \in Clients : Committing(d)' => \A j \in Ids : Commits(call[d], j)'
<1>1. Committing(c) /\ Head(call[c].steps) = "disk"
  BY DEF At, Committing
<1>2. /\ \A d \in Clients : Committing(d)' =>
              /\ d = c /\ rest # <<>>
              /\ call'[c].op = call[c].op /\ call'[c].job = call[c].job
              /\ call'[c].jobs = call[c].jobs /\ call'[c].archive = call[c].archive
              /\ call'[c].steps = rest
  BY <1>1, EndKeeps
<1>3. call[c].steps \in Left(call[c].op) /\ call[c].op \in Requests
  BY <1>1, Types DEF StoreInv, Locked, Commit
<1>4. rest # <<>> => Head(rest) = "memory"
  <2>1. \/ Tail(call[c].steps) = <<"memory", "event">>
        \/ Tail(call[c].steps) = <<"memory">>
        \/ Tail(call[c].steps) = <<"memory", "archive">>
    BY <1>1, <1>3, StepsLeft
  <2>2. Head(<<"memory", "event">>) = "memory" /\ Head(<<"memory">>) = "memory"
        /\ Head(<<"memory", "archive">>) = "memory"
    OBVIOUS
  <2> QED
    BY <2>1, <2>2, Zenon
<1>5. ASSUME NEW j \in Ids PROVE Agree(j)' /\ Followed(j)'
  <2>1. /\ Agree(j) /\ Changes(call[c], j) /\ Archives(call[c], j) /\ Followed(j)
        /\ jobs[j] \in Places /\ disk[j] \in Places /\ told[j] \in Places /\ up
        /\ \A d \in Clients : Committing(d) => d = c
    BY <1>1, CommitFacts
  <2>2. Agree(j)'
    BY <1>1, <2>1, Stays DEF Agree, Changes, Archives
  <2>3. Followed(j)'
    <3>1. \A d \in Clients : ~(Committing(d) /\ call[d].steps = <<"event">>)
      BY <1>1, <2>1
    <3> QED
      BY <2>1, <3>1 DEF Followed
  <2> QED
    BY <2>2, <2>3
<1>6. ASSUME NEW d \in Clients, Committing(d)', NEW j \in Ids PROVE Commits(call[d], j)'
  <2>1. /\ Changes(call[c], j) /\ Archives(call[c], j)
    BY <1>1, CommitFacts
  <2>2. d = c /\ Head(call'[c].steps) = "memory" /\ Head(call'[c].steps) # "archive"
    BY <1>2, <1>4, <1>6
  <2>3. Changes(call[d], j)'
    BY <1>2, <1>6, <2>1, <2>2 DEF Changes
  <2>4. Archives(call[d], j)'
    BY <1>1, <1>2, <1>6, <2>1, <2>2 DEF Archives
  <2>5. Written(call[d], j)'
    BY <1>2, <1>6, <2>2 DEF Written
  <2> QED
    BY <2>3, <2>4, <2>5 DEF Commits
<1> QED
  BY <1>5, <1>6

LEMMA WriteArchiveKeeps ==
  ASSUME StoreInv, NEW c \in Clients, At(c, "archive"), archive' = call[c].archive, UNCHANGED disk,
         NEW rest, rest = <<>> \/ rest = Tail(call[c].steps), End(c, rest),
         UNCHANGED <<jobs, up, nextJob, announced, told, dropped>>
  PROVE  /\ \A j \in Ids : Agree(j)' /\ Followed(j)'
         /\ \A d \in Clients : Committing(d)' => \A j \in Ids : Commits(call[d], j)'
<1>1. Committing(c) /\ Head(call[c].steps) = "archive"
  BY DEF At, Committing
<1>2. /\ \A d \in Clients : Committing(d)' =>
              /\ d = c /\ rest # <<>>
              /\ call'[c].op = call[c].op /\ call'[c].job = call[c].job
              /\ call'[c].jobs = call[c].jobs /\ call'[c].archive = call[c].archive
              /\ call'[c].steps = rest
  BY <1>1, EndKeeps
<1>3. call[c].steps \in Left(call[c].op) /\ call[c].op \in Requests
  BY <1>1, Types DEF StoreInv, Locked, Commit
<1>4. rest # <<>> => call[c].op = "archive_completed" /\ Head(rest) = "disk"
  <2>1. \/ call[c].op = "archive_completed" /\ Tail(call[c].steps) = <<"disk", "memory">>
        \/ Tail(call[c].steps) = <<>>
    BY <1>1, <1>3, StepsLeft
  <2>2. Head(<<"disk", "memory">>) = "disk"
    OBVIOUS
  <2> QED
    BY <2>1, <2>2, Zenon
<1>5. ASSUME NEW j \in Ids PROVE Agree(j)' /\ Followed(j)'
  <2>1. /\ Agree(j) /\ Changes(call[c], j) /\ Archives(call[c], j) /\ Followed(j)
        /\ jobs[j] \in Places /\ disk[j] \in Places /\ told[j] \in Places /\ up
        /\ \A d \in Clients : Committing(d) => d = c
    BY <1>1, CommitFacts
  <2>2. Agree(j)'
    BY <1>1, <2>1 DEF Agree, Archives
  <2>3. Followed(j)'
    <3>1. \A d \in Clients : ~(Committing(d) /\ call[d].steps = <<"event">>)
      BY <1>1, <2>1
    <3> QED
      BY <2>1, <3>1 DEF Followed
  <2> QED
    BY <2>2, <2>3
<1>6. ASSUME NEW d \in Clients, Committing(d)', NEW j \in Ids PROVE Commits(call[d], j)'
  <2>1. /\ Changes(call[c], j) /\ Archives(call[c], j)
    BY <1>1, CommitFacts
  <2>2. d = c /\ Head(call'[c].steps) = "disk" /\ call[c].op = "archive_completed"
    BY <1>2, <1>4, <1>6
  <2>3. Changes(call[d], j)'
    BY <1>2, <1>6, <2>1, <2>2 DEF Changes
  <2>4. Archives(call[d], j)'
    BY <1>1, <1>2, <1>6, <2>1, <2>2 DEF Archives
  <2>5. Written(call[d], j)'
    BY <1>2, <1>6, <2>2 DEF Written
  <2> QED
    BY <2>3, <2>4, <2>5 DEF Commits
<1> QED
  BY <1>5, <1>6

\* A commit that ends early leaves everything as it agrees.
LEMMA GiveUpKeeps ==
  ASSUME StoreInv, NEW c \in Clients, At(c, "disk") \/ At(c, "archive"), End(c, <<>>),
         UNCHANGED <<files, jobs, up, nextJob, announced, told, dropped>>
  PROVE  /\ \A j \in Ids : Agree(j)' /\ Followed(j)'
         /\ \A d \in Clients : Committing(d)' => \A j \in Ids : Commits(call[d], j)'
<1>1. Committing(c) /\ Head(call[c].steps) # "event"
  BY DEF At, Committing
<1>2. \A d \in Clients : ~Committing(d)'
  BY <1>1, EndKeeps
<1>3. ASSUME NEW j \in Ids PROVE Agree(j)' /\ Followed(j)'
  <2>1. Agree(j) /\ Followed(j) /\ \A d \in Clients : Committing(d) => d = c
    BY <1>1, CommitFacts
  <2>2. \A d \in Clients : ~(Committing(d) /\ call[d].steps = <<"event">>)
    BY <1>1, <2>1
  <2> QED
    BY <2>1, <2>2 DEF Agree, Followed, files
<1> QED
  BY <1>2, <1>3

\* What a reader has seen of a job stays what it was, or follows the list.
LEMMA PublishTells ==
  ASSUME StoreInv, NEW c \in Clients, At(c, "memory"), told' = Tell(call[c].jobs), NEW j \in Ids
  PROVE  /\ told'[j] = IF call[c].jobs[j] # Absent THEN call[c].jobs[j] ELSE told[j]
         /\ told[j] # Absent => told'[j] # Absent
<1>1. Agree(j) /\ Changes(call[c], j) /\ told[j] \in Places /\ jobs[j] \in Places
  BY CommitFacts DEF At, Committing
<1>2. told'[j] = IF call[c].jobs[j] # Absent THEN call[c].jobs[j] ELSE told[j]
  BY DEF Tell
<1> QED
  BY <1>1, <1>2 DEF Agree, Changes

LEMMA PublishKeeps ==
  ASSUME StoreInv, NEW c \in Clients, Publish(c)
  PROVE  /\ \A j \in Ids : Agree(j)' /\ Followed(j)'
         /\ \A d \in Clients : Committing(d)' => \A j \in Ids : Commits(call[d], j)'
<1>1. /\ Committing(c) /\ Head(call[c].steps) = "memory" /\ jobs' = call[c].jobs
      /\ UNCHANGED <<disk, archive, up, nextJob, announced, dropped>>
      /\ End(c, Tail(call[c].steps))
  BY DEF Publish, At, Committing, files
<1>2. /\ \A d \in Clients : Committing(d)' =>
              /\ d = c /\ Tail(call[c].steps) # <<>>
              /\ call'[c].op = call[c].op /\ call'[c].job = call[c].job
              /\ call'[c].jobs = call[c].jobs /\ call'[c].archive = call[c].archive
              /\ call'[c].steps = Tail(call[c].steps)
      /\ Tail(call[c].steps) # <<>> => Committing(c)'
  BY <1>1, EndKeeps
<1>3. call[c].steps \in Left(call[c].op) /\ call[c].op \in Requests
  BY <1>1, Types DEF StoreInv, Locked, Commit
<1>4. /\ \/ call[c].op \in Edits /\ Tail(call[c].steps) = <<"event">>
         \/ call[c].op = "archive_completed" /\ Tail(call[c].steps) = <<>>
         \/ call[c].op = "clear_finished" /\ Tail(call[c].steps) = <<"archive">>
  BY <1>1, <1>3, StepsLeft
<1>5. ASSUME NEW j \in Ids PROVE Agree(j)' /\ Followed(j)'
  <2>1. /\ Agree(j) /\ Changes(call[c], j) /\ Archives(call[c], j) /\ Followed(j) /\ Written(call[c], j)
        /\ jobs[j] \in Places /\ disk[j] \in Places /\ told[j] \in Places /\ call[c].jobs[j] \in Places
        /\ up /\ \A d \in Clients : Committing(d) => d = c
    BY <1>1, CommitFacts
  <2>2. /\ told'[j] = IF call[c].jobs[j] # Absent THEN call[c].jobs[j] ELSE told[j]
        /\ told[j] # Absent => told'[j] # Absent
    BY PublishTells DEF Publish
  <2>3. disk[j] = call[c].jobs[j] /\ jobs'[j] = call[c].jobs[j]
        /\ (call[c].op = "archive_completed" /\ j \in ToSet(call[c].archive) => j \in ToSet(archive))
    BY <1>1, <2>1 DEF Written, Archives
  <2>4. Agree(j)'
    BY <1>1, <2>1, <2>2, <2>3, Stays DEF Agree, Changes
  <2>5. Followed(j)'
    <3>1. CASE call[c].op \in Edits /\ j = call[c].job
      <4>1. Committing(c)' /\ call'[c].steps = <<"event">> /\ call'[c].job = j
        <5>1. <<"event">> # <<>> /\ Tail(call[c].steps) = <<"event">>
          BY <1>4, <3>1 DEF Edits, Updates
        <5>2. Tail(call[c].steps) # <<>>
          BY <5>1
        <5>3. Committing(c)'
          BY <1>2, <5>2
        <5> QED
          BY <1>2, <3>1, <5>1, <5>3, Zenon
      <4> QED
        BY <4>1 DEF Followed
    <3>2. CASE ~(call[c].op \in Edits /\ j = call[c].job)
      <4>1. call[c].jobs[j] \in {Absent, jobs[j]}
        BY <1>4, <2>1, <3>2 DEF Changes
      <4>2. \A d \in Clients : ~(Committing(d) /\ call[d].steps = <<"event">>)
        BY <1>1, <2>1
      <4> QED
        BY <1>1, <2>1, <2>3, <4>1, <4>2 DEF Followed
    <3> QED
      BY <3>1, <3>2
  <2> QED
    BY <2>4, <2>5
<1>6. ASSUME NEW d \in Clients, Committing(d)', NEW j \in Ids PROVE Commits(call[d], j)'
  <2>1. /\ Changes(call[c], j) /\ Archives(call[c], j) /\ call[c].jobs[j] \in Places
    BY <1>1, CommitFacts
  <2>2. /\ d = c /\ jobs'[j] = call'[d].jobs[j] /\ call'[d].op = call[c].op
        /\ call'[d].jobs = call[c].jobs /\ call'[d].archive = call[c].archive
    BY <1>1, <1>2, <1>6
  <2>3. \/ call'[d].op \in Edits /\ Head(call'[d].steps) = "event"
        \/ call'[d].op = "clear_finished" /\ Head(call'[d].steps) = "archive"
    <3>1. Head(<<"event">>) = "event" /\ Head(<<"archive">>) = "archive"
      OBVIOUS
    <3> QED
      BY <1>2, <1>4, <1>6, <3>1, Zenon
  <2>4. Changes(call[d], j)'
    BY <1>1, <2>1, <2>2, Stays DEF Changes
  <2>5. Archives(call[d], j)'
    BY <1>1, <2>1, <2>2, <2>3 DEF Archives
  <2>6. Written(call[d], j)'
    BY <2>2, <2>3 DEF Written
  <2> QED
    BY <2>4, <2>5, <2>6 DEF Commits
<1> QED
  BY <1>5, <1>6

LEMMA EmitKeeps ==
  ASSUME StoreInv, NEW c \in Clients, Emit(c)
  PROVE  /\ announced' \in Lists
         /\ \A j \in Ids : Agree(j)' /\ Followed(j)'
         /\ \A d \in Clients : ~Committing(d)'
<1>1. /\ Committing(c) /\ Head(call[c].steps) = "event" /\ End(c, Tail(call[c].steps))
      /\ UNCHANGED <<disk, archive, jobs, up, nextJob, told, dropped>>
      /\ announced' = [announced EXCEPT ![call[c].job] = call[c].jobs[call[c].job]]
  BY DEF Emit, At, Committing, files
<1>2. call[c].steps = <<"event">> /\ Tail(call[c].steps) = <<>>
  <2>1. call[c].steps \in Left(call[c].op) /\ call[c].op \in Requests
    BY <1>1, Types DEF StoreInv, Locked, Commit
  <2> QED
    BY <1>1, <2>1, StepsLeft
<1>3. \A d \in Clients : ~Committing(d)'
  BY <1>1, <1>2, EndKeeps
<1>4. call[c].job \in Ids /\ announced \in Lists /\ call[c].jobs \in Lists
  BY Types DEF Commit
<1>5. announced' \in Lists
  BY <1>1, <1>4 DEF Lists
<1>6. ASSUME NEW j \in Ids PROVE Agree(j)' /\ Followed(j)'
  <2>1. Agree(j) /\ Followed(j) /\ Written(call[c], j) /\ \A d \in Clients : Committing(d) => d = c
    BY <1>1, CommitFacts
  <2>2. announced'[j] = IF j = call[c].job THEN call[c].jobs[j] ELSE announced[j]
    BY <1>1, <1>4 DEF Lists
  <2>3. Followed(j)'
    <3>1. CASE j = call[c].job
      BY <1>1, <2>1, <2>2, <3>1 DEF Followed, Written
    <3>2. CASE j # call[c].job
      BY <1>1, <2>1, <2>2, <3>2 DEF Followed
    <3> QED
      BY <3>1, <3>2
  <2> QED
    BY <1>1, <2>1, <2>3 DEF Agree
<1> QED
  BY <1>3, <1>5, <1>6

LEMMA ExcessDone ==
  ASSUME NEW list \in Lists
  PROVE  /\ Excess(list) \subseteq Ids /\ \A j \in Excess(list) : is_terminal(list[j])
         /\ truncate_jobs(list) \in Lists
         /\ \A j \in Ids : truncate_jobs(list)[j] = IF j \in Excess(list) THEN Absent ELSE list[j]
BY FirstRecords DEF Excess, truncate_jobs, Without, Oldest, Terminal, Lists

LEMMA LoadKeeps ==
  ASSUME StoreInv, load
  PROVE  /\ jobs' \in Lists /\ disk' \in Lists /\ announced' \in Lists /\ told' \in Lists
         /\ dropped' \subseteq Ids
         /\ \A j \in Ids : Agree(j)' /\ Followed(j)'
<1>t. /\ jobs \in Lists /\ disk \in Lists /\ announced \in Lists /\ told \in Lists
      /\ dropped \subseteq Ids
  BY Types
<1>1. /\ jobs' = truncate_jobs(disk) /\ disk' = jobs' /\ announced' = jobs' /\ told' = Tell(jobs')
      /\ dropped' = dropped \cup Excess(disk) /\ UNCHANGED <<archive, nextJob>>
  BY DEF load
<1>2. /\ Excess(disk) \subseteq Ids /\ \A j \in Excess(disk) : is_terminal(disk[j])
      /\ jobs' \in Lists
      /\ \A j \in Ids : jobs'[j] = IF j \in Excess(disk) THEN Absent ELSE disk[j]
  BY <1>t, <1>1, ExcessDone
<1>3. \A j \in Ids : told'[j] = IF jobs'[j] # Absent THEN jobs'[j] ELSE told[j]
  BY <1>1 DEF Tell
<1>4. told' \in Lists
  BY <1>t, <1>1, <1>2 DEF Tell, Lists
<1>5. ASSUME NEW j \in Ids PROVE Agree(j)' /\ Followed(j)'
  <2>1. Agree(j) /\ jobs[j] \in Places /\ disk[j] \in Places /\ told[j] \in Places
    BY <1>t DEF StoreInv, Lists
  <2>2. /\ disk'[j] = jobs'[j] /\ announced'[j] = jobs'[j]
        /\ told'[j] = (IF jobs'[j] # Absent THEN jobs'[j] ELSE told[j])
        /\ jobs'[j] = (IF j \in Excess(disk) THEN Absent ELSE disk[j])
        /\ j \in Excess(disk) => j \in dropped' /\ is_terminal(disk[j])
        /\ j \in dropped => j \in dropped'
    BY <1>1, <1>2, <1>3
  <2>3. Agree(j)'
    BY <1>1, <2>1, <2>2, FirstRecords, Stays DEF Agree
  <2> QED
    BY <2>2, <2>3 DEF Followed
<1> QED
  BY <1>t, <1>1, <1>2, <1>4, <1>5

\* The snapshot of a list that a call computes, and what it removes.
LEMMA SnapshotHolds ==
  ASSUME StoreInv, NEW r \in Commit, ~Nothing(r)
  PROVE  /\ Snapshot(r) \in Lists
         /\ r.op = "add" => nextJob \in Ids
         /\ \A j \in Ids :
              /\ jobs[j] = Absent => Snapshot(r)[j] = IF r.op = "add" /\ j = nextJob THEN Begun ELSE Absent
              /\ jobs[j] # Absent =>
                   \/ Snapshot(r)[j] # Absent /\ Onward(jobs[j], Snapshot(r)[j])
                   \/ /\ Snapshot(r)[j] = Absent /\ is_terminal(jobs[j])
                      /\ \/ j \in Drops(r)
                         \/ r.op = "archive_completed" /\ j \in ToSet(ArchiveSnapshot(r))
              /\ r.op = "add" /\ j # nextJob => Snapshot(r)[j] \in {Absent, jobs[j]}
              /\ r.op \in Updates /\ j # r.job => Snapshot(r)[j] = jobs[j]
              /\ r.op \in {"archive_completed", "clear_finished"} => Snapshot(r)[j] \in {Absent, jobs[j]}
<1>t. jobs \in Lists /\ nextJob \in 1 .. MaxJobs + 1 /\ r.op \in Requests /\ r.job \in Ids
  BY Types DEF Commit
<1>1. CASE r.op = "add"
  <2>1. nextJob \in Ids
    BY <1>t, <1>1, StoreAssumption DEF Nothing, Ids
  <2>2. Added \in Lists /\ \A j \in Ids : Added[j] = IF j = nextJob THEN Begun ELSE jobs[j]
    BY <1>t, <2>1, FirstRecords DEF Added, Lists
  <2>3. jobs[nextJob] = Absent
    BY <2>1 DEF StoreInv, Agree, Ids
  <2>4. /\ Snapshot(r) \in Lists /\ \A j \in Excess(Added) : is_terminal(Added[j])
        /\ \A j \in Ids : Snapshot(r)[j] = IF j \in Excess(Added) THEN Absent ELSE Added[j]
    BY <1>1, <2>2, ExcessDone DEF Snapshot, Updates
  <2>5. Drops(r) = Excess(Added)
    BY <1>1 DEF Drops, Updates
  <2> QED
    BY <1>1, <2>1, <2>2, <2>3, <2>4, <2>5, FirstRecords, Stays DEF Updates
<1>2. CASE r.op \in Updates
  <2>1. accepts(r.op, jobs[r.job]) /\ jobs[r.job] \in Places
    BY <1>t, <1>2 DEF Nothing, Lists
  <2>2. /\ updated(r.op, jobs[r.job]) \in Records /\ jobs[r.job] # Absent
        /\ Onward(jobs[r.job], updated(r.op, jobs[r.job]))
    BY <1>2, <2>1, UpdateIs
  <2>3. updated(r.op, jobs[r.job]) \in Places /\ updated(r.op, jobs[r.job]) # Absent
    BY <2>2 DEF Places, Records, Absent
  <2>4. Snapshot(r) = [jobs EXCEPT ![r.job] = updated(r.op, jobs[r.job])]
    BY <1>2 DEF Snapshot, Updates
  <2>5. /\ Snapshot(r) \in Lists
        /\ \A j \in Ids : Snapshot(r)[j] = IF j = r.job THEN updated(r.op, jobs[r.job]) ELSE jobs[j]
    BY <1>t, <2>3, <2>4 DEF Lists
  <2> QED
    BY <1>2, <2>2, <2>3, <2>5, Stays DEF Updates
<1>3. CASE r.op = "archive_completed"
  <2>1. ToArchive \subseteq Terminal(jobs)
    BY DEF ToArchive, Oldest
  <2>2. Snapshot(r) \in Lists /\ \A j \in Ids : Snapshot(r)[j] = IF j \in ToArchive THEN Absent ELSE jobs[j]
    BY <1>t, <1>3, FirstRecords DEF Snapshot, Without, Lists, Updates
  <2>3. \A j \in ToArchive : j \in Drops(r) \/ j \in ToSet(ArchiveSnapshot(r))
    BY <1>3 DEF Drops, Updates
  <2> QED
    BY <1>t, <1>3, <2>1, <2>2, <2>3, Stays DEF Terminal, Updates
<1>4. CASE r.op = "clear_finished"
  <2>1. Snapshot(r) \in Lists
        /\ \A j \in Ids : Snapshot(r)[j] = IF j \in Terminal(jobs) THEN Absent ELSE jobs[j]
    BY <1>t, <1>4, FirstRecords DEF Snapshot, Without, Lists, Updates
  <2>2. Terminal(jobs) \subseteq Drops(r)
    BY <1>4 DEF Drops, Updates
  <2> QED
    BY <1>t, <1>4, <2>1, <2>2, Stays DEF Terminal, Updates
<1>5. CASE r.op = "prune_archive"
  <2>1. Snapshot(r) = jobs
    BY <1>5 DEF Snapshot, Updates
  <2> QED
    BY <1>t, <1>5, <2>1, Stays DEF Updates
<1> QED
  BY <1>t, <1>1, <1>2, <1>3, <1>4, <1>5 DEF Requests, Edits

\* What a call leaves out of the archive it drops.
LEMMA DropsRest ==
  ASSUME StoreInv, NEW r \in Commit
  PROVE  /\ Drops(r) \subseteq Ids
         /\ ToSet(archive) \subseteq ToSet(ArchiveSnapshot(r)) \cup Drops(r)
         /\ r.op = "clear_finished" => ToSet(ArchiveSnapshot(r)) = {}
<1>1. ToSet(archive) \subseteq Ids /\ ToArchive \subseteq Ids /\ r.op \in Requests
  BY Types, SetOfList DEF ToArchive, Oldest, Terminal, Commit
<1>2. CASE r.op = "add"
  <2>1. Drops(r) \subseteq Ids /\ ArchiveSnapshot(r) = archive
    BY <1>2 DEF Drops, ArchiveSnapshot, Excess, Oldest, Terminal, Edits, Updates
  <2> QED
    BY <1>2, <2>1
<1>3. CASE r.op \in Updates
  BY <1>3 DEF Drops, ArchiveSnapshot, Edits, Updates
<1>4. CASE r.op = "clear_finished"
  <2>1. ArchiveSnapshot(r) = <<>> /\ Drops(r) = Terminal(jobs) \cup ToSet(archive)
    BY <1>4 DEF Drops, ArchiveSnapshot, Edits, Updates
  <2> QED
    BY <1>1, <1>4, <2>1, NothingListed DEF Terminal
<1>5. CASE r.op = "archive_completed"
  <2>1. Drops(r) = (ToSet(archive) \cup ToArchive) \ ToSet(ArchiveSnapshot(r))
    BY <1>5 DEF Drops, Updates
  <2> QED
    BY <1>1, <1>5, <2>1
<1>6. CASE r.op = "prune_archive"
  <2>1. Drops(r) = ToSet(archive) \ ToSet(ArchiveSnapshot(r))
    BY <1>6 DEF Drops, Updates
  <2> QED
    BY <1>1, <1>6, <2>1
<1> QED
  BY <1>1, <1>2, <1>3, <1>4, <1>5, <1>6 DEF Requests, Edits, Updates

\* The plan of a commit is all of it.
LEMMA PlanLeft ==
  ASSUME NEW op \in Requests
  PROVE  Plan(op) \in Left(op) /\ Head(Plan(op)) \in {"disk", "archive"}
<1>1. \A x, y : Head(<<"disk", x, y>>) = "disk" /\ Head(<<"archive", x, y>>) = "archive"
  OBVIOUS
<1>2. Head(<<"archive">>) = "archive"
  OBVIOUS
<1> QED
  BY <1>1, <1>2 DEF Plan, Left, Requests, Edits, Updates

\* A call takes the lock and computes its snapshots.
LEMMA DispatchKeeps ==
  ASSUME StoreInv, NEW c \in Clients, Acquire(c), ~Nothing(call[c])
  PROVE  /\ call' \in [Clients -> Commit] /\ at' \in [Clients -> {"idle", "wait", "commit"}]
         /\ lock' = c /\ nextJob' \in 1 .. MaxJobs + 1 /\ dropped' \subseteq Ids /\ present' = present
         /\ up /\ \A d \in Clients : Committing(d)' <=> d = c
         /\ call'[c].steps \in Left(call'[c].op)
         /\ \A d \in Clients : Len(call'[d].archive) <= MaxArchived
         /\ \A j \in Ids : Agree(j)' /\ Followed(j)' /\ Commits(call[c], j)'
<1> DEFINE r == call[c]
           q == [op |-> r.op, job |-> IF r.op = "add" THEN nextJob ELSE r.job, steps |-> Plan(r.op),
                 jobs |-> Snapshot(r), archive |-> ArchiveSnapshot(r)]
<1>t. /\ jobs \in Lists /\ disk \in Lists /\ announced \in Lists /\ told \in Lists
      /\ call \in [Clients -> Commit] /\ at \in [Clients -> {"idle", "wait", "commit"}]
      /\ nextJob \in 1 .. MaxJobs + 1 /\ dropped \subseteq Ids
  BY Types
<1>1. /\ at[c] = "wait" /\ lock = Nobody /\ lock' = c /\ at' = [at EXCEPT ![c] = "commit"]
      /\ call' = [call EXCEPT ![c] = q] /\ dropped' = dropped \cup Drops(r)
      /\ nextJob' = (IF r.op = "add" THEN nextJob + 1 ELSE nextJob)
      /\ UNCHANGED <<present, jobs, disk, archive, up, announced, told>>
  BY DEF Acquire, files
<1>2. r \in Commit /\ r.op \in Requests
  BY <1>t DEF Commit
<1>3. Plan(r.op) \in Seq(Steps) /\ Plan(r.op) \in Left(r.op) /\ Head(Plan(r.op)) \in {"disk", "archive"}
  BY <1>2, PlanLeft, StepsLeft
<1>4. /\ ArchiveSnapshot(r) \in Seq(Ids) /\ Len(ArchiveSnapshot(r)) <= MaxArchived
      /\ ToSet(ArchiveSnapshot(r)) \subseteq ToSet(archive) \cup Terminal(jobs)
      /\ r.op # "archive_completed" => ToSet(ArchiveSnapshot(r)) \subseteq ToSet(archive)
  BY <1>2, ArchiveSnapshotHolds DEF StoreInv
<1>5. Snapshot(r) \in Lists /\ (r.op = "add" => nextJob \in Ids)
  BY <1>2, SnapshotHolds
<1>6. q \in Commit
  <2>1. (IF r.op = "add" THEN nextJob ELSE r.job) \in Ids
    BY <1>2, <1>5 DEF Commit
  <2> HIDE DEF r
  <2> QED
    BY <1>2, <1>3, <1>4, <1>5, <2>1 DEF Commit
<1>7. q.op = r.op /\ q.steps = Plan(r.op) /\ q.jobs = Snapshot(r) /\ q.archive = ArchiveSnapshot(r)
      /\ q.job = (IF r.op = "add" THEN nextJob ELSE r.job)
  OBVIOUS
<1> HIDE DEF q, r
<1>8. call' \in [Clients -> Commit] /\ call'[c] = q /\ \A d \in Clients : d # c => call'[d] = call[d]
  BY <1>t, <1>1, <1>6
<1>9. nextJob' \in 1 .. MaxJobs + 1 /\ nextJob' >= nextJob /\ dropped' \subseteq Ids
  <2>1. Drops(r) \subseteq Ids
    BY <1>2, DropsRest
  <2>2. nextJob' \in 1 .. MaxJobs + 1 /\ nextJob' >= nextJob
    BY <1>t, <1>1, <1>5, StoreAssumption DEF Ids
  <2>3. dropped' \subseteq Ids
    BY <1>t, <1>1, <2>1
  <2> QED
    BY <2>2, <2>3
<1>10. up /\ \A d \in Clients : ~Committing(d) /\ (Committing(d)' <=> d = c)
  BY <1>t, <1>1, StoreAssumption DEF StoreInv, Locked, Committing
<1>11. at' \in [Clients -> {"idle", "wait", "commit"}]
  BY <1>t, <1>1
<1>12. \A d \in Clients : Len(call'[d].archive) <= MaxArchived
  <2>1. \A d \in Clients : Len(call[d].archive) <= MaxArchived
    BY DEF StoreInv, Locked
  <2>2. Len(call'[c].archive) <= MaxArchived
    <3>1. call'[c].archive = ArchiveSnapshot(r)
      BY <1>7, <1>8
    <3> QED
      BY <1>4, <3>1, Zenon
  <2> QED
    BY <1>8, <2>1, <2>2
<1>13. ASSUME NEW j \in Ids PROVE Agree(j)' /\ Followed(j)' /\ Commits(call[c], j)'
  <2>1. /\ Agree(j) /\ Followed(j) /\ jobs[j] \in Places /\ told[j] \in Places /\ disk[j] \in Places
        /\ j \in Nat
    BY <1>t DEF StoreInv, Lists, Ids
  <2>2. Agree(j)'
    BY <1>t, <1>1, <1>9, <2>1 DEF Agree
  <2>3. Followed(j)'
    BY <1>1, <1>10, <2>1 DEF Followed
  <2>4. /\ jobs[j] = Absent => q.jobs[j] = IF r.op = "add" /\ j = nextJob THEN Begun ELSE Absent
        /\ jobs[j] # Absent =>
             \/ q.jobs[j] # Absent /\ Onward(jobs[j], q.jobs[j])
             \/ /\ q.jobs[j] = Absent /\ is_terminal(jobs[j])
                /\ j \in dropped' \/ (r.op = "archive_completed" /\ j \in ToSet(q.archive))
        /\ r.op \in Edits /\ j # q.job => q.jobs[j] \in {Absent, jobs[j]}
        /\ r.op \in {"archive_completed", "clear_finished"} => q.jobs[j] \in {Absent, jobs[j]}
    BY <1>1, <1>2, <1>7, SnapshotHolds DEF r, Edits
  <2>5. Changes(call[c], j)'
    <3>1. j >= nextJob' => q.jobs[j] = Absent
      <4>1. CASE r.op = "add"
        BY <1>t, <1>1, <2>1, <2>4, <4>1 DEF Agree
      <4>2. CASE r.op # "add"
        BY <1>1, <2>1, <2>4, <4>2 DEF Agree
      <4> QED
        BY <4>1, <4>2
    <3>2. jobs[j] = Absent => q.jobs[j] = Absent \/ (told[j] = Absent /\ q.jobs[j] = Begun)
      BY <1>t, <2>1, <2>4 DEF Agree
    <3> QED
      BY <1>1, <1>7, <1>8, <2>1, <2>4, <3>1, <3>2 DEF Changes
  <2>6. Archives(call[c], j)'
    <3>1. j \in ToSet(archive) => j \in ToSet(q.archive) \cup dropped'
      BY <1>1, <1>2, <1>7, DropsRest
    <3>2. j \in ToSet(q.archive) => told[j] # Absent /\ (jobs[j] = Absent => j \in ToSet(archive))
      <4>1. j \in ToSet(q.archive) => j \in ToSet(archive) \/ is_terminal(jobs[j])
        BY <1>4, <1>7, Zenon DEF Terminal
      <4> QED
        BY <2>1, <4>1, FirstRecords DEF Agree
    <3>3. r.op = "clear_finished" => j \notin ToSet(q.archive)
      BY <1>2, <1>7, DropsRest
    <3>4. r.op = "archive_completed" => Head(q.steps) = "archive"
      <4>1. Head(<<"archive", "disk", "memory">>) = "archive"
        OBVIOUS
      <4> QED
        BY <1>7, <4>1 DEF Plan
    <3> QED
      BY <1>1, <1>7, <1>8, <3>1, <3>2, <3>3, <3>4 DEF Archives
  <2>7. Written(call[c], j)'
    BY <1>3, <1>7, <1>8 DEF Written
  <2> QED
    BY <2>2, <2>3, <2>5, <2>6, <2>7 DEF Commits
<1> QED
  BY <1>1, <1>3, <1>7, <1>8, <1>9, <1>10, <1>11, <1>12, <1>13

----------------------------------------------------------------------------
(* The invariant.                                                          *)

\* Steps that leave lists, files and commits alone.
LEMMA CallersKeep ==
  ASSUME StoreInv, UNCHANGED <<jobs, files, lock, up, nextJob, faults, crashes, announced, told, dropped>>,
         call' \in [Clients -> Commit], at' \in [Clients -> {"idle", "wait", "commit"}],
         present' \subseteq Clients, \A c \in Clients : ~up => at'[c] = "idle",
         \A c \in Clients : Len(call'[c].archive) <= MaxArchived,
         \A c \in Clients : Committing(c)' <=> Committing(c),
         \A c \in Clients : Committing(c) => call'[c] = call[c]
  PROVE  StoreInv'
<1>1. StoreTypeOK'
  BY Types DEF StoreTypeOK, Lists, Commit, files
<1>2. Locked'
  BY DEF StoreInv, Locked
<1>3. ASSUME NEW j \in Ids PROVE Agree(j)' /\ Followed(j)'
  <2>1. Agree(j) /\ Followed(j)
    BY DEF StoreInv
  <2>2. Agree(j)'
    BY <2>1 DEF Agree, files
  <2>3. Followed(j)'
    <3> SUFFICES ASSUME up, jobs[j] # Absent, announced[j] # jobs[j]
                 PROVE  \E c \in Clients : Committing(c)' /\ call'[c].steps = <<"event">> /\ j = call'[c].job
      BY DEF Followed
    <3>1. PICK c \in Clients : Committing(c) /\ call[c].steps = <<"event">> /\ j = call[c].job
      BY <2>1 DEF Followed
    <3>2. Committing(c)' /\ call'[c] = call[c]
      BY <3>1
    <3> QED
      BY <3>1, <3>2
  <2> QED
    BY <2>2, <2>3
<1>4. ASSUME NEW c \in Clients, Committing(c)', NEW j \in Ids PROVE Commits(call[c], j)'
  <2>1. Commits(call[c], j) /\ call'[c] = call[c]
    BY <1>4 DEF StoreInv
  <2> QED
    BY <2>1 DEF Commits, Changes, Archives, Written, files
<1> QED
  BY <1>1, <1>2, <1>3, <1>4 DEF StoreInv

LEMMA CallKeeps ==
  ASSUME StoreInv, NEW c \in Clients, NEW r \in Calls, Call(c, r)
  PROVE  StoreInv'
<1>1. /\ up /\ at[c] = "idle" /\ at' = [at EXCEPT ![c] = "wait"] /\ call' = [call EXCEPT ![c] = r]
      /\ present' = present \cup {c}
      /\ UNCHANGED <<jobs, files, lock, up, nextJob, faults, crashes, announced, told, dropped>>
  BY DEF Call
<1>2. r \in Commit /\ Len(r.archive) <= MaxArchived
  BY NewCalls, StoreAssumption
<1>t. call \in [Clients -> Commit] /\ at \in [Clients -> {"idle", "wait", "commit"}]
  BY Types
<1>3. /\ call' \in [Clients -> Commit] /\ at' \in [Clients -> {"idle", "wait", "commit"}]
      /\ present' \subseteq Clients
  BY <1>t, <1>1, <1>2, Types
<1>4. \A d \in Clients : Committing(d)' <=> Committing(d)
  BY <1>t, <1>1 DEF Committing
<1>5. \A d \in Clients : Committing(d) => call'[d] = call[d]
  BY <1>t, <1>1 DEF Committing
<1>6. \A d \in Clients : Len(call'[d].archive) <= MaxArchived
  <2>1. \A d \in Clients : Len(call[d].archive) <= MaxArchived
    BY DEF StoreInv, Locked
  <2> QED
    BY <1>t, <1>1, <1>2, <2>1
<1> QED
  BY <1>1, <1>3, <1>4, <1>5, <1>6, CallersKeep

\* A caller that waits returns or is gone.
LEMMA ReturnKeeps ==
  ASSUME StoreInv, NEW c \in Clients, at[c] = "wait", at' = [at EXCEPT ![c] = "idle"],
         call' = [call EXCEPT ![c] = NoCall], present' = present \ {c},
         UNCHANGED <<jobs, files, lock, up, nextJob, faults, crashes, announced, told, dropped>>
  PROVE  StoreInv'
<1>2. NoCall \in Commit /\ Len(NoCall.archive) <= MaxArchived
  BY NewCalls, StoreAssumption
<1>t. call \in [Clients -> Commit] /\ at \in [Clients -> {"idle", "wait", "commit"}]
  BY Types
<1>3. /\ call' \in [Clients -> Commit] /\ at' \in [Clients -> {"idle", "wait", "commit"}]
      /\ present' \subseteq Clients /\ \A d \in Clients : ~up => at'[d] = "idle"
  BY <1>t, <1>2, Types DEF StoreInv, Locked
<1>4. \A d \in Clients : Committing(d)' <=> Committing(d)
  BY <1>t DEF Committing
<1>5. \A d \in Clients : Committing(d) => call'[d] = call[d]
  BY <1>t DEF Committing
<1>6. \A d \in Clients : Len(call'[d].archive) <= MaxArchived
  <2>1. \A d \in Clients : Len(call[d].archive) <= MaxArchived
    BY DEF StoreInv, Locked
  <2> QED
    BY <1>t, <1>2, <2>1
<1> QED
  BY <1>3, <1>4, <1>5, <1>6, CallersKeep

LEMMA AbandonKeeps ==
  ASSUME StoreInv, NEW c \in Clients, Abandon(c)
  PROVE  StoreInv'
<1>1. CASE at[c] = "wait"
  BY <1>1, ReturnKeeps DEF Abandon
<1>2. CASE at[c] # "wait"
  <2>1. /\ UNCHANGED <<at, call>> /\ present' = present \ {c}
        /\ UNCHANGED <<jobs, files, lock, up, nextJob, faults, crashes, announced, told, dropped>>
    BY <1>2 DEF Abandon
  <2>2. /\ call' \in [Clients -> Commit] /\ at' \in [Clients -> {"idle", "wait", "commit"}]
        /\ present' \subseteq Clients
    BY <2>1, Types
  <2>3. \A d \in Clients : (~up => at'[d] = "idle") /\ Len(call'[d].archive) <= MaxArchived
    BY <2>1 DEF StoreInv, Locked
  <2>4. \A d \in Clients : (Committing(d)' <=> Committing(d)) /\ call'[d] = call[d]
    BY <2>1 DEF Committing
  <2> QED
    BY <2>1, <2>2, <2>3, <2>4, CallersKeep
<1> QED
  BY <1>1, <1>2

LEMMA AcquireKeeps ==
  ASSUME StoreInv, NEW c \in Clients, Acquire(c)
  PROVE  StoreInv'
<1>1. CASE Nothing(call[c])
  BY <1>1, ReturnKeeps DEF Acquire
<1>2. CASE ~Nothing(call[c])
  <2>1. /\ call' \in [Clients -> Commit] /\ at' \in [Clients -> {"idle", "wait", "commit"}]
        /\ lock' = c /\ nextJob' \in 1 .. MaxJobs + 1 /\ dropped' \subseteq Ids /\ present' = present
        /\ up /\ \A d \in Clients : Committing(d)' <=> d = c
        /\ call'[c].steps \in Left(call'[c].op)
        /\ \A d \in Clients : Len(call'[d].archive) <= MaxArchived
        /\ \A j \in Ids : Agree(j)' /\ Followed(j)' /\ Commits(call[c], j)'
    BY <1>2, DispatchKeeps
  <2>2. UNCHANGED <<jobs, files, up, faults, crashes, announced, told>>
    BY DEF Acquire
  <2>3. StoreTypeOK'
    BY <2>1, <2>2, Types DEF StoreTypeOK, Lists, Commit, files
  <2>4. Locked'
    BY <2>1, <2>2 DEF Locked
  <2> QED
    BY <2>1, <2>3, <2>4 DEF StoreInv
<1> QED
  BY <1>1, <1>2

\* A commit takes a step, or ends.
LEMMA CommitKeeps ==
  ASSUME StoreInv, NEW c \in Clients, Committing(c), NEW rest,
         rest = <<>> \/ rest = Tail(call[c].steps), End(c, rest),
         jobs' \in Lists, disk' \in Lists, announced' \in Lists, told' \in Lists,
         archive' \in Seq(Ids), Len(archive') <= MaxArchived, faults' \in Nat,
         UNCHANGED <<up, nextJob, crashes, dropped>>,
         \A j \in Ids : Agree(j)' /\ Followed(j)',
         \A d \in Clients : Committing(d)' => \A j \in Ids : Commits(call[d], j)'
  PROVE  StoreInv'
<1>1. /\ call' \in [Clients -> Commit] /\ at' \in [Clients -> {"idle", "wait", "commit"}]
      /\ lock' \in Clients \cup {Nobody} /\ present' \subseteq Clients
      /\ \A d \in Clients : Committing(d)' <=> lock' = d
      /\ \A d \in Clients : Committing(d)' => call'[d].steps \in Left(call'[d].op)
      /\ \A d \in Clients : Len(call'[d].archive) <= MaxArchived
      /\ up
  BY EndKeeps
<1>2. StoreTypeOK'
  BY <1>1, Types DEF StoreTypeOK, Lists, Commit
<1>3. Locked'
  BY <1>1 DEF Locked
<1> QED
  BY <1>2, <1>3 DEF StoreInv

LEMMA StepKeeps ==
  ASSUME StoreInv, NEW c \in Clients, Step(c)
  PROVE  StoreInv'
<1>t. /\ jobs \in Lists /\ disk \in Lists /\ announced \in Lists /\ told \in Lists
      /\ archive \in Seq(Ids) /\ Len(archive) <= MaxArchived /\ faults \in Nat
      /\ call[c].jobs \in Lists /\ call[c].archive \in Seq(Ids) /\ Len(call[c].archive) <= MaxArchived
  BY Types DEF Commit, StoreInv, Locked
<1>1. CASE Acquire(c)
  BY <1>1, AcquireKeeps
<1>2. CASE WriteDisk(c)
  <2>1. /\ At(c, "disk") /\ disk' = call[c].jobs /\ End(c, Tail(call[c].steps))
        /\ UNCHANGED <<jobs, archive, up, nextJob, faults, crashes, announced, told, dropped>>
    BY <1>2 DEF WriteDisk
  <2>2. /\ \A j \in Ids : Agree(j)' /\ Followed(j)'
        /\ \A d \in Clients : Committing(d)' => \A j \in Ids : Commits(call[d], j)'
    BY <2>1, WriteDiskKeeps
  <2>3. Committing(c)
    BY <2>1 DEF At, Committing
  <2> QED
    BY <1>t, <2>1, <2>2, <2>3, CommitKeeps
<1>3. CASE WriteArchive(c)
  <2>1. /\ At(c, "archive") /\ archive' = call[c].archive /\ End(c, Tail(call[c].steps))
        /\ UNCHANGED <<jobs, disk, up, nextJob, faults, crashes, announced, told, dropped>>
    BY <1>3 DEF WriteArchive
  <2>2. /\ \A j \in Ids : Agree(j)' /\ Followed(j)'
        /\ \A d \in Clients : Committing(d)' => \A j \in Ids : Commits(call[d], j)'
    BY <2>1, WriteArchiveKeeps
  <2>3. Committing(c)
    BY <2>1 DEF At, Committing
  <2> QED
    BY <1>t, <2>1, <2>2, <2>3, CommitKeeps
<1>4. CASE WriteFails(c)
  <2>1. /\ End(c, <<>>) /\ faults' \in Nat
        /\ UNCHANGED <<jobs, up, nextJob, crashes, announced, told, dropped>>
    BY <1>t, <1>4 DEF WriteFails
  <2>2. Committing(c)
    BY <1>4 DEF WriteFails, At, Committing
  <2>3. \/ (At(c, "disk") \/ At(c, "archive")) /\ UNCHANGED files
        \/ At(c, "disk") /\ disk' = call[c].jobs /\ UNCHANGED archive
        \/ At(c, "archive") /\ archive' = call[c].archive /\ UNCHANGED disk
    BY <1>4 DEF WriteFails
  <2>4. /\ \A j \in Ids : Agree(j)' /\ Followed(j)'
        /\ \A d \in Clients : Committing(d)' => \A j \in Ids : Commits(call[d], j)'
    <3>1. CASE (At(c, "disk") \/ At(c, "archive")) /\ UNCHANGED files
      BY <2>1, <3>1, GiveUpKeeps
    <3>2. CASE At(c, "disk") /\ disk' = call[c].jobs /\ UNCHANGED archive
      BY <2>1, <3>2, WriteDiskKeeps
    <3>3. CASE At(c, "archive") /\ archive' = call[c].archive /\ UNCHANGED disk
      BY <2>1, <3>3, WriteArchiveKeeps
    <3> QED
      BY <2>3, <3>1, <3>2, <3>3
  <2>5. disk' \in Lists /\ archive' \in Seq(Ids) /\ Len(archive') <= MaxArchived
    BY <1>t, <2>3 DEF files
  <2>6. jobs' \in Lists /\ announced' \in Lists /\ told' \in Lists
    BY <1>t, <2>1
  <2> QED
    BY <2>1, <2>2, <2>4, <2>5, <2>6, CommitKeeps
<1>5. CASE Publish(c)
  <2>1. /\ Committing(c) /\ jobs' = call[c].jobs /\ told' = Tell(call[c].jobs)
        /\ End(c, Tail(call[c].steps))
        /\ UNCHANGED <<disk, archive, up, nextJob, faults, crashes, announced, dropped>>
    BY <1>5 DEF Publish, At, Committing, files
  <2>2. /\ \A j \in Ids : Agree(j)' /\ Followed(j)'
        /\ \A d \in Clients : Committing(d)' => \A j \in Ids : Commits(call[d], j)'
    BY <1>5, PublishKeeps
  <2>3. told' \in Lists
    BY <1>t, <2>1 DEF Tell, Lists
  <2> QED
    BY <1>t, <2>1, <2>2, <2>3, CommitKeeps
<1>6. CASE Emit(c)
  <2>1. /\ Committing(c) /\ End(c, Tail(call[c].steps))
        /\ UNCHANGED <<jobs, disk, archive, up, nextJob, faults, crashes, told, dropped>>
    BY <1>6 DEF Emit, At, Committing, files
  <2>2. /\ announced' \in Lists /\ \A j \in Ids : Agree(j)' /\ Followed(j)'
        /\ \A d \in Clients : ~Committing(d)'
    BY <1>6, EmitKeeps
  <2> QED
    BY <1>t, <2>1, <2>2, CommitKeeps
<1> QED
  BY <1>1, <1>2, <1>3, <1>4, <1>5, <1>6 DEF Step

LEMMA CrashKeeps ==
  ASSUME StoreInv, Crash
  PROVE  StoreInv'
<1>1. /\ up' = FALSE /\ crashes' = crashes + 1 /\ lock' = Nobody /\ present' = {}
      /\ at' = [c \in Clients |-> "idle"] /\ call' = [c \in Clients |-> NoCall]
      /\ UNCHANGED <<jobs, files, nextJob, faults, announced, told, dropped>>
  BY DEF Crash
<1>2. NoCall \in Commit /\ Len(NoCall.archive) <= MaxArchived
  BY NewCalls, StoreAssumption
<1>3. /\ call' \in [Clients -> Commit] /\ at' \in [Clients -> {"idle", "wait", "commit"}]
      /\ \A c \in Clients : Len(call'[c].archive) <= MaxArchived
  BY <1>1, <1>2
<1>4. \A c \in Clients : ~Committing(c)' /\ at'[c] = "idle" /\ lock' # c
  BY <1>1, StoreAssumption DEF Committing
<1>5. StoreTypeOK'
  <2>1. up' \in BOOLEAN /\ crashes' \in Nat /\ lock' \in Clients \cup {Nobody} /\ present' \subseteq Clients
    <3>1. crashes \in Nat
      BY Types
    <3>2. crashes' \in Nat /\ lock' \in Clients \cup {Nobody} /\ present' \subseteq Clients
      BY <1>1, <3>1
    <3>3. up' \in BOOLEAN
      BY <1>1, Zenon
    <3> QED
      BY <3>2, <3>3
  <2>2. UNCHANGED <<jobs, disk, archive, nextJob, faults, announced, told, dropped>>
    BY <1>1 DEF files
  <2> QED
    BY <1>3, <2>1, <2>2, Types DEF StoreTypeOK, Lists, Commit
<1>6. Locked'
  BY <1>3, <1>4 DEF Locked
<1>7. ASSUME NEW j \in Ids PROVE Agree(j)' /\ Followed(j)'
  BY <1>1 DEF StoreInv, Agree, Followed, files
<1> QED
  BY <1>4, <1>5, <1>6, <1>7 DEF StoreInv

LEMMA StartKeeps ==
  ASSUME StoreInv, load
  PROVE  StoreInv'
<1>1. /\ ~up /\ up' = TRUE /\ UNCHANGED <<archive, commits, nextJob, faults, crashes>>
  BY DEF load
<1>2. /\ jobs' \in Lists /\ disk' \in Lists /\ announced' \in Lists /\ told' \in Lists
      /\ dropped' \subseteq Ids
      /\ \A j \in Ids : Agree(j)' /\ Followed(j)'
  BY LoadKeeps
<1>3. StoreTypeOK'
  BY <1>1, <1>2, Types DEF StoreTypeOK, Lists, Commit, commits
<1>4. Locked' /\ \A c \in Clients : ~Committing(c)'
  BY <1>1 DEF StoreInv, Locked, Committing, commits
<1> QED
  BY <1>2, <1>3, <1>4 DEF StoreInv

LEMMA StoreInitHolds == StoreInit => StoreInv
<1> SUFFICES ASSUME StoreInit PROVE StoreInv
  OBVIOUS
<1> USE DEF StoreInit
<1>1. NoCall \in Commit /\ Len(NoCall.archive) <= MaxArchived
  BY NewCalls, StoreAssumption
<1>2. NoJobs \in Lists /\ \A j \in Ids : NoJobs[j] = Absent
  BY FirstRecords DEF NoJobs, Lists
<1>3. archive \in Seq(Ids) /\ Len(archive) <= MaxArchived
  BY StoreAssumption
<1>4. StoreTypeOK
  BY <1>1, <1>2, <1>3, StoreAssumption DEF StoreTypeOK, Lists, Commit
<1>5. Locked /\ \A c \in Clients : ~Committing(c)
  BY <1>1, StoreAssumption DEF Locked, Committing
<1>6. ASSUME NEW j \in Ids PROVE Agree(j) /\ Followed(j)
  BY <1>2, NothingListed DEF Agree, Followed
<1> QED
  BY <1>4, <1>5, <1>6 DEF StoreInv

LEMMA StoreStep ==
  ASSUME StoreInv, [StoreNext]_jvars
  PROVE  StoreInv'
<1>1. CASE StoreNext
  BY <1>1, StepKeeps, AbandonKeeps, CallKeeps, CrashKeeps, StartKeeps DEF StoreNext
<1>2. CASE UNCHANGED jvars
  <2>1. UNCHANGED <<jobs, files, lock, up, nextJob, faults, crashes, announced, told, dropped>>
        /\ UNCHANGED <<at, call, present>>
    BY <1>2 DEF jvars, commits
  <2>2. \A c \in Clients : (Committing(c)' <=> Committing(c)) /\ call'[c] = call[c]
    BY <2>1 DEF Committing
  <2>3. \A c \in Clients : (~up => at'[c] = "idle") /\ Len(call'[c].archive) <= MaxArchived
    BY <2>1 DEF StoreInv, Locked
  <2>4. /\ call' \in [Clients -> Commit] /\ at' \in [Clients -> {"idle", "wait", "commit"}]
        /\ present' \subseteq Clients
    BY <2>1, Types
  <2> QED
    BY <2>1, <2>2, <2>3, <2>4, CallersKeep
<1> QED
  BY <1>1, <1>2

LEMMA StoreInvariant == StoreSpec => []StoreInv
<1>1. StoreInv /\ [StoreNext]_jvars => StoreInv'
  BY StoreStep
<1> QED
  BY StoreInitHolds, <1>1, PTL DEF StoreSpec

\* What every variable of the store may hold.
THEOREM StoreTypes == StoreSpec => []StoreTypeOK
<1>1. StoreInv => StoreTypeOK
  BY DEF StoreInv
<1> QED
  BY StoreInvariant, <1>1, PTL

\* Whatever write fails, whichever caller gives up and whenever the process
\* exits, what a reader of the list has seen is on disk until it is removed on
\* purpose, and the events tell what the list holds.
THEOREM StoreReadersAgree == StoreSpec => []ReadersAgree
<1>1. StoreInv => ReadersAgree
  <2> SUFFICES ASSUME StoreInv PROVE ReadersAgree
    OBVIOUS
  <2>1. Durable
    <3> SUFFICES ASSUME NEW j \in Ids \ dropped, told[j] # Absent
                 PROVE  Carries(told[j], disk[j]) \/ (is_terminal(told[j]) /\ j \in ToSet(archive))
      BY DEF Durable
    <3>1. Agree(j) /\ told[j] \in Places /\ disk[j] \in Places
      BY Types DEF StoreInv, Lists
    <3>2. CASE disk[j] = Absent
      BY <3>1, <3>2 DEF Agree
    <3>3. CASE disk[j] # Absent
      <4>1. Onward(told[j], disk[j])
        BY <3>1, <3>3 DEF Agree
      <4>2. told[j].attempt \in Nat /\ disk[j].attempt \in Nat
        BY <3>1, RecordIs, StoreAssumption
      <4> QED
        BY <4>1, <4>2 DEF Onward, Carries, is_terminal
    <3> QED
      BY <3>2, <3>3
  <2>2. EventsFollow
    <3>1. lock = Nobody => \A c \in Clients : ~Committing(c)
      BY StoreAssumption DEF StoreInv, Locked
    <3> QED
      BY <3>1 DEF EventsFollow, StoreInv, Followed, Stored
  <2> QED
    BY <2>1, <2>2 DEF ReadersAgree
<1> QED
  BY StoreInvariant, <1>1, PTL

----------------------------------------------------------------------------
(* The store implements JobHistory.                                        *)

Archived == [status |-> "archived", attempt |-> 0]
Gone == [status |-> "gone", attempt |-> 0]

\* Where a reader finds a job is one of the places of JobHistory.
LEMMA PlaceOf ==
  ASSUME NEW j \in Ids
  PROVE  Place[j] = IF jobs[j] # Absent THEN jobs[j]
                    ELSE IF j \in ToSet(archive) THEN Archived
                    ELSE IF told[j] # Absent THEN Gone ELSE Absent
BY DEF Place, Archived, Gone

LEMMA PlaceOfNext ==
  ASSUME NEW j \in Ids
  PROVE  Place'[j] = IF jobs'[j] # Absent THEN jobs'[j]
                     ELSE IF j \in ToSet(archive') THEN Archived
                     ELSE IF told'[j] # Absent THEN Gone ELSE Absent
BY DEF Place, Archived, Gone

\* What one commit makes of a record is a move of JobHistory.
LEMMA OnwardMoves ==
  ASSUME NEW p \in Records, NEW q \in Records, Onward(p, q), q # p
  PROVE  History!Order(p, q)
<1>1. /\ p.attempt \in 1 .. MaxAttempts /\ q.attempt \in 1 .. MaxAttempts
      /\ q = [status |-> q.status, attempt |-> q.attempt]
  BY DEF Records
<1> QED
  BY <1>1 DEF Onward, is_terminal, History!Order, History!At, History!Ended

\* So are its first record and its way to the archive and out of it.
LEMMA OtherMoves ==
  /\ History!Order(Absent, Begun) /\ History!Order(Archived, Gone)
  /\ \A p : is_terminal(p) => History!Order(p, Archived) /\ History!Order(p, Gone)
  /\ \A p : p.status = "active" => History!Unseen(p, Archived) /\ History!Unseen(p, Gone)
BY DEF is_terminal, Absent, Begun, Archived, Gone, History!Order, History!At, History!Ended, History!None,
   History!Away, History!Unseen

\* A step in which every job stays or goes on is a step of JobHistory.
LEMMA ServeStep ==
  ASSUME up' = up, \A j \in Ids : Place'[j] = Place[j] \/ History!Order(Place[j], Place'[j])
  PROVE  History!Next
<1> DEFINE S == {j \in Ids : Place'[j] # Place[j]}
<1>1. \A j \in S : History!Order(Place[j], Place'[j])
  OBVIOUS
<1>2. Place' = [j \in Ids |-> IF j \in S THEN Place'[j] ELSE Place[j]]
  <2>1. Place' = [j \in Ids |-> Place'[j]]
    BY DEF Place
  <2>2. \A j \in Ids : Place'[j] = IF j \in S THEN Place'[j] ELSE Place[j]
    OBVIOUS
  <2> HIDE DEF S
  <2> QED
    BY <2>1, <2>2, Zenon
<1>3. S \in SUBSET Ids
  OBVIOUS
<1> HIDE DEF S
<1>4. History!Moves(S)
  BY <1>2 DEF History!Moves
<1>5. History!Serve
  BY <1>1, <1>3, <1>4 DEF History!Serve
<1> QED
  BY <1>5 DEF History!Next

\* In a restart a job may have gone two moves at once.
LEMMA RestartStep ==
  ASSUME ~up, up' = TRUE,
         \A j \in Ids : \/ Place'[j] = Place[j] \/ History!Order(Place[j], Place'[j])
                        \/ History!Unseen(Place[j], Place'[j])
  PROVE  History!Next
<1> DEFINE S == {j \in Ids : Place'[j] # Place[j]}
<1>1. \A j \in S : History!Order(Place[j], Place'[j]) \/ History!Unseen(Place[j], Place'[j])
  OBVIOUS
<1>2. Place' = [j \in Ids |-> IF j \in S THEN Place'[j] ELSE Place[j]]
  <2>1. Place' = [j \in Ids |-> Place'[j]]
    BY DEF Place
  <2>2. \A j \in Ids : Place'[j] = IF j \in S THEN Place'[j] ELSE Place[j]
    OBVIOUS
  <2> HIDE DEF S
  <2> QED
    BY <2>1, <2>2, Zenon
<1>3. S \in SUBSET Ids
  OBVIOUS
<1> HIDE DEF S
<1>4. History!Moves(S)
  BY <1>2 DEF History!Moves
<1>5. History!Restart
  BY <1>1, <1>3, <1>4 DEF History!Restart
<1> QED
  BY <1>5 DEF History!Next

\* The archive that a commit writes keeps a job or loses what is gone.
LEMMA ArchiveMoves ==
  ASSUME StoreInv, NEW c \in Clients, At(c, "archive"), archive' = call[c].archive,
         UNCHANGED <<jobs, told, up>>
  PROVE  History!Next
<1>1. ASSUME NEW j \in Ids PROVE Place'[j] = Place[j] \/ History!Order(Place[j], Place'[j])
  <2>1. Agree(j) /\ Archives(call[c], j) /\ Head(call[c].steps) = "archive"
    BY CommitFacts DEF At, Committing
  <2> QED
    BY <2>1, PlaceOf, PlaceOfNext, OtherMoves DEF Agree, Archives
<1> QED
  BY <1>1, ServeStep

LEMMA PublishMoves ==
  ASSUME StoreInv, NEW c \in Clients, Publish(c)
  PROVE  History!Next
<1>1. /\ Committing(c) /\ Head(call[c].steps) = "memory" /\ jobs' = call[c].jobs
      /\ UNCHANGED <<disk, archive, up>>
  BY DEF Publish, At, Committing, files
<1>2. ASSUME NEW j \in Ids PROVE Place'[j] = Place[j] \/ History!Order(Place[j], Place'[j])
  <2>1. /\ Agree(j) /\ Changes(call[c], j)
        /\ jobs[j] \in Places /\ told[j] \in Places /\ call[c].jobs[j] \in Places
    BY <1>1, CommitFacts
  <2>2. told'[j] = IF call[c].jobs[j] # Absent THEN call[c].jobs[j] ELSE told[j]
    BY PublishTells DEF Publish
  <2> QED
    <3>1. CASE jobs[j] # Absent /\ call[c].jobs[j] # Absent
      BY <1>1, <2>1, <3>1, RecordIs, OnwardMoves, PlaceOf, PlaceOfNext DEF Changes
    <3>2. CASE jobs[j] = Absent \/ call[c].jobs[j] = Absent
      BY <1>1, <2>1, <2>2, <3>2, OtherMoves, FirstRecords, PlaceOf, PlaceOfNext DEF Agree, Changes
    <3> QED
      BY <3>1, <3>2
<1> QED
  BY <1>1, <1>2, ServeStep

LEMMA LoadMoves ==
  ASSUME StoreInv, load
  PROVE  History!Next
<1>t. jobs \in Lists /\ disk \in Lists /\ told \in Lists
  BY Types
<1>1. /\ ~up /\ up' = TRUE /\ jobs' = truncate_jobs(disk) /\ told' = Tell(jobs') /\ UNCHANGED archive
  BY DEF load
<1>2. ASSUME NEW j \in Ids
      PROVE  \/ Place'[j] = Place[j] \/ History!Order(Place[j], Place'[j])
             \/ History!Unseen(Place[j], Place'[j])
  <2>1. Agree(j) /\ jobs[j] \in Places /\ disk[j] \in Places /\ told[j] \in Places
    BY <1>t DEF StoreInv, Lists
  <2>2. /\ j \in Excess(disk) => is_terminal(disk[j])
        /\ jobs'[j] = IF j \in Excess(disk) THEN Absent ELSE disk[j]
    BY <1>t, <1>1, ExcessDone
  <2>3. told'[j] = IF jobs'[j] # Absent THEN jobs'[j] ELSE told[j]
    BY <1>1 DEF Tell
  <2> QED
    <3>1. CASE jobs[j] # Absent /\ disk[j] # Absent
      <4>1. Onward(jobs[j], disk[j]) /\ jobs[j] \in Records /\ disk[j] \in Records
        BY <2>1, <3>1, RecordIs DEF Agree
      <4>2. CASE j \notin Excess(disk)
        BY <2>2, <3>1, <4>1, <4>2, OnwardMoves, PlaceOf, PlaceOfNext
      <4>3. CASE j \in Excess(disk)
        <5>1. is_terminal(disk[j]) /\ disk[j].status # "active"
          BY <2>1, <2>2, <4>3, RecordIs
        <5>2. is_terminal(jobs[j]) \/ jobs[j].status = "active"
          BY <2>1, <3>1, RecordIs DEF is_terminal
        <5>3. told'[j] # Absent /\ jobs'[j] = Absent
          BY <2>1, <2>2, <2>3, <3>1, <4>3 DEF Agree
        <5> QED
          BY <3>1, <5>2, <5>3, OtherMoves, PlaceOf, PlaceOfNext
      <4> QED
        BY <4>2, <4>3
    <3>2. CASE jobs[j] = Absent \/ disk[j] = Absent
      BY <1>1, <2>1, <2>2, <2>3, <3>2, OtherMoves, FirstRecords, PlaceOf, PlaceOfNext DEF Agree
    <3> QED
      BY <3>1, <3>2
<1> QED
  BY <1>1, <1>2, RestartStep

\* A step that a reader does not see.
LEMMA UnseenStep ==
  ASSUME UNCHANGED <<jobs, archive, told, up>>
  PROVE  UNCHANGED <<Place, up>>
BY DEF Place

LEMMA StoreMoves ==
  ASSUME StoreInv, [StoreNext]_jvars
  PROVE  [History!Next]_<<Place, up>>
<1>1. ASSUME NEW c \in Clients, Step(c) PROVE [History!Next]_<<Place, up>>
  <2>1. CASE Acquire(c) \/ WriteDisk(c) \/ Emit(c)
    <3>1. UNCHANGED <<jobs, archive, told, up>>
      BY <2>1 DEF Acquire, WriteDisk, Emit, files
    <3> QED
      BY <3>1, UnseenStep
  <2>2. CASE WriteArchive(c)
    BY <2>2, ArchiveMoves DEF WriteArchive
  <2>3. CASE WriteFails(c)
    <3>1. /\ UNCHANGED <<jobs, told, up>>
          /\ UNCHANGED archive \/ (At(c, "archive") /\ archive' = call[c].archive)
      BY <2>3 DEF WriteFails, files
    <3> QED
      BY <3>1, ArchiveMoves, UnseenStep
  <2>4. CASE Publish(c)
    BY <2>4, PublishMoves
  <2> QED
    BY <1>1, <2>1, <2>2, <2>3, <2>4 DEF Step
<1>2. ASSUME NEW c \in Clients, Abandon(c) \/ \E r \in Calls : Call(c, r)
      PROVE  [History!Next]_<<Place, up>>
  <2>1. UNCHANGED <<jobs, archive, told, up>>
    BY <1>2 DEF Abandon, Call, files
  <2> QED
    BY <2>1, UnseenStep
<1>3. CASE Crash
  <2>1. up /\ up' = FALSE /\ UNCHANGED <<jobs, archive, told>>
    BY <1>3 DEF Crash, files
  <2>2. UNCHANGED Place
    BY <2>1 DEF Place
  <2>3. History!Exit
    BY <2>1, <2>2 DEF History!Exit
  <2> QED
    BY <2>3 DEF History!Next
<1>4. CASE load
  BY <1>4, LoadMoves
<1>5. CASE UNCHANGED jvars
  <2>1. UNCHANGED <<jobs, archive, told, up>>
    BY <1>5 DEF jvars, files
  <2> QED
    BY <2>1, UnseenStep
<1> QED
  BY <1>1, <1>2, <1>3, <1>4, <1>5 DEF StoreNext

\* Whatever fails, a record only ever goes forward before its readers, attempt
\* by attempt: it appears, ends, is retried, archived, removed, and never comes
\* back to an earlier attempt or into the list.
THEOREM StoreImplementsHistory == StoreSpec => HistorySpec
<1>1. StoreInit => History!Init
  <2> SUFFICES ASSUME StoreInit PROVE History!Init
    OBVIOUS
  <2>1. \A j \in Ids : jobs[j] = Absent /\ told[j] = Absent
    BY DEF StoreInit, NoJobs
  <2>2. archive = <<>> /\ up = TRUE
    BY DEF StoreInit
  <2>3. Place = [j \in Ids |-> Absent]
    BY <2>1, <2>2, NothingListed DEF Place
  <2> QED
    BY <2>2, <2>3 DEF History!Init, History!None, History!At, Absent
<1>2. StoreInv /\ [StoreNext]_jvars => [History!Next]_<<Place, up>>
  BY StoreMoves
<1> QED
  BY StoreInvariant, <1>1, <1>2, PTL DEF StoreSpec, HistorySpec, History!Spec

\* What the worker is written against holds together: each part keeps its promise
\* while the others work (JobParts).
THEOREM PartsHold ==
  ASSUME "gone" \notin Results
  PROVE  PartsSpec => []AdmissionSound /\ []WeightedFair /\ PoolSpec /\ []ReadersAgree /\ HistorySpec
<1>1. PartsInit => Init /\ SchedulerInit /\ StoreInit
  BY DEF PartsInit
<1>2. [PartsNext]_parts => [Next]_vars /\ [SchedulerNext]_fvars /\ [StoreNext]_jvars
  BY DEF PartsNext, parts
<1> QED
  BY <1>1, <1>2, AdmissionHolds, SchedulerWeightedFair, SchedulerIsPool, StoreReadersAgree, StoreImplementsHistory, PTL
     DEF PartsSpec, Spec, StoreSpec
=============================================================================
