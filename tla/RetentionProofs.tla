---------------------------- MODULE RetentionProofs ----------------------------
(***************************************************************************)
(* Safety of the cleanup of the histories, for logs of any length, any       *)
(* limits, and whatever is recorded, archived or fails meanwhile: what it    *)
(* removes is in its backup, is the oldest there is, and is as much as its   *)
(* preview said.                                                            *)
(***************************************************************************)
EXTENDS Retention, FiniteSetTheorems, SequenceTheorems, TLAPS

----------------------------------------------------------------------------
(* Sequences of numbers that go up, and what is left of them when the       *)
(* first ones are cut off.                                                  *)

Ascends(s) == \A i, k \in DOMAIN s : i < k => s[i] < s[k]
Descends(s) == \A i, k \in DOMAIN s : i < k => s[i] > s[k]

LEMMA SequenceFacts ==
  ASSUME NEW S, NEW s \in Seq(S)
  PROVE  /\ Len(s) \in Nat /\ DOMAIN s = 1 .. Len(s) /\ \A i \in 1 .. Len(s) : s[i] \in S
         /\ \A x : x \in Range(s) <=> \E i \in 1 .. Len(s) : x = s[i]
         /\ Range(s) \subseteq S
<1>1. Len(s) \in Nat /\ DOMAIN s = 1 .. Len(s) /\ \A i \in 1 .. Len(s) : s[i] \in S
  OBVIOUS
<1> QED
  BY <1>1 DEF Range

LEMMA SurplusFacts ==
  ASSUME NEW n \in Nat, NEW limit \in Nat
  PROVE  /\ Surplus(n, limit) \in 0 .. n /\ n - Surplus(n, limit) <= limit
         /\ (n <= limit => Surplus(n, limit) = 0) /\ Surplus(0, limit) = 0
BY DEF Surplus

\* What is cut off a sequence from position b on, or before position a.
LEMMA SegmentFacts ==
  ASSUME NEW S, NEW s \in Seq(S), NEW a \in 1 .. Len(s) + 1, NEW b \in a - 1 .. Len(s)
  PROVE  /\ SubSeq(s, a, b) \in Seq(S) /\ Len(SubSeq(s, a, b)) = b - a + 1
         /\ \A i \in 1 .. b - a + 1 : SubSeq(s, a, b)[i] = s[a + i - 1]
         /\ \A x : x \in Range(SubSeq(s, a, b)) <=> \E k \in a .. b : x = s[k]
<1> DEFINE t == SubSeq(s, a, b)
<1>1. /\ Len(s) \in Nat /\ a \in Nat /\ a >= 1 /\ b \in Nat /\ a - 1 <= b /\ b <= Len(s) /\ a \in Int /\ b \in Int
      /\ \A k \in 1 .. Len(s) : s[k] \in S
  BY SequenceFacts
<1>2. \A k \in a .. b : s[k] \in S
  BY <1>1
<1>3. /\ t \in Seq(S) /\ Len(t) = (IF a <= b THEN b - a + 1 ELSE 0)
      /\ \A i \in 1 .. b - a + 1 : t[i] = s[a + i - 1]
  BY <1>1, <1>2, SubSeqProperties
<1> HIDE DEF t
<1>4. Len(t) = b - a + 1
  BY <1>1, <1>3
<1>5. ASSUME NEW x PROVE x \in Range(t) <=> \E k \in a .. b : x = s[k]
  <2>1. x \in Range(t) <=> \E i \in 1 .. b - a + 1 : x = t[i]
    BY <1>3, <1>4, SequenceFacts
  <2>2. ASSUME NEW i \in 1 .. b - a + 1, x = t[i] PROVE \E k \in a .. b : x = s[k]
    <3>1. a + i - 1 \in a .. b
      BY <1>1
    <3> QED
      BY <1>3, <2>2, <3>1
  <2>3. ASSUME NEW k \in a .. b, x = s[k] PROVE \E i \in 1 .. b - a + 1 : x = t[i]
    <3>1. k - a + 1 \in 1 .. b - a + 1 /\ a + (k - a + 1) - 1 = k
      BY <1>1
    <3> QED
      BY <1>3, <2>3, <3>1
  <2> QED
    BY <2>1, <2>2, <2>3
<1> QED
  BY <1>3, <1>4, <1>5 DEF t

\* A part of a sequence that goes up goes up.
LEMMA SegmentAscends ==
  ASSUME NEW m \in Nat, NEW s \in Seq(1 .. m), NEW a \in 1 .. Len(s) + 1, NEW b \in a - 1 .. Len(s),
         Ascends(s)
  PROVE  Ascends(SubSeq(s, a, b))
<1> DEFINE t == SubSeq(s, a, b)
<1>1. /\ Len(s) \in Nat /\ DOMAIN s = 1 .. Len(s) /\ a \in Nat /\ a >= 1 /\ b \in Nat /\ a - 1 <= b /\ b <= Len(s)
  BY SequenceFacts
<1>2. /\ t \in Seq(1 .. m) /\ Len(t) = b - a + 1 /\ \A i \in 1 .. b - a + 1 : t[i] = s[a + i - 1]
  BY SegmentFacts
<1> HIDE DEF t
<1>3. ASSUME NEW i \in 1 .. b - a + 1, NEW k \in 1 .. b - a + 1, i < k PROVE t[i] < t[k]
  <2>1. a + i - 1 \in DOMAIN s /\ a + k - 1 \in DOMAIN s /\ a + i - 1 < a + k - 1
    BY <1>1, <1>3
  <2> QED
    BY <1>2, <2>1 DEF Ascends
<1>4. DOMAIN t = 1 .. b - a + 1
  BY <1>2
<1> QED
  BY <1>3, <1>4 DEF Ascends, t

\* The newest n of a sequence that goes up: the others are older than each of them.
LEMMA NewestFacts ==
  ASSUME NEW m \in Nat, NEW s \in Seq(1 .. m), NEW n \in Nat, Ascends(s)
  PROVE  /\ Newest(s, n) \in Seq(1 .. m) /\ Ascends(Newest(s, n))
         /\ Len(Newest(s, n)) = Len(s) - Surplus(Len(s), n) /\ Range(Newest(s, n)) \subseteq Range(s)
         /\ \A x : x \in Range(s) /\ x \notin Range(Newest(s, n)) <=>
                     \E k \in 1 .. Surplus(Len(s), n) : x = s[k]
         /\ \A x, y : x \in Range(s) /\ x \notin Range(Newest(s, n)) /\ y \in Range(Newest(s, n)) => x < y
<1> DEFINE d == Surplus(Len(s), n)
<1>1. Len(s) \in Nat /\ DOMAIN s = 1 .. Len(s) /\ d \in 0 .. Len(s) /\ \A k \in 1 .. Len(s) : s[k] \in 1 .. m
  BY SequenceFacts, SurplusFacts
<1> HIDE DEF d
<1>2. d + 1 \in 1 .. Len(s) + 1 /\ Len(s) \in (d + 1) - 1 .. Len(s)
  BY <1>1
<1> DEFINE t == SubSeq(s, d + 1, Len(s))
<1>3. t = Newest(s, n)
  BY DEF Newest, d
<1>4. /\ t \in Seq(1 .. m) /\ Len(t) = Len(s) - (d + 1) + 1
      /\ \A x : x \in Range(t) <=> \E k \in d + 1 .. Len(s) : x = s[k]
  <2>1. PICK a \in 1 .. Len(s) + 1 : a = d + 1
    BY <1>2
  <2>2. PICK b \in a - 1 .. Len(s) : b = Len(s)
    BY <1>2, <2>1
  <2>3. /\ SubSeq(s, a, b) \in Seq(1 .. m) /\ Len(SubSeq(s, a, b)) = b - a + 1
        /\ \A x : x \in Range(SubSeq(s, a, b)) <=> \E k \in a .. b : x = s[k]
    BY SegmentFacts
  <2> QED
    BY <2>1, <2>2, <2>3
<1>5. Ascends(t)
  BY <1>2, SegmentAscends
<1> HIDE DEF t
<1>6. Len(t) = Len(s) - d
  BY <1>1, <1>4
<1>7. \A x : x \in Range(s) <=> \E k \in 1 .. Len(s) : x = s[k]
  BY SequenceFacts
<1>8. ASSUME NEW i \in 1 .. d, NEW k \in d + 1 .. Len(s) PROVE s[i] < s[k]
  <2>1. i \in DOMAIN s /\ k \in DOMAIN s /\ i < k
    BY <1>1
  <2> QED
    BY <2>1 DEF Ascends
<1>9. ASSUME NEW x PROVE x \in Range(s) /\ x \notin Range(t) <=> \E k \in 1 .. d : x = s[k]
  <2>1. ASSUME NEW k \in 1 .. d, x = s[k] PROVE x \in Range(s) /\ x \notin Range(t)
    <3>1. k \in 1 .. Len(s) /\ s[k] \in Nat
      BY <1>1
    <3>2. x \in Range(s)
      BY <1>7, <2>1, <3>1
    <3>3. ASSUME NEW i \in d + 1 .. Len(s), x = s[i] PROVE FALSE
      <4>1. s[k] < s[i]
        BY <1>8
      <4> QED
        BY <2>1, <3>1, <3>3, <4>1
    <3> QED
      BY <1>4, <3>2, <3>3
  <2>2. ASSUME NEW k \in 1 .. Len(s), x = s[k], x \notin Range(t) PROVE \E i \in 1 .. d : x = s[i]
    <3>1. k \notin d + 1 .. Len(s)
      BY <1>4, <2>2
    <3>2. k \in 1 .. d
      BY <1>1, <3>1
    <3> QED
      BY <2>2, <3>2
  <2> QED
    BY <1>7, <2>1, <2>2
<1>10. Range(t) \subseteq Range(s)
  <2>1. \A k \in d + 1 .. Len(s) : k \in 1 .. Len(s)
    BY <1>1
  <2> QED
    BY <1>4, <1>7, <2>1
<1>11. \A x, y : x \in Range(s) /\ x \notin Range(t) /\ y \in Range(t) => x < y
  BY <1>4, <1>8, <1>9
<1> QED
  BY <1>3, <1>4, <1>5, <1>6, <1>9, <1>10, <1>11 DEF d

\* As many records are named as there are positions.
Labelled(label, s, a, b) == {<<label, s[k]>> : k \in a .. b}
LEMMA SegmentCount ==
  ASSUME NEW m \in Nat, NEW s \in Seq(1 .. m), \A i, k \in DOMAIN s : s[i] = s[k] => i = k,
         NEW a \in Nat, NEW b \in Nat, 1 <= a, b <= Len(s), NEW label
  PROVE  /\ IsFiniteSet(Labelled(label, s, a, b))
         /\ Cardinality(Labelled(label, s, a, b)) = IF a > b THEN 0 ELSE b - a + 1
<1> DEFINE f == [k \in a .. b |-> <<label, s[k]>>]
           D == Labelled(label, s, a, b)
<1>0. \A x : x \in D <=> \E k \in a .. b : x = <<label, s[k]>>
  BY DEF Labelled
<1> HIDE DEF D
<1>1. IsFiniteSet(a .. b) /\ Cardinality(a .. b) = IF a > b THEN 0 ELSE b - a + 1
  BY FS_Interval
<1>2. \A k \in a .. b : k \in DOMAIN s
  BY SequenceFacts
<1>3. f \in [a .. b -> D]
  BY <1>0
<1>4. f \in Injection(a .. b, D)
  <2>1. ASSUME NEW i \in a .. b, NEW k \in a .. b, f[i] = f[k] PROVE i = k
    <3>1. s[i] = s[k]
      BY <2>1
    <3> QED
      BY <1>2, <3>1
  <2> QED
    BY <1>3, <2>1 DEF Injection, IsInjective
<1>5. f \in Surjection(a .. b, D)
  BY <1>0, <1>3 DEF Surjection
<1>6. ExistsBijection(a .. b, D)
  BY <1>4, <1>5 DEF ExistsBijection, Bijection
<1> QED
  BY <1>1, <1>6, FS_Bijection DEF D

\* The first n of a sequence that goes down: the others are older.
FirstOnes(s, n) == SubSeq(s, 1, IF Len(s) > n THEN n ELSE Len(s))
LEMMA FrontFacts ==
  ASSUME NEW m \in Nat, NEW s \in Seq(1 .. m), NEW n \in Nat, Descends(s)
  PROVE  /\ FirstOnes(s, n) \in Seq(1 .. m) /\ Descends(FirstOnes(s, n)) /\ Range(FirstOnes(s, n)) \subseteq Range(s)
         /\ \A x : x \in Range(s) /\ x \notin Range(FirstOnes(s, n)) <=>
                     \E k \in Len(s) - Surplus(Len(s), n) + 1 .. Len(s) : x = s[k]
         /\ \A x, y : x \in Range(s) /\ x \notin Range(FirstOnes(s, n)) /\ y \in Range(FirstOnes(s, n)) => x < y
<1> DEFINE e == Len(s) - Surplus(Len(s), n)
           t == FirstOnes(s, n)
<1>0. t = SubSeq(s, 1, IF Len(s) > n THEN n ELSE Len(s))
  BY DEF FirstOnes
<1> HIDE DEF t
<1>1. Len(s) \in Nat /\ DOMAIN s = 1 .. Len(s) /\ \A k \in 1 .. Len(s) : s[k] \in 1 .. m
  BY SequenceFacts
<1>3. t = SubSeq(s, 1, e)
  <2>1. e = IF Len(s) > n THEN n ELSE Len(s)
    BY <1>1 DEF Surplus
  <2> QED
    BY <1>0, <2>1
<1>2. e \in Nat /\ e <= Len(s)
  BY <1>1 DEF Surplus
<1> HIDE DEF e
<1>4. /\ t \in Seq(1 .. m) /\ Len(t) = e /\ \A i \in 1 .. e : t[i] = s[i]
      /\ \A x : x \in Range(t) <=> \E k \in 1 .. e : x = s[k]
  <2>1. PICK a \in 1 .. Len(s) + 1 : a = 1
    BY <1>1
  <2>2. PICK b \in a - 1 .. Len(s) : b = e
    BY <1>2, <2>1
  <2>3. /\ SubSeq(s, a, b) \in Seq(1 .. m) /\ Len(SubSeq(s, a, b)) = b - a + 1
        /\ \A i \in 1 .. b - a + 1 : SubSeq(s, a, b)[i] = s[a + i - 1]
        /\ \A x : x \in Range(SubSeq(s, a, b)) <=> \E k \in a .. b : x = s[k]
    BY SegmentFacts
  <2>4. t = SubSeq(s, a, b) /\ b - a + 1 = e
    BY <1>2, <1>3, <2>1, <2>2
  <2>5. \A i \in 1 .. e : a + i - 1 = i
    BY <2>1
  <2>6. t \in Seq(1 .. m) /\ Len(t) = e /\ \A i \in 1 .. e : t[i] = s[a + i - 1]
    BY <2>3, <2>4
  <2>7. \A i \in 1 .. e : t[i] = s[i]
    BY <2>5, <2>6
  <2>8. \A x : x \in Range(t) <=> \E k \in 1 .. e : x = s[k]
    BY <2>1, <2>2, <2>3, <2>4
  <2> QED
    BY <2>6, <2>7, <2>8
<1>5. \A i \in 1 .. e : i \in DOMAIN s /\ i \in DOMAIN t
  <2>1. DOMAIN t = 1 .. e
    BY <1>4
  <2>2. \A i \in 1 .. e : i \in 1 .. Len(s)
    BY <1>1, <1>2
  <2> QED
    BY <1>1, <2>1, <2>2
<1>6. Descends(t)
  <2>1. DOMAIN t = 1 .. e
    BY <1>4
  <2> QED
    BY <1>4, <1>5, <2>1 DEF Descends
<1>7. \A x : x \in Range(s) <=> \E k \in 1 .. Len(s) : x = s[k]
  BY SequenceFacts
<1>8. ASSUME NEW i \in 1 .. e, NEW k \in e + 1 .. Len(s) PROVE s[k] < s[i] /\ s[k] \in Nat /\ s[i] \in Nat
  <2>1. i \in DOMAIN s /\ k \in DOMAIN s /\ i < k
    BY <1>1, <1>2
  <2>2. s[i] > s[k] /\ s[k] \in 1 .. m /\ s[i] \in 1 .. m
    BY <1>1, <2>1 DEF Descends
  <2> QED
    BY <2>2
<1>9. ASSUME NEW x PROVE x \in Range(s) /\ x \notin Range(t) <=> \E k \in e + 1 .. Len(s) : x = s[k]
  <2>1. ASSUME NEW k \in e + 1 .. Len(s), x = s[k] PROVE x \in Range(s) /\ x \notin Range(t)
    <3>1. k \in 1 .. Len(s)
      BY <1>1, <1>2
    <3>2. ASSUME NEW i \in 1 .. e, x = s[i] PROVE FALSE
      <4>1. s[k] < s[i] /\ s[k] \in Nat
        BY <1>8
      <4> QED
        BY <2>1, <3>2, <4>1
    <3> QED
      BY <1>4, <1>7, <2>1, <3>1, <3>2
  <2>2. ASSUME NEW k \in 1 .. Len(s), x = s[k], x \notin Range(t) PROVE \E i \in e + 1 .. Len(s) : x = s[i]
    <3>1. k \notin 1 .. e
      BY <1>4, <2>2
    <3>2. k \in e + 1 .. Len(s)
      BY <1>1, <1>2, <3>1
    <3> QED
      BY <2>2, <3>2
  <2> QED
    BY <1>7, <2>1, <2>2
<1>10. Range(t) \subseteq Range(s)
  BY <1>1, <1>4, <1>5, <1>7
<1>11. \A x, y : x \in Range(s) /\ x \notin Range(t) /\ y \in Range(t) => x < y
  <2> SUFFICES ASSUME NEW x, NEW y, x \in Range(s) /\ x \notin Range(t), y \in Range(t) PROVE x < y
    OBVIOUS
  <2>1. PICK k \in e + 1 .. Len(s) : x = s[k]
    BY <1>9
  <2>2. PICK i \in 1 .. e : y = s[i]
    BY <1>4
  <2>3. s[k] < s[i]
    BY <1>8
  <2> QED
    BY <2>1, <2>2, <2>3
<1> QED
  BY <1>4, <1>6, <1>9, <1>10, <1>11 DEF e, t

\* One sequence that goes up after another of lower numbers.
LEMMA ConcatAscends ==
  ASSUME NEW m \in Nat, NEW s \in Seq(1 .. m), NEW t \in Seq(1 .. m), Ascends(s), Ascends(t),
         \A x \in Range(s), y \in Range(t) : x < y
  PROVE  /\ s \o t \in Seq(1 .. m) /\ Len(s \o t) = Len(s) + Len(t) /\ Ascends(s \o t)
         /\ Range(s \o t) = Range(s) \cup Range(t)
<1> DEFINE c == s \o t
<1>1. /\ Len(s) \in Nat /\ Len(t) \in Nat /\ DOMAIN s = 1 .. Len(s) /\ DOMAIN t = 1 .. Len(t)
  BY SequenceFacts
<1>2. /\ c \in Seq(1 .. m) /\ Len(c) = Len(s) + Len(t)
      /\ \A i \in 1 .. Len(s) + Len(t) : c[i] = IF i <= Len(s) THEN s[i] ELSE t[i - Len(s)]
  BY ConcatProperties
<1> HIDE DEF c
<1>3. DOMAIN c = 1 .. Len(s) + Len(t)
  BY <1>2
<1>4. ASSUME NEW i \in DOMAIN c
      PROVE  \/ i <= Len(s) /\ i \in DOMAIN s /\ c[i] = s[i] /\ c[i] \in Range(s)
             \/ ~(i <= Len(s)) /\ i - Len(s) \in DOMAIN t /\ c[i] = t[i - Len(s)] /\ c[i] \in Range(t)
  <2>1. CASE i <= Len(s)
    <3>1. i \in DOMAIN s /\ c[i] = s[i]
      BY <1>1, <1>2, <1>3, <2>1
    <3> QED
      BY <2>1, <3>1 DEF Range
  <2>2. CASE ~(i <= Len(s))
    <3>1. i - Len(s) \in DOMAIN t /\ c[i] = t[i - Len(s)]
      BY <1>1, <1>2, <1>3, <2>2
    <3> QED
      BY <2>2, <3>1 DEF Range
  <2> QED
    BY <2>1, <2>2
<1>5. Ascends(c)
  <2> SUFFICES ASSUME NEW i \in DOMAIN c, NEW k \in DOMAIN c, i < k PROVE c[i] < c[k]
    BY DEF Ascends
  <2>0. i \in Nat /\ k \in Nat
    BY <1>1, <1>3
  <2>1. CASE i <= Len(s) /\ k <= Len(s)
    BY <1>4, <2>1 DEF Ascends
  <2>2. CASE i <= Len(s) /\ ~(k <= Len(s))
    BY <1>4, <2>2
  <2>3. CASE ~(i <= Len(s)) /\ ~(k <= Len(s))
    <3>1. i - Len(s) \in DOMAIN t /\ k - Len(s) \in DOMAIN t /\ c[i] = t[i - Len(s)] /\ c[k] = t[k - Len(s)]
      BY <1>4, <2>3
    <3>2. i - Len(s) < k - Len(s)
      BY <1>1, <2>0
    <3> QED
      BY <3>1, <3>2 DEF Ascends
  <2> QED
    BY <1>1, <2>0, <2>1, <2>2, <2>3
<1>6. ASSUME NEW x PROVE x \in Range(c) <=> x \in Range(s) \cup Range(t)
  <2>1. ASSUME x \in Range(c) PROVE x \in Range(s) \cup Range(t)
    BY <1>4, <2>1 DEF Range
  <2>2. ASSUME NEW i \in DOMAIN s, x = s[i] PROVE x \in Range(c)
    <3>1. i \in DOMAIN c /\ c[i] = s[i]
      BY <1>1, <1>2, <1>3
    <3> QED
      BY <2>2, <3>1 DEF Range
  <2>3. ASSUME NEW i \in DOMAIN t, x = t[i] PROVE x \in Range(c)
    <3>1. i + Len(s) \in 1 .. Len(s) + Len(t) /\ ~(i + Len(s) <= Len(s)) /\ (i + Len(s)) - Len(s) = i
      BY <1>1
    <3>2. i + Len(s) \in DOMAIN c /\ c[i + Len(s)] = t[i]
      BY <1>2, <1>3, <3>1
    <3> QED
      BY <2>3, <3>2 DEF Range
  <2> QED
    BY <2>1, <2>2, <2>3 DEF Range
<1> QED
  BY <1>2, <1>5, <1>6 DEF c

\* Different positions, different records.
LEMMA AscendsOnce ==
  ASSUME NEW m \in Nat, NEW s \in Seq(1 .. m), Ascends(s) \/ Descends(s)
  PROVE  \A i, k \in DOMAIN s : s[i] = s[k] => i = k
<1>1. DOMAIN s \subseteq Nat /\ \A i \in DOMAIN s : s[i] \in Nat
  <2>1. \A i \in DOMAIN s : i \in Nat /\ s[i] \in 1 .. m
    BY SequenceFacts
  <2> QED
    BY <2>1
<1> QED
  BY <1>1 DEF Ascends, Descends

\* A finite set of numbers, put in order.
LEMMA OrderedFacts ==
  ASSUME NEW m \in Nat, NEW S \in SUBSET (1 .. m)
  PROVE  /\ IsFiniteSet(S) /\ Cardinality(S) \in Nat /\ Ordered(S) \in Seq(1 .. m)
         /\ Len(Ordered(S)) = Cardinality(S) /\ Ascends(Ordered(S)) /\ Range(Ordered(S)) \subseteq S
<1> DEFINE n == Cardinality(S)
           upto(x) == {y \in S : y <= x}
           rank == [x \in S |-> Cardinality(upto(x))]
           o == Ordered(S)
<1>1. IsFiniteSet(S) /\ n \in Nat /\ \A x \in S : x \in Nat
  <2>1. IsFiniteSet(1 .. m)
    BY FS_Interval
  <2>2. IsFiniteSet(S)
    BY <2>1, FS_Subset
  <2> QED
    BY <2>2, FS_CardinalityType
<1>2. \A x \in S : upto(x) \in SUBSET S /\ x \in upto(x) /\ IsFiniteSet(upto(x)) /\ Cardinality(upto(x)) \in 1 .. n
  <2> SUFFICES ASSUME NEW x \in S
               PROVE  upto(x) \in SUBSET S /\ x \in upto(x) /\ IsFiniteSet(upto(x)) /\ Cardinality(upto(x)) \in 1 .. n
    OBVIOUS
  <2>1. upto(x) \in SUBSET S /\ x \in upto(x)
    BY <1>1
  <2> DEFINE U == upto(x)
  <2>2. U \in SUBSET S /\ x \in U
    BY <2>1
  <2> HIDE DEF U
  <2>3. IsFiniteSet(U) /\ Cardinality(U) <= n /\ Cardinality(U) \in Nat
    BY <1>1, <2>2, FS_Subset, FS_CardinalityType
  <2>4. Cardinality(U) # 0
    BY <2>2, <2>3, FS_EmptySet
  <2>5. Cardinality(U) \in 1 .. n
    BY <1>1, <2>3, <2>4
  <2> QED
    BY <2>2, <2>3, <2>5 DEF U
<1>3. ASSUME NEW x \in S, NEW y \in S, x < y PROVE Cardinality(upto(x)) < Cardinality(upto(y))
  <2> DEFINE U == upto(x)
             V == upto(y)
  <2>1. U \in SUBSET V /\ y \in V /\ y \notin U
    <3>1. x \in Nat /\ y \in Nat /\ \A z \in S : z \in Nat
      BY <1>1
    <3>2. \A z \in S : z <= x => z <= y
      BY <1>3, <3>1
    <3>3. y <= y /\ ~(y <= x)
      BY <1>3, <3>1
    <3> QED
      BY <3>2, <3>3
  <2>2. IsFiniteSet(V) /\ Cardinality(U) \in Nat /\ Cardinality(V) \in Nat
    BY <1>2
  <2> HIDE DEF U, V
  <2>3. Cardinality(U) <= Cardinality(V) /\ (Cardinality(V) = Cardinality(U) => V = U)
    BY <2>1, <2>2, FS_Subset
  <2>4. Cardinality(U) < Cardinality(V)
    BY <2>1, <2>2, <2>3
  <2> QED
    BY <2>4 DEF U, V
<1> HIDE DEF n
<1>4. \A k \in 1 .. n : \E x \in S : Cardinality(upto(x)) = k
  <2>1. rank \in [S -> 1 .. n]
    BY <1>2
  <2>2. rank \in Injection(S, 1 .. n)
    <3>1. ASSUME NEW x \in S, NEW y \in S, rank[x] = rank[y] PROVE x = y
      <4>1. x \in Nat /\ y \in Nat
        BY <1>1
      <4>2. ~(x < y) /\ ~(y < x)
        BY <1>2, <1>3, <3>1
      <4> QED
        BY <4>1, <4>2
    <3> QED
      BY <2>1, <3>1 DEF Injection, IsInjective
  <2> HIDE DEF rank
  <2>3. IsFiniteSet(1 .. n) /\ Cardinality(1 .. n) = n
    BY <1>1, FS_Interval
  <2>4. rank \in Surjection(S, 1 .. n)
    BY <2>2, <2>3, FS_Injection DEF n
  <2>5. \A k \in 1 .. n : \E x \in S : rank[x] = k
    BY <2>4 DEF Surjection
  <2> QED
    BY <2>5 DEF rank
<1> HIDE DEF rank
<1>5. o = [k \in 1 .. n |-> CHOOSE x \in S : Cardinality(upto(x)) = k]
  BY DEF Ordered, n
<1> HIDE DEF o, upto
<1>6. \A k \in 1 .. n : o[k] \in S /\ Cardinality(upto(o[k])) = k
  BY <1>4, <1>5
<1>7. o \in Seq(S) /\ Len(o) = n /\ DOMAIN o = 1 .. n
  BY <1>1, <1>5, <1>6
<1>8. Ascends(o)
  <2> SUFFICES ASSUME NEW i \in 1 .. n, NEW k \in 1 .. n, i < k PROVE o[i] < o[k]
    BY <1>7 DEF Ascends
  <2>1. o[i] \in S /\ o[k] \in S /\ Cardinality(upto(o[i])) = i /\ Cardinality(upto(o[k])) = k
    BY <1>6
  <2>2. o[i] \in Nat /\ o[k] \in Nat
    <3>1. \A x \in S : x \in Nat
      BY <1>1
    <3> QED
      BY <2>1, <3>1
  <2>3. i \in Nat /\ k \in Nat
    OBVIOUS
  <2>4. ~(o[k] < o[i])
    <3>1. ASSUME o[k] < o[i] PROVE k < i
      BY <1>3, <2>1, <3>1
    <3> QED
      BY <2>3, <3>1
  <2>5. o[k] # o[i]
    BY <2>1, <2>3
  <2> QED
    BY <2>2, <2>4, <2>5
<1>9. Range(o) \subseteq S /\ o \in Seq(1 .. m)
  <2>1. Range(o) \subseteq S
    BY <1>6, <1>7 DEF Range
  <2>2. \A k \in 1 .. n : o[k] \in 1 .. m
    BY <1>6
  <2> QED
    BY <1>7, <2>1, <2>2
<1> QED
  BY <1>1, <1>7, <1>8, <1>9 DEF n, o

----------------------------------------------------------------------------
(* What holds from one store to the next.                                  *)

\* What is removed is older than what stays, in either file of the jobs.
Staying(removed, logs1) == \A x \in removed : x[1] # "events" =>
  \A l \in Logs : Name(l) = x[1] => \A k \in Range(logs1[l]) : x[2] < k

\* Every log is in order, and an archived job is older than the others.
InOrder(logs1) ==
  /\ Descends(logs1["switches"]) /\ \A l \in Logs \ {"switches"} : Ascends(logs1[l])
  /\ \A a \in Range(logs1["archive"]), j \in Range(logs1["jobs"]) : a < j

Early == {"idle", "archivefile", "rest", "switches"}
Cutting == {"switches", "jobs", "archive", "events"}

\* Nothing is removed before the backup is complete, and events go last.
Removal ==
  /\ clean.pc \in Early => gone = {}
  /\ \A x \in gone : x[1] # "archive" /\ (clean.pc \notin {"done", "failed"} => x[1] # "events")

\* What may still be removed is in the backup, if it was there when it began.
Has(l, i) == <<Name(l), i>> \in backup.files \/ (Name(l) = "jobs" /\ i \in slipped)
Covering ==
  /\ clean.pc = "rest" => \A i \in Records("archive") : i <= backup.upto => Has("archive", i)
  /\ clean.pc \in Cutting => \A l \in Logs : \A i \in Records(l) : i <= backup.upto => Has(l, i)

\* How many records the stores are still to lose.
JobExcess == Surplus(Len(logs["jobs"]), Limit["jobs"])
ArchiveExcess == Surplus(Len(logs["archive"]) + JobExcess, Limit["archive"])
EventExcess == Surplus(Len(logs["events"]), Len(Pruned))
Counting == quiet =>
  /\ clean.pc \in {"archivefile", "rest", "switches"} => clean.shown = Shown
  /\ clean.pc = "jobs" => clean.shown = Cardinality(gone) + JobExcess + ArchiveExcess + EventExcess
  /\ clean.pc = "archive" => /\ clean.shown = Cardinality(gone) + clean.moved + EventExcess
                             /\ Len(logs["archive"]) <= Limit["archive"]
  /\ clean.pc = "events" => clean.shown = Cardinality(gone) + clean.moved + EventExcess
  /\ clean.pc = "done" => clean.shown = Cardinality(gone) + clean.moved

CleanupInv ==
  /\ RetentionTypeOK /\ InOrder(logs) /\ Removal /\ Covering /\ BackupCovers
  /\ Staying(gone, logs) /\ Counting

Stages == {"idle", "archivefile", "rest", "switches", "jobs", "archive", "events", "done", "failed"}

LEMMA AllFinite == ASSUME NEW m \in Nat PROVE IsFiniteSet(Logs \X (1 .. m))
<1>1. IsFiniteSet(1 .. m)
  BY FS_Interval
<1>2. IsFiniteSet(Logs)
  <2>1. /\ IsFiniteSet({"switches"}) /\ IsFiniteSet({"links"}) /\ IsFiniteSet({"jobs"})
        /\ IsFiniteSet({"archive"}) /\ IsFiniteSet({"events"})
    BY FS_Singleton
  <2>2. IsFiniteSet({"switches"} \cup {"links"}) /\ IsFiniteSet({"jobs"} \cup {"archive"})
    BY <2>1, FS_Union
  <2>3. IsFiniteSet(({"switches"} \cup {"links"}) \cup ({"jobs"} \cup {"archive"}))
    BY <2>2, FS_Union
  <2>4. IsFiniteSet((({"switches"} \cup {"links"}) \cup ({"jobs"} \cup {"archive"})) \cup {"events"})
    BY <2>1, <2>3, FS_Union
  <2>5. Logs = (({"switches"} \cup {"links"}) \cup ({"jobs"} \cup {"archive"})) \cup {"events"}
    BY DEF Logs
  <2> QED
    BY <2>4, <2>5
<1> QED
  BY <1>1, <1>2, FS_Product

LEMMA LogFacts ==
  ASSUME RetentionTypeOK
  PROVE  /\ made \in Nat /\ logs \in [Logs -> Seq(1 .. made)]
         /\ \A l \in Logs : /\ logs[l] \in Seq(1 .. made) /\ Len(logs[l]) \in Nat /\ Limit[l] \in Nat
                            /\ Records(l) \subseteq 1 .. made
         /\ clean \in [pc : Stages, shown : Nat, moved : Nat] /\ clean.pc \in Stages /\ clean.shown \in Nat
         /\ IsFiniteSet(gone) /\ Cardinality(gone) \in Nat /\ gone \subseteq Logs \X (1 .. made)
         /\ backup.upto \in 0 .. made
<1>1. /\ made \in Nat /\ logs \in [Logs -> Seq(1 .. made)] /\ gone \subseteq Logs \X (1 .. made)
      /\ clean \in [pc : Stages, shown : Nat, moved : Nat] /\ backup.upto \in 0 .. made
  BY DEF RetentionTypeOK, Stages
<1>2. \A l \in Logs : logs[l] \in Seq(1 .. made) /\ Len(logs[l]) \in Nat /\ Limit[l] \in Nat
  BY <1>1, RetentionAssumption
<1>3. \A l \in Logs : Records(l) \subseteq 1 .. made
  BY <1>2, SequenceFacts DEF Records
<1>4. IsFiniteSet(Logs \X (1 .. made))
  BY <1>1, AllFinite
<1>5. IsFiniteSet(gone) /\ Cardinality(gone) \in Nat
  BY <1>1, <1>4, FS_Subset, FS_CardinalityType
<1>6. clean.pc \in Stages /\ clean.shown \in Nat
  BY <1>1
<1> QED
  BY <1>1, <1>2, <1>3, <1>5, <1>6

LEMMA CleanupInitHolds == RetentionInit => CleanupInv
<1> SUFFICES ASSUME RetentionInit PROVE CleanupInv
  OBVIOUS
<1>1. PICK size \in [Logs -> {0, MaxLog}], failed \in SUBSET (1..MaxLog), age \in [1..MaxLog -> 0..1] :
        /\ logs = [l \in Logs |-> [i \in 1..size[l] |->
                    IF l = "switches" THEN size[l] + 1 - i
                    ELSE IF l = "jobs" THEN size["archive"] + i ELSE i]]
        /\ old = [e \in 1..(2 * MaxLog + MaxNew) |->
                   [age |-> IF e <= MaxLog THEN age[e] ELSE 0, failed |-> e \in failed]]
  BY DEF RetentionInit
<1>2. /\ clean = [pc |-> "idle", shown |-> 0, moved |-> 0] /\ backup = [files |-> {}, upto |-> 0]
      /\ gone = {} /\ slipped = {} /\ made = 2 * MaxLog /\ quiet = TRUE
  BY DEF RetentionInit
<1>3. MaxLog \in Nat /\ MaxNew \in Nat /\ made \in Nat
  BY <1>2, RetentionAssumption
<1>4. \A l \in Logs : size[l] \in Nat /\ size[l] <= MaxLog
  BY <1>3
<1>5. "switches" \in Logs /\ "jobs" \in Logs /\ "archive" \in Logs
  BY DEF Logs
<1>6. ASSUME NEW l \in Logs
      PROVE  /\ logs[l] \in Seq(1 .. made) /\ DOMAIN logs[l] = 1 .. size[l]
             /\ \A i \in 1 .. size[l] : logs[l][i] = IF l = "switches" THEN size[l] + 1 - i
                    ELSE IF l = "jobs" THEN size["archive"] + i ELSE i
  <2>1. logs[l] = [i \in 1..size[l] |-> IF l = "switches" THEN size[l] + 1 - i
                    ELSE IF l = "jobs" THEN size["archive"] + i ELSE i]
    BY <1>1
  <2>2. \A i \in 1 .. size[l] : size[l] + 1 - i \in 1 .. made /\ size["archive"] + i \in 1 .. made /\ i \in 1 .. made
    BY <1>2, <1>3, <1>4, <1>5
  <2>3. /\ DOMAIN logs[l] = 1 .. size[l]
        /\ \A i \in 1 .. size[l] : logs[l][i] = IF l = "switches" THEN size[l] + 1 - i
                    ELSE IF l = "jobs" THEN size["archive"] + i ELSE i
    BY <2>1
  <2>4. logs[l] \in [1 .. size[l] -> 1 .. made]
    BY <2>1, <2>2
  <2>5. size[l] \in Nat
    BY <1>4
  <2>6. logs[l] \in UNION {[1 .. n -> 1 .. made] : n \in Nat}
    BY <2>4, <2>5, Zenon
  <2>7. logs[l] \in Seq(1 .. made)
    BY <2>6, SeqDef, Zenon
  <2> QED
    BY <2>3, <2>7
<1>7. RetentionTypeOK
  <2>1. logs \in [Logs -> Seq(1 .. made)]
    BY <1>1, <1>6
  <2>2. old \in [1..(2 * MaxLog + MaxNew) -> [age : 0..2, failed : BOOLEAN]]
    <3>1. \A e \in 1..(2 * MaxLog + MaxNew) : (IF e <= MaxLog THEN age[e] ELSE 0) \in 0 .. 2
      BY <1>3
    <3> QED
      BY <1>1, <3>1
  <2> QED
    BY <1>2, <1>3, <2>1, <2>2 DEF RetentionTypeOK
<1>8. InOrder(logs)
  <2>1. Descends(logs["switches"])
    <3> DEFINE n == size["switches"]
    <3>1. /\ n \in Nat /\ DOMAIN logs["switches"] = 1 .. n
          /\ \A i \in 1 .. n : logs["switches"][i] = n + 1 - i
      BY <1>4, <1>5, <1>6
    <3> HIDE DEF n
    <3> QED
      BY <3>1 DEF Descends
  <2>2. ASSUME NEW l \in Logs \ {"switches"} PROVE Ascends(logs[l])
    <3> DEFINE n == size[l]
               d == IF l = "jobs" THEN size["archive"] ELSE 0
    <3>1. n \in Nat /\ d \in Nat /\ DOMAIN logs[l] = 1 .. n
      BY <1>4, <1>5, <1>6
    <3>2. \A i \in 1 .. n : logs[l][i] = d + i
      <4>1. \A i \in 1 .. n : logs[l][i] = IF l = "jobs" THEN size["archive"] + i ELSE i
        BY <1>6
      <4> QED
        BY <3>1, <4>1
    <3> HIDE DEF n, d
    <3> QED
      BY <3>1, <3>2 DEF Ascends
  <2>3. ASSUME NEW i \in DOMAIN logs["archive"], NEW k \in DOMAIN logs["jobs"]
        PROVE  logs["archive"][i] < logs["jobs"][k]
    <3>1. i \in 1 .. size["archive"] /\ k \in 1 .. size["jobs"] /\ size["archive"] \in Nat /\ size["jobs"] \in Nat
      BY <1>4, <1>5, <1>6
    <3>2. logs["archive"][i] = i
      BY <1>5, <1>6, <3>1
    <3>3. logs["jobs"][k] = size["archive"] + k
      BY <1>5, <1>6, <3>1
    <3> QED
      BY <3>1, <3>2, <3>3
  <2> QED
    BY <2>1, <2>2, <2>3 DEF InOrder, Range
<1> QED
  BY <1>2, <1>7, <1>8 DEF CleanupInv, Removal, Early, Covering, Cutting, BackupCovers, Staying, Counting

\* What Newest leaves out.
Oldest(s, n) == SubSeq(s, 1, Surplus(Len(s), n))

LEMMA OldestFacts ==
  ASSUME NEW m \in Nat, NEW s \in Seq(1 .. m), NEW n \in Nat, Ascends(s)
  PROVE  /\ Oldest(s, n) \in Seq(1 .. m) /\ Ascends(Oldest(s, n)) /\ Len(Oldest(s, n)) = Surplus(Len(s), n)
         /\ \A x : x \in Range(Oldest(s, n)) <=> x \in Range(s) /\ x \notin Range(Newest(s, n))
<1> DEFINE d == Surplus(Len(s), n)
<1>1. Len(s) \in Nat /\ d \in 0 .. Len(s)
  BY SequenceFacts, SurplusFacts
<1>2. Oldest(s, n) = SubSeq(s, 1, d)
  BY DEF Oldest
<1>3. \A x : x \in Range(s) /\ x \notin Range(Newest(s, n)) <=> \E k \in 1 .. d : x = s[k]
  BY NewestFacts
<1> HIDE DEF d
<1>4. PICK a \in 1 .. Len(s) + 1 : a = 1
  BY <1>1
<1>5. PICK b \in a - 1 .. Len(s) : b = d
  BY <1>1, <1>4
<1>6. /\ SubSeq(s, a, b) \in Seq(1 .. m) /\ Len(SubSeq(s, a, b)) = b - a + 1
      /\ \A x : x \in Range(SubSeq(s, a, b)) <=> \E k \in a .. b : x = s[k]
  BY SegmentFacts
<1>7. Ascends(SubSeq(s, a, b))
  BY SegmentAscends
<1>8. Oldest(s, n) = SubSeq(s, a, b) /\ b - a + 1 = d
  BY <1>1, <1>2, <1>4, <1>5
<1> QED
  BY <1>3, <1>4, <1>5, <1>6, <1>7, <1>8 DEF d

\* The jobs and their archive when the jobs above the limit are moved: what
\* goes is the beginning of the two files together.
LEMMA ArchivedFacts ==
  ASSUME NEW m \in Nat, NEW jobs \in Seq(1 .. m), NEW archive \in Seq(1 .. m), NEW n \in Nat, NEW limit \in Nat,
         Ascends(jobs), Ascends(archive), \A a \in Range(archive), j \in Range(jobs) : a < j
  PROVE  LET both == archive \o Oldest(jobs, n)
             rest == Newest(jobs, n)
             kept == Newest(both, limit) IN
         /\ rest \in Seq(1 .. m) /\ kept \in Seq(1 .. m) /\ both \in Seq(1 .. m)
         /\ Ascends(rest) /\ Ascends(kept) /\ Ascends(both)
         /\ Range(rest) \subseteq Range(jobs) /\ Range(kept) \subseteq Range(archive) \cup Range(Oldest(jobs, n))
         /\ Range(Oldest(jobs, n)) \subseteq Range(jobs) /\ Len(both) = Len(archive) + Surplus(Len(jobs), n)
         /\ Len(kept) = Len(both) - Surplus(Len(both), limit)
         /\ \A a \in Range(kept), j \in Range(rest) : a < j
         /\ \A x : (\/ x \in Range(jobs) /\ x \notin Range(rest) /\ x \notin Range(kept)
                    \/ x \in Range(archive) /\ x \notin Range(kept))
                   <=> \E k \in 1 .. Surplus(Len(both), limit) : x = both[k]
         /\ \A x : (\E k \in 1 .. Surplus(Len(both), limit) : x = both[k]) =>
                     \A y \in Range(rest) \cup Range(kept) : x < y
<1> DEFINE first == Oldest(jobs, n)
           both == archive \o first
           rest == Newest(jobs, n)
           kept == Newest(both, limit)
<1>2. /\ first \in Seq(1 .. m) /\ Ascends(first) /\ Len(first) = Surplus(Len(jobs), n)
      /\ \A x : x \in Range(first) <=> x \in Range(jobs) /\ x \notin Range(rest)
  BY OldestFacts
<1>3. /\ rest \in Seq(1 .. m) /\ Ascends(rest) /\ Range(rest) \subseteq Range(jobs)
      /\ \A x, y : x \in Range(jobs) /\ x \notin Range(rest) /\ y \in Range(rest) => x < y
  BY NewestFacts
<1> HIDE DEF first, rest
<1>5. \A x \in Range(archive), y \in Range(first) : x < y
  BY <1>2
<1>6. /\ both \in Seq(1 .. m) /\ Ascends(both) /\ Len(both) = Len(archive) + Len(first)
      /\ Range(both) = Range(archive) \cup Range(first)
  <2>1. PICK t \in Seq(1 .. m) : t = first
    BY <1>2
  <2>2. Ascends(t) /\ \A x \in Range(archive), y \in Range(t) : x < y
    BY <1>2, <1>5, <2>1
  <2>3. /\ archive \o t \in Seq(1 .. m) /\ Len(archive \o t) = Len(archive) + Len(t) /\ Ascends(archive \o t)
        /\ Range(archive \o t) = Range(archive) \cup Range(t)
    BY <2>2, ConcatAscends
  <2> QED
    BY <2>1, <2>3
<1> HIDE DEF both
<1>7. /\ kept \in Seq(1 .. m) /\ Ascends(kept) /\ Range(kept) \subseteq Range(both)
      /\ Len(kept) = Len(both) - Surplus(Len(both), limit)
      /\ \A x : x \in Range(both) /\ x \notin Range(kept) <=>
                  \E k \in 1 .. Surplus(Len(both), limit) : x = both[k]
      /\ \A x, y : x \in Range(both) /\ x \notin Range(kept) /\ y \in Range(kept) => x < y
  BY <1>6, NewestFacts
<1> HIDE DEF kept
<1>8. \A x \in Range(both), y \in Range(rest) : x < y
  BY <1>2, <1>3, <1>6
<1>9. \A x : (\/ x \in Range(jobs) /\ x \notin Range(rest) /\ x \notin Range(kept)
              \/ x \in Range(archive) /\ x \notin Range(kept))
             <=> x \in Range(both) /\ x \notin Range(kept)
  BY <1>2, <1>6, <1>7
<1>10. \A a \in Range(kept), j \in Range(rest) : a < j
  BY <1>7, <1>8
<1>11. Range(kept) \subseteq Range(archive) \cup Range(first) /\ Range(first) \subseteq Range(jobs)
  BY <1>2, <1>6, <1>7
<1>12. \A x : (\E k \in 1 .. Surplus(Len(both), limit) : x = both[k]) =>
               \A y \in Range(rest) \cup Range(kept) : x < y
  BY <1>7, <1>8
<1>13. \A x : (\/ x \in Range(jobs) /\ x \notin Range(rest) /\ x \notin Range(kept)
               \/ x \in Range(archive) /\ x \notin Range(kept))
              <=> \E k \in 1 .. Surplus(Len(both), limit) : x = both[k]
  BY <1>7, <1>9
<1>14. Len(both) = Len(archive) + Surplus(Len(jobs), n)
  BY <1>2, <1>6
<1> QED
  BY <1>2, <1>3, <1>6, <1>7, <1>10, <1>11, <1>12, <1>13, <1>14 DEF first, both, rest, kept

----------------------------------------------------------------------------
(* One store after the other.                                              *)

Dropped(new) == {x \in Logs \X (1 .. made) : \E l \in Logs : x[1] = Name(l) /\ x[2] \in Lost(l, new)}

\* The cleanup goes on, having moved n jobs to the archive.
Turns(from, to, n) == clean.pc = from /\ clean' = [clean EXCEPT !.pc = to, !.moved = n]

LEMMA MovesTurn ==
  ASSUME CleanupInv, NEW from, NEW to, Moves(from, to)
  PROVE  clean.moved \in Nat /\ Turns(from, to, clean.moved)
<1>1. clean \in [pc : Stages, shown : Nat, moved : Nat]
  BY DEF CleanupInv, RetentionTypeOK, Stages
<1> QED
  BY <1>1 DEF Moves, Turns

\* A cut that removes the oldest of a log, and events only at the end.
LEMMA RemovesKeeps ==
  ASSUME CleanupInv, NEW new \in [Logs -> Seq(1 .. made)], Removes(new), InOrder(new),
         NEW from \in Cutting, NEW to \in Stages \ Early, NEW n \in Nat, Turns(from, to, n), to # "failed",
         UNCHANGED <<old, backup, slipped, made, quiet>>,
         to # "done" => Lost("events", new) = {},
         \A l \in Logs : \A i \in Range(new[l]) : \E h \in Logs : Name(h) = Name(l) /\ i \in Records(h),
         \A l \in Logs \ {"events"} : \A i \in Lost(l, new) : \A h \in Logs : Name(h) = Name(l) =>
           \A k \in Range(new[h]) : i < k
  PROVE  /\ RetentionTypeOK' /\ InOrder(logs)' /\ Removal' /\ Covering' /\ BackupCovers'
         /\ Staying(gone, logs)' /\ logs' = new /\ clean'.pc = to /\ clean'.shown = clean.shown /\ clean'.moved = n
         /\ IsFiniteSet(Dropped(new)) /\ Cardinality(gone') = Cardinality(gone) + Cardinality(Dropped(new))
<1>1. /\ made \in Nat /\ clean.pc \in Stages /\ gone \subseteq Logs \X (1 .. made) /\ IsFiniteSet(gone)
      /\ Cardinality(gone) \in Nat /\ \A l \in Logs : Records(l) \subseteq 1 .. made
      /\ clean \in [pc : Stages, shown : Nat, moved : Nat]
  BY LogFacts DEF CleanupInv
<1>2. /\ logs' = new /\ gone' = gone \cup Dropped(new) /\ made' = made /\ old' = old /\ backup' = backup
      /\ slipped' = slipped /\ quiet' = quiet
  BY DEF Removes, Dropped
<1>3. clean' = [clean EXCEPT !.pc = to, !.moved = n] /\ clean.pc = from /\ from \in Cutting
  BY DEF Turns
<1>4. clean'.pc = to /\ clean'.shown = clean.shown /\ clean'.moved = n /\ clean' \in [pc : Stages, shown : Nat, moved : Nat]
  BY <1>1, <1>3
<1>5. Dropped(new) \subseteq Logs \X (1 .. made)
  BY DEF Dropped
<1>6. RetentionTypeOK'
  <2>1. gone' \subseteq Logs \X (1 .. made)
    BY <1>1, <1>2, <1>5
  <2> QED
    BY <1>2, <1>4, <2>1 DEF CleanupInv, RetentionTypeOK, Stages
<1>7. InOrder(logs)'
  BY <1>2 DEF InOrder, Ascends, Descends, Range
<1>8. \A x \in Dropped(new) : \E l \in Logs : x[1] = Name(l) /\ x[2] \in Lost(l, new) /\ x[2] \in Records(l)
  BY DEF Dropped, Lost
<1>9. \A l \in Logs : Name(l) # "archive" /\ (Name(l) = "events" => l = "events")
  BY DEF Name
<1>10. clean.pc \notin {"done", "failed"} /\ clean.pc # "rest"
  BY <1>3 DEF Cutting
<1>11. Removal'
  <2>1. \A x \in Dropped(new) : x[1] # "archive" /\ (to # "done" => x[1] # "events")
    BY <1>8, <1>9
  <2>2. \A x \in gone : x[1] # "archive" /\ x[1] # "events"
    BY <1>10 DEF CleanupInv, Removal
  <2> QED
    BY <1>2, <1>4, <2>1, <2>2 DEF Removal
<1>12. \A l \in Logs : \A i \in Records(l) : i <= backup.upto => Has(l, i)
  BY <1>3 DEF CleanupInv, Covering
<1>13. Covering'
  <2>1. ASSUME NEW l \in Logs, NEW i \in Range(new[l]), i <= backup.upto
        PROVE  <<Name(l), i>> \in backup.files \/ (Name(l) = "jobs" /\ i \in slipped)
    <3>1. PICK h \in Logs : Name(h) = Name(l) /\ i \in Records(h)
      OBVIOUS
    <3> QED
      BY <1>12, <2>1, <3>1 DEF Has
  <2>2. to # "rest"
    BY DEF Early
  <2> QED
    BY <1>2, <1>4, <2>1, <2>2 DEF Covering, Has, Records
<1>14. BackupCovers'
  <2>1. ASSUME NEW x \in Dropped(new), x[2] <= backup.upto
        PROVE  x \in backup.files \/ (x[1] = "jobs" /\ x[2] \in slipped)
    <3>1. PICK l \in Logs : x[1] = Name(l) /\ x[2] \in Records(l)
      BY <1>8
    <3>2. x = <<x[1], x[2]>>
      BY <1>5
    <3> QED
      BY <1>12, <2>1, <3>1, <3>2 DEF Has
  <2> QED
    BY <1>2, <2>1 DEF CleanupInv, BackupCovers
<1>15. Staying(gone', new)
  <2>1. ASSUME NEW x \in Dropped(new), x[1] # "events", NEW h \in Logs, Name(h) = x[1], NEW k \in Range(new[h])
        PROVE  x[2] < k
    <3>1. PICK l \in Logs : x[1] = Name(l) /\ x[2] \in Lost(l, new)
      BY <1>8
    <3>2. l \in Logs \ {"events"}
      BY <2>1, <3>1 DEF Name
    <3> QED
      BY <2>1, <3>1, <3>2
  <2>2. ASSUME NEW x \in gone, x[1] # "events", NEW h \in Logs, Name(h) = x[1], NEW k \in Range(new[h])
        PROVE  x[2] < k
    <3>1. PICK l \in Logs : Name(l) = Name(h) /\ k \in Records(l)
      OBVIOUS
    <3> QED
      BY <2>2, <3>1 DEF CleanupInv, Staying, Records
  <2> QED
    BY <1>2, <2>1, <2>2 DEF Staying
<1>16. Staying(gone, logs)'
  BY <1>2, <1>15 DEF Staying, Range
<1>17. gone \cap Dropped(new) = {}
  <2> SUFFICES ASSUME NEW x \in gone, x \in Dropped(new) PROVE FALSE
    OBVIOUS
  <2>1. PICK l \in Logs : x[1] = Name(l) /\ x[2] \in Records(l)
    BY <1>8
  <2>2. x[1] # "events"
    BY <1>10 DEF CleanupInv, Removal
  <2>3. x[2] < x[2]
    BY <2>1, <2>2 DEF CleanupInv, Staying, Records
  <2>4. x[2] \in Nat
    BY <1>1
  <2> QED
    BY <2>3, <2>4
<1>18. IsFiniteSet(Dropped(new)) /\ Cardinality(Dropped(new)) \in Nat
  <2>1. IsFiniteSet(Logs \X (1 .. made))
    BY <1>1, AllFinite
  <2>2. Dropped(new) \in SUBSET (Logs \X (1 .. made))
    BY <1>5
  <2> QED
    BY <2>1, <2>2, FS_Subset, FS_CardinalityType
<1>19. Cardinality(gone') = Cardinality(gone) + Cardinality(Dropped(new))
  <2>1. Cardinality(gone \cup Dropped(new)) =
          Cardinality(gone) + Cardinality(Dropped(new)) - Cardinality(gone \cap Dropped(new))
    BY <1>1, <1>18, FS_Union
  <2>2. Cardinality(gone \cap Dropped(new)) = 0
    BY <1>17, FS_EmptySet
  <2> QED
    BY <1>1, <1>2, <1>18, <2>1, <2>2
<1> QED
  BY <1>2, <1>4, <1>6, <1>7, <1>11, <1>13, <1>14, <1>16, <1>18, <1>19

LEMMA InvFacts ==
  ASSUME CleanupInv
  PROVE  /\ made \in Nat /\ logs \in [Logs -> Seq(1 .. made)] /\ clean.pc \in Stages /\ clean.shown \in Nat
         /\ \A l \in Logs : /\ logs[l] \in Seq(1 .. made) /\ Len(logs[l]) \in Nat /\ Limit[l] \in Nat
                            /\ Records(l) \subseteq 1 .. made /\ Records(l) = Range(logs[l])
         /\ Descends(logs["switches"]) /\ Ascends(logs["links"]) /\ Ascends(logs["jobs"])
         /\ Ascends(logs["archive"]) /\ Ascends(logs["events"])
         /\ \A a \in Range(logs["archive"]), j \in Range(logs["jobs"]) : a < j
         /\ IsFiniteSet(gone) /\ Cardinality(gone) \in Nat /\ gone \subseteq Logs \X (1 .. made)
         /\ {"switches", "links", "jobs", "archive", "events"} \subseteq Logs
BY LogFacts DEF CleanupInv, InOrder, Logs, Records

\* What pruning the events depends on, and what it leaves.
LEMMA PrunedStays ==
  ASSUME logs'["events"] = logs["events"], old' = old
  PROVE  EventExcess' = EventExcess
BY DEF Pruned, EventExcess, Records, Expired

LEMMA PrunedFacts ==
  ASSUME CleanupInv
  PROVE  /\ Pruned \in Seq(1 .. made) /\ Ascends(Pruned) /\ Range(Pruned) \subseteq Records("events")
         /\ EventExcess \in Nat
         /\ LET D == {<<"events", i>> : i \in Records("events") \ Range(Pruned)} IN Cardinality(D) = EventExcess
<1> DEFINE s == logs["events"]
           S == {e \in Records("events") : ~Expired(e)}
           p == Pruned
<1>1. made \in Nat /\ s \in Seq(1 .. made) /\ Ascends(s) /\ Limit["events"] \in Nat /\ Records("events") = Range(s)
      /\ Range(s) \subseteq 1 .. made
  BY InvFacts
<1>2. S \in SUBSET (1 .. made)
  BY <1>1
<1>3. p = Newest(Ordered(S), Limit["events"])
  BY DEF Pruned
<1> HIDE DEF s, p
<1>4. Ordered(S) \in Seq(1 .. made) /\ Ascends(Ordered(S)) /\ Range(Ordered(S)) \subseteq S
  BY <1>1, <1>2, OrderedFacts
<1>5. p \in Seq(1 .. made) /\ Ascends(p) /\ Range(p) \subseteq Range(Ordered(S))
  BY <1>1, <1>3, <1>4, NewestFacts
<1>6. Range(p) \subseteq Range(s) /\ S \subseteq Range(s)
  BY <1>1, <1>4, <1>5
<1> HIDE DEF S
<1> DEFINE A == {<<"events", i>> : i \in Range(s)}
           B == {<<"events", i>> : i \in Range(p)}
           C == {<<"events", i>> : i \in Range(s) \ Range(p)}
<1>7. IsFiniteSet(A) /\ Cardinality(A) = Len(s) /\ Len(s) \in Nat
  <2>1. Len(s) \in Nat /\ DOMAIN s = 1 .. Len(s) /\ \A x : x \in Range(s) <=> \E i \in 1 .. Len(s) : x = s[i]
    BY <1>1, SequenceFacts
  <2>2. A = Labelled("events", s, 1, Len(s))
    BY <2>1 DEF Labelled
  <2>3. \A i, k \in DOMAIN s : s[i] = s[k] => i = k
    BY <1>1, AscendsOnce
  <2> HIDE DEF A
  <2>4. Cardinality(A) = (IF 1 > Len(s) THEN 0 ELSE Len(s) - 1 + 1) /\ IsFiniteSet(A)
    BY <1>1, <2>1, <2>2, <2>3, SegmentCount
  <2> QED
    BY <2>1, <2>4
<1>8. Cardinality(B) = Len(p) /\ Len(p) \in Nat
  <2>1. Len(p) \in Nat /\ DOMAIN p = 1 .. Len(p) /\ \A x : x \in Range(p) <=> \E i \in 1 .. Len(p) : x = p[i]
    BY <1>5, SequenceFacts
  <2>2. B = Labelled("events", p, 1, Len(p))
    BY <2>1 DEF Labelled
  <2>3. \A i, k \in DOMAIN p : p[i] = p[k] => i = k
    BY <1>1, <1>5, AscendsOnce
  <2> HIDE DEF B
  <2>4. Cardinality(B) = (IF 1 > Len(p) THEN 0 ELSE Len(p) - 1 + 1)
    <3>1. made \in Nat /\ p \in Seq(1 .. made) /\ Len(p) \in Nat /\ Len(p) <= Len(p)
      BY <1>1, <1>5, <2>1
    <3>2. Cardinality(Labelled("events", p, 1, Len(p))) = IF 1 > Len(p) THEN 0 ELSE Len(p) - 1 + 1
      BY <2>3, <3>1, SegmentCount
    <3> QED
      BY <2>2, <3>2
  <2> QED
    BY <2>1, <2>4
<1>9. Cardinality(C) = Len(s) - Len(p) /\ Len(p) <= Len(s)
  <2>1. B \in SUBSET A /\ C = A \ B /\ A \cap B = B
    BY <1>6
  <2> HIDE DEF A, B, C
  <2>2. Cardinality(A \ B) = Cardinality(A) - Cardinality(A \cap B)
    BY <1>7, FS_Difference
  <2>3. Cardinality(B) <= Cardinality(A)
    BY <1>7, <2>1, FS_Subset
  <2> QED
    BY <1>7, <1>8, <2>1, <2>2, <2>3
<1>10. EventExcess = Len(s) - Len(p) /\ EventExcess \in Nat
  <2>1. EventExcess = Surplus(Len(s), Len(p))
    BY DEF EventExcess, s, p
  <2> QED
    BY <1>7, <1>8, <1>9, <2>1 DEF Surplus
<1> QED
  BY <1>1, <1>5, <1>6, <1>9, <1>10 DEF s, p

LEMMA CutHistories ==
  ASSUME CleanupInv, Moves("switches", "jobs"), UNCHANGED <<old, backup, slipped, made, quiet>>,
         Removes([logs EXCEPT !["switches"] = Cut("switches"), !["links"] = Cut("links")])
  PROVE  CleanupInv'
<1> DEFINE new == [logs EXCEPT !["switches"] = Cut("switches"), !["links"] = Cut("links")]
           s == logs["switches"]
           t == Cut("switches")
           u == logs["links"]
           v == Cut("links")
           a == Len(s) - Surplus(Len(s), Limit["switches"]) + 1
           b == Surplus(Len(u), Limit["links"])
           A == Labelled("switches", s, a, Len(s))
           B == Labelled("links", u, 1, b)
<1>1. /\ made \in Nat /\ s \in Seq(1 .. made) /\ Descends(s) /\ u \in Seq(1 .. made) /\ Ascends(u)
      /\ Limit["switches"] \in Nat /\ Limit["links"] \in Nat /\ Records("switches") = Range(s) /\ Records("links") = Range(u)
      /\ logs \in [Logs -> Seq(1 .. made)] /\ {"switches", "links", "jobs", "archive", "events"} \subseteq Logs
      /\ Len(s) \in Nat /\ Len(u) \in Nat /\ Range(s) \subseteq 1 .. made /\ Range(u) \subseteq 1 .. made
  BY InvFacts
<1>2. t = SubSeq(s, 1, IF Len(s) > Limit["switches"] THEN Limit["switches"] ELSE Len(s)) /\ v = Newest(u, Limit["links"])
  BY DEF Cut
<1> HIDE DEF s, t, u, v
<1>3. /\ t \in Seq(1 .. made) /\ Descends(t) /\ Range(t) \subseteq Range(s)
      /\ \A x : x \in Range(s) /\ x \notin Range(t) <=> \E k \in a .. Len(s) : x = s[k]
      /\ \A x, y : x \in Range(s) /\ x \notin Range(t) /\ y \in Range(t) => x < y
  <2>1. t = FirstOnes(s, Limit["switches"])
    BY <1>2 DEF FirstOnes
  <2> QED
    BY <1>1, <2>1, FrontFacts
<1>4. /\ v \in Seq(1 .. made) /\ Ascends(v) /\ Range(v) \subseteq Range(u)
      /\ \A x : x \in Range(u) /\ x \notin Range(v) <=> \E k \in 1 .. b : x = u[k]
      /\ \A x, y : x \in Range(u) /\ x \notin Range(v) /\ y \in Range(v) => x < y
  BY <1>1, <1>2, NewestFacts
<1>5. /\ new \in [Logs -> Seq(1 .. made)] /\ new["switches"] = t /\ new["links"] = v
      /\ \A l \in Logs : l \notin {"switches", "links"} => new[l] = logs[l]
  BY <1>1, <1>3, <1>4 DEF t, v
<1>6. b \in 0 .. Len(u) /\ Surplus(Len(s), Limit["switches"]) \in 0 .. Len(s)
  BY <1>1, SurplusFacts
<1> HIDE DEF new, b
<1>7. InOrder(new)
  <2>1. \A l \in Logs \ {"switches"} : Ascends(new[l])
    BY <1>4, <1>5 DEF CleanupInv, InOrder
  <2>2. new["archive"] = logs["archive"] /\ new["jobs"] = logs["jobs"]
    BY <1>1, <1>5
  <2> QED
    BY <1>3, <1>5, <2>1, <2>2 DEF CleanupInv, InOrder
<1>8. \A l \in Logs : l \notin {"switches", "links"} => Lost(l, new) = {}
  BY <1>5 DEF Lost, Records
<1>9. \A i : i \in Lost("switches", new) <=> i \in Range(s) /\ i \notin Range(t)
  BY <1>1, <1>5 DEF Lost
<1>10. \A i : i \in Lost("links", new) <=> i \in Range(u) /\ i \notin Range(v)
  BY <1>1, <1>5 DEF Lost
<1>11. \A l \in Logs : \A i \in Range(new[l]) : \E h \in Logs : Name(h) = Name(l) /\ i \in Records(h)
  <2> SUFFICES ASSUME NEW l \in Logs, NEW i \in Range(new[l]) PROVE i \in Records(l)
    OBVIOUS
  <2> QED
    BY <1>1, <1>3, <1>4, <1>5 DEF Records
<1>12. \A l \in Logs \ {"events"} : \A i \in Lost(l, new) : \A h \in Logs : Name(h) = Name(l) =>
         \A k \in Range(new[h]) : i < k
  <2> SUFFICES ASSUME NEW l \in Logs \ {"events"}, NEW i \in Lost(l, new), NEW h \in Logs, Name(h) = Name(l),
                      NEW k \in Range(new[h])
               PROVE  i < k
    OBVIOUS
  <2>1. l \in {"switches", "links"}
    BY <1>8
  <2>2. h = l
    BY <2>1 DEF Name
  <2> QED
    BY <1>3, <1>4, <1>5, <1>9, <1>10, <2>1, <2>2
<1>13. /\ RetentionTypeOK' /\ InOrder(logs)' /\ Removal' /\ Covering' /\ BackupCovers'
       /\ Staying(gone, logs)' /\ logs' = new /\ clean'.pc = "jobs"
       /\ clean'.shown = clean.shown /\ clean'.moved = clean.moved
       /\ Cardinality(gone') = Cardinality(gone) + Cardinality(Dropped(new))
  <2>1. "switches" \in Cutting /\ "jobs" \in Stages \ Early
    BY DEF Cutting, Stages, Early
  <2>2. Lost("events", new) = {} /\ Removes(new)
    BY <1>1, <1>8 DEF new
  <2> QED
    BY <1>5, <1>7, <1>11, <1>12, <2>1, <2>2, MovesTurn, RemovesKeeps
<1>14. /\ A \cap B = {} /\ Dropped(new) = A \cup B
       /\ \A x : x \in A <=> \E k \in a .. Len(s) : x = <<"switches", s[k]>>
       /\ \A x : x \in B <=> \E k \in 1 .. b : x = <<"links", u[k]>>
  <2>1. \A k \in a .. Len(s) : s[k] \in 1 .. made
    BY <1>1, <1>3
  <2>2. \A k \in 1 .. b : u[k] \in 1 .. made
    BY <1>1, <1>4
  <2>3. /\ \A x : x \in A <=> \E k \in a .. Len(s) : x = <<"switches", s[k]>>
        /\ \A x : x \in B <=> \E k \in 1 .. b : x = <<"links", u[k]>>
    BY DEF Labelled
  <2> HIDE DEF A, B
  <2>4. A \cap B = {}
    BY <2>3
  <2>5. A \subseteq Logs \X (1 .. made) /\ B \subseteq Logs \X (1 .. made)
    <3>1. "switches" \in Logs /\ "links" \in Logs
      BY <1>1
    <3>2. ASSUME NEW x \in A PROVE x \in Logs \X (1 .. made)
      BY <2>1, <2>3, <3>1, <3>2
    <3>3. ASSUME NEW x \in B PROVE x \in Logs \X (1 .. made)
      BY <2>2, <2>3, <3>1, <3>3
    <3> QED
      BY <3>2, <3>3
  <2>6. ASSUME NEW x \in Dropped(new) PROVE x \in A \cup B
    <3>1. PICK l \in Logs : x[1] = Name(l) /\ x[2] \in Lost(l, new)
      BY DEF Dropped
    <3>2. x = <<x[1], x[2]>>
      BY DEF Dropped
    <3>3. l \in {"switches", "links"} /\ Name(l) = l
      BY <1>8, <3>1 DEF Name
    <3> QED
      BY <1>3, <1>4, <1>9, <1>10, <2>3, <3>1, <3>2, <3>3
  <2>7. ASSUME NEW x \in A PROVE x \in Dropped(new)
    <3>1. PICK k \in a .. Len(s) : x = <<"switches", s[k]>>
      BY <2>3
    <3>2. s[k] \in Lost("switches", new) /\ Name("switches") = "switches"
      BY <1>3, <1>9 DEF Name
    <3>3. x \in Logs \X (1 .. made) /\ x[1] = "switches" /\ x[2] = s[k]
      BY <2>5, <3>1
    <3> QED
      BY <1>1, <3>2, <3>3 DEF Dropped
  <2>8. ASSUME NEW x \in B PROVE x \in Dropped(new)
    <3>1. PICK k \in 1 .. b : x = <<"links", u[k]>>
      BY <2>3
    <3>2. u[k] \in Lost("links", new) /\ Name("links") = "links"
      BY <1>4, <1>10 DEF Name
    <3>3. x \in Logs \X (1 .. made) /\ x[1] = "links" /\ x[2] = u[k]
      BY <2>5, <3>1
    <3> QED
      BY <1>1, <3>2, <3>3 DEF Dropped
  <2> QED
    BY <2>3, <2>4, <2>6, <2>7, <2>8
<1> HIDE DEF A, B
<1>15. Cardinality(Dropped(new)) = Surplus(Len(s), Limit["switches"]) + Surplus(Len(u), Limit["links"])
  <2>1. IsFiniteSet(A) /\ Cardinality(A) = Surplus(Len(s), Limit["switches"])
    <3>1. a \in Nat /\ 1 <= a /\ Len(s) <= Len(s)
      BY <1>1, <1>6
    <3>2. \A i, k \in DOMAIN s : s[i] = s[k] => i = k
      BY <1>1, AscendsOnce
    <3>3. PICK c \in Nat : c = a
      BY <3>1
    <3>4. made \in Nat /\ s \in Seq(1 .. made) /\ Len(s) \in Nat /\ Len(s) <= Len(s) /\ 1 <= c
      BY <1>1, <3>1, <3>3
    <3>5. /\ IsFiniteSet(Labelled("switches", s, c, Len(s)))
          /\ Cardinality(Labelled("switches", s, c, Len(s))) = IF c > Len(s) THEN 0 ELSE Len(s) - c + 1
      BY <3>2, <3>4, SegmentCount
    <3>6. A = Labelled("switches", s, c, Len(s))
      BY <3>3 DEF A
    <3>7. (IF c > Len(s) THEN 0 ELSE Len(s) - c + 1) = Surplus(Len(s), Limit["switches"])
      BY <1>1, <1>6, <3>3
    <3> QED
      BY <3>5, <3>6, <3>7
  <2>2. IsFiniteSet(B) /\ Cardinality(B) = b
    <3>1. b \in Nat /\ b <= Len(u)
      BY <1>1, <1>6
    <3>2. \A i, k \in DOMAIN u : u[i] = u[k] => i = k
      BY <1>1, AscendsOnce
    <3>4. made \in Nat /\ u \in Seq(1 .. made)
      BY <1>1
    <3>3. /\ IsFiniteSet(Labelled("links", u, 1, b))
          /\ Cardinality(Labelled("links", u, 1, b)) = IF 1 > b THEN 0 ELSE b - 1 + 1
      BY <3>1, <3>2, <3>4, SegmentCount
    <3> QED
      BY <3>1, <3>3 DEF B
  <2>3. Cardinality(A \cup B) = Cardinality(A) + Cardinality(B) - Cardinality(A \cap B)
    BY <2>1, <2>2, FS_Union
  <2>4. Cardinality(A \cap B) = 0
    BY <1>14, FS_EmptySet
  <2>5. b \in Nat /\ Surplus(Len(s), Limit["switches"]) \in Nat
    BY <1>6
  <2> QED
    BY <1>14, <2>1, <2>2, <2>3, <2>4, <2>5 DEF b
<1>16. Counting'
  <2>1. CASE ~quiet'
    BY <2>1 DEF Counting
  <2>2. CASE quiet'
    <3>1. quiet /\ clean.pc = "switches"
      BY <2>2 DEF Moves
    <3>2. clean.shown = Surplus(Len(s), Limit["switches"]) + Surplus(Len(u), Limit["links"])
                        + JobExcess + ArchiveExcess + EventExcess
      BY <3>1 DEF CleanupInv, Counting, Shown, ArchiveExcess, JobExcess, EventExcess, s, u
    <3>3. Cardinality(gone) = 0
      <4>1. gone = {}
        BY <3>1 DEF CleanupInv, Removal, Early
      <4> QED
        BY <4>1, FS_EmptySet
    <3>4. logs'["jobs"] = logs["jobs"] /\ logs'["archive"] = logs["archive"] /\ logs'["events"] = logs["events"]
      BY <1>1, <1>5, <1>13
    <3>5. JobExcess' = JobExcess /\ ArchiveExcess' = ArchiveExcess /\ EventExcess' = EventExcess
      BY <3>4, PrunedStays DEF ArchiveExcess, JobExcess
    <3>6. Cardinality(gone') = Surplus(Len(s), Limit["switches"]) + Surplus(Len(u), Limit["links"])
      <4>1. Surplus(Len(s), Limit["switches"]) \in Nat /\ Surplus(Len(u), Limit["links"]) \in Nat
        BY <1>6 DEF b
      <4> QED
        BY <1>13, <1>15, <3>3, <4>1
    <3> QED
      BY <1>13, <3>2, <3>5, <3>6 DEF Counting
  <2> QED
    BY <2>1, <2>2
<1> QED
  BY <1>13, <1>16 DEF CleanupInv

\* Both files of the jobs after the move.
LEMMA ArchivingFacts ==
  ASSUME CleanupInv
  PROVE  LET new == Archived(JobExcess)
             both == logs["archive"] \o Oldest(logs["jobs"], Limit["jobs"]) IN
         /\ new \in [Logs -> Seq(1 .. made)] /\ InOrder(new)
         /\ \A l \in Logs : l \notin {"jobs", "archive"} => new[l] = logs[l]
         /\ Range(new["jobs"]) \subseteq Records("jobs")
         /\ Range(new["archive"]) \subseteq Records("archive") \cup Range(SubSeq(logs["jobs"], 1, JobExcess))
         /\ Range(SubSeq(logs["jobs"], 1, JobExcess)) \subseteq Records("jobs")
         /\ both \in Seq(1 .. made) /\ Ascends(both) /\ Len(both) \in Nat
         /\ ArchiveExcess \in Nat /\ ArchiveExcess <= Len(both) /\ Len(new["archive"]) <= Limit["archive"]
         /\ \A x : x \in Lost("jobs", new) \cup Lost("archive", new) <=> \E k \in 1 .. ArchiveExcess : x = both[k]
         /\ \A x \in Lost("jobs", new) \cup Lost("archive", new) :
              \A y \in Range(new["jobs"]) \cup Range(new["archive"]) : x < y
<1> DEFINE new == Archived(JobExcess)
           jobs == logs["jobs"]
           archive == logs["archive"]
           n == Limit["jobs"]
           limit == Limit["archive"]
           first == Oldest(jobs, n)
           both == archive \o first
           rest == Newest(jobs, n)
           kept == Newest(both, limit)
<1>1. /\ made \in Nat /\ jobs \in Seq(1 .. made) /\ archive \in Seq(1 .. made) /\ n \in Nat /\ limit \in Nat
      /\ Ascends(jobs) /\ Ascends(archive) /\ \A a \in Range(archive), j \in Range(jobs) : a < j
      /\ Len(jobs) \in Nat /\ Len(archive) \in Nat /\ Records("jobs") = Range(jobs) /\ Records("archive") = Range(archive)
      /\ logs \in [Logs -> Seq(1 .. made)] /\ {"switches", "links", "jobs", "archive", "events"} \subseteq Logs
      /\ Descends(logs["switches"]) /\ Ascends(logs["links"]) /\ Ascends(logs["events"])
  BY InvFacts
<1>2. /\ JobExcess = Surplus(Len(jobs), n) /\ first = SubSeq(jobs, 1, JobExcess)
      /\ rest = SubSeq(jobs, JobExcess + 1, Len(jobs))
      /\ ArchiveExcess = Surplus(Len(archive) + JobExcess, limit)
  BY DEF JobExcess, ArchiveExcess, Oldest, Newest
<1>3. /\ new["jobs"] = rest /\ new["archive"] = kept
      /\ \A l \in Logs : l \notin {"jobs", "archive"} => new[l] = logs[l]
      /\ DOMAIN new = Logs
  <2>1. new = [logs EXCEPT !["jobs"] = rest, !["archive"] = kept]
    BY <1>2 DEF Archived
  <2> HIDE DEF new, rest, kept
  <2> QED
    BY <1>1, <2>1
<1>4. /\ rest \in Seq(1 .. made) /\ kept \in Seq(1 .. made) /\ both \in Seq(1 .. made)
      /\ Ascends(rest) /\ Ascends(kept) /\ Ascends(both)
      /\ Range(rest) \subseteq Range(jobs) /\ Range(kept) \subseteq Range(archive) \cup Range(first)
      /\ Range(first) \subseteq Range(jobs) /\ Len(both) = Len(archive) + Surplus(Len(jobs), n)
      /\ Len(kept) = Len(both) - Surplus(Len(both), limit)
      /\ \A a \in Range(kept), j \in Range(rest) : a < j
      /\ \A x : (\/ x \in Range(jobs) /\ x \notin Range(rest) /\ x \notin Range(kept)
                 \/ x \in Range(archive) /\ x \notin Range(kept))
                <=> \E k \in 1 .. Surplus(Len(both), limit) : x = both[k]
      /\ \A x : (\E k \in 1 .. Surplus(Len(both), limit) : x = both[k]) =>
                  \A y \in Range(rest) \cup Range(kept) : x < y
  <2> HIDE DEF jobs, archive, n, limit
  <2> QED
    BY <1>1, ArchivedFacts
<1> HIDE DEF new, jobs, archive, n, limit, first, both, rest, kept
<1>5. /\ Len(both) \in Nat /\ ArchiveExcess = Surplus(Len(both), limit) /\ ArchiveExcess \in 0 .. Len(both)
      /\ Len(kept) <= limit
  <2>1. Len(both) \in Nat
    BY <1>4, SequenceFacts
  <2>2. ArchiveExcess = Surplus(Len(both), limit)
    BY <1>2, <1>4
  <2> QED
    BY <1>1, <1>4, <2>1, <2>2, SurplusFacts
<1>6. \A x : x \in Lost("jobs", new) \cup Lost("archive", new) <=>
               (\/ x \in Range(jobs) /\ x \notin Range(rest) /\ x \notin Range(kept)
                \/ x \in Range(archive) /\ x \notin Range(kept))
  BY <1>1, <1>3 DEF Lost
<1>7. new \in [Logs -> Seq(1 .. made)]
  <2>1. \A l \in Logs : new[l] \in Seq(1 .. made)
    BY <1>1, <1>3, <1>4
  <2>2. new = [l \in Logs |-> new[l]]
    BY <1>1 DEF new, Archived
  <2> QED
    BY <2>1, <2>2
<1>8. InOrder(new)
  <2>1. new["switches"] = logs["switches"] /\ new["links"] = logs["links"] /\ new["events"] = logs["events"]
    BY <1>1, <1>3
  <2>2. \A l \in Logs \ {"switches"} : Ascends(new[l])
    BY <1>1, <1>3, <1>4, <2>1 DEF Logs
  <2> QED
    BY <1>1, <1>3, <1>4, <2>1, <2>2 DEF InOrder
<1>9. /\ Range(new["jobs"]) \subseteq Records("jobs")
      /\ Range(new["archive"]) \subseteq Records("archive") \cup Range(first)
      /\ Range(first) \subseteq Records("jobs") /\ Len(new["archive"]) <= limit
  BY <1>1, <1>3, <1>4, <1>5
<1>10. ArchiveExcess \in Nat /\ ArchiveExcess <= Len(both)
  BY <1>5
<1>11. \A x : x \in Lost("jobs", new) \cup Lost("archive", new) <=> \E k \in 1 .. ArchiveExcess : x = both[k]
  BY <1>4, <1>5, <1>6
<1>12. \A x \in Lost("jobs", new) \cup Lost("archive", new) :
         \A y \in Range(new["jobs"]) \cup Range(new["archive"]) : x < y
  BY <1>3, <1>4, <1>5, <1>11
<1>13. Range(SubSeq(logs["jobs"], 1, JobExcess)) = Range(first)
  BY <1>2 DEF jobs
<1>14. both \in Seq(1 .. made) /\ Ascends(both) /\ Len(both) \in Nat
  BY <1>4, <1>5
<1> QED
  BY <1>3, <1>7, <1>8, <1>9, <1>10, <1>11, <1>12, <1>13, <1>14 DEF new, jobs, archive, n, limit, first, both

LEMMA MoveJobs ==
  ASSUME CleanupInv, Turns("jobs", "archive", JobExcess), UNCHANGED <<old, backup, slipped, made, quiet>>,
         Removes(Archived(JobExcess))
  PROVE  CleanupInv'
<1> DEFINE new == Archived(JobExcess)
           both == logs["archive"] \o Oldest(logs["jobs"], Limit["jobs"])
           B == Labelled("jobs", both, 1, ArchiveExcess)
<1>1. /\ new \in [Logs -> Seq(1 .. made)] /\ InOrder(new)
      /\ \A l \in Logs : l \notin {"jobs", "archive"} => new[l] = logs[l]
      /\ Range(new["jobs"]) \subseteq Records("jobs")
      /\ Range(new["archive"]) \subseteq Records("archive") \cup Records("jobs")
      /\ both \in Seq(1 .. made) /\ Ascends(both) /\ Len(both) \in Nat
      /\ ArchiveExcess \in Nat /\ ArchiveExcess <= Len(both) /\ Len(new["archive"]) <= Limit["archive"]
      /\ \A x : x \in Lost("jobs", new) \cup Lost("archive", new) <=> \E k \in 1 .. ArchiveExcess : x = both[k]
      /\ \A x \in Lost("jobs", new) \cup Lost("archive", new) :
           \A y \in Range(new["jobs"]) \cup Range(new["archive"]) : x < y
  BY ArchivingFacts
<1>2. Removes(new)
  OBVIOUS
<1> HIDE DEF new, both
<1>3. /\ made \in Nat /\ {"switches", "links", "jobs", "archive", "events"} \subseteq Logs
      /\ \A l \in Logs : Records(l) = Range(logs[l]) /\ Records(l) \subseteq 1 .. made
      /\ Name("jobs") = "jobs" /\ Name("archive") = "jobs"
      /\ \A l \in Logs : Name(l) = "jobs" <=> l \in {"jobs", "archive"}
      /\ \A l, h \in Logs : Name(h) = Name(l) /\ l \notin {"jobs", "archive"} => h = l
  BY InvFacts DEF Name
<1>0. \A l \in Logs : l \notin {"jobs", "archive"} => Range(new[l]) = Records(l)
  <2>1. \A l \in Logs : l \notin {"jobs", "archive"} => new[l] = logs[l]
    BY <1>1
  <2> QED
    BY <1>3, <2>1
<1>4. \A l \in Logs : l \notin {"jobs", "archive"} => Lost(l, new) = {}
  BY <1>0 DEF Lost
<1>5. \A l \in Logs : \A i \in Range(new[l]) : \E h \in Logs : Name(h) = Name(l) /\ i \in Records(h)
  <2> SUFFICES ASSUME NEW l \in Logs, NEW i \in Range(new[l])
               PROVE  \E h \in Logs : Name(h) = Name(l) /\ i \in Records(h)
    OBVIOUS
  <2>1. CASE l \notin {"jobs", "archive"}
    BY <1>0, <2>1
  <2>2. CASE l \in {"jobs", "archive"}
    <3>1. i \in Records("jobs") \/ i \in Records("archive")
      BY <1>1, <2>2
    <3>2. Name(l) = "jobs"
      BY <1>3, <2>2
    <3> QED
      BY <1>3, <3>1, <3>2
  <2> QED
    BY <2>1, <2>2
<1>6. \A l \in Logs \ {"events"} : \A i \in Lost(l, new) : \A h \in Logs : Name(h) = Name(l) =>
        \A k \in Range(new[h]) : i < k
  <2> SUFFICES ASSUME NEW l \in Logs, NEW i \in Lost(l, new), NEW h \in Logs, Name(h) = Name(l), NEW k \in Range(new[h])
               PROVE  i < k
    OBVIOUS
  <2>1. l \in {"jobs", "archive"}
    BY <1>4
  <2>2. h \in {"jobs", "archive"}
    BY <1>3, <2>1
  <2> QED
    BY <1>1, <2>1, <2>2
<1>7. /\ RetentionTypeOK' /\ InOrder(logs)' /\ Removal' /\ Covering' /\ BackupCovers'
      /\ Staying(gone, logs)' /\ logs' = new /\ clean'.pc = "archive" /\ clean'.shown = clean.shown
      /\ JobExcess \in Nat /\ clean'.moved = JobExcess
      /\ Cardinality(gone') = Cardinality(gone) + Cardinality(Dropped(new))
  <2>1. "jobs" \in Cutting /\ "archive" \in Stages \ Early
    BY DEF Cutting, Stages, Early
  <2>2. Lost("events", new) = {}
    BY <1>3, <1>4
  <2>3. JobExcess \in Nat
    <3>1. Len(logs["jobs"]) \in Nat /\ Limit["jobs"] \in Nat
      BY <1>3, InvFacts
    <3> QED
      BY <3>1 DEF JobExcess, Surplus
  <2>4. PICK n \in Nat : n = JobExcess
    BY <2>3
  <2>5. Turns("jobs", "archive", n)
    BY <2>4
  <2>6. "archive" # "failed" /\ "archive" # "done"
    OBVIOUS
  <2>7. clean'.moved = n /\ clean'.pc = "archive" /\ clean'.shown = clean.shown /\ logs' = new
    BY <1>1, <1>2, <1>5, <1>6, <2>1, <2>2, <2>5, <2>6, RemovesKeeps
  <2>8. /\ RetentionTypeOK' /\ InOrder(logs)' /\ Removal' /\ Covering' /\ BackupCovers'
        /\ Staying(gone, logs)' /\ Cardinality(gone') = Cardinality(gone) + Cardinality(Dropped(new))
    BY <1>1, <1>2, <1>5, <1>6, <2>1, <2>2, <2>5, <2>6, RemovesKeeps
  <2> QED
    BY <2>3, <2>4, <2>7, <2>8
<1>8. Dropped(new) = B
  <2>1. \A x : x \in B <=> \E k \in 1 .. ArchiveExcess : x = <<"jobs", both[k]>>
    BY DEF Labelled
  <2> HIDE DEF B
  <2>2. \A k \in 1 .. ArchiveExcess : both[k] \in 1 .. made
    <3>1. \A i \in 1 .. Len(both) : both[i] \in 1 .. made
      BY <1>1, SequenceFacts
    <3> QED
      BY <1>1, <3>1
  <2>3. ASSUME NEW x \in Dropped(new) PROVE x \in B
    <3>1. PICK l \in Logs : x[1] = Name(l) /\ x[2] \in Lost(l, new)
      BY DEF Dropped
    <3>2. x = <<x[1], x[2]>>
      BY DEF Dropped
    <3>3. l \in {"jobs", "archive"} /\ Name(l) = "jobs"
      BY <1>3, <1>4, <3>1
    <3>4. PICK k \in 1 .. ArchiveExcess : x[2] = both[k]
      BY <1>1, <3>1, <3>3
    <3> QED
      BY <2>1, <3>1, <3>2, <3>3, <3>4
  <2>4. ASSUME NEW x \in B PROVE x \in Dropped(new)
    <3>1. PICK k \in 1 .. ArchiveExcess : x = <<"jobs", both[k]>>
      BY <2>1
    <3>2. x \in Logs \X (1 .. made) /\ x[1] = "jobs" /\ x[2] = both[k]
      BY <1>3, <2>2, <3>1
    <3>3. x[2] \in Lost("jobs", new) \cup Lost("archive", new)
      BY <1>1, <3>2
    <3> QED
      BY <1>3, <3>2, <3>3 DEF Dropped
  <2> QED
    BY <2>3, <2>4
<1>9. Cardinality(Dropped(new)) = ArchiveExcess
  <2>1. \A i, k \in DOMAIN both : both[i] = both[k] => i = k
    BY <1>1, <1>3, AscendsOnce
  <2>2. Cardinality(Labelled("jobs", both, 1, ArchiveExcess)) = IF 1 > ArchiveExcess THEN 0 ELSE ArchiveExcess - 1 + 1
    <3>1. made \in Nat /\ both \in Seq(1 .. made) /\ ArchiveExcess \in Nat /\ ArchiveExcess <= Len(both)
      BY <1>1, <1>3
    <3> HIDE DEF B
    <3> QED
      BY <2>1, <3>1, SegmentCount
  <2> HIDE DEF B
  <2>3. B = Labelled("jobs", both, 1, ArchiveExcess)
    BY DEF B
  <2> QED
    BY <1>1, <1>8, <2>2, <2>3
<1>10. Counting'
  <2>1. CASE ~quiet'
    BY <2>1 DEF Counting
  <2>2. CASE quiet'
    <3>1. clean.shown = Cardinality(gone) + JobExcess + ArchiveExcess + EventExcess
      BY <2>2 DEF Turns, CleanupInv, Counting
    <3>2. logs'["events"] = logs["events"]
      BY <1>1, <1>3, <1>7
    <3>3. EventExcess' = EventExcess
      BY <3>2, PrunedStays
    <3>4. Len(logs'["archive"]) <= Limit["archive"]
      BY <1>1, <1>7
    <3>6. Cardinality(gone) \in Nat /\ EventExcess \in Nat /\ ArchiveExcess \in Nat
      BY <1>1, InvFacts, PrunedFacts
    <3>5. clean'.shown = Cardinality(gone') + clean'.moved + EventExcess'
      BY <1>7, <1>9, <3>1, <3>3, <3>6
    <3> QED
      BY <1>7, <3>4, <3>5 DEF Counting
  <2> QED
    BY <2>1, <2>2
<1> QED
  BY <1>7, <1>10 DEF CleanupInv

LEMMA CutArchive ==
  ASSUME CleanupInv, Moves("archive", "events"), UNCHANGED <<old, backup, slipped, made, quiet>>,
         Removes([logs EXCEPT !["archive"] = Cut("archive")])
  PROVE  CleanupInv'
<1> DEFINE new == [logs EXCEPT !["archive"] = Cut("archive")]
           s == logs["archive"]
           t == Cut("archive")
           n == Limit["archive"]
<1>1. /\ made \in Nat /\ s \in Seq(1 .. made) /\ Ascends(s) /\ n \in Nat /\ Len(s) \in Nat
      /\ {"switches", "links", "jobs", "archive", "events"} \subseteq Logs /\ logs \in [Logs -> Seq(1 .. made)]
      /\ \A l \in Logs : Records(l) = Range(logs[l]) /\ Records(l) \subseteq 1 .. made
      /\ \A a \in Range(s), j \in Range(logs["jobs"]) : a < j
  BY InvFacts
<1>2. t = Newest(s, n)
  BY DEF Cut
<1>3. Removes(new)
  OBVIOUS
<1> HIDE DEF s, t, n
<1>4. /\ t \in Seq(1 .. made) /\ Ascends(t) /\ Range(t) \subseteq Range(s)
      /\ \A x, y : x \in Range(s) /\ x \notin Range(t) /\ y \in Range(t) => x < y
      /\ \A x : x \in Range(s) /\ x \notin Range(t) <=> \E k \in 1 .. Surplus(Len(s), n) : x = s[k]
  BY <1>1, <1>2, NewestFacts
<1>5. /\ new \in [Logs -> Seq(1 .. made)] /\ new["archive"] = t
      /\ \A l \in Logs : l # "archive" => new[l] = logs[l]
  BY <1>1, <1>4 DEF t
<1> HIDE DEF new
<1>6. InOrder(new)
  <2>1. \A l \in Logs \ {"switches"} : Ascends(new[l])
    BY <1>4, <1>5 DEF CleanupInv, InOrder
  <2>2. new["switches"] = logs["switches"] /\ new["jobs"] = logs["jobs"]
    BY <1>1, <1>5
  <2>3. \A a \in Range(new["archive"]), j \in Range(new["jobs"]) : a < j
    BY <1>1, <1>4, <1>5, <2>2
  <2> QED
    BY <2>1, <2>2, <2>3 DEF CleanupInv, InOrder
<1>7. \A l \in Logs : l # "archive" => Lost(l, new) = {}
  BY <1>1, <1>5 DEF Lost
<1>8. \A i : i \in Lost("archive", new) <=> i \in Range(s) /\ i \notin Range(t)
  BY <1>1, <1>5 DEF Lost, s
<1>9. \A l \in Logs : \A i \in Range(new[l]) : \E h \in Logs : Name(h) = Name(l) /\ i \in Records(h)
  <2> SUFFICES ASSUME NEW l \in Logs, NEW i \in Range(new[l]) PROVE i \in Records(l)
    OBVIOUS
  <2> QED
    BY <1>1, <1>4, <1>5 DEF s
<1>10. \A l \in Logs \ {"events"} : \A i \in Lost(l, new) : \A h \in Logs : Name(h) = Name(l) =>
         \A k \in Range(new[h]) : i < k
  <2> SUFFICES ASSUME NEW l \in Logs, NEW i \in Lost(l, new), NEW h \in Logs, Name(h) = Name(l), NEW k \in Range(new[h])
               PROVE  i < k
    OBVIOUS
  <2>1. l = "archive" /\ i \in Range(s) /\ i \notin Range(t)
    BY <1>7, <1>8
  <2>2. h \in {"jobs", "archive"}
    BY <2>1 DEF Name
  <2>3. new["jobs"] = logs["jobs"]
    BY <1>1, <1>5
  <2> QED
    BY <1>1, <1>4, <1>5, <2>1, <2>2, <2>3
<1>11. /\ RetentionTypeOK' /\ InOrder(logs)' /\ Removal' /\ Covering' /\ BackupCovers'
       /\ Staying(gone, logs)' /\ logs' = new /\ clean'.pc = "events"
       /\ clean'.shown = clean.shown /\ clean'.moved = clean.moved
       /\ IsFiniteSet(Dropped(new)) /\ Cardinality(gone') = Cardinality(gone) + Cardinality(Dropped(new))
  <2>1. "archive" \in Cutting /\ "events" \in Stages \ Early
    BY DEF Cutting, Stages, Early
  <2>2. Lost("events", new) = {}
    BY <1>1, <1>7
  <2> QED
    BY <1>3, <1>5, <1>6, <1>9, <1>10, <2>1, <2>2, MovesTurn, RemovesKeeps
<1>12. Counting'
  <2>1. CASE ~quiet'
    BY <2>1 DEF Counting
  <2>2. CASE quiet'
    <3>1. clean.shown = Cardinality(gone) + clean.moved + EventExcess /\ Len(s) <= n
      BY <2>2 DEF Moves, CleanupInv, Counting, s, n
    <3>2. Lost("archive", new) = {}
      <4>1. Surplus(Len(s), n) = 0
        BY <1>1, <3>1 DEF Surplus
      <4> QED
        BY <1>4, <1>8, <4>1
    <3>3. Cardinality(Dropped(new)) = 0
      <4>1. Dropped(new) = {}
        BY <1>7, <3>2 DEF Dropped
      <4> QED
        BY <4>1, FS_EmptySet
    <3>4. logs'["events"] = logs["events"]
      BY <1>1, <1>5, <1>11
    <3>5. EventExcess' = EventExcess
      BY <3>4, PrunedStays
    <3>6. Cardinality(gone) \in Nat
      BY InvFacts
    <3>7. clean'.shown = Cardinality(gone') + clean'.moved + EventExcess'
      BY <1>11, <3>1, <3>3, <3>5, <3>6
    <3> QED
      BY <1>11, <3>7 DEF Counting
  <2> QED
    BY <2>1, <2>2
<1> QED
  BY <1>11, <1>12 DEF CleanupInv

LEMMA PruneEvents ==
  ASSUME CleanupInv, Moves("events", "done"), UNCHANGED <<old, backup, slipped, made, quiet>>,
         Removes([logs EXCEPT !["events"] = Pruned])
  PROVE  CleanupInv'
<1> DEFINE new == [logs EXCEPT !["events"] = Pruned]
           D == {<<"events", i>> : i \in Records("events") \ Range(Pruned)}
<1>1. /\ made \in Nat /\ {"switches", "links", "jobs", "archive", "events"} \subseteq Logs
      /\ logs \in [Logs -> Seq(1 .. made)]
      /\ \A l \in Logs : Records(l) = Range(logs[l]) /\ Records(l) \subseteq 1 .. made
  BY InvFacts
<1>2. Removes(new)
  OBVIOUS
<1>3. /\ Pruned \in Seq(1 .. made) /\ Ascends(Pruned) /\ Range(Pruned) \subseteq Records("events")
      /\ Cardinality(D) = EventExcess
  BY PrunedFacts
<1>4. /\ new \in [Logs -> Seq(1 .. made)] /\ new["events"] = Pruned
      /\ \A l \in Logs : l # "events" => new[l] = logs[l]
  BY <1>1, <1>3
<1> HIDE DEF new
<1>5. InOrder(new)
  <2>1. \A l \in Logs \ {"switches"} : Ascends(new[l])
    BY <1>3, <1>4 DEF CleanupInv, InOrder
  <2>2. new["switches"] = logs["switches"] /\ new["jobs"] = logs["jobs"] /\ new["archive"] = logs["archive"]
    BY <1>1, <1>4
  <2> QED
    BY <2>1, <2>2 DEF CleanupInv, InOrder
<1>6. \A l \in Logs : l # "events" => Lost(l, new) = {}
  BY <1>1, <1>4 DEF Lost
<1>7. Lost("events", new) = Records("events") \ Range(Pruned)
  BY <1>4 DEF Lost
<1>8. \A l \in Logs : \A i \in Range(new[l]) : \E h \in Logs : Name(h) = Name(l) /\ i \in Records(h)
  <2> SUFFICES ASSUME NEW l \in Logs, NEW i \in Range(new[l]) PROVE i \in Records(l)
    OBVIOUS
  <2> QED
    BY <1>1, <1>3, <1>4
<1>9. \A l \in Logs \ {"events"} : \A i \in Lost(l, new) : \A h \in Logs : Name(h) = Name(l) =>
        \A k \in Range(new[h]) : i < k
  BY <1>6
<1>10. /\ RetentionTypeOK' /\ InOrder(logs)' /\ Removal' /\ Covering' /\ BackupCovers'
       /\ Staying(gone, logs)' /\ logs' = new /\ clean'.pc = "done"
       /\ clean'.shown = clean.shown /\ clean'.moved = clean.moved
       /\ Cardinality(gone') = Cardinality(gone) + Cardinality(Dropped(new))
  <2>1. "events" \in Cutting /\ "done" \in Stages \ Early
    BY DEF Cutting, Stages, Early
  <2> QED
    BY <1>2, <1>4, <1>5, <1>8, <1>9, <2>1, MovesTurn, RemovesKeeps
<1>11. Dropped(new) = D
  <2>1. \A x : x \in D <=> \E i \in Records("events") \ Range(Pruned) : x = <<"events", i>>
    OBVIOUS
  <2> HIDE DEF D
  <2>2. ASSUME NEW x \in Dropped(new) PROVE x \in D
    <3>1. PICK l \in Logs : x[1] = Name(l) /\ x[2] \in Lost(l, new)
      BY DEF Dropped
    <3>2. x = <<x[1], x[2]>>
      BY DEF Dropped
    <3>3. l = "events" /\ Name(l) = "events"
      BY <1>6, <3>1 DEF Name
    <3> QED
      BY <1>7, <2>1, <3>1, <3>2, <3>3
  <2>3. ASSUME NEW x \in D PROVE x \in Dropped(new)
    <3>1. PICK i \in Records("events") \ Range(Pruned) : x = <<"events", i>>
      BY <2>1
    <3>2. x \in Logs \X (1 .. made) /\ x[1] = "events" /\ x[2] = i /\ Name("events") = "events"
      BY <1>1, <3>1 DEF Name
    <3>3. x[2] \in Lost("events", new)
      BY <1>7, <3>2
    <3> QED
      BY <1>1, <3>2, <3>3 DEF Dropped
  <2> QED
    BY <2>2, <2>3
<1> HIDE DEF D
<1>12. Counting'
  <2>1. CASE ~quiet'
    BY <2>1 DEF Counting
  <2>2. CASE quiet'
    <3>1. clean.shown = Cardinality(gone) + clean.moved + EventExcess
      BY <2>2 DEF Moves, CleanupInv, Counting
    <3>2. Cardinality(gone) \in Nat /\ clean.moved \in Nat /\ EventExcess \in Nat
      BY InvFacts, MovesTurn, PrunedFacts
    <3> QED
      BY <1>3, <1>10, <1>11, <3>1, <3>2 DEF Counting
  <2> QED
    BY <2>1, <2>2
<1> QED
  BY <1>10, <1>12 DEF CleanupInv

----------------------------------------------------------------------------
(* What goes on meanwhile, and the other steps of a cleanup.               *)

\* A log with a record of a higher number.
LEMMA AppendAscends ==
  ASSUME NEW m \in Nat, NEW s \in Seq(1 .. m), Ascends(s), NEW n, n = m + 1
  PROVE  /\ Append(s, n) \in Seq(1 .. n) /\ Ascends(Append(s, n))
         /\ \A x : x \in Range(Append(s, n)) <=> x \in Range(s) \/ x = n
<1>1. /\ Len(s) \in Nat /\ DOMAIN s = 1 .. Len(s) /\ \A i \in 1 .. Len(s) : s[i] \in 1 .. m
      /\ \A x : x \in Range(s) <=> \E i \in 1 .. Len(s) : x = s[i]
  BY SequenceFacts
<1>2. n \in Nat /\ \A i \in 1 .. Len(s) : s[i] \in 1 .. n
  BY <1>1
<1>3. s \in Seq(1 .. n)
  BY <1>1, <1>2, SeqMonotonic
<1> DEFINE t == Append(s, n)
<1>4. /\ t \in Seq(1 .. n) /\ Len(t) = Len(s) + 1 /\ DOMAIN t = 1 .. Len(s) + 1
      /\ \A i \in 1 .. Len(s) : t[i] = s[i]
      /\ t[Len(s) + 1] = n
  BY <1>1, <1>2, <1>3
<1> HIDE DEF t
<1>5. Ascends(t)
  <2> SUFFICES ASSUME NEW i \in 1 .. Len(s) + 1, NEW k \in 1 .. Len(s) + 1, i < k PROVE t[i] < t[k]
    BY <1>4 DEF Ascends
  <2>1. i \in 1 .. Len(s) /\ t[i] = s[i] /\ s[i] \in 1 .. m
    BY <1>1, <1>4
  <2>2. CASE k = Len(s) + 1
    BY <1>4, <2>1, <2>2
  <2>3. CASE k # Len(s) + 1
    <3>1. k \in 1 .. Len(s)
      BY <1>1, <2>3
    <3> QED
      BY <1>1, <1>4, <2>1, <3>1 DEF Ascends
  <2> QED
    BY <2>2, <2>3
<1>6. \A x : x \in Range(t) <=> x \in Range(s) \/ x = n
  <2>1. \A x : x \in Range(t) <=> \E i \in 1 .. Len(s) + 1 : x = t[i]
    BY <1>4 DEF Range
  <2>2. \A i : i \in 1 .. Len(s) + 1 <=> i \in 1 .. Len(s) \/ i = Len(s) + 1
    BY <1>1
  <2> QED
    BY <1>1, <1>4, <2>1, <2>2
<1> QED
  BY <1>4, <1>5, <1>6 DEF t

LEMMA PrependDescends ==
  ASSUME NEW m \in Nat, NEW s \in Seq(1 .. m), Descends(s), NEW n, n = m + 1
  PROVE  /\ <<n>> \o s \in Seq(1 .. n) /\ Descends(<<n>> \o s)
         /\ \A x : x \in Range(<<n>> \o s) <=> x \in Range(s) \/ x = n
<1>1. /\ Len(s) \in Nat /\ DOMAIN s = 1 .. Len(s) /\ \A i \in 1 .. Len(s) : s[i] \in 1 .. m
      /\ \A x : x \in Range(s) <=> \E i \in 1 .. Len(s) : x = s[i]
  BY SequenceFacts
<1>2. n \in Nat /\ n \in 1 .. n /\ \A i \in 1 .. Len(s) : s[i] \in 1 .. n
  BY <1>1
<1>3. s \in Seq(1 .. n) /\ <<n>> \in Seq(1 .. n) /\ Len(<<n>>) = 1
  BY <1>1, <1>2, SeqMonotonic
<1> DEFINE t == <<n>> \o s
<1>4. /\ t \in Seq(1 .. n) /\ Len(t) = 1 + Len(s)
      /\ \A i \in 1 .. 1 + Len(s) : t[i] = IF i <= 1 THEN <<n>>[i] ELSE s[i - 1]
  BY <1>3, ConcatProperties
<1>5. DOMAIN t = 1 .. 1 + Len(s)
  BY <1>4
<1> HIDE DEF t
<1>6. t[1] = n /\ \A i \in 2 .. 1 + Len(s) : t[i] = s[i - 1] /\ i - 1 \in 1 .. Len(s)
  <2>1. 1 \in 1 .. 1 + Len(s) /\ \A i \in 2 .. 1 + Len(s) : i \in 1 .. 1 + Len(s) /\ ~(i <= 1) /\ i - 1 \in 1 .. Len(s)
    BY <1>1
  <2> QED
    BY <1>4, <2>1
<1>7. Descends(t)
  <2> SUFFICES ASSUME NEW i \in 1 .. 1 + Len(s), NEW k \in 1 .. 1 + Len(s), i < k PROVE t[k] < t[i]
    BY <1>5 DEF Descends
  <2>1. k \in 2 .. 1 + Len(s)
    BY <1>1
  <2>2. t[k] = s[k - 1] /\ k - 1 \in 1 .. Len(s) /\ s[k - 1] \in 1 .. m
    BY <1>1, <1>6, <2>1
  <2>3. CASE i = 1
    BY <1>6, <2>2, <2>3
  <2>4. CASE i # 1
    <3>1. i \in 2 .. 1 + Len(s) /\ i - 1 < k - 1
      BY <1>1, <2>4
    <3>2. t[i] = s[i - 1] /\ i - 1 \in 1 .. Len(s)
      BY <1>6, <3>1
    <3>3. s[i - 1] > s[k - 1]
      BY <1>1, <2>2, <3>1, <3>2 DEF Descends
    <3> QED
      BY <2>2, <3>2, <3>3
  <2> QED
    BY <2>3, <2>4
<1>8. \A x : x \in Range(t) <=> x \in Range(s) \/ x = n
  <2>1. \A x : x \in Range(t) <=> \E i \in 1 .. 1 + Len(s) : x = t[i]
    BY <1>5 DEF Range
  <2>2. \A i \in 1 .. Len(s) : i + 1 \in 2 .. 1 + Len(s) /\ (i + 1) - 1 = i
    BY <1>1
  <2>3. \A i \in 1 .. Len(s) : t[i + 1] = s[i]
    BY <1>6, <2>2
  <2>4. \A i : i \in 1 .. 1 + Len(s) <=> i = 1 \/ i \in 2 .. 1 + Len(s)
    BY <1>1
  <2>5. ASSUME NEW x, x \in Range(s) PROVE x \in Range(t)
    <3>1. PICK i \in 1 .. Len(s) : x = s[i]
      BY <1>1, <2>5
    <3>2. i + 1 \in 1 .. 1 + Len(s) /\ x = t[i + 1]
      BY <2>2, <2>3, <2>4, <3>1
    <3> QED
      BY <2>1, <3>2
  <2>6. n \in Range(t)
    BY <1>6, <2>1, <2>4
  <2>7. ASSUME NEW x, x \in Range(t), x # n PROVE x \in Range(s)
    <3>1. PICK i \in 1 .. 1 + Len(s) : x = t[i]
      BY <2>1, <2>7
    <3>2. i \in 2 .. 1 + Len(s)
      BY <1>6, <2>4, <2>7, <3>1
    <3>3. x = s[i - 1] /\ i - 1 \in 1 .. Len(s)
      BY <1>6, <3>1, <3>2
    <3> QED
      BY <1>1, <3>3
  <2> QED
    BY <2>5, <2>6, <2>7
<1> QED
  BY <1>4, <1>7, <1>8 DEF t

LEMMA RecordKeeps == ASSUME CleanupInv, NEW l \in Logs, RecordOne(l) PROVE CleanupInv'
<1>1. /\ made \in Nat /\ logs \in [Logs -> Seq(1 .. made)] /\ Descends(logs["switches"])
      /\ \A h \in Logs : logs[h] \in Seq(1 .. made) /\ Records(h) = Range(logs[h]) /\ Records(h) \subseteq 1 .. made
      /\ gone \subseteq Logs \X (1 .. made)
      /\ \A a \in Range(logs["archive"]), j \in Range(logs["jobs"]) : a < j
      /\ {"switches", "links", "jobs", "archive", "events"} \subseteq Logs
  BY InvFacts
<1>2. \A h \in Logs : h # "switches" => Ascends(logs[h])
  BY DEF CleanupInv, InOrder
<1>3. /\ l # "archive" /\ made' = made + 1 /\ quiet' = FALSE /\ old' = old /\ clean' = clean /\ backup' = backup
      /\ gone' = gone /\ slipped' = slipped
      /\ logs' = [logs EXCEPT ![l] = IF l = "switches" THEN <<made'>> \o @ ELSE Append(@, made')]
  BY DEF RecordOne
<1> DEFINE n == made'
<1>4. n \in Nat /\ n = made + 1 /\ 1 .. made \subseteq 1 .. n /\ n \in 1 .. n
  BY <1>1, <1>3
<1>5. /\ logs'[l] = (IF l = "switches" THEN <<n>> \o logs[l] ELSE Append(logs[l], n)) /\ DOMAIN logs' = Logs
      /\ \A h \in Logs : h # l => logs'[h] = logs[h]
  BY <1>1, <1>3
<1> HIDE DEF n
<1>6. /\ logs'[l] \in Seq(1 .. n) /\ (IF l = "switches" THEN Descends(logs'[l]) ELSE Ascends(logs'[l]))
      /\ \A x : x \in Range(logs'[l]) <=> x \in Range(logs[l]) \/ x = n
  <2>1. CASE l = "switches"
    <3>1. made \in Nat /\ logs[l] \in Seq(1 .. made) /\ Descends(logs[l])
      BY <1>1, <2>1
    <3> QED
      BY <1>4, <1>5, <2>1, <3>1, PrependDescends
  <2>2. CASE l # "switches"
    <3>1. made \in Nat /\ logs[l] \in Seq(1 .. made) /\ Ascends(logs[l])
      BY <1>1, <1>2, <2>2
    <3> QED
      BY <1>4, <1>5, <2>2, <3>1, AppendAscends
  <2> QED
    BY <2>1, <2>2
<1>7. logs' \in [Logs -> Seq(1 .. n)]
  <2>1. ASSUME NEW h \in Logs, h # l PROVE logs'[h] \in Seq(1 .. n)
    <3>1. logs'[h] \in Seq(1 .. made)
      BY <1>1, <1>5, <2>1
    <3> QED
      BY <1>4, <3>1, SeqMonotonic, SequenceFacts
  <2>2. logs' = [h \in Logs |-> logs'[h]]
    BY <1>1, <1>3
  <2> QED
    BY <1>6, <2>1, <2>2
<1>8. RetentionTypeOK'
  <2>1. /\ backup \in [files : SUBSET (Logs \X (1 .. made)), upto : 0 .. made] /\ slipped \subseteq 1 .. made
        /\ old \in [1..(2 * MaxLog + MaxNew) -> [age : 0..2, failed : BOOLEAN]]
        /\ clean \in [pc : {"idle", "archivefile", "rest", "switches", "jobs", "archive", "events", "done", "failed"},
                      shown : Nat, moved : Nat]
    BY DEF CleanupInv, RetentionTypeOK
  <2>2. Logs \X (1 .. made) \subseteq Logs \X (1 .. n) /\ 0 .. made \subseteq 0 .. n
    BY <1>1, <1>4
  <2>3. gone \subseteq Logs \X (1 .. n) /\ slipped \subseteq 1 .. n
    BY <1>1, <1>4, <2>1, <2>2
  <2>4. backup \in [files : SUBSET (Logs \X (1 .. n)), upto : 0 .. n]
    BY <2>1, <2>2
  <2> QED
    BY <1>3, <1>4, <1>7, <2>1, <2>3, <2>4 DEF RetentionTypeOK, n
<1>9. InOrder(logs')
  <2>1. Descends(logs'["switches"])
    BY <1>1, <1>5, <1>6
  <2>2. \A h \in Logs \ {"switches"} : Ascends(logs'[h])
    BY <1>2, <1>5, <1>6
  <2>3. logs'["archive"] = logs["archive"]
    BY <1>1, <1>3, <1>5
  <2>4. ASSUME NEW a \in Range(logs["archive"]), NEW j \in Range(logs'["jobs"]) PROVE a < j
    <3>1. j \in Range(logs["jobs"]) \/ j = n
      BY <1>1, <1>5, <1>6
    <3>2. a \in 1 .. made
      BY <1>1
    <3> QED
      BY <1>1, <1>4, <3>1, <3>2
  <2> QED
    BY <2>1, <2>2, <2>3, <2>4 DEF InOrder
<1>10. \A h \in Logs : \A i \in Range(logs'[h]) : i \in Records(h) \/ i = n
  BY <1>1, <1>5, <1>6
<1>11. backup.upto \in 0 .. made
  BY DEF CleanupInv, RetentionTypeOK
<1>12. Covering'
  <2>1. ~(n <= backup.upto)
    BY <1>1, <1>4, <1>11
  <2>2. \A i \in Range(logs'["archive"]) : i <= backup.upto => i \in Records("archive")
    BY <1>1, <1>10, <2>1
  <2> QED
    BY <1>3, <1>10, <2>1, <2>2 DEF CleanupInv, Covering, Has, Records
<1>13. Staying(gone, logs)'
  <2> SUFFICES ASSUME NEW x \in gone, x[1] # "events", NEW h \in Logs, Name(h) = x[1], NEW k \in Range(logs'[h])
               PROVE  x[2] < k
    BY <1>3 DEF Staying, Range
  <2>1. CASE k \in Records(h)
    BY <2>1 DEF CleanupInv, Staying, Records
  <2>2. CASE k = n
    <3>1. x[2] \in 1 .. made
      BY <1>1
    <3> QED
      BY <1>1, <1>4, <2>2, <3>1
  <2> QED
    BY <1>10, <2>1, <2>2
<1>14. InOrder(logs)'
  BY <1>9 DEF InOrder, Range, Ascends, Descends
<1>15. Counting'
  BY <1>3 DEF Counting
<1>16. Removal' /\ BackupCovers'
  BY <1>3 DEF CleanupInv, Removal, BackupCovers
<1> QED
  BY <1>8, <1>12, <1>13, <1>14, <1>15, <1>16 DEF CleanupInv

LEMMA TimeKeeps == ASSUME CleanupInv, TimePasses PROVE CleanupInv'
<1>1. /\ logs' = logs /\ clean' = clean /\ backup' = backup /\ gone' = gone /\ slipped' = slipped /\ made' = made
      /\ quiet' = FALSE /\ old' = [e \in DOMAIN old |-> [old[e] EXCEPT !.age = @ + 1]]
      /\ \A e \in DOMAIN old : old[e].age < 2
  BY DEF TimePasses
<1>2. old' \in [1..(2 * MaxLog + MaxNew) -> [age : 0..2, failed : BOOLEAN]]
  <2>1. old \in [1..(2 * MaxLog + MaxNew) -> [age : 0..2, failed : BOOLEAN]]
    BY DEF CleanupInv, RetentionTypeOK
  <2>2. ASSUME NEW e \in DOMAIN old PROVE [old[e] EXCEPT !.age = @ + 1] \in [age : 0..2, failed : BOOLEAN]
    <3>1. old[e] \in [age : 0..2, failed : BOOLEAN] /\ old[e].age < 2
      BY <1>1, <2>1
    <3>2. old[e].age + 1 \in 0 .. 2
      BY <3>1
    <3> QED
      BY <3>1, <3>2
  <2> QED
    BY <1>1, <2>1, <2>2
<1>3. RetentionTypeOK'
  BY <1>1, <1>2 DEF CleanupInv, RetentionTypeOK
<1>4. InOrder(logs)' /\ Staying(gone, logs)'
  BY <1>1 DEF CleanupInv, InOrder, Ascends, Descends, Range, Staying
<1> QED
  BY <1>1, <1>3, <1>4 DEF CleanupInv, Removal, Covering, Has, Records, BackupCovers, Counting

LEMMA WorkerKeeps == ASSUME CleanupInv, WorkerArchives PROVE CleanupInv'
<1> DEFINE new == Archived(JobExcess)
           moved == Range(SubSeq(logs["jobs"], 1, JobExcess))
<1>1. /\ logs' = new /\ quiet' = FALSE /\ slipped' = (IF clean.pc = "rest" THEN slipped \cup moved ELSE slipped)
      /\ old' = old /\ clean' = clean /\ backup' = backup /\ gone' = gone /\ made' = made
  BY DEF WorkerArchives, JobExcess
<1>2. /\ new \in [Logs -> Seq(1 .. made)] /\ InOrder(new)
      /\ \A l \in Logs : l \notin {"jobs", "archive"} => new[l] = logs[l]
      /\ Range(new["jobs"]) \subseteq Records("jobs")
      /\ Range(new["archive"]) \subseteq Records("archive") \cup moved
      /\ moved \subseteq Records("jobs")
  BY ArchivingFacts
<1>3. /\ made \in Nat /\ {"switches", "links", "jobs", "archive", "events"} \subseteq Logs
      /\ \A l \in Logs : Records(l) = Range(logs[l]) /\ Records(l) \subseteq 1 .. made
  BY InvFacts
<1> HIDE DEF new, moved
<1>4. RetentionTypeOK'
  <2>1. moved \subseteq 1 .. made
    BY <1>2, <1>3
  <2>2. slipped' \subseteq 1 .. made
    BY <1>1, <2>1 DEF CleanupInv, RetentionTypeOK
  <2> QED
    BY <1>1, <1>2, <2>2 DEF CleanupInv, RetentionTypeOK
<1>5. InOrder(logs)'
  BY <1>1, <1>2 DEF InOrder, Ascends, Descends, Range
<1>6. \A l \in Logs : \A i \in Range(new[l]) : \E h \in Logs : Name(h) = Name(l) /\ i \in Records(h)
  <2> SUFFICES ASSUME NEW l \in Logs, NEW i \in Range(new[l])
               PROVE  \E h \in Logs : Name(h) = Name(l) /\ i \in Records(h)
    OBVIOUS
  <2>1. CASE l \notin {"jobs", "archive"}
    <3>1. new[l] = logs[l]
      BY <1>2, <2>1
    <3> QED
      BY <1>3, <3>1
  <2>2. CASE l \in {"jobs", "archive"}
    <3>1. i \in Records("jobs") \/ i \in Records("archive")
      BY <1>2, <2>2
    <3>2. Name(l) = "jobs" /\ Name("jobs") = "jobs" /\ Name("archive") = "jobs"
      BY <2>2 DEF Name
    <3> QED
      BY <1>3, <3>1, <3>2
  <2> QED
    BY <2>1, <2>2
<1>7. Staying(gone, logs)'
  <2> SUFFICES ASSUME NEW x \in gone, x[1] # "events", NEW l \in Logs, Name(l) = x[1], NEW k \in Range(new[l])
               PROVE  x[2] < k
    BY <1>1 DEF Staying, Range
  <2>1. PICK h \in Logs : Name(h) = Name(l) /\ k \in Records(h)
    BY <1>6
  <2> QED
    BY <2>1 DEF CleanupInv, Staying, Records
<1>8. Covering'
  <2>1. ASSUME clean.pc = "rest", NEW i \in Range(new["archive"]), i <= backup.upto
        PROVE  <<Name("archive"), i>> \in backup.files \/ (Name("archive") = "jobs" /\ i \in slipped')
    <3>1. CASE i \in moved
      BY <1>1, <2>1, <3>1 DEF Name
    <3>2. CASE i \in Records("archive")
      BY <1>1, <2>1, <3>2 DEF CleanupInv, Covering, Has
    <3> QED
      BY <1>2, <3>1, <3>2
  <2>2. ASSUME clean.pc \in Cutting, NEW l \in Logs, NEW i \in Range(new[l]), i <= backup.upto
        PROVE  <<Name(l), i>> \in backup.files \/ (Name(l) = "jobs" /\ i \in slipped')
    <3>1. PICK h \in Logs : Name(h) = Name(l) /\ i \in Records(h)
      BY <1>6
    <3>2. slipped' = slipped
      BY <1>1, <2>2 DEF Cutting
    <3> QED
      BY <2>2, <3>1, <3>2 DEF CleanupInv, Covering, Has
  <2> QED
    BY <1>1, <2>1, <2>2 DEF Covering, Has, Records
<1>9. Removal' /\ BackupCovers' /\ Counting'
  BY <1>1 DEF CleanupInv, Removal, BackupCovers, Counting
<1> QED
  BY <1>4, <1>5, <1>7, <1>8, <1>9 DEF CleanupInv

\* The steps that leave the logs alone.
LEMMA OtherSteps ==
  ASSUME CleanupInv, Preview \/ BackupArchive \/ BackupRest \/ CleanupFails
  PROVE  CleanupInv'
<1>1. logs' = logs /\ old' = old /\ gone' = gone /\ slipped' = slipped /\ made' = made
  BY DEF Preview, BackupArchive, BackupRest, CleanupFails
<1>2. /\ made \in Nat /\ clean.pc \in Stages /\ clean.shown \in Nat /\ clean \in [pc : Stages, shown : Nat, moved : Nat]
      /\ gone \subseteq Logs \X (1 .. made) /\ {"switches", "links", "jobs", "archive", "events"} \subseteq Logs
      /\ \A l \in Logs : Records(l) \subseteq 1 .. made /\ Records(l) = Range(logs[l])
  BY InvFacts, LogFacts DEF CleanupInv
<1>3. InOrder(logs)' /\ Staying(gone, logs)'
  BY <1>1 DEF CleanupInv, InOrder, Ascends, Descends, Range, Staying
<1>4. Shown' = Shown /\ ArchiveExcess' = ArchiveExcess /\ EventExcess' = EventExcess
  BY <1>1, PrunedStays DEF Shown, ArchiveExcess, JobExcess, EventExcess, Pruned, Records, Expired
<1>5. CASE Preview
  <2>1. /\ clean.pc = "idle" /\ clean' = [pc |-> "archivefile", shown |-> Shown, moved |-> 0] /\ quiet' = TRUE /\ backup' = backup
    BY <1>5 DEF Preview
  <2>2. Shown \in Nat
    <3>1. \A l \in Logs : Len(logs[l]) \in Nat /\ Limit[l] \in Nat
      BY InvFacts
    <3>2. EventExcess \in Nat
      BY PrunedFacts
    <3>0. \A m, n \in Nat : Surplus(m, n) \in Nat
      BY DEF Surplus
    <3>3. Surplus(Len(logs["jobs"]), Limit["jobs"]) \in Nat
      BY <1>2, <3>0, <3>1
    <3>5. Len(logs["archive"]) + Surplus(Len(logs["jobs"]), Limit["jobs"]) \in Nat
      BY <1>2, <3>1, <3>3
    <3>4. /\ Surplus(Len(logs["switches"]), Limit["switches"]) \in Nat /\ Surplus(Len(logs["links"]), Limit["links"]) \in Nat
          /\ Surplus(Len(logs["archive"]) + Surplus(Len(logs["jobs"]), Limit["jobs"]), Limit["archive"]) \in Nat
      BY <1>2, <3>0, <3>1, <3>5
    <3> QED
      BY <3>2, <3>3, <3>4 DEF Shown, EventExcess
  <2>3. clean' \in [pc : Stages, shown : Nat, moved : Nat] /\ clean'.pc = "archivefile" /\ clean'.shown = Shown
    BY <2>1, <2>2 DEF Stages
  <2>4. RetentionTypeOK'
    BY <1>1, <2>1, <2>3 DEF CleanupInv, RetentionTypeOK, Stages
  <2>5. Counting'
    BY <1>4, <2>3 DEF Counting
  <2>6. Removal' /\ Covering' /\ BackupCovers'
    BY <1>1, <2>1, <2>3 DEF CleanupInv, Removal, Covering, Early, Cutting, BackupCovers
  <2> QED
    BY <1>3, <2>4, <2>5, <2>6 DEF CleanupInv
<1>6. CASE BackupArchive
  <2>1. /\ clean.pc = "archivefile" /\ clean' = [clean EXCEPT !.pc = "rest"] /\ quiet' = quiet
        /\ backup' = [files |-> {<<"jobs", i>> : i \in Records("archive")}, upto |-> made]
    BY <1>6 DEF BackupArchive, Moves
  <2>2. clean' \in [pc : Stages, shown : Nat, moved : Nat] /\ clean'.pc = "rest" /\ clean'.shown = clean.shown
    BY <1>2, <2>1 DEF Stages
  <2>3. backup'.files = {<<"jobs", i>> : i \in Records("archive")} /\ backup'.upto = made
    BY <2>1
  <2>4. RetentionTypeOK'
    <3>1. backup'.files \subseteq Logs \X (1 .. made) /\ backup'.upto \in 0 .. made
      BY <1>2, <2>3
    <3> QED
      BY <1>1, <2>1, <2>2, <3>1 DEF CleanupInv, RetentionTypeOK, Stages
  <2>5. Counting'
    BY <1>4, <2>1, <2>2 DEF CleanupInv, Counting
  <2>6. gone = {}
    BY <2>1 DEF CleanupInv, Removal, Early
  <2>7. Removal' /\ BackupCovers'
    BY <1>1, <2>6 DEF Removal, BackupCovers
  <2>8. Covering'
    <3>1. \A i \in Records("archive") : <<Name("archive"), i>> \in backup'.files
      BY <2>3 DEF Name
    <3> QED
      BY <1>1, <2>2, <3>1 DEF Covering, Has, Cutting, Records
  <2> QED
    BY <1>3, <2>4, <2>5, <2>7, <2>8 DEF CleanupInv
<1>7. CASE BackupRest
  <2> DEFINE files == backup.files \cup UNION {{<<l, i>> : i \in Records(l)} : l \in Logs \ {"archive"}}
  <2>1. /\ clean.pc = "rest" /\ clean' = [clean EXCEPT !.pc = "switches"] /\ quiet' = quiet
        /\ backup' = [backup EXCEPT !.files = files]
    BY <1>7 DEF BackupRest, Moves
  <2>2. clean' \in [pc : Stages, shown : Nat, moved : Nat] /\ clean'.pc = "switches" /\ clean'.shown = clean.shown
    BY <1>2, <2>1 DEF Stages
  <2>3. backup' \in [files : SUBSET (Logs \X (1 .. made)), upto : 0 .. made]
        /\ backup'.upto = backup.upto /\ backup'.files = files
    <3>1. backup \in [files : SUBSET (Logs \X (1 .. made)), upto : 0 .. made]
      BY DEF CleanupInv, RetentionTypeOK
    <3>2. files \in SUBSET (Logs \X (1 .. made))
      BY <1>2, <3>1
    <3> HIDE DEF files
    <3> QED
      BY <2>1, <3>1, <3>2
  <2> HIDE DEF files
  <2>4. RetentionTypeOK'
    BY <1>1, <2>1, <2>2, <2>3 DEF CleanupInv, RetentionTypeOK, Stages
  <2>5. Counting'
    BY <1>4, <2>1, <2>2 DEF CleanupInv, Counting
  <2>6. gone = {}
    BY <2>1 DEF CleanupInv, Removal, Early
  <2>7. Removal' /\ BackupCovers'
    BY <1>1, <2>6 DEF Removal, BackupCovers
  <2>8. Covering'
    <3>1. \A l \in Logs \ {"archive"} : \A i \in Records(l) : <<l, i>> \in files /\ Name(l) = l
      BY DEF Name, files
    <3>2. \A i \in Records("archive") : i <= backup.upto =>
            <<Name("archive"), i>> \in files \/ (Name("archive") = "jobs" /\ i \in slipped)
      BY <2>1 DEF CleanupInv, Covering, Has, files
    <3> QED
      BY <1>1, <2>2, <2>3, <3>1, <3>2 DEF Covering, Has, Records
  <2> QED
    BY <1>3, <2>4, <2>5, <2>7, <2>8 DEF CleanupInv
<1>8. CASE CleanupFails
  <2>1. clean' = [clean EXCEPT !.pc = "failed"] /\ quiet' = quiet /\ backup' = backup /\ clean.pc \notin {"done", "failed"}
    BY <1>8 DEF CleanupFails
  <2>2. clean' \in [pc : Stages, shown : Nat, moved : Nat] /\ clean'.pc = "failed"
    BY <1>2, <2>1 DEF Stages
  <2>3. RetentionTypeOK'
    BY <1>1, <2>1, <2>2 DEF CleanupInv, RetentionTypeOK, Stages
  <2> QED
    BY <1>1, <1>3, <2>1, <2>2, <2>3
       DEF CleanupInv, Removal, Covering, Early, Cutting, BackupCovers, Counting
<1> QED
  BY <1>5, <1>6, <1>7, <1>8

LEMMA CleanupStep == CleanupInv /\ [RetentionNext]_rvars => CleanupInv'
<1> SUFFICES ASSUME CleanupInv, [RetentionNext]_rvars PROVE CleanupInv'
  OBVIOUS
<1>1. CASE CompactStore
  <2>1. UNCHANGED <<old, backup, slipped, made, quiet>>
    BY <1>1 DEF CompactStore
  <2>2. CASE Moves("switches", "jobs") /\ Removes([logs EXCEPT !["switches"] = Cut("switches"), !["links"] = Cut("links")])
    BY <2>1, <2>2, CutHistories
  <2>3. CASE Turns("jobs", "archive", JobExcess) /\ Removes(Archived(JobExcess))
    BY <2>1, <2>3, MoveJobs
  <2>4. CASE Moves("archive", "events") /\ Removes([logs EXCEPT !["archive"] = Cut("archive")])
    BY <2>1, <2>4, CutArchive
  <2>5. CASE Moves("events", "done") /\ Removes([logs EXCEPT !["events"] = Pruned])
    BY <2>1, <2>5, PruneEvents
  <2> QED
    BY <1>1, <2>2, <2>3, <2>4, <2>5 DEF CompactStore, Turns, JobExcess
<1>2. CASE UNCHANGED rvars
  <2>1. /\ logs' = logs /\ old' = old /\ clean' = clean /\ backup' = backup /\ gone' = gone /\ slipped' = slipped
        /\ made' = made /\ quiet' = quiet
    BY <1>2 DEF rvars
  <2> QED
    BY <2>1 DEF CleanupInv, RetentionTypeOK, InOrder, Ascends, Descends, Range, Staying, Removal, Covering, Has,
                Records, BackupCovers, Counting, Shown, ArchiveExcess, JobExcess, EventExcess, Pruned, Expired
<1> QED
  BY <1>1, <1>2, TimeKeeps, WorkerKeeps, OtherSteps, RecordKeeps DEF RetentionNext

LEMMA CleanupMeans == CleanupInv => CleanupSafe
<1> SUFFICES ASSUME CleanupInv PROVE CleanupSafe
  OBVIOUS
<1>1. PreviewTrue
  BY DEF CleanupInv, Counting, PreviewTrue
<1>2. NewestStay
  <2> SUFFICES ASSUME NEW x \in gone, x[1] # "events",
                      NEW k \in Records(x[1]) \cup (IF x[1] = "jobs" THEN Records("archive") ELSE {})
               PROVE  k > x[2]
    BY DEF NewestStay
  <2>1. x[1] \in Logs \ {"archive"} /\ Name(x[1]) = x[1] /\ "archive" \in Logs /\ Name("archive") = "jobs"
    BY InvFacts DEF CleanupInv, Removal, Name
  <2>2. x[2] < k
    BY <2>1 DEF CleanupInv, Staying, Records
  <2>3. x[2] \in Nat /\ k \in Nat
    BY <2>1, InvFacts
  <2> QED
    BY <2>2, <2>3
<1> QED
  BY <1>1, <1>2 DEF CleanupInv, CleanupSafe

\* Whatever the program records and archives meanwhile, and wherever a cleanup
\* fails: all it removed is in its backup, but a job that was moved between the
\* two files just then; it removed the oldest records, and, if nothing else
\* happened, as many as its preview said.
THEOREM CleanupsAreSafe == RetentionInit /\ [][RetentionNext]_rvars => []CleanupSafe
<1>1. CleanupInv => CleanupSafe
  BY CleanupMeans
<1> QED
  BY <1>1, CleanupInitHolds, CleanupStep, PTL
=============================================================================
