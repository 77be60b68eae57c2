---------------------------- MODULE QueueLemmas ----------------------------
(***************************************************************************)
(* What putting an item at the end of a queue, taking the first one, taking*)
(* one out of the middle and joining two queues do to the sequence and to  *)
(* the set of what is queued.                                              *)
(***************************************************************************)
EXTENDS Naturals, Sequences, SequencesExt, SequenceTheorems, FiniteSetTheorems, TLAPS

(* What is in the queue after an item was put at its end.                  *)
LEMMA AppendedRange ==
    ASSUME NEW S, NEW s \in Seq(S), NEW v \in S
    PROVE  /\ Append(s, v) \in Seq(S)
           /\ Len(Append(s, v)) = Len(s) + 1
           /\ \A i \in 1..Len(s) : Append(s, v)[i] = s[i]
           /\ Append(s, v)[Len(s) + 1] = v
           /\ Range(Append(s, v)) = Range(s) \cup {v}
<1>1. /\ Append(s, v) \in Seq(S) /\ Len(Append(s, v)) = Len(s) + 1
      /\ \A i \in 1..Len(s) : Append(s, v)[i] = s[i]
      /\ Append(s, v)[Len(s) + 1] = v
  OBVIOUS
<1>2. Range(Append(s, v)) = Range(s) \cup {v}
  BY <1>1 DEF Range
<1> QED  BY <1>1, <1>2

(* What is left when the first item of a queue without duplicates is gone. *)
LEMMA TailRange ==
    ASSUME NEW S, NEW s \in Seq(S), s # <<>>,
           \A i, j \in 1..Len(s) : s[i] = s[j] => i = j
    PROVE  /\ Tail(s) \in Seq(S)
           /\ Len(Tail(s)) = Len(s) - 1
           /\ \A i \in 1..(Len(s) - 1) : Tail(s)[i] = s[i + 1]
           /\ Range(Tail(s)) = Range(s) \ {s[1]}
<1>1. /\ Tail(s) \in Seq(S) /\ Len(Tail(s)) = Len(s) - 1
      /\ \A i \in 1..(Len(s) - 1) : Tail(s)[i] = s[i + 1]
      /\ Len(s) \in Nat /\ Len(s) >= 1
  OBVIOUS
<1>2. DOMAIN s = 1..Len(s) /\ DOMAIN Tail(s) = 1..(Len(s) - 1)
  BY <1>1
<1>3. ASSUME NEW v \in Range(s) \ {s[1]} PROVE v \in Range(Tail(s))
  <2>1. PICK k \in 1..Len(s) : s[k] = v
    BY <1>2 DEF Range
  <2>2. k - 1 \in 1..(Len(s) - 1) /\ Tail(s)[k - 1] = s[k]
    BY <2>1, <1>1
  <2> QED  BY <2>1, <2>2, <1>2 DEF Range
<1>4. ASSUME NEW v \in Range(Tail(s)) PROVE v \in Range(s) \ {s[1]}
  <2>1. PICK k \in 1..(Len(s) - 1) : Tail(s)[k] = v
    BY <1>2 DEF Range
  <2>2. k + 1 \in 1..Len(s) /\ s[k + 1] = v /\ 1 \in 1..Len(s) /\ k + 1 # 1
    BY <2>1, <1>1
  <2> QED  BY <2>2, <1>2 DEF Range
<1> QED  BY <1>1, <1>3, <1>4

(* A queue that nothing is in is the empty one.                            *)
LEMMA EmptyRange ==
    ASSUME NEW S, NEW s \in Seq(S), Range(s) = {} PROVE s = <<>>
<1>1. 1 \in DOMAIN s => s[1] \in Range(s)
  BY DEF Range
<1> QED  BY <1>1

(* The community modules have two names for the set of what is queued.     *)
LEMMA ToSetIsRange == \A s : ToSet(s) = Range(s)
BY DEF ToSet, Range

(* What is left when the item at some place of a queue without duplicates  *)
(* is taken out; the rest moves up.                                        *)
LEMMA RemovedAt ==
    ASSUME NEW S, NEW s \in Seq(S), NEW k \in 1..Len(s),
           \A i, j \in 1..Len(s) : s[i] = s[j] => i = j
    PROVE  /\ RemoveFirst(s, s[k]) = RemoveAt(s, k)
           /\ RemoveFirst(s, s[k]) \in Seq(S)
           /\ Len(RemoveFirst(s, s[k])) = Len(s) - 1
           /\ \A i \in 1..(Len(s) - 1) :
                RemoveFirst(s, s[k])[i] = IF i < k THEN s[i] ELSE s[i + 1]
           /\ Range(RemoveFirst(s, s[k])) = Range(s) \ {s[k]}
<1> DEFINE n == Len(s)
           a == SubSeq(s, 1, k - 1)
           b == SubSeq(s, k + 1, n)
           r == RemoveFirst(s, s[k])
<1>1. n \in Nat /\ DOMAIN s = 1..n /\ \A i \in 1..n : s[i] \in S
  OBVIOUS
<1>2. r = a \o b
  <2>1. { i \in 1..Len(s) : s[i] = s[k] } = {k}
    BY <1>1
  <2>2. Min({k}) = k
    BY DEF Min
  <2> QED  BY <1>1, <2>1, <2>2 DEF RemoveFirst, SelectInSeq, RemoveAt
<1>3. a \in Seq(S) /\ Len(a) = k - 1 /\ \A i \in 1..(k - 1) : a[i] = s[i]
  BY <1>1, SubSeqProperties
<1>4. b \in Seq(S) /\ Len(b) = n - k /\ \A i \in 1..(n - k) : b[i] = s[k + i]
  <2>1. /\ k + 1 \in Int /\ n \in Int
        /\ \A i \in (k + 1)..n : s[i] \in S
    BY <1>1
  <2>2. /\ b \in Seq(S)
        /\ Len(b) = IF k + 1 <= n THEN n - (k + 1) + 1 ELSE 0
        /\ \A i \in 1..(n - (k + 1) + 1) : b[i] = s[(k + 1) + i - 1]
    BY <2>1, SubSeqProperties
  <2>3. n - (k + 1) + 1 = n - k /\ \A i \in 1..(n - k) : (k + 1) + i - 1 = k + i
    BY <1>1
  <2> HIDE DEF b
  <2>4. Len(b) = n - k
    <3>1. k \in Int /\ n \in Int /\ k <= n
      BY <1>1
    <3> HIDE DEF n
    <3>2. Len(b) = IF k + 1 <= n THEN n - (k + 1) + 1 ELSE 0
      BY <2>2
    <3> QED  BY <3>1, <3>2
  <2> QED  BY <2>2, <2>3, <2>4
<1> HIDE DEF a, b, r
<1>8. /\ r \in Seq(S) /\ Len(r) = Len(a) + Len(b)
      /\ \A i \in 1..(Len(a) + Len(b)) : r[i] = IF i <= Len(a) THEN a[i] ELSE b[i - Len(a)]
  <2>1. a \in Seq(S) /\ b \in Seq(S)
    BY <1>3, <1>4
  <2>2. /\ a \o b \in Seq(S) /\ Len(a \o b) = Len(a) + Len(b)
        /\ \A i \in 1..(Len(a) + Len(b)) :
             (a \o b)[i] = IF i <= Len(a) THEN a[i] ELSE b[i - Len(a)]
    BY <2>1, ConcatProperties
  <2> QED  BY <1>2, <2>2
<1>5. r \in Seq(S) /\ Len(r) = n - 1
  BY <1>1, <1>3, <1>4, <1>8
<1>6. ASSUME NEW i \in 1..(n - 1) PROVE r[i] = IF i < k THEN s[i] ELSE s[i + 1]
  <2>1. r[i] = IF i <= k - 1 THEN a[i] ELSE b[i - (k - 1)]
    BY <1>1, <1>3, <1>4, <1>8
  <2>2. CASE i < k
    BY <1>1, <1>3, <2>1, <2>2
  <2>3. CASE ~(i < k)
    <3>1. i - (k - 1) \in 1..(n - k) /\ k + (i - (k - 1)) = i + 1
      BY <1>1, <2>3
    <3> QED  BY <1>1, <1>4, <2>1, <2>3, <3>1
  <2> QED  BY <2>2, <2>3
<1>7. Range(r) = Range(s) \ {s[k]}
  <2>1. DOMAIN r = 1..(n - 1)
    BY <1>5
  <2>2. ASSUME NEW v \in Range(s) \ {s[k]} PROVE v \in Range(r)
    <3>1. PICK j \in 1..n : s[j] = v /\ j # k
      BY <1>1 DEF Range
    <3>2. CASE j < k
      BY <3>1, <3>2, <1>1, <1>6, <2>1 DEF Range
    <3>3. CASE j > k
      <4>1. j - 1 \in 1..(n - 1) /\ r[j - 1] = s[j]
        BY <3>1, <3>3, <1>1, <1>6
      <4> QED  BY <3>1, <4>1, <2>1 DEF Range
    <3> QED  BY <3>1, <3>2, <3>3
  <2>3. ASSUME NEW v \in Range(r) PROVE v \in Range(s) \ {s[k]}
    <3>1. PICK j \in 1..(n - 1) : r[j] = v
      BY <2>1 DEF Range
    <3>2. PICK m \in 1..n : m # k /\ s[m] = v
      BY <3>1, <1>1, <1>6
    <3> QED  BY <3>2, <1>1 DEF Range
  <2> QED  BY <2>2, <2>3
<1>9. r = RemoveAt(s, k)
  BY <1>2 DEF a, b, RemoveAt
<1> QED  BY <1>5, <1>6, <1>7, <1>9 DEF r

(* What it means for a queue to have no duplicates.                        *)
LEMMA NoDuplicates ==
    ASSUME NEW S, NEW s \in Seq(S)
    PROVE  IsInjective(s) <=> \A i, j \in 1..Len(s) : s[i] = s[j] => i = j
BY DEF IsInjective

(* A queue without duplicates still has none when an item that is not in   *)
(* it is put at its end.                                                   *)
LEMMA Appended ==
    ASSUME NEW S, NEW s \in Seq(S), IsInjective(s), NEW v \in S, v \notin ToSet(s)
    PROVE  /\ Append(s, v) \in Seq(S) /\ IsInjective(Append(s, v))
           /\ ToSet(Append(s, v)) = ToSet(s) \cup {v}
<1>1. /\ Append(s, v) \in Seq(S) /\ Len(Append(s, v)) = Len(s) + 1
      /\ \A i \in 1..Len(s) : Append(s, v)[i] = s[i]
      /\ Append(s, v)[Len(s) + 1] = v
      /\ Range(Append(s, v)) = Range(s) \cup {v}
  BY AppendedRange
<1>2. DOMAIN s = 1..Len(s) /\ DOMAIN Append(s, v) = 1..(Len(s) + 1) /\ Len(s) \in Nat
  BY <1>1
<1>3. \A i \in 1..Len(s) : s[i] # v
  BY <1>2 DEF ToSet
<1>4. IsInjective(Append(s, v))
  BY <1>1, <1>2, <1>3 DEF IsInjective
<1> QED  BY <1>1, <1>4, ToSetIsRange

(* It still has none when its first item is taken ...                      *)
LEMMA FirstGone ==
    ASSUME NEW S, NEW s \in Seq(S), IsInjective(s), s # <<>>
    PROVE  /\ Tail(s) \in Seq(S) /\ IsInjective(Tail(s))
           /\ Head(s) \in ToSet(s) /\ Head(s) \in S
           /\ ToSet(Tail(s)) = ToSet(s) \ {Head(s)}
<1>1. DOMAIN s = 1..Len(s) /\ Len(s) \in Nat /\ Len(s) >= 1 /\ Head(s) = s[1]
  OBVIOUS
<1>2. /\ Tail(s) \in Seq(S) /\ Len(Tail(s)) = Len(s) - 1
      /\ \A i \in 1..(Len(s) - 1) : Tail(s)[i] = s[i + 1]
      /\ Range(Tail(s)) = Range(s) \ {s[1]}
  BY <1>1, TailRange DEF IsInjective
<1>3. DOMAIN Tail(s) = 1..(Len(s) - 1)
  BY <1>1, <1>2
<1>4. IsInjective(Tail(s))
  <2> SUFFICES ASSUME NEW i \in 1..(Len(s) - 1), NEW j \in 1..(Len(s) - 1), Tail(s)[i] = Tail(s)[j]
               PROVE  i = j
    BY <1>3 DEF IsInjective
  <2>1. i + 1 \in 1..Len(s) /\ j + 1 \in 1..Len(s)
    BY <1>1
  <2>2. s[i + 1] = s[j + 1]
    BY <1>2
  <2>3. i + 1 = j + 1
    BY <1>1, <2>1, <2>2 DEF IsInjective
  <2> QED  BY <1>1, <2>3
<1>5. Head(s) \in ToSet(s) /\ Head(s) \in S
  BY <1>1 DEF ToSet
<1> QED  BY <1>1, <1>2, <1>4, <1>5, ToSetIsRange

(* ... or any other.                                                       *)
LEMMA OneGone ==
    ASSUME NEW S, NEW s \in Seq(S), IsInjective(s), NEW v \in ToSet(s)
    PROVE  /\ RemoveFirst(s, v) \in Seq(S) /\ IsInjective(RemoveFirst(s, v))
           /\ ToSet(RemoveFirst(s, v)) = ToSet(s) \ {v}
<1>1. DOMAIN s = 1..Len(s) /\ Len(s) \in Nat
  OBVIOUS
<1>2. PICK k \in 1..Len(s) : v = s[k]
  BY <1>1 DEF ToSet
<1> DEFINE r == RemoveFirst(s, s[k])
<1>3. /\ r \in Seq(S) /\ Len(r) = Len(s) - 1
      /\ \A i \in 1..(Len(s) - 1) : r[i] = IF i < k THEN s[i] ELSE s[i + 1]
      /\ Range(r) = Range(s) \ {s[k]}
  <2>1. \A i, j \in 1..Len(s) : s[i] = s[j] => i = j
    BY NoDuplicates
  <2> QED  BY <2>1, RemovedAt
<1> HIDE DEF r
<1>4. DOMAIN r = 1..(Len(s) - 1)
  BY <1>1, <1>3
<1>5. IsInjective(r)
  <2> SUFFICES ASSUME NEW i \in 1..(Len(s) - 1), NEW j \in 1..(Len(s) - 1), r[i] = r[j]
               PROVE  i = j
    BY <1>4 DEF IsInjective
  <2> DEFINE at(x) == IF x < k THEN x ELSE x + 1
  <2>1. at(i) \in 1..Len(s) /\ at(j) \in 1..Len(s) /\ r[i] = s[at(i)] /\ r[j] = s[at(j)]
    BY <1>1, <1>3
  <2>2. at(i) = at(j)
    BY <1>1, <2>1 DEF IsInjective
  <2> QED  BY <1>1, <2>2
<1> QED  BY <1>2, <1>3, <1>5, ToSetIsRange DEF r

(* Two queues without duplicates and without a common item, one after the  *)
(* other.                                                                  *)
LEMMA Joined ==
    ASSUME NEW S, NEW s \in Seq(S), NEW t \in Seq(S), IsInjective(s), IsInjective(t),
           ToSet(s) \cap ToSet(t) = {}
    PROVE  /\ s \o t \in Seq(S) /\ IsInjective(s \o t)
           /\ ToSet(s \o t) = ToSet(s) \cup ToSet(t)
<1> DEFINE c == s \o t
<1>1. /\ c \in Seq(S) /\ Len(c) = Len(s) + Len(t)
      /\ \A i \in 1..(Len(s) + Len(t)) : c[i] = IF i <= Len(s) THEN s[i] ELSE t[i - Len(s)]
  BY ConcatProperties
<1> HIDE DEF c
<1>2. /\ DOMAIN s = 1..Len(s) /\ DOMAIN t = 1..Len(t) /\ DOMAIN c = 1..(Len(s) + Len(t))
      /\ Len(s) \in Nat /\ Len(t) \in Nat
  BY <1>1
<1>3. /\ \A i \in 1..Len(s) : c[i] = s[i] /\ s[i] \in ToSet(s)
      /\ \A i \in 1..Len(t) : c[Len(s) + i] = t[i] /\ t[i] \in ToSet(t)
      /\ \A i \in DOMAIN c : i \in 1..Len(s) \/ \E j \in 1..Len(t) : i = Len(s) + j
  <2>1. \A i \in 1..Len(s) : c[i] = s[i] /\ s[i] \in ToSet(s)
    BY <1>1, <1>2 DEF ToSet
  <2>2. ASSUME NEW i \in 1..Len(t) PROVE c[Len(s) + i] = t[i] /\ t[i] \in ToSet(t)
    <3>1. Len(s) + i \in 1..(Len(s) + Len(t)) /\ ~(Len(s) + i <= Len(s)) /\ Len(s) + i - Len(s) = i
      BY <1>2
    <3> QED  BY <1>1, <1>2, <3>1 DEF ToSet
  <2>3. ASSUME NEW i \in DOMAIN c, i \notin 1..Len(s) PROVE \E j \in 1..Len(t) : i = Len(s) + j
    <3>1. i - Len(s) \in 1..Len(t) /\ i = Len(s) + (i - Len(s))
      BY <1>2, <2>3
    <3> QED  BY <3>1
  <2> QED  BY <2>1, <2>2, <2>3
<1>4. IsInjective(c)
  <2> SUFFICES ASSUME NEW i \in DOMAIN c, NEW j \in DOMAIN c, c[i] = c[j] PROVE i = j
    BY DEF IsInjective
  <2>1. CASE i \in 1..Len(s) /\ j \in 1..Len(s)
    BY <1>2, <1>3, <2>1 DEF IsInjective
  <2>2. CASE ~(i \in 1..Len(s) /\ j \in 1..Len(s))
    <3>1. i \notin 1..Len(s) /\ j \notin 1..Len(s)
      BY <1>3, <2>2
    <3>2. PICK k \in 1..Len(t), m \in 1..Len(t) : i = Len(s) + k /\ j = Len(s) + m
      BY <1>3, <3>1
    <3>3. t[k] = t[m]
      BY <1>3, <3>2
    <3> QED  BY <1>2, <3>2, <3>3 DEF IsInjective
  <2> QED  BY <2>1, <2>2
<1>5. ToSet(c) = ToSet(s) \cup ToSet(t)
  <2>1. \A i \in DOMAIN c : c[i] \in ToSet(s) \cup ToSet(t)
    BY <1>3
  <2>2. \A i \in 1..Len(s) : s[i] \in ToSet(c)
    BY <1>2, <1>3 DEF ToSet
  <2>3. \A i \in 1..Len(t) : t[i] \in ToSet(c)
    <3>1. \A i \in 1..Len(t) : Len(s) + i \in DOMAIN c
      BY <1>2
    <3> QED  BY <1>3, <3>1 DEF ToSet
  <2> QED  BY <1>2, <2>1, <2>2, <2>3 DEF ToSet
<1> QED  BY <1>1, <1>4, <1>5 DEF c

(* An item put into the second of two queues is the last of both.          *)
LEMMA JoinedAppended ==
    ASSUME NEW S, NEW s \in Seq(S), NEW t \in Seq(S), NEW v \in S
    PROVE  s \o Append(t, v) = Append(s \o t, v)
<1>1. <<v>> \in Seq(S)
  OBVIOUS
<1>2. Append(t, v) = t \o <<v>> /\ Append(s \o t, v) = (s \o t) \o <<v>>
  BY AppendIsConcat, ConcatProperties
<1> QED  BY <1>1, <1>2, ConcatAssociative

(* An item that goes from one queue to the next keeps its place in both.   *)
LEMMA PassedOn ==
    ASSUME NEW S, NEW s \in Seq(S), NEW t \in Seq(S), t # <<>>
    PROVE  Append(s, Head(t)) \o Tail(t) = s \o t
<1>1. Head(t) \in S /\ Tail(t) \in Seq(S) /\ <<Head(t)>> \in Seq(S)
  BY HeadTailProperties
<1>2. Append(s, Head(t)) = s \o <<Head(t)>>
  BY <1>1, AppendIsConcat
<1>3. <<Head(t)>> \o Tail(t) = t
  OBVIOUS
<1> QED  BY <1>1, <1>2, <1>3, ConcatAssociative

(* A queue without duplicates is no longer than there are items.           *)
LEMMA NotTooLong ==
    ASSUME NEW S, IsFiniteSet(S), NEW s \in Seq(S), IsInjective(s)
    PROVE  Len(s) \in 0..Cardinality(S)
<1>1. Len(s) \in Nat /\ s \in [1..Len(s) -> S]
  BY LenProperties
<1>2. s \in Injection(1..Len(s), S)
  BY <1>1 DEF Injection
<1>3. Cardinality(1..Len(s)) <= Cardinality(S)
  BY <1>2, FS_Injection
<1>4. Cardinality(1..Len(s)) = Len(s)
  <2>1. 1 \in Int /\ Len(s) \in Int
    BY <1>1
  <2>2. Cardinality(1..Len(s)) = IF 1 > Len(s) THEN 0 ELSE Len(s) - 1 + 1
    BY <2>1, FS_Interval
  <2> QED  BY <1>1, <2>2
<1>5. Cardinality(S) \in Nat
  BY FS_CardinalityType
<1> QED  BY <1>1, <1>3, <1>4, <1>5

(* An array of all items holds each of them once.                          *)
LEMMA ArrayOfAll ==
    ASSUME NEW S, IsFiniteSet(S), NEW q \in SetToSeqs(S)
    PROVE  q \in Seq(S) /\ ToSet(q) = S /\ IsInjective(q)
<1> DEFINE n == Cardinality(S)
<1>1. n \in Nat
  BY FS_CardinalityType
<1>2. q \in [1..n -> S] /\ \A j, k \in 1..n : q[j] = q[k] => j = k
  BY DEF SetToSeqs
<1>3. q \in Injection(1..n, S)
  BY <1>2 DEF Injection, IsInjective
<1>4. IsFiniteSet(1..n) /\ Cardinality(1..n) = n
  BY <1>1, FS_Interval
<1>5. q \in Surjection(1..n, S)
  BY <1>1, <1>3, <1>4, FS_Injection
<1>6. ToSet(q) = S
  BY <1>2, <1>5 DEF Surjection, ToSet
<1>7. q \in Seq(S)
  BY <1>1, <1>2
<1> QED  BY <1>2, <1>3, <1>6, <1>7 DEF Injection
=============================================================================
