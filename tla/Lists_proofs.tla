---------------------------- MODULE Lists_proofs ----------------------------
(***************************************************************************)
(* What the operations on a linked list do to its members and their order: *)
(* the facts every component's proofs need.                                *)
(***************************************************************************)
EXTENDS Lists, Integers, SequenceTheorems, FiniteSetTheorems, TLAPS

(* A set of natural numbers has a least element.                           *)
LEMMA LeastNat ==
  ASSUME NEW T \in SUBSET Nat, T # {}
  PROVE  \E x \in T : \A y \in T : x <= y
<1>1. IsWellFoundedOn(OpToRel(<, Nat), Nat)
  BY NatLessThanWellFounded
<1>2. PICK x \in T : \A y \in T : ~ (<<y, x>> \in OpToRel(<, Nat))
  BY <1>1, WFMin
<1>3. \A y \in T : ~ (y < x)
  BY <1>2 DEF OpToRel
<1> QED
  BY <1>3

(* A part of a sequence is a sequence over the same set.                   *)
LEMMA SubSeqType ==
  ASSUME NEW S, NEW q \in Seq(S), NEW m \in Int, NEW n \in Int, m >= 1, n <= Len(q)
  PROVE  /\ SubSeq(q, m, n) \in Seq(S)
         /\ Len(SubSeq(q, m, n)) = IF m <= n THEN n - m + 1 ELSE 0
         /\ \A i \in 1 .. n - m + 1 : SubSeq(q, m, n)[i] = q[m + i - 1]
<1>1. \A i \in m .. n : q[i] \in S
  BY ElementOfSeq, LenProperties
<1> QED
  BY <1>1, SubSeqProperties

(* A list that holds nothing twice is no longer than there are things.     *)
LEMMA OnceLength ==
  ASSUME NEW S, IsFiniteSet(S), NEW q \in Seq(S), Once(q)
  PROVE  Len(q) \in Nat /\ Cardinality(S) \in Nat /\ Len(q) <= Cardinality(S)
<1>1. Len(q) \in Nat /\ q \in [1 .. Len(q) -> S]
  BY LenProperties
<1>2. q \in Injection(1 .. Len(q), S)
  BY <1>1 DEF Once, Injection, IsInjective
<1>3. Cardinality(1 .. Len(q)) <= Cardinality(S)
  BY <1>2, FS_Injection
<1>4. Cardinality(1 .. Len(q)) = Len(q)
  BY <1>1, FS_Interval
<1> QED
  BY <1>1, <1>3, <1>4, FS_CardinalityType

(* Joining a list at the tail.                                             *)
LEMMA AppendList ==
  ASSUME NEW S, NEW q \in Seq(S), NEW t \in S
  PROVE  /\ Append(q, t) \in Seq(S)
         /\ \A x : In(Append(q, t), x) <=> In(q, x) \/ x = t
         /\ Once(q) /\ ~In(q, t) => Once(Append(q, t))
<1>1. /\ Append(q, t) \in Seq(S)
      /\ Len(Append(q, t)) = Len(q) + 1
      /\ \A i \in 1 .. Len(q) : Append(q, t)[i] = q[i]
      /\ Append(q, t)[Len(q) + 1] = t
  BY AppendProperties
<1>2. Len(q) \in Nat
  BY LenProperties
<1>3. ASSUME NEW x
      PROVE  In(Append(q, t), x) <=> In(q, x) \/ x = t
  <2>1. ASSUME In(Append(q, t), x)
        PROVE  In(q, x) \/ x = t
    BY <1>1, <1>2, <2>1 DEF In
  <2>2. ASSUME In(q, x)
        PROVE  In(Append(q, t), x)
    BY <1>1, <1>2, <2>2 DEF In
  <2>3. ASSUME x = t
        PROVE  In(Append(q, t), x)
    BY <1>1, <1>2, <2>3 DEF In
  <2> QED
    BY <2>1, <2>2, <2>3
<1>4. ASSUME Once(q), ~In(q, t)
      PROVE  Once(Append(q, t))
  BY <1>1, <1>2, <1>4 DEF In, Once
<1> QED
  BY <1>1, <1>3, <1>4

(* Taking the head off.                                                    *)
LEMMA TailList ==
  ASSUME NEW S, NEW q \in Seq(S), q # <<>>
  PROVE  /\ Head(q) \in S /\ Tail(q) \in Seq(S)
         /\ Len(q) \in Nat \ {0} /\ Len(Tail(q)) = Len(q) - 1 /\ Head(q) = q[1]
         /\ \A i \in 1 .. Len(q) - 1 : Tail(q)[i] = q[i + 1]
         /\ In(q, Head(q))
         /\ \A x : In(Tail(q), x) => In(q, x)
         /\ Once(q) => /\ Once(Tail(q))
                       /\ \A x : In(Tail(q), x) <=> In(q, x) /\ x # Head(q)
<1>1. /\ Head(q) \in S /\ Tail(q) \in Seq(S)
      /\ Len(q) \in Nat \ {0} /\ Len(Tail(q)) = Len(q) - 1 /\ Head(q) = q[1]
      /\ \A i \in 1 .. Len(q) - 1 : Tail(q)[i] = q[i + 1]
  BY HeadTailProperties, EmptySeq, LenProperties
<1>2. In(q, Head(q)) /\ \A x : In(Tail(q), x) => In(q, x)
  BY <1>1 DEF In
<1>3. ASSUME Once(q)
      PROVE  Once(Tail(q))
  BY <1>1, <1>3 DEF Once
<1>4. ASSUME Once(q), NEW x, In(Tail(q), x)
      PROVE  x # Head(q)
  BY <1>1, <1>4 DEF In, Once
<1>5. ASSUME NEW x, In(q, x), x # Head(q)
      PROVE  In(Tail(q), x)
  <2>1. PICK i \in 1 .. Len(q) : q[i] = x
    BY <1>5 DEF In
  <2>2. i - 1 \in 1 .. Len(q) - 1 /\ Tail(q)[i - 1] = x
    BY <1>1, <1>5, <2>1
  <2> QED
    BY <1>1, <2>2 DEF In
<1> QED
  BY <1>1, <1>2, <1>3, <1>4, <1>5

(* r is list q without what is at place k of it; r is list q with x linked *)
(* in at place k.                                                          *)
Removed(q, k, r) ==
  /\ Len(r) = Len(q) - 1
  /\ \A i \in 1 .. Len(q) - 1 : r[i] = IF i < k THEN q[i] ELSE q[i + 1]

Inserted(q, k, x, r) ==
  /\ Len(r) = Len(q) + 1
  /\ \A i \in 1 .. Len(q) + 1 : r[i] = IF i < k THEN q[i] ELSE IF i = k THEN x ELSE q[i - 1]

(* Two parts of a list, around a place in it, joined again without what was*)
(* at the place ...                                                        *)
LEMMA JoinAround ==
  ASSUME NEW S, NEW q \in Seq(S), NEW k \in 1 .. Len(q), NEW a \in Seq(S), NEW b \in Seq(S),
         Len(q) \in Nat,
         Len(a) = k - 1, \A i \in 1 .. k - 1 : a[i] = q[i],
         Len(b) = Len(q) - k, \A i \in 1 .. Len(q) - k : b[i] = q[k + i]
  PROVE  a \o b \in Seq(S) /\ Removed(q, k, a \o b)
<1>1. /\ a \o b \in Seq(S) /\ Len(a \o b) = Len(a) + Len(b)
      /\ \A i \in 1 .. Len(a) + Len(b) : (a \o b)[i] = IF i <= Len(a) THEN a[i] ELSE b[i - Len(a)]
  BY ConcatProperties
<1>2. Len(a \o b) = Len(q) - 1
  BY <1>1
<1>3. ASSUME NEW i \in 1 .. Len(q) - 1
      PROVE  (a \o b)[i] = IF i < k THEN q[i] ELSE q[i + 1]
  <2>1. (a \o b)[i] = IF i <= k - 1 THEN a[i] ELSE b[i - (k - 1)]
    BY <1>1
  <2>2. CASE i < k
    BY <2>1, <2>2
  <2>3. CASE i >= k
    <3>1. i - (k - 1) \in 1 .. Len(q) - k /\ k + (i - (k - 1)) = i + 1
      BY <2>3
    <3>2. b[i - (k - 1)] = q[k + (i - (k - 1))]
      BY <3>1
    <3> QED
      BY <2>1, <2>3, <3>1, <3>2
  <2> QED
    BY <2>2, <2>3
<1> QED
  BY <1>1, <1>2, <1>3 DEF Removed

(* ... or with something put in between.                                   *)
LEMMA JoinWith ==
  ASSUME NEW S, NEW q \in Seq(S), NEW t \in S, NEW k \in 1 .. Len(q) + 1,
         NEW c \in Seq(S), NEW b \in Seq(S),
         Len(q) \in Nat,
         Len(c) = k, \A i \in 1 .. k - 1 : c[i] = q[i], c[k] = t,
         Len(b) = Len(q) - k + 1, \A i \in 1 .. Len(q) - k + 1 : b[i] = q[k + i - 1]
  PROVE  c \o b \in Seq(S) /\ Inserted(q, k, t, c \o b)
<1>1. /\ c \o b \in Seq(S) /\ Len(c \o b) = Len(c) + Len(b)
      /\ \A i \in 1 .. Len(c) + Len(b) : (c \o b)[i] = IF i <= Len(c) THEN c[i] ELSE b[i - Len(c)]
  BY ConcatProperties
<1>2. Len(c \o b) = Len(q) + 1
  BY <1>1
<1>3. ASSUME NEW i \in 1 .. Len(q) + 1
      PROVE  (c \o b)[i] = IF i < k THEN q[i] ELSE IF i = k THEN t ELSE q[i - 1]
  <2>1. (c \o b)[i] = IF i <= k THEN c[i] ELSE b[i - k]
    BY <1>1
  <2>2. CASE i < k
    BY <2>1, <2>2
  <2>3. CASE i = k
    BY <2>1, <2>3
  <2>4. CASE i > k
    <3>1. i - k \in 1 .. Len(q) - k + 1 /\ k + (i - k) - 1 = i - 1
      BY <2>4
    <3>2. b[i - k] = q[k + (i - k) - 1]
      BY <3>1
    <3> QED
      BY <2>1, <2>4, <3>1, <3>2
  <2> QED
    BY <2>2, <2>3, <2>4
<1> QED
  BY <1>1, <1>2, <1>3 DEF Inserted

(* Unlinking the member at a place in the list.                            *)
LEMMA RemoveAt ==
  ASSUME NEW S, NEW q \in Seq(S), NEW k \in 1 .. Len(q)
  PROVE  /\ SubSeq(q, 1, k - 1) \o SubSeq(q, k + 1, Len(q)) \in Seq(S)
         /\ Removed(q, k, SubSeq(q, 1, k - 1) \o SubSeq(q, k + 1, Len(q)))
<1> DEFINE a == SubSeq(q, 1, k - 1)
           b == SubSeq(q, k + 1, Len(q))
<1>1. Len(q) \in Nat
  BY LenProperties
<1>2. a \in Seq(S) /\ Len(a) = k - 1 /\ \A i \in 1 .. k - 1 : a[i] = q[i]
  BY <1>1, SubSeqType
<1>3. b \in Seq(S) /\ Len(b) = Len(q) - k /\ \A i \in 1 .. Len(q) - k : b[i] = q[k + i]
  BY <1>1, SubSeqType
<1> HIDE DEF a, b
<1>4. a \o b \in Seq(S) /\ Removed(q, k, a \o b)
  BY <1>1, <1>2, <1>3, JoinAround
<1> QED
  BY <1>4 DEF a, b

(* Linking a new member in before the one at a place in the list.          *)
LEMMA InsertAt ==
  ASSUME NEW S, NEW q \in Seq(S), NEW t \in S, NEW k \in 1 .. Len(q) + 1
  PROVE  /\ SubSeq(q, 1, k - 1) \o <<t>> \o SubSeq(q, k, Len(q)) \in Seq(S)
         /\ Inserted(q, k, t, SubSeq(q, 1, k - 1) \o <<t>> \o SubSeq(q, k, Len(q)))
<1> DEFINE a == SubSeq(q, 1, k - 1)
           b == SubSeq(q, k, Len(q))
           c == a \o <<t>>
<1>1. Len(q) \in Nat
  BY LenProperties
<1>2. a \in Seq(S) /\ Len(a) = k - 1 /\ \A i \in 1 .. k - 1 : a[i] = q[i]
  BY <1>1, SubSeqType
<1>3. b \in Seq(S) /\ Len(b) = Len(q) - k + 1 /\ \A i \in 1 .. Len(q) - k + 1 : b[i] = q[k + i - 1]
  BY <1>1, SubSeqType
<1> HIDE DEF a, b
<1>4. Append(a, t) = c
  BY <1>2, AppendIsConcat
<1> HIDE DEF c
<1>5. c \in Seq(S) /\ Len(c) = k /\ (\A i \in 1 .. k - 1 : c[i] = q[i]) /\ c[k] = t
  <2>1. /\ Append(a, t) \in Seq(S) /\ Len(Append(a, t)) = Len(a) + 1
        /\ \A i \in 1 .. Len(a) : Append(a, t)[i] = a[i]
        /\ Append(a, t)[Len(a) + 1] = t
    BY <1>2, AppendProperties
  <2> QED
    BY <1>2, <1>4, <2>1
<1>6. c \o b \in Seq(S) /\ Inserted(q, k, t, c \o b)
  BY <1>1, <1>3, <1>5, JoinWith
<1> QED
  BY <1>6 DEF a, b, c

(* Linking a new member in at the head.                                    *)
LEMMA LinkFirst ==
  ASSUME NEW S, NEW q \in Seq(S), NEW t \in S
  PROVE  <<t>> \o q \in Seq(S) /\ Inserted(q, 1, t, <<t>> \o q)
<1>1. Len(q) \in Nat
  BY LenProperties
<1> DEFINE a == <<t>>
<1>2. a \in Seq(S) /\ Len(a) = 1 /\ a[1] = t
  OBVIOUS
<1> HIDE DEF a
<1>3. /\ a \o q \in Seq(S) /\ Len(a \o q) = Len(a) + Len(q)
      /\ \A i \in 1 .. Len(a) + Len(q) : (a \o q)[i] = IF i <= Len(a) THEN a[i] ELSE q[i - Len(a)]
  BY <1>2, ConcatProperties
<1>4. Inserted(q, 1, t, a \o q)
  BY <1>1, <1>2, <1>3 DEF Inserted
<1> QED
  BY <1>3, <1>4 DEF a

(* What is unlinked is no longer a member, the others still are.           *)
LEMMA RemovedList ==
  ASSUME NEW S, NEW q \in Seq(S), NEW k \in 1 .. Len(q), NEW r \in Seq(S), Removed(q, k, r)
  PROVE  /\ \A x : In(r, x) => In(q, x)
         /\ Once(q) => /\ Once(r)
                       /\ \A x : In(r, x) <=> In(q, x) /\ x # q[k]
<1>1. Len(q) \in Nat
  BY LenProperties
<1>2. Len(r) = Len(q) - 1 /\ \A i \in 1 .. Len(r) : r[i] = IF i < k THEN q[i] ELSE q[i + 1]
  BY DEF Removed
<1>3. \A i \in 1 .. Len(r) : \E m \in 1 .. Len(q) :
         m = (IF i < k THEN i ELSE i + 1) /\ m # k /\ r[i] = q[m]
  BY <1>1, <1>2
<1>4. ASSUME Once(q)
      PROVE  Once(r)
  <2>1. ASSUME NEW i \in 1 .. Len(r), NEW j \in 1 .. Len(r), r[i] = r[j]
        PROVE  i = j
    <3>1. PICK m \in 1 .. Len(q) : m = (IF i < k THEN i ELSE i + 1) /\ r[i] = q[m]
      BY <1>3
    <3>2. PICK n \in 1 .. Len(q) : n = (IF j < k THEN j ELSE j + 1) /\ r[j] = q[n]
      BY <1>3
    <3>3. m = n
      BY <1>4, <2>1, <3>1, <3>2 DEF Once
    <3> QED
      BY <1>1, <1>2, <3>1, <3>2, <3>3
  <2> QED
    BY <2>1 DEF Once
<1>5. ASSUME NEW x, In(r, x)
      PROVE  In(q, x) /\ (Once(q) => x # q[k])
  <2>1. PICK i \in 1 .. Len(r) : r[i] = x
    BY <1>5 DEF In
  <2>2. PICK m \in 1 .. Len(q) : m # k /\ q[m] = x
    BY <1>3, <2>1
  <2> QED
    BY <2>2 DEF In, Once
<1>6. ASSUME NEW x, In(q, x), x # q[k]
      PROVE  In(r, x)
  <2>1. PICK i \in 1 .. Len(q) : q[i] = x
    BY <1>6 DEF In
  <2>2. CASE i < k
    <3>1. i \in 1 .. Len(r) /\ r[i] = x
      BY <1>1, <1>2, <2>1, <2>2
    <3> QED
      BY <3>1 DEF In
  <2>3. CASE i > k
    <3>1. i - 1 \in 1 .. Len(r) /\ ~(i - 1 < k) /\ (i - 1) + 1 = i
      BY <1>1, <1>2, <2>1, <2>3
    <3>2. r[i - 1] = x
      BY <1>2, <2>1, <3>1
    <3> QED
      BY <3>1, <3>2 DEF In
  <2> QED
    BY <1>6, <2>1, <2>2, <2>3
<1> QED
  BY <1>4, <1>5, <1>6

(* What is linked in is a member, and the others still are.                *)
LEMMA InsertedList ==
  ASSUME NEW S, NEW q \in Seq(S), NEW t \in S, NEW k \in 1 .. Len(q) + 1, NEW r \in Seq(S),
         Inserted(q, k, t, r)
  PROVE  /\ \A x : In(r, x) <=> In(q, x) \/ x = t
         /\ Once(q) /\ ~In(q, t) => Once(r)
<1>1. Len(q) \in Nat
  BY LenProperties
<1>2. /\ Len(r) = Len(q) + 1 /\ k \in 1 .. Len(r) /\ r[k] = t
      /\ \A i \in 1 .. Len(r) : r[i] = IF i < k THEN q[i] ELSE IF i = k THEN t ELSE q[i - 1]
  BY <1>1 DEF Inserted
<1>3. \A n \in 1 .. Len(r) : n # k =>
         \E m \in 1 .. Len(q) : m = (IF n < k THEN n ELSE n - 1) /\ r[n] = q[m]
  BY <1>1, <1>2
<1>4. ASSUME NEW x, In(r, x)
      PROVE  In(q, x) \/ x = t
  BY <1>2, <1>3, <1>4 DEF In
<1>5. ASSUME NEW x, In(q, x)
      PROVE  In(r, x)
  <2>1. PICK i \in 1 .. Len(q) : q[i] = x
    BY <1>5 DEF In
  <2>2. CASE i < k
    <3>1. i \in 1 .. Len(r) /\ r[i] = x
      BY <1>1, <1>2, <2>1, <2>2
    <3> QED
      BY <3>1 DEF In
  <2>3. CASE i >= k
    <3>1. i + 1 \in 1 .. Len(r) /\ ~(i + 1 < k) /\ i + 1 # k /\ (i + 1) - 1 = i
      BY <1>1, <1>2, <2>1, <2>3
    <3>2. r[i + 1] = x
      BY <1>2, <2>1, <3>1
    <3> QED
      BY <3>1, <3>2 DEF In
  <2> QED
    BY <2>1, <2>2, <2>3
<1>6. ASSUME Once(q), ~In(q, t)
      PROVE  Once(r)
  <2>1. \A i \in 1 .. Len(q) : q[i] # t
    BY <1>6 DEF In
  <2>2. ASSUME NEW i \in 1 .. Len(r), NEW j \in 1 .. Len(r), r[i] = r[j]
        PROVE  i = j
    <3>1. CASE i = k \/ j = k
      BY <1>2, <1>3, <2>1, <2>2, <3>1
    <3>2. CASE i # k /\ j # k
      <4>1. PICK m \in 1 .. Len(q) : m = (IF i < k THEN i ELSE i - 1) /\ r[i] = q[m]
        BY <1>3, <3>2
      <4>2. PICK n \in 1 .. Len(q) : n = (IF j < k THEN j ELSE j - 1) /\ r[j] = q[n]
        BY <1>3, <3>2
      <4>3. m = n
        BY <1>6, <2>2, <4>1, <4>2 DEF Once
      <4> QED
        BY <1>1, <1>2, <3>2, <4>1, <4>2, <4>3
    <3> QED
      BY <3>1, <3>2
  <2> QED
    BY <2>2 DEF Once
<1> QED
  BY <1>2, <1>4, <1>5, <1>6 DEF In

(* One list behind the other.                                              *)
LEMMA ConcatList ==
  ASSUME NEW T, NEW q \in Seq(T), NEW r \in Seq(T)
  PROVE  /\ q \o r \in Seq(T)
         /\ \A x : In(q \o r, x) <=> In(q, x) \/ In(r, x)
         /\ Once(q) /\ Once(r) /\ (\A x : ~(In(q, x) /\ In(r, x))) => Once(q \o r)
<1>1. /\ q \o r \in Seq(T) /\ Len(q \o r) = Len(q) + Len(r)
      /\ \A i \in 1 .. Len(q) + Len(r) : (q \o r)[i] = IF i <= Len(q) THEN q[i] ELSE r[i - Len(q)]
      /\ Len(q) \in Nat /\ Len(r) \in Nat
  BY ConcatProperties, LenProperties
<1>2. ASSUME NEW x, In(q \o r, x)
      PROVE  In(q, x) \/ In(r, x)
  <2>1. PICK i \in 1 .. Len(q) + Len(r) : (q \o r)[i] = x
    BY <1>1, <1>2 DEF In
  <2>2. CASE i <= Len(q)
    BY <1>1, <2>1, <2>2 DEF In
  <2>3. CASE ~(i <= Len(q))
    <3>1. i - Len(q) \in 1 .. Len(r) /\ r[i - Len(q)] = x
      BY <1>1, <2>1, <2>3
    <3> QED
      BY <3>1 DEF In
  <2> QED
    BY <2>2, <2>3
<1>3. ASSUME NEW x, In(q, x)
      PROVE  In(q \o r, x)
  <2>1. PICK i \in 1 .. Len(q) : q[i] = x
    BY <1>3 DEF In
  <2>2. i \in 1 .. Len(q \o r) /\ (q \o r)[i] = x
    BY <1>1, <2>1
  <2> QED
    BY <2>2 DEF In
<1>4. ASSUME NEW x, In(r, x)
      PROVE  In(q \o r, x)
  <2>1. PICK i \in 1 .. Len(r) : r[i] = x
    BY <1>4 DEF In
  <2>2. Len(q) + i \in 1 .. Len(q \o r) /\ (q \o r)[Len(q) + i] = r[(Len(q) + i) - Len(q)]
        /\ (Len(q) + i) - Len(q) = i
    BY <1>1
  <2> QED
    BY <2>1, <2>2 DEF In
<1>5. ASSUME Once(q), Once(r), \A x : ~(In(q, x) /\ In(r, x)),
             NEW i \in 1 .. Len(q \o r), NEW j \in 1 .. Len(q \o r), (q \o r)[i] = (q \o r)[j]
      PROVE  i = j
  <2>1. CASE i <= Len(q) /\ j <= Len(q)
    BY <1>1, <1>5, <2>1 DEF Once
  <2>2. CASE ~(i <= Len(q)) /\ ~(j <= Len(q))
    <3>1. i - Len(q) \in 1 .. Len(r) /\ j - Len(q) \in 1 .. Len(r) /\ r[i - Len(q)] = r[j - Len(q)]
      BY <1>1, <1>5, <2>2
    <3>2. i - Len(q) = j - Len(q)
      BY <1>5, <3>1 DEF Once
    <3> QED
      BY <1>1, <3>2
  <2>3. CASE i <= Len(q) /\ ~(j <= Len(q))
    <3>1. i \in 1 .. Len(q) /\ j - Len(q) \in 1 .. Len(r) /\ q[i] = r[j - Len(q)]
      BY <1>1, <1>5, <2>3
    <3> QED
      BY <1>5, <3>1 DEF In
  <2>4. CASE ~(i <= Len(q)) /\ j <= Len(q)
    <3>1. j \in 1 .. Len(q) /\ i - Len(q) \in 1 .. Len(r) /\ q[j] = r[i - Len(q)]
      BY <1>1, <1>5, <2>4
    <3> QED
      BY <1>5, <3>1 DEF In
  <2> QED
    BY <2>1, <2>2, <2>3, <2>4
<1> QED
  BY <1>1, <1>2, <1>3, <1>4, <1>5 DEF Once

(* The members of a finite set of places, counted off by their rank.       *)
Rank(K, i) == Cardinality({j \in K : j <= i})

(* The numbers of a finite set, in order, are counted from 1 without gaps. *)
LEMMA Ranks ==
  ASSUME NEW K \in SUBSET Nat, IsFiniteSet(K)
  PROVE  /\ Cardinality(K) \in Nat
         /\ \A i \in K : Rank(K, i) \in 1 .. Cardinality(K)
         /\ \A i, j \in K : Rank(K, i) = Rank(K, j) => i = j
         /\ \A n \in 1 .. Cardinality(K) : \E i \in K : Rank(K, i) = n
<1> DEFINE below(i) == {j \in K : j <= i}
<1>1. Cardinality(K) \in Nat
  BY FS_CardinalityType
<1>2. ASSUME NEW i \in K
      PROVE  IsFiniteSet(below(i)) /\ Rank(K, i) \in 1 .. Cardinality(K)
  <2>1. below(i) \in SUBSET K
    OBVIOUS
  <2>2. IsFiniteSet(below(i)) /\ Cardinality(below(i)) <= Cardinality(K)
    BY <2>1, FS_Subset
  <2>3. i \in below(i)
    OBVIOUS
  <2>4. Cardinality(below(i)) # 0 /\ Cardinality(below(i)) \in Nat
    BY <2>2, <2>3, FS_EmptySet, FS_CardinalityType
  <2> QED
    BY <1>1, <2>2, <2>4 DEF Rank
<1>3. ASSUME NEW i \in K, NEW j \in K, i < j
      PROVE  Rank(K, i) # Rank(K, j)
  <2>1. below(i) \in SUBSET below(j) /\ j \in below(j) /\ j \notin below(i)
    <3>1. i \in Nat /\ j \in Nat /\ \A x \in K : x \in Nat
      OBVIOUS
    <3>2. \A x \in below(i) : x \in below(j)
      BY <1>3, <3>1
    <3>3. j <= j /\ ~(j <= i)
      BY <1>3, <3>1
    <3>4. j \in below(j) /\ j \notin below(i)
      BY <3>3
    <3> HIDE DEF below
    <3> QED
      BY <3>2, <3>4
  <2>2. IsFiniteSet(below(j))
    BY <1>2
  <2> HIDE DEF below
  <2>3. Cardinality(below(j)) = Cardinality(below(i)) => below(j) = below(i)
    BY <2>1, <2>2, FS_Subset
  <2>4. Cardinality(below(j)) # Cardinality(below(i))
    BY <2>1, <2>3
  <2> QED
    BY <2>4 DEF Rank, below
<1>4. \A i, j \in K : Rank(K, i) = Rank(K, j) => i = j
  <2>1. ASSUME NEW i \in K, NEW j \in K, Rank(K, i) = Rank(K, j), i # j
        PROVE  FALSE
    <3>1. i < j \/ j < i
      BY <2>1
    <3> QED
      BY <1>3, <2>1, <3>1
  <2> QED
    BY <2>1
<1> DEFINE f == [i \in K |-> Rank(K, i)]
<1>5. f \in Injection(K, 1 .. Cardinality(K))
  BY <1>2, <1>4 DEF Injection, IsInjective
<1>6. IsFiniteSet(1 .. Cardinality(K)) /\ Cardinality(1 .. Cardinality(K)) = Cardinality(K)
  BY <1>1, FS_Interval
<1> HIDE DEF f
<1>7. f \in Surjection(K, 1 .. Cardinality(K))
  BY <1>5, <1>6, FS_Injection
<1>8. \A n \in 1 .. Cardinality(K) : \E i \in K : Rank(K, i) = n
  BY <1>7 DEF Surjection, f
<1> QED
  BY <1>1, <1>2, <1>4, <1>8

(* What Drop() leaves of a list: the others, each once if each was there   *)
(* once.                                                                   *)
LEMMA DropList ==
  ASSUME NEW T, NEW q \in Seq(T), NEW S
  PROVE  /\ Drop(q, S) \in Seq(T)
         /\ \A x : In(Drop(q, S), x) <=> In(q, x) /\ x \notin S
         /\ Once(q) => Once(Drop(q, S))
<1> DEFINE K == {i \in 1 .. Len(q) : q[i] \notin S}
           n == Cardinality(K)
           at(m) == CHOOSE i \in K : Rank(K, i) = m
<1>1. Len(q) \in Nat
  BY LenProperties
<1>2. K \in SUBSET Nat /\ IsFiniteSet(K)
  <2>1. IsFiniteSet(1 .. Len(q)) /\ K \in SUBSET (1 .. Len(q))
    BY <1>1, FS_Interval
  <2> QED
    BY <2>1, FS_Subset
<1>3. Drop(q, S) = [m \in 1 .. n |-> q[at(m)]]
  BY DEF Drop, Rank
<1>4. \A i \in K : i \in 1 .. Len(q) /\ q[i] \notin S
  OBVIOUS
<1>5. \A i \in 1 .. Len(q) : q[i] \notin S => i \in K
  OBVIOUS
<1> HIDE DEF K
<1>6. /\ n \in Nat
      /\ \A i \in K : Rank(K, i) \in 1 .. n
      /\ \A i, j \in K : Rank(K, i) = Rank(K, j) => i = j
      /\ \A m \in 1 .. n : \E i \in K : Rank(K, i) = m
  BY <1>2, Ranks
<1>7. \A m \in 1 .. n : at(m) \in K /\ Rank(K, at(m)) = m
  BY <1>6
<1>8. \A i \in K : at(Rank(K, i)) = i
  BY <1>6, <1>7
<1> HIDE DEF at, n
<1>9. \A m \in 1 .. n : q[at(m)] \in T
  BY <1>1, <1>4, <1>7, ElementOfSeq
<1> DEFINE d == Drop(q, S)
<1>10. d \in Seq(T) /\ Len(d) = n /\ \A m \in 1 .. n : d[m] = q[at(m)]
  BY <1>3, <1>6, <1>9
<1> HIDE DEF d
<1>11. ASSUME NEW x, In(d, x)
       PROVE  In(q, x) /\ x \notin S
  BY <1>4, <1>7, <1>10, <1>11 DEF In
<1>12. ASSUME NEW x, In(q, x), x \notin S
       PROVE  In(d, x)
  <2>1. PICK i \in 1 .. Len(q) : q[i] = x
    BY <1>12 DEF In
  <2>2. i \in K
    BY <1>5, <1>12, <2>1
  <2>3. Rank(K, i) \in 1 .. Len(d) /\ d[Rank(K, i)] = x
    BY <1>6, <1>8, <1>10, <2>1, <2>2
  <2> QED
    BY <2>3 DEF In
<1>13. ASSUME Once(q)
       PROVE  Once(d)
  <2>1. ASSUME NEW a \in 1 .. Len(d), NEW b \in 1 .. Len(d), d[a] = d[b]
        PROVE  a = b
    <3>1. at(a) = at(b)
      BY <1>4, <1>7, <1>10, <1>13, <2>1 DEF Once
    <3> QED
      BY <1>7, <1>10, <3>1
  <2> QED
    BY <2>1 DEF Once
<1> QED
  BY <1>10, <1>11, <1>12, <1>13 DEF d

(* ... and in the same order.                                              *)
LEMMA DropOrder ==
  ASSUME NEW T, NEW q \in Seq(T), NEW S,
         NEW a \in 1 .. Len(Drop(q, S)), NEW b \in 1 .. Len(Drop(q, S)), a < b
  PROVE  \E i, j \in 1 .. Len(q) : i < j /\ q[i] = Drop(q, S)[a] /\ q[j] = Drop(q, S)[b]
<1> DEFINE K == {i \in 1 .. Len(q) : q[i] \notin S}
           n == Cardinality(K)
           at(m) == CHOOSE i \in K : Rank(K, i) = m
<1>1. Len(q) \in Nat
  BY LenProperties
<1>2. K \in SUBSET Nat /\ IsFiniteSet(K) /\ K \in SUBSET (1 .. Len(q))
  <2>1. IsFiniteSet(1 .. Len(q)) /\ K \in SUBSET (1 .. Len(q))
    BY <1>1, FS_Interval
  <2> QED
    BY <2>1, FS_Subset
<1>3. Drop(q, S) = [m \in 1 .. n |-> q[at(m)]]
  BY DEF Drop, Rank
<1> HIDE DEF K
<1>4. /\ n \in Nat
      /\ \A m \in 1 .. n : \E i \in K : Rank(K, i) = m
  BY <1>2, Ranks
<1>5. \A m \in 1 .. n : at(m) \in K /\ Rank(K, at(m)) = m
  BY <1>4
<1> HIDE DEF at, n
<1>6. Len(Drop(q, S)) = n
  BY <1>3, <1>4
<1>7. /\ at(a) \in K /\ at(b) \in K /\ Rank(K, at(a)) = a /\ Rank(K, at(b)) = b
      /\ Drop(q, S)[a] = q[at(a)] /\ Drop(q, S)[b] = q[at(b)]
  BY <1>3, <1>5, <1>6
<1>8. ASSUME ~(at(a) < at(b))
      PROVE  FALSE
  <2> DEFINE A == {j \in K : j <= at(a)}
             B == {j \in K : j <= at(b)}
  <2>1. \A j \in K : j \in Nat
    BY <1>2
  <2>2. B \in SUBSET A /\ A \in SUBSET K
    BY <1>7, <1>8, <2>1
  <2>3. Cardinality(A) = a /\ Cardinality(B) = b
    BY <1>7 DEF Rank
  <2> HIDE DEF A, B
  <2>4. IsFiniteSet(A)
    BY <1>2, <2>2, FS_Subset
  <2>5. Cardinality(B) <= Cardinality(A)
    BY <2>2, <2>4, FS_Subset
  <2> QED
    BY <1>4, <1>6, <2>3, <2>5
<1> QED
  BY <1>2, <1>7, <1>8

(* An empty list is one nobody is on.                                      *)
LEMMA EmptyList ==
  ASSUME NEW T, NEW q \in Seq(T)
  PROVE  q = <<>> <=> \A x \in T : ~In(q, x)
<1>1. Len(q) \in Nat /\ \A i \in 1 .. Len(q) : q[i] \in T
  BY LenProperties, ElementOfSeq
<1>2. ASSUME \A x \in T : ~In(q, x)
      PROVE  q = <<>>
  <2>1. ~(1 \in 1 .. Len(q))
    BY <1>1, <1>2 DEF In
  <2>2. Len(q) = 0
    BY <1>1, <2>1
  <2> QED
    BY <2>2, EmptySeq
<1>3. ASSUME q = <<>>
      PROVE  \A x \in T : ~In(q, x)
  BY <1>3 DEF In
<1> QED
  BY <1>2, <1>3

(* Nothing in front of a list.                                             *)
LEMMA EmptyConcat ==
  ASSUME NEW T, NEW q \in Seq(T)
  PROVE  <<>> \o q = q
OBVIOUS

(* A list of some things is one of more.                                   *)
LEMMA LargerList ==
  ASSUME NEW T, NEW S, T \subseteq S, NEW q \in Seq(T)
  PROVE  q \in Seq(S)
OBVIOUS

(* A list with one more in front.                                          *)
LEMMA PushFirst ==
  ASSUME NEW S, NEW q \in Seq(S), NEW x \in S
  PROVE  /\ <<x>> \o q \in Seq(S)
         /\ \A y : In(<<x>> \o q, y) <=> In(q, y) \/ y = x
         /\ Once(q) /\ ~In(q, x) => Once(<<x>> \o q)
<1> DEFINE r == <<x>> \o q
<1>1. r \in Seq(S) /\ Inserted(q, 1, x, r)
  BY LinkFirst
<1>2. 1 \in 1 .. Len(q) + 1
  BY LenProperties
<1> HIDE DEF r
<1>3. /\ \A y : In(r, y) <=> In(q, y) \/ y = x
      /\ Once(q) /\ ~In(q, x) => Once(r)
  BY <1>1, <1>2, InsertedList
<1> QED
  BY <1>1, <1>3 DEF r

(* Joining a queue does not change its head.                               *)
LEMMA AppendHead ==
  ASSUME NEW T, NEW q \in Seq(T), NEW x \in T, q # <<>>
  PROVE  Head(Append(q, x)) = Head(q) /\ Append(q, x) # <<>>
OBVIOUS

(* A list of one.                                                          *)
LEMMA OnlyOne ==
  ASSUME NEW T, NEW x \in T
  PROVE  /\ <<x>> \in Seq(T) /\ Once(<<x>>) /\ <<x>> # <<>> /\ Head(<<x>>) = x
         /\ \A y : In(<<x>>, y) <=> y = x
BY DEF Once, In
=============================================================================
