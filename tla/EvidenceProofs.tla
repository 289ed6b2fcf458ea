----------------------------- MODULE EvidenceProofs -----------------------------
(***************************************************************************)
(* Safety of the evidence that the evaluations leave, for every split, any *)
(* number of processes and attempts, and whatever is measured: that the    *)
(* threshold of a calibration is the highest its rows allow, and that what *)
(* a stage completes with is what its loader will make of it again.        *)
(***************************************************************************)
EXTENDS EvaluationProofs

USE DEF vars, frame, fitFiles, collectFiles, auditFiles, evaluationFiles

-----------------------------------------------------------------------------
(* Folds.                                                                  *)

\* What holds of no steps, and of one more, holds of all.
LEMMA StepByStep ==
  ASSUME NEW n \in Nat, NEW S, 0 \in S, \A k \in 1..n : k - 1 \in S => k \in S
  PROVE  n \in S
<1> SUFFICES ASSUME n \notin S PROVE FALSE
  OBVIOUS
<1> DEFINE T == {k \in 0..n : k \notin S}
<1>1. T \in SUBSET Nat /\ T # {}
  OBVIOUS
<1>2. PICK m \in T : \A k \in T : m <= k
  <2> HIDE DEF T
  <2> QED
    BY <1>1, LeastNatural
<1>3. m \in 1..n /\ m - 1 \in 0..n /\ ~(m <= m - 1)
  BY <1>2
<1>4. m - 1 \notin S
  BY <1>2, <1>3
<1>5. m - 1 \in T
  BY <1>3, <1>4
<1> QED
  BY <1>2, <1>3, <1>5

LEMMA GreatestOf ==
  ASSUME NEW n \in Nat, NEW s \in SUBSET (1..n), s # {}
  PROVE  Max(s) \in s /\ \A i \in s : i <= Max(s)
<1> DEFINE T == {n - i : i \in s}
<1>1. T \in SUBSET Nat /\ T # {}
  <2>1. \A i \in s : i \in 1..n
    OBVIOUS
  <2>2. \A i \in s : n - i \in Nat
    BY <2>1
  <2> QED
    BY <2>2
<1>2. PICK m \in T : \A k \in T : m <= k
  <2> HIDE DEF T
  <2> QED
    BY <1>1, LeastNatural
<1>3. PICK x \in s : m = n - x
  BY <1>2
<1>4. ASSUME NEW y \in s PROVE x >= y
  <2>1. n - y \in T /\ x \in 1..n /\ y \in 1..n
    OBVIOUS
  <2>2. n - x <= n - y
    BY <1>2, <1>3, <2>1
  <2> QED
    BY <2>1, <2>2
<1>5. \E z \in s : \A y \in s : z >= y
  BY <1>4
<1>6. Max(s) \in s /\ \A y \in s : Max(s) >= y
  BY <1>5 DEF Max
<1>7. \A i \in s : i \in Nat
  OBVIOUS
<1> QED
  BY <1>6, <1>7

LEMMA GreatestUpTo ==
  ASSUME NEW k \in Nat \ {0}
  PROVE  Max(1..k) = k /\ (1..k) \ {k} = 1..k - 1
<1>1. 1..k \in SUBSET (1..k) /\ k \in 1..k
  OBVIOUS
<1>2. Max(1..k) \in 1..k /\ \A i \in 1..k : i <= Max(1..k)
  BY <1>1, GreatestOf
<1>3. k <= Max(1..k)
  BY <1>1, <1>2
<1> QED
  BY <1>2, <1>3

-----------------------------------------------------------------------------
(* The two passes over the risk levels.                                    *)

\* What the first k levels that are in P have counted, and the last of them.
LEMMA LevelsCounted ==
  ASSUME NEW n \in Nat, NEW P \in SUBSET (1..n), NEW it,
         it = [s \in SUBSET (1..n) |->
                 IF s = {} THEN 0
                 ELSE it[s \ {Max(s)}] + (IF Max(s) \in P THEN 1 ELSE 0)]
  PROVE  it[1..n] = Cardinality(P)
<1> DEFINE S == {k \in 0..n : it[1..k] = Cardinality(P \intersect (1..k))}
<1>1. 0 \in S
  <2>1. 1..0 = {} /\ P \intersect (1..0) = {} /\ {} \in SUBSET (1..n)
    OBVIOUS
  <2>2. it[{}] = 0
    BY <2>1
  <2> QED
    BY <2>1, <2>2, FS_EmptySet
<1>2. ASSUME NEW k \in 1..n, k - 1 \in S
      PROVE  k \in S
  <2>1. k \in Nat \ {0} /\ k - 1 \in 0..n /\ k \in 0..n /\ 1..k \in SUBSET (1..n) /\ 1..k # {}
    <3>1. k \in Nat \ {0} /\ k - 1 \in 0..n /\ k \in 0..n /\ k \in 1..k
      OBVIOUS
    <3>2. \A i \in 1..k : i \in 1..n
      OBVIOUS
    <3> QED
      BY <3>1, <3>2
  <2>2. Max(1..k) = k /\ (1..k) \ {k} = 1..k - 1
    BY <2>1, GreatestUpTo
  <2>3. it[1..k] = it[1..k - 1] + (IF k \in P THEN 1 ELSE 0)
    BY <2>1, <2>2
  <2>4. it[1..k - 1] = Cardinality(P \intersect (1..k - 1))
    BY <1>2
  <2>5. P \intersect (1..k) = IF k \in P THEN (P \intersect (1..k - 1)) \union {k}
                             ELSE P \intersect (1..k - 1)
    BY <2>1
  <2>6. IsFiniteSet(P \intersect (1..k - 1)) /\ k \notin P \intersect (1..k - 1)
    <3>1. IsFiniteSet(1..k - 1)
      BY <2>1, FS_Interval
    <3> QED
      BY <3>1, FS_Subset
  <2>7. /\ Cardinality((P \intersect (1..k - 1)) \union {k}) = Cardinality(P \intersect (1..k - 1)) + 1
        /\ Cardinality(P \intersect (1..k - 1)) \in Nat
    BY <2>6, FS_AddElement, FS_CardinalityType
  <2>8. it[1..k] = Cardinality(P \intersect (1..k))
    <3> DEFINE before == P \intersect (1..k - 1)
    <3> HIDE DEF before
    <3>1. Cardinality(P \intersect (1..k)) = IF k \in P THEN Cardinality(before) + 1 ELSE Cardinality(before)
      BY <2>5, <2>7 DEF before
    <3>2. Cardinality(before) \in Nat /\ it[1..k - 1] = Cardinality(before)
      BY <2>4, <2>7 DEF before
    <3>3. CASE k \in P
      <4>1. it[1..k] = it[1..k - 1] + 1
        BY <2>3, <3>3
      <4> QED
        BY <3>1, <3>2, <3>3, <4>1
    <3>4. CASE k \notin P
      <4>1. it[1..k] = it[1..k - 1] + 0
        BY <2>3, <3>4
      <4>2. Cardinality(before) + 0 = Cardinality(before)
        BY <3>2
      <4> QED
        BY <3>1, <3>2, <3>4, <4>1, <4>2
    <3> QED
      BY <3>3, <3>4
  <2> QED
    BY <2>1, <2>8
<1>3. n \in S
  <2> HIDE DEF S
  <2> QED
    BY <1>1, <1>2, StepByStep
<1>4. P \intersect (1..n) = P
  OBVIOUS
<1> QED
  BY <1>3, <1>4

LEMMA CountingExists ==
  ASSUME NEW n \in Nat, NEW P \in SUBSET (1..n)
  PROVE  \E it : it = [s \in SUBSET (1..n) |->
                        IF s = {} THEN 0
                        ELSE it[s \ {Max(s)}] + (IF Max(s) \in P THEN 1 ELSE 0)]
<1> DEFINE W == [s \in SUBSET (1..n) |-> Cardinality(s \intersect P)]
<1>1. ASSUME NEW s \in SUBSET (1..n)
      PROVE  W[s] = IF s = {} THEN 0 ELSE W[s \ {Max(s)}] + (IF Max(s) \in P THEN 1 ELSE 0)
  <2>1. CASE s = {}
    BY <2>1, FS_EmptySet
  <2>2. CASE s # {}
    <3>1. Max(s) \in s
      BY <2>2, GreatestOf
    <3> DEFINE x == Max(s)  rest == (s \ {x}) \intersect P
    <3>2. s \intersect P = IF x \in P THEN rest \union {x} ELSE rest
      BY <3>1
    <3>3. IsFiniteSet(rest) /\ x \notin rest
      <4>1. IsFiniteSet(1..n)
        BY FS_Interval
      <4> QED
        BY <4>1, FS_Subset
    <3>4. Cardinality(rest \union {x}) = Cardinality(rest) + 1 /\ Cardinality(rest) \in Nat
      BY <3>3, FS_AddElement, FS_CardinalityType
    <3>5. W[s] = Cardinality(s \intersect P) /\ W[s \ {x}] = Cardinality(rest)
      OBVIOUS
    <3> HIDE DEF rest, W
    <3>6. Cardinality(s \intersect P) = IF x \in P THEN Cardinality(rest) + 1 ELSE Cardinality(rest)
      BY <3>2, <3>4
    <3>7. W[s] = W[s \ {x}] + (IF x \in P THEN 1 ELSE 0)
      BY <3>4, <3>5, <3>6
    <3> QED
      BY <2>2, <3>7
  <2> QED
    BY <2>1, <2>2
<1> HIDE DEF W
<1>2. W = [s \in SUBSET (1..n) |-> W[s]]
  BY DEF W
<1>3. W = [s \in SUBSET (1..n) |->
             IF s = {} THEN 0 ELSE W[s \ {Max(s)}] + (IF Max(s) \in P THEN 1 ELSE 0)]
  BY <1>1, <1>2
<1> QED
  BY <1>3

\* A pass that keeps what the last level in P has given.
KeepingLast(n, P, base, R, it) ==
  [s \in SUBSET (1..n) |-> IF s = {} THEN base
                           ELSE IF Max(s) \in P THEN R[Max(s)] ELSE it[s \ {Max(s)}]]

LastOf(P, base, R) == IF P = {} THEN base ELSE R[Max(P)]

LEMMA LastKept ==
  ASSUME NEW n \in Nat, NEW P \in SUBSET (1..n), NEW base, NEW R, NEW it,
         it = KeepingLast(n, P, base, R, it)
  PROVE  it[1..n] = LastOf(P, base, R)
<1>0. it = [s \in SUBSET (1..n) |->
              IF s = {} THEN base
              ELSE IF Max(s) \in P THEN R[Max(s)] ELSE it[s \ {Max(s)}]]
  BY DEF KeepingLast
<1> DEFINE S == {k \in 0..n : it[1..k] = IF P \intersect (1..k) = {} THEN base
                                         ELSE R[Max(P \intersect (1..k))]}
<1>1. 0 \in S
  <2>1. 1..0 = {} /\ P \intersect (1..0) = {} /\ {} \in SUBSET (1..n)
    OBVIOUS
  <2>2. it[{}] = base
    BY <1>0, <2>1
  <2> QED
    BY <2>1, <2>2
<1>2. ASSUME NEW k \in 1..n, k - 1 \in S
      PROVE  k \in S
  <2>1. k \in Nat \ {0} /\ k - 1 \in 0..n /\ k \in 0..n /\ 1..k \in SUBSET (1..n) /\ 1..k # {}
    <3>1. k \in Nat \ {0} /\ k - 1 \in 0..n /\ k \in 0..n /\ k \in 1..k
      OBVIOUS
    <3>2. \A i \in 1..k : i \in 1..n
      OBVIOUS
    <3> QED
      BY <3>1, <3>2
  <2>2. Max(1..k) = k /\ (1..k) \ {k} = 1..k - 1
    BY <2>1, GreatestUpTo
  <2>3. it[1..k] = IF k \in P THEN R[k] ELSE it[1..k - 1]
    BY <1>0, <2>1, <2>2
  <2>4. CASE k \in P
    <3>1. P \intersect (1..k) \in SUBSET (1..n) /\ k \in P \intersect (1..k)
      BY <2>1, <2>4
    <3>2. /\ Max(P \intersect (1..k)) \in P \intersect (1..k)
          /\ k <= Max(P \intersect (1..k))
      BY <3>1, GreatestOf
    <3>3. Max(P \intersect (1..k)) = k
      BY <2>1, <3>2
    <3> QED
      BY <2>1, <2>3, <2>4, <3>1, <3>3
  <2>5. CASE k \notin P
    <3>1. P \intersect (1..k) = P \intersect (1..k - 1)
      BY <2>1, <2>5
    <3> QED
      BY <1>2, <2>1, <2>3, <2>5, <3>1
  <2> QED
    BY <2>4, <2>5
<1>3. n \in S
  <2> HIDE DEF S
  <2> QED
    BY <1>1, <1>2, StepByStep
<1>4. P \intersect (1..n) = P
  OBVIOUS
<1> QED
  BY <1>3, <1>4 DEF LastOf

LEMMA KeepingExists ==
  ASSUME NEW n \in Nat, NEW P \in SUBSET (1..n), NEW base, NEW R
  PROVE  \E it : it = KeepingLast(n, P, base, R, it)
<1> DEFINE W == [s \in SUBSET (1..n) |-> IF s \intersect P = {} THEN base ELSE R[Max(s \intersect P)]]
<1>1. ASSUME NEW s \in SUBSET (1..n)
      PROVE  W[s] = IF s = {} THEN base ELSE IF Max(s) \in P THEN R[Max(s)] ELSE W[s \ {Max(s)}]
  <2>1. CASE s = {}
    BY <2>1
  <2>2. CASE s # {}
    <3>1. Max(s) \in s /\ \A i \in s : i <= Max(s)
      BY <2>2, GreatestOf
    <3>2. CASE Max(s) \in P
      <4>1. s \intersect P \in SUBSET (1..n) /\ s \intersect P # {}
        BY <3>1, <3>2
      <4>2. /\ Max(s \intersect P) \in s \intersect P
            /\ \A i \in s \intersect P : i <= Max(s \intersect P)
        BY <4>1, GreatestOf
      <4>3. /\ Max(s \intersect P) <= Max(s) /\ Max(s) <= Max(s \intersect P)
            /\ Max(s) \in 1..n /\ Max(s \intersect P) \in 1..n
        BY <3>1, <3>2, <4>1, <4>2
      <4>4. Max(s \intersect P) = Max(s)
        BY <4>3
      <4> QED
        BY <2>2, <3>2, <4>1, <4>4
    <3>3. CASE Max(s) \notin P
      <4>1. (s \ {Max(s)}) \intersect P = s \intersect P
        BY <3>3
      <4> QED
        BY <2>2, <3>3, <4>1
    <3> QED
      BY <3>2, <3>3
  <2> QED
    BY <2>1, <2>2
<1> HIDE DEF W
<1>2. W = [s \in SUBSET (1..n) |-> W[s]]
  BY DEF W
<1>3. W = [s \in SUBSET (1..n) |->
             IF s = {} THEN base ELSE IF Max(s) \in P THEN R[Max(s)] ELSE W[s \ {Max(s)}]]
  BY <1>1, <1>2
<1>4. W = KeepingLast(n, P, base, R, W)
  BY <1>3 DEF KeepingLast
<1> QED
  BY <1>4

\* A finite set of numbers has one ascending list.
LEMMA Ascending ==
  ASSUME NEW S \in SUBSET Nat, IsFiniteSet(S)
  PROVE  /\ Cardinality(S) \in Nat
         /\ \E levels \in [1..Cardinality(S) -> S] :
              \A i, j \in DOMAIN levels : i < j => levels[i] < levels[j]
<1> DEFINE n == Cardinality(S)
           below(x) == {y \in S : y <= x}
           rank == [x \in S |-> Cardinality(below(x))]
<1>0. n \in Nat
  BY FS_CardinalityType
<1>1. ASSUME NEW x \in S
      PROVE  IsFiniteSet(below(x)) /\ rank[x] \in 1..n
  <2>1. IsFiniteSet(below(x)) /\ Cardinality(below(x)) <= n
    BY FS_Subset
  <2>2. x \in below(x)
    OBVIOUS
  <2>3. Cardinality(below(x)) \in Nat /\ Cardinality(below(x)) # 0
    BY <2>1, <2>2, FS_CardinalityType, FS_EmptySet
  <2> QED
    BY <1>0, <2>1, <2>3
<1>2. ASSUME NEW x \in S, NEW y \in S, x < y
      PROVE  rank[x] < rank[y]
  <2>1. IsFiniteSet(below(x)) /\ IsFiniteSet(below(y)) /\ rank[x] \in 1..n /\ rank[y] \in 1..n
    BY <1>1
  <2>2. below(x) \in SUBSET below(y)
    <3>0. x \in Nat /\ y \in Nat /\ S \subseteq Nat
      OBVIOUS
    <3>1. ASSUME NEW z \in Nat, z <= x
          PROVE  z <= y
      BY <1>2, <3>0, <3>1
    <3>2. below(x) \subseteq below(y)
      BY <3>0, <3>1
    <3> QED
      BY <3>2
  <2>3. y \in below(y) /\ y \notin below(x)
    <3>1. x \in Nat /\ y \in Nat /\ y <= y
      OBVIOUS
    <3>2. ~(y <= x)
      BY <1>2, <3>1
    <3> QED
      BY <3>1, <3>2
  <2>4. Cardinality(below(x)) <= Cardinality(below(y)) /\ Cardinality(below(x)) # Cardinality(below(y))
    <3> HIDE DEF below
    <3> QED
      BY <2>1, <2>2, <2>3, FS_Subset
  <2> HIDE DEF below
  <2>5. rank[x] = Cardinality(below(x)) /\ rank[y] = Cardinality(below(y))
    OBVIOUS
  <2> HIDE DEF rank
  <2> QED
    BY <1>0, <2>1, <2>4, <2>5
<1>3. rank \in Surjection(S, 1..n)
  <2>1. rank \in [S -> 1..n]
    BY <1>1
  <2>2. ASSUME NEW x \in S, NEW y \in S, rank[x] = rank[y]
        PROVE  x = y
    <3>1. ~(x < y) /\ ~(y < x)
      <4>1. x < y => rank[x] < rank[y]
        BY <1>2
      <4>2. y < x => rank[y] < rank[x]
        BY <1>2
      <4>3. rank[x] \in Nat
        BY <1>0, <1>1
      <4> HIDE DEF rank
      <4> QED
        BY <2>2, <4>1, <4>2, <4>3
    <3> QED
      BY <3>1
  <2> HIDE DEF rank
  <2>3. rank \in Injection(S, 1..n)
    BY <2>1, <2>2 DEF Injection, IsInjective
  <2>4. IsFiniteSet(1..n) /\ Cardinality(1..n) = n
    <3>1. Cardinality(1..n) = IF 1 > n THEN 0 ELSE n - 1 + 1
      BY <1>0, FS_Interval
    <3>2. IsFiniteSet(1..n)
      BY <1>0, FS_Interval
    <3> HIDE DEF n
    <3> QED
      BY <1>0, <3>1, <3>2
  <2> QED
    BY <2>3, <2>4, FS_Injection
<1> DEFINE levels == [i \in 1..n |-> CHOOSE x \in S : rank[x] = i]
<1>4. ASSUME NEW i \in 1..n
      PROVE  levels[i] \in S /\ rank[levels[i]] = i
  <2> HIDE DEF rank
  <2>1. \E x \in S : rank[x] = i
    BY <1>3 DEF Surjection
  <2> QED
    BY <2>1
<1>5. ASSUME NEW i \in 1..n, NEW j \in 1..n, i < j
      PROVE  levels[i] < levels[j]
  <2> HIDE DEF rank, levels, n
  <2>1. /\ levels[i] \in S /\ rank[levels[i]] = i
        /\ levels[j] \in S /\ rank[levels[j]] = j
    BY <1>4
  <2>2. levels[j] < levels[i] => rank[levels[j]] < rank[levels[i]]
    BY <1>2, <2>1
  <2>3. i \in Nat /\ j \in Nat
    BY <1>0
  <2>4. levels[i] \in Nat /\ levels[j] \in Nat
    BY <2>1
  <2>5. i # j
    BY <1>5, <2>3
  <2>6. levels[i] # levels[j]
    BY <2>1, <2>5
  <2>7. ~(j < i)
    BY <1>5, <2>3
  <2>8. ~(levels[j] < levels[i])
    BY <2>1, <2>2, <2>7
  <2> QED
    BY <2>4, <2>6, <2>8
<1>6. levels \in [1..n -> S] /\ DOMAIN levels = 1..n
  <2>1. levels = [i \in 1..n |-> levels[i]]
    <3> HIDE DEF n, rank
    <3> QED
      OBVIOUS
  <2> HIDE DEF levels
  <2> QED
    BY <1>4, <2>1
<1> HIDE DEF levels
<1> QED
  BY <1>0, <1>5, <1>6

Risks(examples) == {examples[i].outcome.risk : i \in DOMAIN examples}

Ordered(examples) ==
  LET n == Cardinality(Risks(examples))  levels == Levels(examples)
  IN  /\ n \in Nat /\ levels \in [1..n -> Risks(examples)] /\ DOMAIN levels = 1..n
      /\ \A i, j \in 1..n : i < j => levels[i] < levels[j]
      /\ \A x \in Risks(examples) : \E i \in 1..n : levels[i] = x
      /\ Risks(examples) \subseteq Nat

LEMMA LevelsOrdered ==
  ASSUME NEW m \in Nat, NEW examples, DOMAIN examples = 1..m,
         \A i \in 1..m : examples[i].outcome.risk \in Nat
  PROVE  Ordered(examples)
<1> DEFINE S == Risks(examples)  n == Cardinality(S)
           f == [i \in 1..m |-> examples[i].outcome.risk]
<1>1. S \in SUBSET Nat
  BY DEF Risks
<1>2. IsFiniteSet(S)
  <2>1. f \in Surjection(1..m, S)
    BY DEF Surjection, Risks
  <2>2. IsFiniteSet(1..m)
    BY FS_Interval
  <2> QED
    BY <2>1, <2>2, FS_Surjection
<1>3. /\ n \in Nat
      /\ \E levels \in [1..n -> S] : \A i, j \in DOMAIN levels : i < j => levels[i] < levels[j]
  <2> HIDE DEF S
  <2> QED
    BY <1>1, <1>2, Ascending
<1>4. /\ Levels(examples) \in [1..n -> S]
      /\ \A i, j \in DOMAIN Levels(examples) : i < j => Levels(examples)[i] < Levels(examples)[j]
  BY <1>3 DEF Levels, Risks
<1> DEFINE levels == Levels(examples)
<1> HIDE DEF levels
<1>5. levels \in [1..n -> S] /\ DOMAIN levels = 1..n /\ \A i, j \in 1..n : i < j => levels[i] < levels[j]
  BY <1>4 DEF levels
<1>6. levels \in Surjection(1..n, S)
  <2> HIDE DEF S
  <2>1. ASSUME NEW i \in 1..n, NEW j \in 1..n, levels[i] = levels[j]
        PROVE  i = j
    <3>1. levels[i] \in Nat /\ levels[j] \in Nat
      BY <1>1, <1>5
    <3>2. ~(i < j) /\ ~(j < i)
      BY <1>5, <2>1, <3>1
    <3>3. i \in Nat /\ j \in Nat
      BY <1>3
    <3> QED
      BY <3>2, <3>3
  <2>2. levels \in Injection(1..n, S)
    BY <1>5, <2>1 DEF Injection, IsInjective
  <2>3. Cardinality(1..n) = n
    <3> HIDE DEF n
    <3>1. Cardinality(1..n) = IF 1 > n THEN 0 ELSE n - 1 + 1
      BY <1>3, FS_Interval
    <3> QED
      BY <1>3, <3>1
  <2> QED
    BY <1>2, <2>2, <2>3, FS_Injection
<1>7. \A x \in S : \E i \in 1..n : levels[i] = x
  BY <1>6 DEF Surjection
<1> QED
  BY <1>1, <1>3, <1>5, <1>7 DEF Ordered, levels

WrongUpTo(examples, t) == UpTo(examples, t) \intersect UnsafeRows(examples)
Enough(examples, t) == Cardinality(UpTo(examples, t)) >= MinAccepted
Bounded(examples, t, candidates) ==
  WithinRisk(Cardinality(WrongUpTo(examples, t)), Cardinality(UpTo(examples, t)), candidates)
Selected(examples, t, candidates) ==
  [threshold |-> t, accepted |-> Cardinality(UpTo(examples, t)),
   errors |-> Cardinality(WrongUpTo(examples, t)), candidates |-> candidates]

\* The two passes over the levels.
EligibleCount(examples) ==
  FoldLeft(LAMBDA count, t : count + (IF Enough(examples, t) THEN 1 ELSE 0), 0, Levels(examples))
KeptThreshold(examples, candidates) ==
  FoldLeft(LAMBDA best, t : IF Enough(examples, t) /\ Bounded(examples, t, candidates)
                            THEN Selected(examples, t, candidates) ELSE best,
           NoThreshold, Levels(examples))

LEMMA TwoPasses ==
  ASSUME NEW examples
  PROVE  CalibratedThreshold(examples) = KeptThreshold(examples, EligibleCount(examples))
BY DEF CalibratedThreshold, KeptThreshold, EligibleCount, Enough, Bounded, Selected, WrongUpTo

EnoughBody(examples, n, levels, it) ==
  [s \in SUBSET (1..n) |-> IF s = {} THEN 0
     ELSE it[s \ {Max(s)}] + (IF Enough(examples, levels[Max(s)]) THEN 1 ELSE 0)]

\* The first pass over the levels counts those that accept enough rows.
LEMMA CandidatesCounted ==
  ASSUME NEW n \in Nat, NEW examples, DOMAIN Levels(examples) = 1..n
  PROVE  EligibleCount(examples) = Cardinality({k \in 1..n : Enough(examples, Levels(examples)[k])})
<1> DEFINE levels == Levels(examples)
           P == {k \in 1..n : Enough(examples, levels[k])}
           it == CHOOSE it : it = EnoughBody(examples, n, levels, it)
<1>1. EligibleCount(examples) = it[1..n]
  <2> HIDE DEF P
  <2> QED
    BY DEF EligibleCount, FoldLeft, MapThenFoldSet, EnoughBody
<1> HIDE DEF levels
<1>2. ASSUME NEW s \in SUBSET (1..n), s # {}
      PROVE  Enough(examples, levels[Max(s)]) <=> Max(s) \in P
  <2>1. Max(s) \in 1..n
    BY <1>2, GreatestOf
  <2> QED
    BY <2>1
<1>3. ASSUME NEW f
      PROVE  EnoughBody(examples, n, levels, f)
               = [s \in SUBSET (1..n) |-> IF s = {} THEN 0 ELSE f[s \ {Max(s)}] + (IF Max(s) \in P THEN 1 ELSE 0)]
  <2> HIDE DEF P
  <2> QED
    BY <1>2 DEF EnoughBody
<1>4. P \in SUBSET (1..n)
  OBVIOUS
<1> HIDE DEF P
<1>5. \E f : f = EnoughBody(examples, n, levels, f)
  <2>1. PICK f : f = [s \in SUBSET (1..n) |-> IF s = {} THEN 0
                        ELSE f[s \ {Max(s)}] + (IF Max(s) \in P THEN 1 ELSE 0)]
    BY <1>4, CountingExists
  <2>2. f = EnoughBody(examples, n, levels, f)
    BY <1>3, <2>1
  <2> QED
    BY <2>2
<1>6. it = EnoughBody(examples, n, levels, it)
  BY <1>5
<1> HIDE DEF it
<1>7. it[1..n] = Cardinality(P)
  BY <1>3, <1>4, <1>6, LevelsCounted
<1> QED
  BY <1>1, <1>7 DEF P, levels

KeptBody(examples, n, levels, c, it) ==
  [s \in SUBSET (1..n) |-> IF s = {} THEN NoThreshold
     ELSE IF Enough(examples, levels[Max(s)]) /\ Bounded(examples, levels[Max(s)], c)
          THEN Selected(examples, levels[Max(s)], c) ELSE it[s \ {Max(s)}]]

LastWithin(examples, n, c) ==
  LET within == {k \in 1..n : /\ Enough(examples, Levels(examples)[k])
                              /\ Bounded(examples, Levels(examples)[k], c)}
  IN  IF within = {} THEN NoThreshold ELSE Selected(examples, Levels(examples)[Max(within)], c)

LEMMA LastOfTheSafe ==
  ASSUME NEW n \in Nat, NEW examples, DOMAIN Levels(examples) = 1..n, NEW c
  PROVE  KeptThreshold(examples, c) = LastWithin(examples, n, c)
<1> DEFINE levels == Levels(examples)
           P == {k \in 1..n : Enough(examples, levels[k]) /\ Bounded(examples, levels[k], c)}
           R == [k \in 1..n |-> Selected(examples, levels[k], c)]
           it == CHOOSE it : it = KeptBody(examples, n, levels, c, it)
<1>1. KeptThreshold(examples, c) = it[1..n]
  <2> HIDE DEF P, R
  <2> QED
    BY DEF KeptThreshold, FoldLeft, MapThenFoldSet, KeptBody
<1> HIDE DEF levels
<1>2. ASSUME NEW s \in SUBSET (1..n), s # {}
      PROVE  /\ Enough(examples, levels[Max(s)]) /\ Bounded(examples, levels[Max(s)], c) <=> Max(s) \in P
             /\ R[Max(s)] = Selected(examples, levels[Max(s)], c)
  <2>1. Max(s) \in 1..n
    BY <1>2, GreatestOf
  <2> QED
    BY <2>1
<1>3. ASSUME NEW f
      PROVE  KeptBody(examples, n, levels, c, f) = KeepingLast(n, P, NoThreshold, R, f)
  <2> HIDE DEF P, R
  <2> QED
    BY <1>2 DEF KeptBody, KeepingLast
<1>4. P \in SUBSET (1..n)
  OBVIOUS
<1> HIDE DEF P, R
<1>5. \E f : f = KeptBody(examples, n, levels, c, f)
  <2>1. PICK f : f = KeepingLast(n, P, NoThreshold, R, f)
    BY <1>4, KeepingExists
  <2>2. f = KeptBody(examples, n, levels, c, f)
    BY <1>3, <2>1
  <2> QED
    BY <2>2
<1>6. it = KeptBody(examples, n, levels, c, it)
  BY <1>5
<1> HIDE DEF it
<1>7. it[1..n] = IF P = {} THEN NoThreshold ELSE R[Max(P)]
  <2>1. it = KeepingLast(n, P, NoThreshold, R, it)
    BY <1>3, <1>6
  <2>2. it[1..n] = LastOf(P, NoThreshold, R)
    BY <1>4, <2>1, LastKept
  <2> QED
    BY <2>2 DEF LastOf
<1>8. P # {} => R[Max(P)] = Selected(examples, levels[Max(P)], c)
  BY <1>2, <1>4
<1> QED
  BY <1>1, <1>7, <1>8 DEF P, levels, LastWithin

Maximal(examples, selected) ==
  LET admits(t) == {i \in DOMAIN examples : examples[i].outcome.risk <= t}
      wrong(t) == {i \in admits(t) : Unsafe(examples[i].outcome)}
      eligible == {t \in {examples[i].outcome.risk : i \in DOMAIN examples} :
                     Cardinality(admits(t)) >= MinAccepted}
      safe == {t \in eligible : WithinRisk(Cardinality(wrong(t)), Cardinality(admits(t)),
                                           Cardinality(eligible))}
  IN  /\ safe # {} /\ selected.threshold = Max(safe)
      /\ selected.accepted = Cardinality(admits(Max(safe)))
      /\ selected.errors = Cardinality(wrong(Max(safe)))

Eligible(examples) == {t \in Risks(examples) : Enough(examples, t)}
SafeLevels(examples) == {t \in Eligible(examples) : Bounded(examples, t, Cardinality(Eligible(examples)))}

MaximalLevel(examples, selected) ==
  LET safe == SafeLevels(examples)
  IN  /\ safe # {} /\ selected.threshold = Max(safe)
      /\ selected.accepted = Cardinality(UpTo(examples, Max(safe)))
      /\ selected.errors = Cardinality(WrongUpTo(examples, Max(safe)))

LEMMA MaximalOnSets ==
  ASSUME NEW examples, NEW selected, MaximalLevel(examples, selected)
  PROVE  Maximal(examples, selected)
<1> DEFINE admits(t) == {i \in DOMAIN examples : examples[i].outcome.risk <= t}
           wrong(t) == {i \in admits(t) : Unsafe(examples[i].outcome)}
           eligible == {t \in {examples[i].outcome.risk : i \in DOMAIN examples} :
                          Cardinality(admits(t)) >= MinAccepted}
           safe == {t \in eligible : WithinRisk(Cardinality(wrong(t)), Cardinality(admits(t)),
                                                Cardinality(eligible))}
<1>1. \A t : UpTo(examples, t) = admits(t)
  BY DEF UpTo, RowsWith
<1>2. \A t : WrongUpTo(examples, t) = wrong(t)
  BY DEF WrongUpTo, UpTo, UnsafeRows, RowsWith
<1> HIDE DEF admits, wrong
<1>3. Eligible(examples) = eligible
  BY <1>1 DEF Eligible, Risks, Enough
<1> HIDE DEF eligible
<1>4. SafeLevels(examples) = safe
  BY <1>1, <1>2, <1>3 DEF SafeLevels, Bounded
<1> HIDE DEF safe
<1>5. /\ safe # {} /\ selected.threshold = Max(safe)
      /\ selected.accepted = Cardinality(admits(Max(safe)))
      /\ selected.errors = Cardinality(wrong(Max(safe)))
  BY <1>1, <1>2, <1>4 DEF MaximalLevel
<1> QED
  BY <1>5 DEF Maximal, safe, eligible, wrong, admits

\* The second keeps the last that the bound allows, which is the highest.
LEMMA ThresholdIsHighest ==
  ASSUME NEW m \in Nat, NEW examples, DOMAIN examples = 1..m,
         \A i \in 1..m : examples[i].outcome.risk \in Nat,
         CalibratedThreshold(examples) # NoThreshold
  PROVE  MaximalLevel(examples, CalibratedThreshold(examples))
<1> DEFINE n == Cardinality(Risks(examples))
           levels == Levels(examples)
           c == EligibleCount(examples)
           enough == {k \in 1..n : Enough(examples, levels[k])}
           within == {k \in 1..n : Enough(examples, levels[k]) /\ Bounded(examples, levels[k], c)}
           eligible == Eligible(examples)
           safe == SafeLevels(examples)
<1>1. Ordered(examples)
  BY LevelsOrdered
<1>2. /\ n \in Nat /\ levels \in [1..n -> Risks(examples)] /\ DOMAIN levels = 1..n
      /\ \A i, j \in 1..n : i < j => levels[i] < levels[j]
      /\ \A x \in Risks(examples) : \E i \in 1..n : levels[i] = x
      /\ Risks(examples) \subseteq Nat
  BY <1>1 DEF Ordered
<1> HIDE DEF n
<1>3. c = Cardinality(enough)
  BY <1>2, CandidatesCounted
<1>4. CalibratedThreshold(examples) = IF within = {} THEN NoThreshold
                                      ELSE Selected(examples, levels[Max(within)], c)
  <2>1. CalibratedThreshold(examples) = KeptThreshold(examples, c)
    BY TwoPasses
  <2>2. KeptThreshold(examples, c) = LastWithin(examples, n, c)
    <3> HIDE DEF c
    <3> QED
      BY <1>2, LastOfTheSafe
  <2> QED
    BY <2>1, <2>2 DEF LastWithin
<1> HIDE DEF levels, c
<1>5. Cardinality(eligible) = c
  <2> DEFINE f == [k \in enough |-> levels[k]]
  <2>1. f \in [enough -> eligible]
    BY <1>2 DEF Eligible
  <2>2. ASSUME NEW i \in enough, NEW j \in enough, f[i] = f[j]
        PROVE  i = j
    <3>1. i \in 1..n /\ j \in 1..n /\ levels[i] = levels[j]
      BY <2>2
    <3>2. levels[i] \in Nat /\ levels[j] \in Nat
      BY <1>2, <3>1
    <3>3. ~(i < j) /\ ~(j < i)
      BY <1>2, <3>1, <3>2
    <3>4. i \in Nat /\ j \in Nat
      BY <1>2, <3>1
    <3> QED
      BY <3>3, <3>4
  <2>3. ASSUME NEW t \in eligible
        PROVE  \E k \in enough : f[k] = t
    <3>1. t \in Risks(examples) /\ Enough(examples, t)
      BY DEF Eligible
    <3>2. PICK k \in 1..n : levels[k] = t
      BY <1>2, <3>1
    <3> QED
      BY <3>1, <3>2
  <2>4. IsFiniteSet(enough)
    <3>1. IsFiniteSet(1..n)
      BY <1>2, FS_Interval
    <3> QED
      BY <3>1, FS_Subset
  <2> HIDE DEF f, enough, eligible
  <2>5. f \in Bijection(enough, eligible)
    BY <2>1, <2>2, <2>3 DEF Bijection, Injection, Surjection, IsInjective
  <2> QED
    BY <1>3, <2>4, <2>5, FS_Bijection DEF ExistsBijection
<1>6. within # {}
  BY <1>4
<1>7. within \in SUBSET (1..n)
  OBVIOUS
<1>8. Max(within) \in within /\ \A k \in within : k <= Max(within)
  <2> HIDE DEF within
  <2> QED
    BY <1>2, <1>6, <1>7, GreatestOf
<1> DEFINE top == Max(within)
<1>9. safe = {t \in Risks(examples) : Enough(examples, t) /\ Bounded(examples, t, c)}
  BY <1>5 DEF SafeLevels, Eligible
<1> HIDE DEF top
<1>10. /\ top \in 1..n /\ levels[top] \in Risks(examples)
       /\ Enough(examples, levels[top]) /\ Bounded(examples, levels[top], c)
  BY <1>2, <1>8 DEF top
<1>11. levels[top] \in safe
  BY <1>9, <1>10
<1>12. ASSUME NEW t \in safe
       PROVE  levels[top] >= t
  <2>1. t \in Risks(examples) /\ Enough(examples, t) /\ Bounded(examples, t, c)
    BY <1>9
  <2>2. PICK k \in 1..n : levels[k] = t
    BY <1>2, <2>1
  <2>3. k \in within
    BY <2>1, <2>2
  <2>4. k <= top /\ k \in Nat /\ top \in Nat
    BY <1>2, <1>8, <1>10, <2>3 DEF top
  <2>5. k = top \/ k < top
    BY <2>4
  <2>6. k < top => levels[k] < levels[top]
    BY <1>2, <1>10
  <2>7. t \in Nat /\ levels[top] \in Nat
    BY <1>2, <1>10, <2>1
  <2> QED
    BY <2>2, <2>5, <2>6, <2>7
<1>13. Max(safe) = levels[top]
  <2> HIDE DEF safe
  <2>1. \A x \in safe : (\A y \in safe : x >= y) => x = levels[top]
    <3> SUFFICES ASSUME NEW x \in safe, \A y \in safe : x >= y PROVE x = levels[top]
      OBVIOUS
    <3>1. x >= levels[top] /\ levels[top] >= x
      BY <1>11, <1>12
    <3>2. x \in Nat /\ levels[top] \in Nat
      BY <1>2, <1>9, <1>10
    <3> QED
      BY <3>1, <3>2
  <2>2. Max(safe) = CHOOSE x \in safe : \A y \in safe : x >= y
    BY DEF Max
  <2> QED
    BY <1>11, <1>12, <2>1, <2>2
<1>14. CalibratedThreshold(examples) = Selected(examples, Max(safe), c)
  BY <1>4, <1>6, <1>13 DEF top
<1> QED
  BY <1>11, <1>14 DEF MaximalLevel, Selected

\* select_calibrated_threshold is right, for every list of examples.
LEMMA ThresholdRight ==
  ASSUME NEW m \in Nat, NEW examples, DOMAIN examples = 1..m,
         \A i \in 1..m : examples[i].outcome.risk \in Nat,
         CalibratedThreshold(examples) # NoThreshold
  PROVE  Maximal(examples, CalibratedThreshold(examples))
BY ThresholdIsHighest, MaximalOnSets

-----------------------------------------------------------------------------
(* The replay of a history.                                                *)

ReplayBody(examples, g, n, it) ==
  [s \in SUBSET (1..n) |->
     IF s = {} THEN NoHistory
     ELSE IF PrefixGroup[Max(s)] = g THEN Updated(it[s \ {Max(s)}], examples[Max(s)].outcome)
          ELSE it[s \ {Max(s)}]]

\* The rows of a set that are of the group.
OfGroup(g, s) == {i \in s : PrefixGroup[i] = g}

CountsItsLast(examples, g, s) ==
  CountOf(kind, examples, OfGroup(g, s)) =
    IF PrefixGroup[Max(s)] = g
    THEN Updated(CountOf(kind, examples, OfGroup(g, s \ {Max(s)})), examples[Max(s)].outcome)
    ELSE CountOf(kind, examples, OfGroup(g, s \ {Max(s)}))

\* A count of any rows is that of all but the last of them, and the last.
LEMMA CountsLast ==
  ASSUME kind # MethodDev, NEW n \in Nat, NEW examples, NEW g,
         \A i \in 1..n : examples[i].outcome.matches \in Nat,
         NEW s \in SUBSET (1..n), s # {}
  PROVE  CountsItsLast(examples, g, s)
<1> DEFINE x == Max(s)
           rows == OfGroup(g, s \ {x})
<1>1. x \in s
  BY GreatestOf
<1> HIDE DEF x
<1>2. OfGroup(g, s) = IF PrefixGroup[x] = g THEN rows \union {x} ELSE rows
  BY <1>1 DEF OfGroup
<1>3. IsFiniteSet(rows) /\ x \notin rows /\ rows \subseteq 1..n
  <2>1. rows \in SUBSET (1..n) /\ x \notin rows
    BY DEF OfGroup
  <2>2. IsFiniteSet(1..n)
    BY FS_Interval
  <2> QED
    BY <2>1, <2>2, FS_Subset
<1>4. \A i \in rows \union {x} : examples[i].outcome.matches \in Nat
  BY <1>1, <1>3
<1> HIDE DEF rows
<1>5. OneMoreOf(kind, examples, rows, x)
  BY <1>3, <1>4, CountOfOneMore
<1>6. \A history, o : CountedWith(kind, history, o) = Updated(history, o)
  BY DEF CountedWith, Updated, Failed, Failure, MethodDev
<1> QED
  BY <1>2, <1>5, <1>6 DEF OneMoreOf, CountsItsLast, rows, x

LEMMA ReplayExists ==
  ASSUME kind # MethodDev, NEW n \in Nat, NEW examples, NEW g,
         \A i \in 1..n : examples[i].outcome.matches \in Nat
  PROVE  \E it : it = ReplayBody(examples, g, n, it)
<1> DEFINE W == [s \in SUBSET (1..n) |-> CountOf(kind, examples, OfGroup(g, s))]
<1>1. ASSUME NEW s \in SUBSET (1..n)
      PROVE  W[s] = IF s = {} THEN NoHistory
                    ELSE IF PrefixGroup[Max(s)] = g
                         THEN Updated(W[s \ {Max(s)}], examples[Max(s)].outcome)
                         ELSE W[s \ {Max(s)}]
  <2>1. CASE s = {}
    <3>1. OfGroup(g, s) = {}
      BY <2>1 DEF OfGroup
    <3>2. FailedRows(kind, examples, {}) = {} /\ Tokens(examples, {}) = {}
      BY DEF FailedRows, Tokens
    <3>3. CountOf(kind, examples, {}) = NoHistory
      BY <3>2, FS_EmptySet DEF CountOf, NoHistory
    <3> QED
      BY <2>1, <3>1, <3>3
  <2>2. CASE s # {}
    <3>1. W[s] = CountOf(kind, examples, OfGroup(g, s))
      OBVIOUS
    <3>2. W[s \ {Max(s)}] = CountOf(kind, examples, OfGroup(g, s \ {Max(s)}))
      OBVIOUS
    <3>3. CountsItsLast(examples, g, s)
      BY <2>2, CountsLast
    <3> HIDE DEF W
    <3> QED
      BY <2>2, <3>1, <3>2, <3>3 DEF CountsItsLast
  <2> QED
    BY <2>1, <2>2
<1>2. W = [s \in SUBSET (1..n) |-> W[s]]
  OBVIOUS
<1> HIDE DEF W
<1>3. W = ReplayBody(examples, g, n, W)
  BY <1>1, <1>2 DEF ReplayBody
<1> QED
  BY <1>3

Replay(examples, g, seq) ==
  FoldLeft(LAMBDA history, i : IF PrefixGroup[i] = g THEN Updated(history, examples[i].outcome)
                               ELSE history, NoHistory, seq)

LEMMA ReplayFolds ==
  ASSUME kind # MethodDev, NEW n \in Nat, NEW examples, NEW g, NEW seq,
         seq = [i \in 1..n |-> i],
         \A i \in 1..n : examples[i].outcome.matches \in Nat
  PROVE  Replay(examples, g, seq) = Counted(kind, examples, g, n)
<1> DEFINE body(it) == [s \in SUBSET (1..n) |->
             IF s = {} THEN NoHistory
             ELSE IF PrefixGroup[seq[Max(s)]] = g
                  THEN Updated(it[s \ {Max(s)}], examples[seq[Max(s)]].outcome)
                  ELSE it[s \ {Max(s)}]]
           it == CHOOSE it : it = body(it)
<1>0. DOMAIN seq = 1..n
  OBVIOUS
<1>1. Replay(examples, g, seq) = it[1..n]
  BY <1>0 DEF Replay, FoldLeft, MapThenFoldSet
<1>2. ASSUME NEW s \in SUBSET (1..n), s # {}
      PROVE  seq[Max(s)] = Max(s)
  BY <1>2, GreatestOf
<1>3. ASSUME NEW f PROVE body(f) = ReplayBody(examples, g, n, f)
  BY <1>2 DEF ReplayBody
<1> HIDE DEF body
<1>4. \E f : f = body(f)
  BY <1>3, ReplayExists
<1>5. it = ReplayBody(examples, g, n, it)
  BY <1>3, <1>4
<1> HIDE DEF it
<1> DEFINE S == {k \in 0..n : it[1..k] = Counted(kind, examples, g, k)}
<1>6. 0 \in S
  <2>1. 1..0 = {} /\ {} \in SUBSET (1..n) /\ RowsOf(g, 0) = {}
    BY DEF RowsOf
  <2>2. it[{}] = NoHistory
    BY <1>5, <2>1 DEF ReplayBody
  <2>3. FailedRows(kind, examples, {}) = {} /\ Tokens(examples, {}) = {}
    BY DEF FailedRows, Tokens
  <2>4. Counted(kind, examples, g, 0) = NoHistory
    BY <2>1, <2>3, FS_EmptySet DEF Counted, CountOf, NoHistory
  <2> QED
    BY <2>1, <2>2, <2>4
<1>7. ASSUME NEW k \in 1..n, k - 1 \in S
      PROVE  k \in S
  <2>1. k \in Nat \ {0} /\ k - 1 \in 0..n /\ k \in 0..n /\ 1..k \in SUBSET (1..n) /\ 1..k # {}
    <3>1. k \in Nat \ {0} /\ k - 1 \in 0..n /\ k \in 0..n /\ k \in 1..k
      OBVIOUS
    <3>2. \A i \in 1..k : i \in 1..n
      OBVIOUS
    <3> QED
      BY <3>1, <3>2
  <2>2. Max(1..k) = k /\ (1..k) \ {k} = 1..k - 1
    BY <2>1, GreatestUpTo
  <2>3. it[1..k] = IF PrefixGroup[k] = g THEN Updated(it[1..k - 1], examples[k].outcome)
                   ELSE it[1..k - 1]
    BY <1>5, <2>1, <2>2 DEF ReplayBody
  <2>4. it[1..k - 1] = Counted(kind, examples, g, k - 1)
    BY <1>7
  <2>5. CountsItsLast(examples, g, 1..k)
    BY <2>1, CountsLast
  <2>6. \A j : CountOf(kind, examples, OfGroup(g, 1..j)) = Counted(kind, examples, g, j)
    BY DEF Counted, OfGroup, RowsOf
  <2>7. Counted(kind, examples, g, k) =
          IF PrefixGroup[k] = g THEN Updated(Counted(kind, examples, g, k - 1), examples[k].outcome)
          ELSE Counted(kind, examples, g, k - 1)
    BY <2>2, <2>5, <2>6 DEF CountsItsLast
  <2> QED
    BY <2>1, <2>3, <2>4, <2>7
<1>8. n \in S
  <2> HIDE DEF S
  <2> QED
    BY <1>6, <1>7, StepByStep
<1> QED
  BY <1>1, <1>8

\* The history that a report's rows are replayed to is the count of them.
LEMMA ReplayIsCount ==
  ASSUME kind # MethodDev, NEW n \in Nat, NEW examples,
         \A i \in 1..n : examples[i].outcome.matches \in Nat
  PROVE  Replayed(examples, n + 1) = Counted(kind, examples, PrefixGroup[n + 1], n)
<1>1. Replayed(examples, n + 1) = Replay(examples, PrefixGroup[n + 1], [i \in 1..(n + 1) - 1 |-> i])
  BY DEF Replayed, Replay
<1>2. (n + 1) - 1 = n
  OBVIOUS
<1>3. [i \in 1..(n + 1) - 1 |-> i] = [i \in 1..n |-> i]
  BY <1>2
<1> DEFINE seq == [i \in 1..n |-> i]
<1>4. Replayed(examples, n + 1) = Replay(examples, PrefixGroup[n + 1], seq)
  BY <1>1, <1>3
<1>5. seq = [i \in 1..n |-> i]
  OBVIOUS
<1> HIDE DEF seq
<1> QED
  BY <1>4, <1>5, ReplayFolds

-----------------------------------------------------------------------------
(* The steps after the last row.                                           *)

Hashing == "hash report"
Binding == "bind artifact"
Selective == {"validate", "semantic_sealed", "runtime_audit"}
HasArtifact(k) == k \notin {"calibrate", MethodDev}

Course(k) ==
  IF k = "calibrate" THEN CalibrationCourse
  ELSE IF k = MethodDev THEN MethodDevCourse ELSE AuditCourse

\* The place of each step in the course.
ConcludeAt(k) == IF k = MethodDev THEN 3 ELSE 1
ReportAt(k) == IF k = MethodDev THEN 1 ELSE 2
HashAt(k) == ReportAt(k) + 1
ManifestAt(k) == IF HasArtifact(k) THEN 6 ELSE 4
PublishAt(k) == ManifestAt(k) + 1

\* What a result is drawn from, and what a manifest asks of it.
Drawn(k, measured, result) ==
  /\ k = "fit_risk" => result = [unsafe |-> Cardinality(UnsafeRows(measured))]
  /\ k = "calibrate" => result = CalibratedThreshold(measured) /\ result # NoThreshold
  /\ k = MethodDev => result = FrozenStructure(measured) /\ ValidStructure(result)
  /\ k = "runtime_audit" => result = RuntimeSummary(measured)
  /\ k \in {"validate", "semantic_sealed"} => result = SelectiveResult(measured)

Valid(k, result) ==
  /\ k = "fit_risk" => ValidRiskFit(result)
  /\ k = "calibrate" => ValidCalibration(result)
  /\ k = "runtime_audit" => ValidAudit(result)
  /\ k \in {"validate", "semantic_sealed"} => ValidSelective(result)

Contents(k, measured, result, reported) ==
  CASE k = "fit_risk" -> [fitted |-> measured]
    [] k = "validate" -> Candidate(result)
    [] k = "semantic_sealed" -> SemanticApproved(result, reported)
    [] OTHER -> Approved(result, reported)

AllRows == Len(PrefixGroup)

\* The places from which nothing is measured any more, and no course followed.
Gone == {"idle", "rejected", "refused", "raised"}

\* The places of the audit after the last row.
Past(w) ==
  \/ w.pc \in Closing \union {"drain probe"}
  \/ w.pc = "await" /\ w.after = "drain probe"

Drawing == {"measured", "result", "reported", "bound", "objects"}

\* An attempt before its course, which lies all ahead.
Ahead(k, w) ==
  /\ Drawing \union {"course"} \subseteq DOMAIN w
  /\ w.course = Course(k) /\ w.objects = <<>>
  /\ w.row \in 1..AllRows + 1 /\ (Past(w) => w.row = AllRows + 1)

\* An attempt at the i-th step of its course, with all rows measured.
OnStep(k, w, i) ==
  /\ w.pc = Course(k)[i] /\ w.course = SubSeq(Course(k), i + 1, PublishAt(k))
  /\ Drawing \union {"pc", "course", "row"} \subseteq DOMAIN w /\ w.row = AllRows + 1
  /\ i > ConcludeAt(k) => Drawn(k, w.measured, w.result)
  /\ i < PublishAt(k) => w.objects = <<>>

StandsOnCourse(k, w) ==
  /\ w.pc \in Concluding => \E i \in 1..PublishAt(k) : OnStep(k, w, i)
  /\ w.pc \notin Concluding \union Gone /\ "row" \in DOMAIN w => Ahead(k, w)

\* The report of a calibration is of the rows it lists, also when attempts that share its
\* file overlap.
Calibrated(k, published) ==
  k = "calibrate" /\ published # None => Drawn(k, published.measured, published.result)

CourseInv ==
  kind \in Evaluations =>
    /\ Calibrated(kind, report)
    /\ \A p \in Processes : StandsOnCourse(kind, workers[p])

\* What an attempt that is alone has written by its i-th step is what lies there.
Outputs(k, published, bound, selected) ==
  IF k \in Selective THEN <<published, bound, selected>> ELSE <<published, bound>>

OutputCount(k) == IF k \in Selective THEN 3 ELSE 2

PutSoFar(outputs, objects, n) ==
  \E m \in 0..n : Listing(objects, m) /\ \A j \in 1..m : objects[j] = outputs[j]

WrittenBy(k, w, i, published, selected, bound) ==
  /\ i > ReportAt(k) =>
       published.measured = w.measured /\ (k # MethodDev => published.result = w.result)
  /\ i > HashAt(k) => w.reported = published
  /\ HasArtifact(k) /\ i > 4 => selected = Contents(k, w.measured, w.result, w.reported)
  /\ HasArtifact(k) /\ i > 5 => w.bound = selected
  /\ i > ManifestAt(k) =>
       /\ bound = [report |-> w.reported, artifact |-> w.bound, result |-> w.result]
       /\ Valid(k, w.result)
       /\ PutSoFar(Outputs(k, published, bound, selected), w.objects, OutputCount(k))

WrittenSoFar(k, w, published, selected, bound) ==
  w.pc \in Concluding =>
    \E i \in 1..PublishAt(k) :
      w.pc = Course(k)[i] /\ WrittenBy(k, w, i, published, selected, bound)

\* Evidence that the stage's loader accepts.
Accepted(k, outputs) ==
  LET published == outputs[1]  bound == outputs[2]
  IN  /\ CausalUpTo(k, published.measured, AllRows)
      /\ bound.report = published
      /\ k # MethodDev => published.result = bound.result
      /\ Drawn(k, published.measured, bound.result) /\ Valid(k, bound.result)
      /\ HasArtifact(k) =>
           bound.artifact = Contents(k, published.measured, bound.result, published)
      /\ k \in Selective => outputs[3] = bound.artifact

EvidenceInv ==
  kind \in Evaluations /\ ~overlapped =>
    /\ \A p \in Processes : WrittenSoFar(kind, workers[p], report, artifact, manifest)
    /\ stage.status = "completed" => Accepted(kind, stage.outputs)

-----------------------------------------------------------------------------
(* Places on the courses.                                                  *)

LEMMA Spaced ==
  /\ Hashing \notin {"conclude", "report", "artifact", "manifest", "publish"}
  /\ Binding \notin {"conclude", "report", "artifact", "manifest", "publish"}
  /\ Hashing # Binding /\ {Hashing, Binding} \subseteq Concluding
<1>1. Hashing \notin {"conclude", "report", "artifact", "manifest", "publish"}
  BY Zenon DEF Hashing
<1>2. Binding \notin {"conclude", "report", "artifact", "manifest", "publish"}
  BY Zenon DEF Binding
<1>3. Hashing # Binding
  BY Zenon DEF Binding, Hashing
<1>4. {Hashing, Binding} \subseteq Concluding
  BY Zenon DEF Binding, Hashing, Concluding
<1> QED
  BY <1>1, <1>2, <1>3, <1>4

\* The step at each place.
Steps(c) ==
  /\ c[1] = "conclude" /\ c[2] = "report" /\ c[3] = Hashing /\ c[4] = "artifact"
  /\ c[5] = Binding /\ c[6] = "manifest" /\ c[7] = "publish"

\* The courses, step by step.
LEMMA AuditSteps ==
  Steps(AuditCourse) /\ Len(AuditCourse) = 7 /\ AuditCourse \in Seq(Concluding)
<1>1. /\ AuditCourse[1] = "conclude" /\ AuditCourse[2] = "report"
      /\ AuditCourse[3] = "hash report" /\ AuditCourse[4] = "artifact"
      /\ AuditCourse[5] = "bind artifact" /\ AuditCourse[6] = "manifest"
      /\ AuditCourse[7] = "publish"
  BY DEF AuditCourse
<1>2. AuditCourse \in Seq(Concluding)
  BY DEF AuditCourse, Concluding
<1>3. Len(AuditCourse) = 7
  BY DEF AuditCourse
<1> QED
  BY <1>1, <1>2, <1>3, Zenon DEF Steps, Hashing, Binding

LEMMA CalibrationSteps ==
  /\ CalibrationCourse[1] = "conclude" /\ CalibrationCourse[2] = "report"
  /\ CalibrationCourse[3] = Hashing /\ CalibrationCourse[4] = "manifest"
  /\ CalibrationCourse[5] = "publish"
  /\ Len(CalibrationCourse) = 5 /\ CalibrationCourse \in Seq(Concluding)
<1>1. /\ CalibrationCourse[1] = "conclude" /\ CalibrationCourse[2] = "report"
      /\ CalibrationCourse[3] = "hash report" /\ CalibrationCourse[4] = "manifest"
      /\ CalibrationCourse[5] = "publish"
  BY DEF CalibrationCourse
<1>2. CalibrationCourse \in Seq(Concluding)
  BY DEF CalibrationCourse, Concluding
<1>3. Len(CalibrationCourse) = 5
  BY DEF CalibrationCourse
<1> QED
  BY <1>1, <1>2, <1>3, Zenon DEF Hashing

LEMMA MethodDevSteps ==
  /\ MethodDevCourse[1] = "report" /\ MethodDevCourse[2] = Hashing
  /\ MethodDevCourse[3] = "conclude" /\ MethodDevCourse[4] = "manifest"
  /\ MethodDevCourse[5] = "publish"
  /\ Len(MethodDevCourse) = 5 /\ MethodDevCourse \in Seq(Concluding)
<1>1. /\ MethodDevCourse[1] = "report" /\ MethodDevCourse[2] = "hash report"
      /\ MethodDevCourse[3] = "conclude" /\ MethodDevCourse[4] = "manifest"
      /\ MethodDevCourse[5] = "publish"
  BY DEF MethodDevCourse
<1>2. MethodDevCourse \in Seq(Concluding)
  BY DEF MethodDevCourse, Concluding
<1>3. Len(MethodDevCourse) = 5
  BY DEF MethodDevCourse
<1> QED
  BY <1>1, <1>2, <1>3, Zenon DEF Hashing

\* Four stages share the course of the audit.
LEMMA SameCourse ==
  /\ RiskFitCourse = AuditCourse /\ ValidationCourse = AuditCourse /\ SemanticCourse = AuditCourse
BY Zenon DEF RiskFitCourse, ValidationCourse, SemanticCourse, AuditCourse

\* Where each step has its place.
PlaceIs(k, i) ==
  LET step == Course(k)[i]
  IN  /\ step \in Concluding
      /\ step = "conclude" <=> i = ConcludeAt(k)
      /\ step = "report" => i = ReportAt(k)
      /\ step = Hashing => i = HashAt(k)
      /\ step = "artifact" => HasArtifact(k) /\ i = 4
      /\ step = Binding => HasArtifact(k) /\ i = 5
      /\ step = "manifest" => i = ManifestAt(k)
      /\ step = "publish" <=> i = PublishAt(k)

LEMMA CoursePlaces ==
  ASSUME NEW k
  PROVE  /\ Course(k) \in Seq(Concluding) /\ Len(Course(k)) = PublishAt(k)
         /\ PublishAt(k) \in {5, 7}
         /\ \A i \in 1..PublishAt(k) : PlaceIs(k, i)
<1> USE DEF ConcludeAt, ReportAt, HashAt, ManifestAt, PublishAt, HasArtifact, PlaceIs
<1>c. {"conclude", "report", "artifact", "manifest", "publish", Hashing, Binding} \subseteq Concluding
  <2>1. {"conclude", "report", "artifact", "manifest", "publish"} \subseteq Concluding
    BY DEF Concluding
  <2> QED
    BY <2>1, Spaced
<1>1. CASE k = MethodDev
  <2>1. Course(k) = MethodDevCourse /\ k # "calibrate"
    BY <1>1 DEF Course, MethodDev
  <2>2. PublishAt(k) = 5 /\ \A i \in 1..5 : i = 1 \/ i = 2 \/ i = 3 \/ i = 4 \/ i = 5
    BY <1>1
  <2> QED
    BY <1>1, <1>c, <2>1, <2>2, MethodDevSteps, Spaced
<1>2. CASE k = "calibrate"
  <2>1. Course(k) = CalibrationCourse /\ k # MethodDev
    BY <1>2 DEF Course, MethodDev
  <2>2. PublishAt(k) = 5 /\ \A i \in 1..5 : i = 1 \/ i = 2 \/ i = 3 \/ i = 4 \/ i = 5
    BY <1>2
  <2> QED
    BY <1>2, <1>c, <2>1, <2>2, CalibrationSteps, Spaced
<1>3. CASE k \notin {"calibrate", MethodDev}
  <2>1. Course(k) = AuditCourse
    BY <1>3 DEF Course
  <2>2. PublishAt(k) = 7 /\ \A i \in 1..7 : i = 1 \/ i = 2 \/ i = 3 \/ i = 4 \/ i = 5 \/ i = 6 \/ i = 7
    BY <1>3
  <2> DEFINE c == Course(k)
  <2>3. Steps(c)
    BY <2>1, AuditSteps
  <2>4. Course(k) \in Seq(Concluding) /\ Len(Course(k)) = PublishAt(k)
    BY <2>1, <2>2, AuditSteps
  <2>5. /\ ConcludeAt(k) = 1 /\ ReportAt(k) = 2 /\ HashAt(k) = 3 /\ HasArtifact(k)
        /\ ManifestAt(k) = 6
    BY <1>3
  <2>6. ASSUME NEW i \in 1..7
        PROVE  PlaceIs(k, i)
    <3> HIDE DEF ConcludeAt, ReportAt, HashAt, ManifestAt, PublishAt, HasArtifact, PlaceIs
    <3>1. /\ c[i] \in Concluding
          /\ c[i] = "conclude" <=> i = 1
          /\ c[i] = "report" => i = 2
          /\ c[i] = Hashing => i = 3
          /\ c[i] = "artifact" => i = 4
          /\ c[i] = Binding => i = 5
          /\ c[i] = "manifest" => i = 6
          /\ c[i] = "publish" <=> i = 7
      <4> HIDE DEF c
      <4> QED
        BY <1>c, <2>2, <2>3, Spaced DEF Steps
    <3> QED
      BY <2>2, <2>5, <3>1 DEF PlaceIs
  <2> QED
    BY <2>2, <2>4, <2>6
<1> QED
  BY <1>1, <1>2, <1>3

\* What is left of a course, and what comes next.
LEMMA CourseLeadsOn ==
  ASSUME NEW k
  PROVE  /\ Head(Course(k)) = Course(k)[1]
         /\ Tail(Course(k)) = SubSeq(Course(k), 2, PublishAt(k))
         /\ \A i \in 1..PublishAt(k) - 1 :
              /\ Head(SubSeq(Course(k), i + 1, PublishAt(k))) = Course(k)[i + 1]
              /\ Tail(SubSeq(Course(k), i + 1, PublishAt(k))) = SubSeq(Course(k), i + 2, PublishAt(k))
<1> PICK c : c = Course(k)
  OBVIOUS
<1> PICK n : n = PublishAt(k)
  OBVIOUS
<1>1. c \in Seq(Concluding) /\ Len(c) = n /\ n \in Nat /\ n >= 5
  BY CoursePlaces
<1>2. Head(c) = c[1] /\ Tail(c) = SubSeq(c, 2, n)
  <2>1. 1 \in 1..Len(c) /\ n \in 1..Len(c) /\ 1 + 1 = 2
    BY <1>1
  <2>2. c = SubSeq(c, 1, n)
    BY <1>1, SubSeqFull
  <2>3. Head(SubSeq(c, 1, n)) = c[1] /\ Tail(SubSeq(c, 1, n)) = SubSeq(c, 1 + 1, n)
    BY <1>1, <2>1, HeadTailOfSubSeq
  <2> QED
    BY <2>1, <2>2, <2>3
<1>3. ASSUME NEW i \in 1..n - 1
      PROVE  /\ Head(SubSeq(c, i + 1, n)) = c[i + 1]
             /\ Tail(SubSeq(c, i + 1, n)) = SubSeq(c, i + 2, n)
  <2>1. i + 1 \in 1..Len(c) /\ n \in i + 1..Len(c) /\ i + 2 = (i + 1) + 1
    BY <1>1
  <2> QED
    BY <1>1, <2>1, HeadTailOfSubSeq
<1> QED
  BY <1>2, <1>3

-----------------------------------------------------------------------------
(* Steps off the course.                                                   *)

RowsAre == Rows = 1..AllRows /\ AllRows \in Nat

LEMMA AllOfThem == RowsAre
<1>1. PrefixGroup \in Seq(Groups)
  BY StageAssumption, Zenon
<1> QED
  BY <1>1, LenProperties DEF Rows, AllRows, RowsAre

LEMMA NextRow ==
  1 \in 1..AllRows + 1 /\ \A r \in Rows : r + 1 \in 1..AllRows + 1
BY AllOfThem DEF RowsAre

\* A step that goes on outside the course, or out of it for good.
OffCourse(p) ==
  /\ workers'[p].pc \notin Concluding /\ StandsOnCourse(kind, workers'[p])
  /\ report' = report

\* A step that leaves the course and the row alone.
LEMMA QuietOnCourse ==
  ASSUME FrameTyped, NEW p \in Processes, NEW at, at \notin Concluding \union Gone,
         NEW changes, Working(p, at, changes),
         ({"row", "course"} \union Drawing) \intersect DOMAIN changes = {},
         workers'[p].pc \notin Concluding, report' = report,
         Past(workers'[p]) => Past(workers[p]) \/ workers[p].row = AllRows + 1,
         StandsOnCourse(kind, workers[p])
  PROVE  OffCourse(p)
<1> DEFINE w == workers[p]  v == workers'[p]
<1>1. /\ w.pc = at /\ DOMAIN v = DOMAIN w \union DOMAIN changes
      /\ \A f \in DOMAIN w \ DOMAIN changes : v[f] = w[f]
  BY WorkingFields
<1>2. ASSUME "row" \in DOMAIN v
      PROVE  Ahead(kind, v)
  <2>1. "row" \in DOMAIN w
    BY <1>1, <1>2
  <2>2. Ahead(kind, w)
    BY <1>1, <2>1 DEF StandsOnCourse
  <2>3. /\ v.row = w.row /\ Drawing \union {"course"} \subseteq DOMAIN v
        /\ v.course = w.course /\ v.objects = w.objects
    BY <1>1, <2>1, <2>2 DEF Ahead, Drawing
  <2>4. Past(v) => Past(w) \/ w.row = AllRows + 1
    OBVIOUS
  <2> HIDE DEF w, v
  <2> QED
    BY <2>2, <2>3, <2>4 DEF Ahead
<1>3. v.pc \notin Concluding
  OBVIOUS
<1> QED
  BY <1>2, <1>3 DEF OffCourse, StandsOnCourse

\* A step to where there is no course any more.
LEMMA GoneOffCourse ==
  ASSUME NEW p, workers'[p].pc \in Gone \/ "row" \notin DOMAIN workers'[p],
         workers'[p].pc \notin Concluding, report' = report
  PROVE  OffCourse(p)
BY DEF OffCourse, StandsOnCourse

\* A step is where its changes say.
LEMMA MovesTo ==
  ASSUME FrameTyped, NEW p \in Processes, NEW at, NEW changes, Working(p, at, changes),
         "pc" \in DOMAIN changes
  PROVE  workers'[p].pc = changes.pc
BY WorkingFields

LEMMA NotThere ==
  /\ Gone \intersect Concluding = {}
  /\ "evaluate" \notin Concluding \union Gone /\ "save sample" \notin Concluding \union Gone
  /\ "enter" \notin Concluding \union Gone /\ "measure" \notin Concluding \union Gone
  /\ "await" \notin Concluding \union Gone /\ "bind evidence" \notin Concluding \union Gone
BY DEF Gone, Concluding

\* A row that is taken up.
LEMMA TakesUpOnCourse ==
  ASSUME FrameTyped, NEW p \in Processes, NEW at \in {"evaluate", "save sample"},
         NEW changes, Working(p, at, changes), "row" \in DOMAIN changes,
         "row" \in DOMAIN workers[p], workers[p].row \in Rows,
         changes.row = workers[p].row + 1, {"course", "objects"} \intersect DOMAIN changes = {},
         workers'[p].pc = "evaluate", report' = report, StandsOnCourse(kind, workers[p])
  PROVE  OffCourse(p)
<1> DEFINE w == workers[p]  v == workers'[p]
<1>1. /\ w.pc = at /\ DOMAIN v = DOMAIN w \union DOMAIN changes
      /\ v.row = w.row + 1
      /\ \A f \in DOMAIN w \ DOMAIN changes : v[f] = w[f]
  BY WorkingFields
<1>2. Ahead(kind, w)
  BY <1>1, NotThere DEF StandsOnCourse
<1>3. /\ Drawing \union {"course"} \subseteq DOMAIN v
      /\ v.course = w.course /\ v.objects = w.objects
  BY <1>1, <1>2 DEF Ahead, Drawing
<1>4. v.row \in 1..AllRows + 1
  BY <1>1, NextRow
<1>5. ~Past(v)
  BY DEF Past, Closing
<1>6. Ahead(kind, v)
  <2> HIDE DEF w, v
  <2> QED
    BY <1>2, <1>3, <1>4, <1>5 DEF Ahead
<1> QED
  BY <1>6, NotThere DEF OffCourse, StandsOnCourse

\* An attempt that begins.
LEMMA BeginsOnCourse ==
  ASSUME NEW p, NEW pc \in {"enter", "bind evidence"}, workers'[p].pc = pc,
         Drawing \union {"course"} \subseteq DOMAIN workers'[p],
         workers'[p].course = Course(kind), workers'[p].objects = <<>>, workers'[p].row = 1,
         report' = report
  PROVE  OffCourse(p)
<1> DEFINE v == workers'[p]
<1>1. v.row \in 1..AllRows + 1
  BY NextRow
<1>2. ~Past(v)
  BY DEF Past, Closing
<1>3. Ahead(kind, v)
  <2>1. /\ Drawing \union {"course"} \subseteq DOMAIN v
        /\ v.course = Course(kind) /\ v.objects = <<>>
    OBVIOUS
  <2> HIDE DEF v
  <2> QED
    BY <1>1, <1>2, <2>1 DEF Ahead
<1> QED
  BY <1>3, NotThere DEF OffCourse, StandsOnCourse

LEMMA OpenOffCourse ==
  ASSUME FrameTyped, NEW p \in Processes, NEW course, course = Course(kind), NEW k,
         Open(p, k, course)
  PROVE  OffCourse(p)
<1> DEFINE others == [pc |-> "enter", course |-> course]  v == workers'[p]
<1>1. Begin(p, {k}, Changed(EvaluationIdle, others))
  BY DEF Open
<1>2. /\ DOMAIN others = {"pc", "course"} /\ others.pc = "enter" /\ others.course = course
  OBVIOUS
<1> HIDE DEF others
<1>3. /\ DOMAIN EvaluationIdle \union DOMAIN others \union {"attempt"} \subseteq DOMAIN v
      /\ \A f \in DOMAIN others : v[f] = others[f]
      /\ \A f \in DOMAIN EvaluationIdle \ (DOMAIN others \union {"attempt"}) :
           v[f] = EvaluationIdle[f]
  BY <1>1, <1>2, BeginChanges
<1>4. /\ DOMAIN EvaluationIdle = {"row", "histories", "measured", "example", "prefix", "course",
                                  "result", "reported", "bound", "objects"}
      /\ EvaluationIdle.row = 1 /\ EvaluationIdle.objects = <<>>
  BY DEF EvaluationIdle
<1>5. /\ Drawing \union {"course"} \subseteq DOMAIN v /\ v.row = 1 /\ v.objects = <<>>
      /\ v.pc = "enter" /\ v.course = course
  BY <1>2, <1>3, <1>4 DEF Drawing
<1>6. report' = report
  BY DEF Open
<1> QED
  BY <1>5, <1>6, BeginsOnCourse

LEMMA EnterOffCourse ==
  ASSUME FrameTyped, NEW p \in Processes, NEW k, EnterEvaluator(p, k),
         StandsOnCourse(kind, workers[p])
  PROVE  OffCourse(p)
<1> DEFINE changes == [pc |-> "evaluate", prefix |-> NoPrefix]
<1>1. Working(p, "enter", changes) /\ report' = report
  BY DEF EnterEvaluator
<1>2. /\ DOMAIN changes = {"pc", "prefix"} /\ changes.pc = "evaluate"
  OBVIOUS
<1> HIDE DEF changes
<1>3. workers'[p].pc = "evaluate"
  BY <1>1, <1>2, WorkingFields
<1>4. ~Past(workers'[p])
  BY <1>3 DEF Past, Closing
<1> QED
  BY <1>1, <1>2, <1>3, <1>4, NotThere, QuietOnCourse DEF Drawing

\* A row that is taken up from its checkpoint, or refused.
LEMMA RestoreOffCourse ==
  ASSUME FrameTyped, NEW p \in Processes, Evaluator(kind, workers[p]), NEW k, NEW stands,
         RestoreRow(p, k, stands), StandsOnCourse(kind, workers[p])
  PROVE  OffCourse(p)
<1> DEFINE w == workers[p]
<1>1. /\ w.pc = "evaluate" /\ w.row \in Rows
      /\ Working(p, "evaluate", IF stands THEN TakenUp(p, Found(p)) ELSE [pc |-> "refused"])
      /\ report' = report
  BY DEF RestoreRow, AtRow, At
<1>2. CASE ~stands
  <2> DEFINE changes == [pc |-> "refused"]
  <2>1. Working(p, "evaluate", changes) /\ DOMAIN changes = {"pc"} /\ changes.pc = "refused"
    BY <1>1, <1>2
  <2> HIDE DEF changes
  <2>2. workers'[p].pc = "refused"
    BY <2>1, WorkingFields
  <2> QED
    BY <1>1, <2>2, GoneOffCourse DEF Gone, Concluding
<1>3. CASE stands
  <2> DEFINE changes == TakenUp(p, Found(p))
  <2>1. /\ DOMAIN changes = {"row", "measured", "histories"} /\ Working(p, "evaluate", changes)
        /\ changes.row = w.row + 1
    BY <1>1, <1>3 DEF TakenUp
  <2>2. "pc" \in DOMAIN w /\ "row" \in DOMAIN w
    <3>1. Ready(kind, w)
      BY <1>1, ReadyAt DEF Closing
    <3> QED
      BY <3>1 DEF Ready, OnRow, RowFields
  <2> HIDE DEF changes
  <2>3. workers'[p].pc = "evaluate"
    BY <1>1, <2>1, <2>2, WorkingFields
  <2> QED
    BY <1>1, <2>1, <2>2, <2>3, TakesUpOnCourse
<1> QED
  BY <1>2, <1>3

LEMMA MeasureOffCourse ==
  ASSUME FrameTyped, NEW p \in Processes, NEW k, NEW examples, MeasureRow(p, k, examples),
         StandsOnCourse(kind, workers[p])
  PROVE  OffCourse(p)
<1>1. PICK x, prefix :
        Working(p, "evaluate", [pc |-> "save sample", prefix |-> prefix, example |-> x])
  BY DEF MeasureRow
<1> DEFINE changes == [pc |-> "save sample", prefix |-> prefix, example |-> x]
<1>2. /\ DOMAIN changes = {"pc", "prefix", "example"} /\ changes.pc = "save sample"
      /\ Working(p, "evaluate", changes)
  BY <1>1
<1> HIDE DEF changes
<1>f. workers'[p].pc = changes.pc
  BY <1>2, WorkingFields
<1>3. workers'[p].pc = "save sample" /\ report' = report
  BY <1>2, <1>f DEF MeasureRow
<1>4. ~Past(workers'[p])
  BY <1>3 DEF Past, Closing
<1> QED
  BY <1>2, <1>3, <1>4, NotThere, QuietOnCourse DEF Drawing

LEMMA SaveOffCourse ==
  ASSUME FrameTyped, NEW p \in Processes, Evaluator(kind, workers[p]), SaveSample(p),
         StandsOnCourse(kind, workers[p])
  PROVE  OffCourse(p)
<1> DEFINE w == workers[p]
           changes == Changed(TakenUp(p, w.example), [pc |-> "evaluate", example |-> None])
<1>1. Working(p, "save sample", changes) /\ report' = report /\ w.pc = "save sample"
  BY DEF SaveSample, At
<1>a. PICK at \in {"evaluate", "save sample"} : Working(p, at, changes)
  BY <1>1
<1>2. Ready(kind, w)
  BY <1>1, ReadyAt DEF Closing
<1>3. w.row \in Rows /\ "row" \in DOMAIN w
  BY <1>1, <1>2 DEF Ready, OnRow, Showing, RowFields
<1>4. /\ DOMAIN changes = {"row", "measured", "histories", "pc", "example"}
      /\ changes.pc = "evaluate" /\ changes.row = w.row + 1
  BY DEF Changed, TakenUp
<1> HIDE DEF changes
<1>5. workers'[p].pc = "evaluate"
  <2>1. "pc" \in DOMAIN changes
    BY <1>4
  <2>2. workers'[p].pc = changes.pc
    BY <1>a, <2>1, MovesTo
  <2> QED
    BY <1>4, <2>2
<1> QED
  BY <1>1, <1>a, <1>3, <1>4, <1>5, TakesUpOnCourse

-----------------------------------------------------------------------------
(* Steps on the course.                                                    *)

\* An attempt that concludes is at one step of its course.
LEMMA StandsAt ==
  ASSUME NEW w, StandsOnCourse(kind, w), w.pc \in Concluding
  PROVE  \E i \in 1..PublishAt(kind) : OnStep(kind, w, i) /\ PlaceIs(kind, i) /\ w.pc = Course(kind)[i]
BY CoursePlaces DEF StandsOnCourse, OnStep

LEMMA StandsThere ==
  ASSUME NEW w, NEW i \in 1..PublishAt(kind), OnStep(kind, w, i)
  PROVE  StandsOnCourse(kind, w) /\ w.pc \in Concluding
<1>1. w.pc \in Concluding
  BY CoursePlaces DEF OnStep, PlaceIs
<1> QED
  BY <1>1 DEF StandsOnCourse

\* What is changed by a step onward.
GoingOn(w, changes) ==
  /\ {"pc", "course"} \subseteq DOMAIN changes
  /\ changes.pc = Head(w.course) /\ changes.course = Tail(w.course)
  /\ {"row", "measured", "objects"} \intersect DOMAIN changes = {}

LEMMA OnwardGoesOn ==
  ASSUME NEW p
  PROVE  GoingOn(workers[p], Onward(p)) /\ DOMAIN Onward(p) = {"pc", "course"}
BY DEF GoingOn, Onward

LEMMA OnwardWithGoesOn ==
  ASSUME NEW p, NEW others,
         {"pc", "course", "row", "measured", "objects"} \intersect DOMAIN others = {}
  PROVE  /\ GoingOn(workers[p], Changed(Onward(p), others))
         /\ DOMAIN Changed(Onward(p), others) = {"pc", "course"} \union DOMAIN others
         /\ \A f \in DOMAIN others : Changed(Onward(p), others)[f] = others[f]
<1> DEFINE changes == Changed(Onward(p), others)
<1>1. /\ DOMAIN changes = DOMAIN Onward(p) \union DOMAIN others
      /\ \A f \in DOMAIN others : changes[f] = others[f]
      /\ \A f \in DOMAIN Onward(p) \ DOMAIN others : changes[f] = Onward(p)[f]
  BY ChangedFields
<1> HIDE DEF changes
<1>2. GoingOn(workers[p], changes) /\ DOMAIN changes = {"pc", "course"} \union DOMAIN others
  BY <1>1, OnwardGoesOn DEF GoingOn
<1> QED
  BY <1>1, <1>2 DEF changes

\* The first step of the course, after the last row.
LEMMA OntoCourse ==
  ASSUME FrameTyped, NEW p \in Processes, NEW at, at \notin Concluding \union Gone,
         NEW changes, Working(p, at, changes), GoingOn(workers[p], changes),
         Drawing \intersect DOMAIN changes = {},
         "row" \in DOMAIN workers[p], StandsOnCourse(kind, workers[p]),
         Past(workers[p]) \/ workers[p].row = AllRows + 1
  PROVE  OnStep(kind, workers'[p], 1)
<1> DEFINE w == workers[p]  v == workers'[p]
<1>1. /\ w.pc = at /\ DOMAIN v = DOMAIN w \union DOMAIN changes
      /\ \A f \in DOMAIN changes : v[f] = changes[f]
      /\ \A f \in DOMAIN w \ DOMAIN changes : v[f] = w[f]
  BY WorkingFields
<1>2. Ahead(kind, w)
  BY <1>1 DEF StandsOnCourse
<1>3. w.row = AllRows + 1 /\ w.course = Course(kind) /\ w.objects = <<>>
  BY <1>2 DEF Ahead
<1>4. /\ v.pc = Head(w.course) /\ v.course = Tail(w.course)
      /\ v.row = w.row /\ v.objects = w.objects
      /\ Drawing \union {"pc", "course", "row"} \subseteq DOMAIN v
  BY <1>1, <1>2 DEF GoingOn, Ahead, Drawing
<1>5. v.pc = Course(kind)[1] /\ v.course = SubSeq(Course(kind), 2, PublishAt(kind))
  BY <1>3, <1>4, CourseLeadsOn
<1>6. ~(1 > ConcludeAt(kind)) /\ 1 + 1 = 2
  BY DEF ConcludeAt
<1> HIDE DEF w, v
<1>7. OnStep(kind, v, 1)
  BY <1>3, <1>4, <1>5, <1>6 DEF OnStep
<1> QED
  BY <1>7 DEF v

\* A step of the course leads to the next one.
LEMMA OnwardOnCourse ==
  ASSUME FrameTyped, NEW p \in Processes, NEW at, NEW changes, Working(p, at, changes),
         GoingOn(workers[p], changes), NEW i \in 1..PublishAt(kind), i # PublishAt(kind),
         OnStep(kind, workers[p], i),
         i + 1 > ConcludeAt(kind) => Drawn(kind, workers'[p].measured, workers'[p].result)
  PROVE  OnStep(kind, workers'[p], i + 1) /\ i + 1 \in 1..PublishAt(kind)
<1> DEFINE w == workers[p]  v == workers'[p]
<1>0. i \in 1..PublishAt(kind) - 1 /\ i < PublishAt(kind) /\ i + 1 \in 1..PublishAt(kind)
      /\ (i + 1) + 1 = i + 2
  BY CoursePlaces
<1>1. /\ DOMAIN v = DOMAIN w \union DOMAIN changes
      /\ \A f \in DOMAIN changes : v[f] = changes[f]
      /\ \A f \in DOMAIN w \ DOMAIN changes : v[f] = w[f]
  BY WorkingFields
<1>2. /\ w.course = SubSeq(Course(kind), i + 1, PublishAt(kind))
      /\ Drawing \union {"pc", "course", "row"} \subseteq DOMAIN w /\ w.row = AllRows + 1 /\ w.objects = <<>>
  BY <1>0 DEF OnStep
<1>3. /\ v.pc = Head(w.course) /\ v.course = Tail(w.course)
      /\ v.row = w.row /\ v.objects = w.objects
      /\ Drawing \union {"pc", "course", "row"} \subseteq DOMAIN v
  BY <1>1, <1>2 DEF GoingOn, Drawing
<1>4. v.pc = Course(kind)[i + 1] /\ v.course = SubSeq(Course(kind), i + 2, PublishAt(kind))
  BY <1>0, <1>2, <1>3, CourseLeadsOn
<1>5. i + 1 > ConcludeAt(kind) => Drawn(kind, v.measured, v.result)
  OBVIOUS
<1> HIDE DEF w, v
<1>6. OnStep(kind, v, i + 1)
  BY <1>0, <1>2, <1>3, <1>4, <1>5 DEF OnStep
<1> QED
  BY <1>0, <1>6 DEF v

\* A step onward that leaves the result alone.
LEMMA PassesOn ==
  ASSUME FrameTyped, NEW p \in Processes, NEW at, at \notin {"conclude", "publish"},
         NEW changes, Working(p, at, changes), GoingOn(workers[p], changes),
         "result" \notin DOMAIN changes, NEW i \in 1..PublishAt(kind), OnStep(kind, workers[p], i)
  PROVE  OnStep(kind, workers'[p], i + 1) /\ i + 1 \in 1..PublishAt(kind)
<1> DEFINE w == workers[p]  v == workers'[p]
<1>1. /\ w.pc = at
      /\ \A f \in DOMAIN w \ DOMAIN changes : v[f] = w[f]
  BY WorkingFields
<1>2. PlaceIs(kind, i) /\ w.pc = Course(kind)[i]
  BY CoursePlaces DEF OnStep
<1>3. i # ConcludeAt(kind) /\ i # PublishAt(kind)
  BY <1>1, <1>2 DEF PlaceIs
<1>4. v.measured = w.measured /\ v.result = w.result
  BY <1>1 DEF OnStep, Drawing, GoingOn
<1>5. i + 1 > ConcludeAt(kind) => i > ConcludeAt(kind)
  BY <1>3, CoursePlaces DEF ConcludeAt
<1>6. i + 1 > ConcludeAt(kind) => Drawn(kind, v.measured, v.result)
  BY <1>4, <1>5 DEF OnStep
<1> QED
  BY <1>3, <1>6, OnwardOnCourse

\* A result is drawn from what is measured.
LEMMA ConcludesOn ==
  ASSUME FrameTyped, NEW p \in Processes, NEW result,
         Working(p, "conclude", Changed(Onward(p), [result |-> result])),
         NEW i \in 1..PublishAt(kind), OnStep(kind, workers[p], i),
         Drawn(kind, workers[p].measured, result)
  PROVE  OnStep(kind, workers'[p], i + 1) /\ i + 1 \in 1..PublishAt(kind)
<1> DEFINE w == workers[p]  v == workers'[p]  others == [result |-> result]
           changes == Changed(Onward(p), others)
<1>1. DOMAIN others = {"result"} /\ others.result = result
  OBVIOUS
<1>d. {"pc", "course", "row", "measured", "objects"} \intersect DOMAIN others = {}
  BY <1>1
<1> HIDE DEF others
<1>2. /\ GoingOn(w, changes) /\ DOMAIN changes = {"pc", "course", "result"}
      /\ changes.result = result
  BY <1>1, <1>d, OnwardWithGoesOn
<1>3. Working(p, "conclude", changes)
  BY DEF others
<1> HIDE DEF changes
<1>4. /\ w.pc = "conclude" /\ v.result = result
      /\ \A f \in DOMAIN w \ DOMAIN changes : v[f] = w[f]
  BY <1>2, <1>3, WorkingFields
<1>5. PlaceIs(kind, i) /\ w.pc = Course(kind)[i]
  BY CoursePlaces DEF OnStep
<1>6. i # PublishAt(kind)
  BY <1>4, <1>5 DEF PlaceIs
<1>7. v.measured = w.measured
  BY <1>2, <1>4 DEF OnStep, Drawing
<1> QED
  BY <1>2, <1>3, <1>4, <1>6, <1>7, OnwardOnCourse

\* An output is put, and the attempt stays where it is.
LEMMA PublishesOn ==
  ASSUME FrameTyped, NEW p \in Processes, NEW objects, Working(p, "publish", [objects |-> objects]),
         NEW i \in 1..PublishAt(kind), OnStep(kind, workers[p], i)
  PROVE  OnStep(kind, workers'[p], i) /\ i = PublishAt(kind)
<1> DEFINE w == workers[p]  v == workers'[p]  changes == [objects |-> objects]
<1>1. DOMAIN changes = {"objects"} /\ Working(p, "publish", changes)
  OBVIOUS
<1> HIDE DEF changes
<1>2. /\ w.pc = "publish" /\ DOMAIN v = DOMAIN w \union DOMAIN changes
      /\ \A f \in DOMAIN w \ DOMAIN changes : v[f] = w[f]
  BY <1>1, WorkingFields
<1>3. PlaceIs(kind, i) /\ w.pc = Course(kind)[i]
  BY CoursePlaces DEF OnStep
<1>4. i = PublishAt(kind) /\ ~(i < PublishAt(kind))
  BY <1>2, <1>3, CoursePlaces DEF PlaceIs
<1>5. Drawing \union {"pc", "course", "row"} \subseteq DOMAIN w
  BY DEF OnStep
<1>6. /\ v.pc = w.pc /\ v.course = w.course /\ v.row = w.row /\ v.measured = w.measured
      /\ v.result = w.result /\ DOMAIN w \subseteq DOMAIN v
  BY <1>1, <1>2, <1>5 DEF Drawing
<1> HIDE DEF w, v
<1> QED
  BY <1>4, <1>6 DEF OnStep, w, v

-----------------------------------------------------------------------------
(* What a step of an attempt is to its course.                             *)

Enters(p) ==
  /\ OnStep(kind, workers'[p], 1) /\ workers[p].pc \notin Concluding
  /\ UNCHANGED evaluationFiles

Draws(p) ==
  \E result :
    /\ Working(p, "conclude", Changed(Onward(p), [result |-> result]))
    /\ Drawn(kind, workers[p].measured, result) /\ UNCHANGED evaluationFiles

WritesArtifact(p) ==
  WriteArtifact(p, kind, Contents(kind, workers[p].measured, workers[p].result,
                                  workers[p].reported))

WritesManifest(p) == Valid(kind, workers[p].result) /\ WriteManifest(p, kind, TRUE)

Turns(p) ==
  \/ OffCourse(p) \/ Enters(p) \/ Draws(p)
  \/ WriteReport(p) \/ HashReport(p) \/ WritesArtifact(p) \/ BindArtifact(p)
  \/ WritesManifest(p) \/ PublishOutput(p)

\* A result or a manifest that is refused ends the course.
LEMMA RejectsOffCourse ==
  ASSUME FrameTyped, NEW p \in Processes, NEW at, Working(p, at, [pc |-> "rejected"]),
         report' = report
  PROVE  OffCourse(p)
<1> DEFINE changes == [pc |-> "rejected"]
<1>1. "pc" \in DOMAIN changes /\ changes.pc = "rejected" /\ Working(p, at, changes)
  OBVIOUS
<1> HIDE DEF changes
<1>2. workers'[p].pc = "rejected"
  BY <1>1, MovesTo
<1>3. workers'[p].pc \in Gone /\ workers'[p].pc \notin Concluding
  BY <1>2 DEF Gone, Concluding
<1> QED
  BY <1>3, GoneOffCourse

\* The actions of the stages, each as a turn.
LEMMA ConcludeTurns ==
  ASSUME FrameTyped, NEW p \in Processes, NEW k, NEW result, NEW acceptable,
         Conclude(p, k, result, acceptable),
         acceptable => Drawn(kind, workers[p].measured, result)
  PROVE  Turns(p)
<1>1. CASE acceptable
  <2>1. /\ Working(p, "conclude", Changed(Onward(p), [result |-> result]))
        /\ UNCHANGED evaluationFiles
    BY <1>1 DEF Conclude
  <2> QED
    BY <1>1, <2>1 DEF Turns, Draws
<1>2. CASE ~acceptable
  <2>1. Working(p, "conclude", [pc |-> "rejected"]) /\ report' = report
    BY <1>2 DEF Conclude
  <2> QED
    BY <2>1, RejectsOffCourse DEF Turns
<1> QED
  BY <1>1, <1>2

LEMMA ManifestTurns ==
  ASSUME FrameTyped, NEW p \in Processes, NEW k, NEW valid, WriteManifest(p, k, valid),
         valid => Valid(kind, workers[p].result)
  PROVE  Turns(p)
<1>1. CASE valid
  <2>1. WriteManifest(p, kind, TRUE)
    BY <1>1 DEF WriteManifest
  <2> QED
    BY <1>1, <2>1 DEF Turns, WritesManifest
<1>2. CASE ~valid
  <2>1. Working(p, "manifest", [pc |-> "rejected"]) /\ report' = report
    BY <1>2 DEF WriteManifest
  <2> QED
    BY <2>1, RejectsOffCourse DEF Turns
<1> QED
  BY <1>1, <1>2

LEMMA ArtifactTurns ==
  ASSUME NEW p, NEW k, NEW contents, WriteArtifact(p, k, contents),
         contents = Contents(kind, workers[p].measured, workers[p].result, workers[p].reported)
  PROVE  Turns(p)
<1>1. k = kind
  BY DEF WriteArtifact
<1> QED
  BY <1>1 DEF Turns, WritesArtifact

LEMMA RowsDone ==
  ASSUME NEW p, StandsOnCourse(kind, workers[p]), "row" \in DOMAIN workers[p],
         workers[p].pc = "evaluate", workers[p].row \notin Rows
  PROVE  workers[p].row = AllRows + 1
<1>1. Ahead(kind, workers[p])
  BY NotThere DEF StandsOnCourse
<1>2. workers[p].row \in 1..AllRows + 1
  BY <1>1 DEF Ahead
<1> QED
  BY <1>2, AllOfThem DEF RowsAre

\* The rows end in all stages but the audit.
LEMMA EndTurns ==
  ASSUME FrameTyped, NEW p \in Processes, Evaluator(kind, workers[p]),
         StandsOnCourse(kind, workers[p]), EndSamples(p)
  PROVE  Turns(p)
<1> DEFINE w == workers[p]  others == [prefix |-> NoPrefix]
           changes == Changed(Onward(p), others)
<1>1. /\ w.pc = "evaluate" /\ w.row \notin Rows /\ UNCHANGED evaluationFiles
      /\ Working(p, "evaluate", changes)
  BY DEF EndSamples, AfterRows, At
<1>2. "row" \in DOMAIN w
  <2>1. Ready(kind, w)
    BY <1>1, ReadyAt DEF Closing
  <2> QED
    BY <2>1 DEF Ready, OnRow, RowFields
<1>3. w.row = AllRows + 1
  BY <1>1, <1>2, RowsDone
<1>4. DOMAIN others = {"prefix"}
  OBVIOUS
<1> HIDE DEF others
<1>d. {"pc", "course", "row", "measured", "objects"} \intersect DOMAIN others = {}
  BY <1>4
<1>5. GoingOn(w, changes) /\ DOMAIN changes = {"pc", "course", "prefix"}
  BY <1>4, <1>d, OnwardWithGoesOn
<1> HIDE DEF changes
<1>6. Drawing \intersect DOMAIN changes = {}
  BY <1>5 DEF Drawing
<1>7. OnStep(kind, workers'[p], 1)
  BY <1>1, <1>2, <1>3, <1>5, <1>6, NotThere, OntoCourse
<1> QED
  BY <1>1, <1>7, NotThere DEF Turns, Enters

LEMMA IdleOffCourse ==
  ASSUME NEW p, workers'[p] = Idle, report' = report
  PROVE  Turns(p)
<1>1. workers'[p].pc = "idle"
  BY DEF Idle
<1> QED
  BY <1>1, GoneOffCourse DEF Gone, Concluding, Turns

LEMMA EvaluationTurns ==
  ASSUME FrameTyped, NEW p \in Processes, Evaluator(kind, workers[p]),
         StandsOnCourse(kind, workers[p]), EvaluationStep(p)
  PROVE  Turns(p)
<1>1. CASE SaveSample(p)
  BY <1>1, SaveOffCourse DEF Turns
<1>2. CASE EndSamples(p)
  BY <1>2, EndTurns
<1>3. CASE CompleteEvaluation(p)
  <2>1. workers'[p] = Idle /\ report' = report
    BY <1>3 DEF CompleteEvaluation, Finish, FrameTyped
  <2> QED
    BY <2>1, IdleOffCourse
<1> QED
  BY <1>1, <1>2, <1>3 DEF EvaluationStep, Turns

\* The course each stage begins with.
LEMMA CourseOf ==
  /\ kind \in {"fit_risk", "validate", "semantic_sealed", "runtime_audit"} =>
       Course(kind) = AuditCourse
  /\ kind = "calibrate" => Course(kind) = CalibrationCourse
  /\ kind = MethodDev => Course(kind) = MethodDevCourse
BY DEF Course, MethodDev

LEMMA RiskFitTurns ==
  ASSUME FrameTyped, NEW p \in Processes, Evaluator(kind, workers[p]),
         StandsOnCourse(kind, workers[p]), RiskFitStep(p)
  PROVE  Turns(p)
<1>1. CASE BeginRiskFit(p)
  <2>1. Open(p, "fit_risk", RiskFitCourse)
    BY <1>1 DEF BeginRiskFit
  <2>2. RiskFitCourse = Course(kind)
    BY <2>1, SameCourse, CourseOf DEF Open, Begin
  <2> QED
    BY <2>1, <2>2, OpenOffCourse DEF Turns
<1>2. CASE EnterRiskFit(p)
  BY <1>2, EnterOffCourse DEF EnterRiskFit, Turns
<1>3. CASE RestoreRiskExample(p)
  BY <1>3, RestoreOffCourse DEF RestoreRiskExample, Turns
<1>4. CASE MeasureRiskExample(p)
  BY <1>4, MeasureOffCourse DEF MeasureRiskExample, Turns
<1>5. CASE FitPredictor(p)
  <2>1. PICK acceptable :
          /\ Conclude(p, "fit_risk", [unsafe |-> Cardinality(UnsafeRows(workers[p].measured))],
                      acceptable)
          /\ kind = "fit_risk"
    BY <1>5 DEF FitPredictor, Conclude
  <2>2. Drawn(kind, workers[p].measured, [unsafe |-> Cardinality(UnsafeRows(workers[p].measured))])
    BY <2>1 DEF Drawn, MethodDev
  <2> QED
    BY <2>1, <2>2, ConcludeTurns
<1>6. CASE SavePredictor(p)
  <2>1. WriteArtifact(p, "fit_risk", [fitted |-> workers[p].measured]) /\ kind = "fit_risk"
    BY <1>6 DEF SavePredictor, WriteArtifact
  <2>2. [fitted |-> workers[p].measured]
          = Contents(kind, workers[p].measured, workers[p].result, workers[p].reported)
    BY <2>1 DEF Contents
  <2> QED
    BY <2>1, <2>2, ArtifactTurns
<1>7. CASE WriteRiskManifest(p)
  <2>1. WriteManifest(p, "fit_risk", ValidRiskFit(workers[p].result)) /\ kind = "fit_risk"
    BY <1>7 DEF WriteRiskManifest, WriteManifest
  <2>2. ValidRiskFit(workers[p].result) => Valid(kind, workers[p].result)
    BY <2>1 DEF Valid
  <2> QED
    BY <2>1, <2>2, ManifestTurns
<1> QED
  BY <1>1, <1>2, <1>3, <1>4, <1>5, <1>6, <1>7 DEF RiskFitStep

LEMMA CalibrationTurns ==
  ASSUME FrameTyped, NEW p \in Processes, Evaluator(kind, workers[p]),
         StandsOnCourse(kind, workers[p]), CalibrationStep(p)
  PROVE  Turns(p)
<1>1. CASE BeginCalibration(p)
  <2>1. Open(p, "calibrate", CalibrationCourse)
    BY <1>1 DEF BeginCalibration
  <2>2. CalibrationCourse = Course(kind)
    BY <2>1, CourseOf DEF Open, Begin
  <2> QED
    BY <2>1, <2>2, OpenOffCourse DEF Turns
<1>2. CASE EnterCalibration(p)
  BY <1>2, EnterOffCourse DEF EnterCalibration, Turns
<1>3. CASE RestoreCalibration(p)
  BY <1>3, RestoreOffCourse DEF RestoreCalibration, Turns
<1>4. CASE MeasureCalibration(p)
  BY <1>4, MeasureOffCourse DEF MeasureCalibration, Turns
<1>5. CASE SelectThreshold(p)
  <2> DEFINE selected == CalibratedThreshold(workers[p].measured)
  <2>1. Conclude(p, "calibrate", selected, selected # NoThreshold) /\ kind = "calibrate"
    BY <1>5 DEF SelectThreshold, Conclude
  <2>2. selected # NoThreshold => Drawn(kind, workers[p].measured, selected)
    BY <2>1 DEF Drawn, MethodDev
  <2> HIDE DEF selected
  <2> QED
    BY <2>1, <2>2, ConcludeTurns
<1>6. CASE WriteCalibrationManifest(p)
  <2>1. /\ WriteManifest(p, "calibrate", ValidCalibration(workers[p].result))
        /\ kind = "calibrate"
    BY <1>6 DEF WriteCalibrationManifest, WriteManifest
  <2>2. ValidCalibration(workers[p].result) => Valid(kind, workers[p].result)
    BY <2>1 DEF Valid
  <2> QED
    BY <2>1, <2>2, ManifestTurns
<1> QED
  BY <1>1, <1>2, <1>3, <1>4, <1>5, <1>6 DEF CalibrationStep

LEMMA SelectiveTurns ==
  ASSUME FrameTyped, NEW p \in Processes, NEW k \in {"validate", "semantic_sealed"},
         ConcludeSelective(p, k)
  PROVE  Turns(p)
<1> DEFINE result == SelectiveResult(workers[p].measured)
<1>1. PICK acceptable : Conclude(p, k, result, acceptable) /\ kind = k
  BY DEF ConcludeSelective, Conclude
<1>2. Drawn(kind, workers[p].measured, result)
  BY <1>1 DEF Drawn, MethodDev
<1> HIDE DEF result
<1> QED
  BY <1>1, <1>2, ConcludeTurns

LEMMA ValidationTurns ==
  ASSUME FrameTyped, NEW p \in Processes, Evaluator(kind, workers[p]),
         StandsOnCourse(kind, workers[p]), ValidationStep(p)
  PROVE  Turns(p)
<1>1. CASE BeginValidation(p)
  <2>1. Open(p, "validate", ValidationCourse)
    BY <1>1 DEF BeginValidation
  <2>2. ValidationCourse = Course(kind)
    BY <2>1, SameCourse, CourseOf DEF Open, Begin
  <2> QED
    BY <2>1, <2>2, OpenOffCourse DEF Turns
<1>2. CASE EnterValidation(p)
  BY <1>2, EnterOffCourse DEF EnterValidation, Turns
<1>3. CASE RestoreValidation(p)
  BY <1>3, RestoreOffCourse DEF RestoreValidation, Turns
<1>4. CASE MeasureValidation(p)
  BY <1>4, MeasureOffCourse DEF MeasureValidation, Turns
<1>5. CASE ConcludeValidation(p)
  BY <1>5, SelectiveTurns DEF ConcludeValidation
<1>6. CASE WriteCandidate(p)
  <2>1. WriteArtifact(p, "validate", Candidate(workers[p].result)) /\ kind = "validate"
    BY <1>6 DEF WriteCandidate, WriteArtifact
  <2>2. Candidate(workers[p].result)
          = Contents(kind, workers[p].measured, workers[p].result, workers[p].reported)
    BY <2>1 DEF Contents
  <2> QED
    BY <2>1, <2>2, ArtifactTurns
<1>7. CASE WriteValidationManifest(p)
  <2>1. WriteManifest(p, "validate", ValidSelective(workers[p].result)) /\ kind = "validate"
    BY <1>7 DEF WriteValidationManifest, WriteManifest
  <2>2. ValidSelective(workers[p].result) => Valid(kind, workers[p].result)
    BY <2>1 DEF Valid
  <2> QED
    BY <2>1, <2>2, ManifestTurns
<1> QED
  BY <1>1, <1>2, <1>3, <1>4, <1>5, <1>6, <1>7 DEF ValidationStep

LEMMA SemanticTurns ==
  ASSUME FrameTyped, NEW p \in Processes, Evaluator(kind, workers[p]),
         StandsOnCourse(kind, workers[p]), SemanticStep(p)
  PROVE  Turns(p)
<1>1. CASE BeginSemantic(p)
  <2>1. Open(p, "semantic_sealed", SemanticCourse)
    BY <1>1 DEF BeginSemantic
  <2>2. SemanticCourse = Course(kind)
    BY <2>1, SameCourse, CourseOf DEF Open, Begin
  <2> QED
    BY <2>1, <2>2, OpenOffCourse DEF Turns
<1>2. CASE EnterSemantic(p)
  BY <1>2, EnterOffCourse DEF EnterSemantic, Turns
<1>3. CASE RestoreSemantic(p)
  BY <1>3, RestoreOffCourse DEF RestoreSemantic, Turns
<1>4. CASE MeasureSemantic(p)
  BY <1>4, MeasureOffCourse DEF MeasureSemantic, Turns
<1>5. CASE ConcludeSemantic(p)
  BY <1>5, SelectiveTurns DEF ConcludeSemantic
<1>6. CASE WriteSemanticApproved(p)
  <2>1. /\ WriteArtifact(p, "semantic_sealed",
                         SemanticApproved(workers[p].result, workers[p].reported))
        /\ kind = "semantic_sealed"
    BY <1>6 DEF WriteSemanticApproved, WriteArtifact
  <2>2. SemanticApproved(workers[p].result, workers[p].reported)
          = Contents(kind, workers[p].measured, workers[p].result, workers[p].reported)
    BY <2>1 DEF Contents
  <2> QED
    BY <2>1, <2>2, ArtifactTurns
<1>7. CASE WriteSemanticManifest(p)
  <2>1. /\ WriteManifest(p, "semantic_sealed", ValidSelective(workers[p].result))
        /\ kind = "semantic_sealed"
    BY <1>7 DEF WriteSemanticManifest, WriteManifest
  <2>2. ValidSelective(workers[p].result) => Valid(kind, workers[p].result)
    BY <2>1 DEF Valid
  <2> QED
    BY <2>1, <2>2, ManifestTurns
<1> QED
  BY <1>1, <1>2, <1>3, <1>4, <1>5, <1>6, <1>7 DEF SemanticStep

LEMMA MethodDevTurns ==
  ASSUME FrameTyped, NEW p \in Processes, Evaluator(kind, workers[p]),
         StandsOnCourse(kind, workers[p]), MethodDevStep(p)
  PROVE  Turns(p)
<1>1. CASE BeginMethodDev(p)
  <2>1. Open(p, "evaluate_method_dev", MethodDevCourse)
    BY <1>1 DEF BeginMethodDev
  <2>2. MethodDevCourse = Course(kind)
    BY <2>1, CourseOf DEF Open, Begin, MethodDev
  <2> QED
    BY <2>1, <2>2, OpenOffCourse DEF Turns
<1>2. CASE EnterMethodDev(p)
  BY <1>2, EnterOffCourse DEF EnterMethodDev, Turns
<1>3. CASE RestoreMethodDev(p)
  BY <1>3, RestoreOffCourse DEF RestoreMethodDev, Turns
<1>4. CASE MeasureMethodDev(p)
  BY <1>4, MeasureOffCourse DEF MeasureMethodDev, Turns
<1>5. CASE FreezeStructure(p)
  <2> DEFINE structure == FrozenStructure(workers[p].measured)
  <2>1. Conclude(p, "evaluate_method_dev", structure, ValidStructure(structure)) /\ kind = MethodDev
    BY <1>5 DEF FreezeStructure, MethodDev
  <2>2. ValidStructure(structure) => Drawn(kind, workers[p].measured, structure)
    BY <2>1 DEF Drawn, MethodDev
  <2> HIDE DEF structure
  <2> QED
    BY <2>1, <2>2, ConcludeTurns
<1>6. CASE WriteStructure(p)
  <2>1. WriteManifest(p, "evaluate_method_dev", TRUE) /\ kind = "evaluate_method_dev"
    BY <1>6 DEF WriteStructure, WriteManifest
  <2>2. Valid(kind, workers[p].result)
    BY <2>1 DEF Valid
  <2> QED
    BY <2>1, <2>2, ManifestTurns
<1> QED
  BY <1>1, <1>2, <1>3, <1>4, <1>5, <1>6 DEF MethodDevStep

-----------------------------------------------------------------------------
(* The audit off its course.                                               *)

CourseFields == {"row", "course"} \union Drawing

\* A step to another place before the course.
LEMMA MovesOffCourse ==
  ASSUME FrameTyped, NEW p \in Processes, NEW at, at \notin Concluding \union Gone,
         NEW changes, Working(p, at, changes), CourseFields \intersect DOMAIN changes = {},
         "pc" \in DOMAIN changes, changes.pc \notin Concluding \union {"await"},
         changes.pc \in Closing \union {"drain probe"} => Past(workers[p]),
         report' = report, StandsOnCourse(kind, workers[p])
  PROVE  OffCourse(p)
<1>1. workers'[p].pc = changes.pc
  BY MovesTo
<1>2. Past(workers'[p]) => Past(workers[p])
  <2>1. workers'[p].pc # "await" /\ (workers'[p].pc \in Closing \union {"drain probe"} => Past(workers[p]))
    BY <1>1
  <2> QED
    BY <2>1 DEF Past
<1>3. ({"row", "course"} \union Drawing) \intersect DOMAIN changes = {}
  BY DEF CourseFields
<1> QED
  BY <1>1, <1>2, <1>3, QuietOnCourse

LEMMA OnlyThePlace ==
  ASSUME NEW at
  PROVE  /\ "pc" \in DOMAIN [pc |-> at] /\ [pc |-> at].pc = at
         /\ CourseFields \intersect DOMAIN [pc |-> at] = {}
BY DEF CourseFields, Drawing

LEMMA OtherFields ==
  CourseFields \intersect {"pc", "running", "held", "stuck", "failing", "assets", "after", "awaited",
                           "wire", "asked", "arrived", "broken", "events", "example"} = {}
BY DEF CourseFields, Drawing

\* The places at which nothing is drained.
Serving == {"bind evidence", "unbound", "start server", "await server", "start collector",
            "start engine", "start writer", "load models", "prepare prefixes", "warm up",
            "drain warmup", "evaluate", "measure"}

LEMMA ServingOffCourse ==
  Serving \intersect (Concluding \union Gone \union Closing \union {"await", "drain probe"}) = {}
BY DEF Serving, Concluding, Gone, Closing

\* A step from one of those places to another.
LEMMA ServesOffCourse ==
  ASSUME FrameTyped, NEW p \in Processes, NEW at \in Serving, NEW changes, Working(p, at, changes),
         CourseFields \intersect DOMAIN changes = {}, "pc" \in DOMAIN changes,
         changes.pc \in Serving, report' = report, StandsOnCourse(kind, workers[p])
  PROVE  Turns(p)
<1>1. /\ at \notin Concluding \union Gone
      /\ changes.pc \notin Concluding \union {"await"}
      /\ changes.pc \notin Closing \union {"drain probe"}
  BY ServingOffCourse
<1> QED
  BY <1>1, MovesOffCourse DEF Turns

\* A step of _close.
LEMMA ClosesOffCourse ==
  ASSUME FrameTyped, NEW p \in Processes, NEW at \in Closing, NEW changes, Working(p, at, changes),
         CourseFields \intersect DOMAIN changes = {}, "pc" \in DOMAIN changes,
         changes.pc \in Closing, report' = report, StandsOnCourse(kind, workers[p])
  PROVE  Turns(p)
<1>1. (Concluding \union Gone \union {"await"}) \intersect Closing = {}
  BY DEF Concluding, Gone, Closing
<1>2. workers[p].pc = at
  BY WorkingAt
<1>3. Past(workers[p])
  BY <1>2 DEF Past
<1> QED
  BY <1>1, <1>3, MovesOffCourse DEF Turns

\* An exception inside the evaluator.
LEMMA FailingOffCourse ==
  ASSUME FrameTyped, NEW p \in Processes, NEW running, NEW stuck, Failing(p, running, stuck)
  PROVE  Turns(p)
<1> DEFINE v == workers'[p]
<1>1. v = [pc |-> "close engine", attempt |-> workers[p].attempt, measured |-> <<>>,
           held |-> workers[p].held, running |-> running, stuck |-> stuck, failing |-> TRUE]
  BY DEF Failing, FrameTyped
<1>2. report' = report
  BY DEF Failing
<1> HIDE DEF v
<1>3. v.pc \notin Concluding /\ "row" \notin DOMAIN v
  BY <1>1 DEF Concluding
<1> QED
  BY <1>2, <1>3, GoneOffCourse DEF v, Turns

\* The services of the audit are no part of its course; EndClose leads to it.
LEMMA ServiceTurns ==
  ASSUME FrameTyped, kind = "runtime_audit", NEW p \in Processes,
         Evaluator(kind, workers[p]), StandsOnCourse(kind, workers[p]), ServiceStep(p)
  PROVE  Turns(p)
<1> DEFINE w == workers[p]
<1>1. CASE LoadBindings(p)
  <2>1. PICK at \in {"start server", "unbound"} : Working(p, "bind evidence", [pc |-> at])
    BY <1>1 DEF LoadBindings
  <2>2. report' = report
    BY <1>1 DEF LoadBindings
  <2>3. at \in Serving /\ "bind evidence" \in Serving
    BY DEF Serving
  <2> QED
    BY <2>1, <2>2, <2>3, OnlyThePlace, ServesOffCourse
<1>2. CASE LaunchServer(p)
  <2> DEFINE changes == [pc |-> "await server", running |-> {"server"}]
  <2>1. DOMAIN changes = {"pc", "running"} /\ changes.pc \in Serving /\ "start server" \in Serving
    BY DEF Serving
  <2>2. Working(p, "start server", changes) /\ report' = report
    BY <1>2 DEF LaunchServer
  <2> HIDE DEF changes
  <2>3. CourseFields \intersect DOMAIN changes = {} /\ "pc" \in DOMAIN changes
    BY <2>1, OtherFields
  <2> QED
    BY <2>1, <2>2, <2>3, ServesOffCourse
<1>3. CASE ServerReady(p)
  <2> DEFINE changes == [pc |-> "start collector", held |-> {"server"}]
  <2>1. DOMAIN changes = {"pc", "held"} /\ changes.pc \in Serving /\ "await server" \in Serving
    BY DEF Serving
  <2>2. Working(p, "await server", changes) /\ report' = report
    BY <1>3 DEF ServerReady
  <2> HIDE DEF changes
  <2>3. CourseFields \intersect DOMAIN changes = {} /\ "pc" \in DOMAIN changes
    BY <2>1, OtherFields
  <2> QED
    BY <2>1, <2>2, <2>3, ServesOffCourse
<1>4. CASE ServerNotReady(p)
  BY <1>4, FailingOffCourse DEF ServerNotReady
<1>s. ASSUME NEW at \in Serving, NEW service, NEW changes,
             Starts(p, at, service, changes), report' = report,
             CourseFields \intersect DOMAIN changes = {}, "pc" \in DOMAIN changes,
             changes.pc \in Serving
      PROVE  Turns(p)
  <2> DEFINE others == [held |-> w.held \union {service}, running |-> w.running \union {service}]
             started == Changed(changes, others)
  <2>1. Working(p, at, started)
    BY <1>s DEF Starts
  <2>o. DOMAIN others = {"held", "running"}
    OBVIOUS
  <2> HIDE DEF others
  <2>c. /\ DOMAIN started = DOMAIN changes \union DOMAIN others
        /\ \A f \in DOMAIN changes \ DOMAIN others : started[f] = changes[f]
    BY ChangedFields
  <2>p. "pc" \in DOMAIN changes \ DOMAIN others
    BY <1>s, <2>o
  <2>2. DOMAIN started = DOMAIN changes \union {"held", "running"} /\ started.pc = changes.pc
    BY <2>c, <2>o, <2>p
  <2> HIDE DEF started
  <2>3. CourseFields \intersect DOMAIN started = {} /\ "pc" \in DOMAIN started
    BY <1>s, <2>2, OtherFields
  <2> QED
    BY <1>s, <2>1, <2>2, <2>3, ServesOffCourse
<1>5. CASE StartCollector(p)
  <2> DEFINE changes == Changed(CollectorIdle, [pc |-> "start engine"])
  <2>1. /\ DOMAIN changes = {"wire", "events", "arrived", "broken", "asked", "awaited", "after", "pc"}
        /\ changes.pc = "start engine"
    BY DEF Changed, CollectorIdle
  <2>2. Starts(p, "start collector", "collector", changes) /\ report' = report
    BY <1>5 DEF StartCollector
  <2> HIDE DEF changes
  <2>3. CourseFields \intersect DOMAIN changes = {} /\ "pc" \in DOMAIN changes
    BY <2>1, OtherFields
  <2>4. changes.pc \in Serving /\ "start collector" \in Serving
    BY <2>1 DEF Serving
  <2> QED
    BY <1>s, <2>2, <2>3, <2>4
<1>6. CASE StartEngine(p)
  <2>1. Starts(p, "start engine", "engine", [pc |-> "start writer"]) /\ report' = report
    BY <1>6 DEF StartEngine
  <2>2. "start engine" \in Serving /\ "start writer" \in Serving
    BY DEF Serving
  <2> QED
    BY <1>s, <2>1, <2>2, OnlyThePlace
<1>7. CASE StartWriter(p)
  <2>1. Starts(p, "start writer", "writer", [pc |-> "load models"]) /\ report' = report
    BY <1>7 DEF StartWriter
  <2>2. "start writer" \in Serving /\ "load models" \in Serving
    BY DEF Serving
  <2> QED
    BY <1>s, <2>1, <2>2, OnlyThePlace
<1>8. CASE LoadModels(p)
  <2>1. Working(p, "load models", [pc |-> "prepare prefixes"]) /\ report' = report
    BY <1>8 DEF LoadModels
  <2>2. "load models" \in Serving /\ "prepare prefixes" \in Serving
    BY DEF Serving
  <2> QED
    BY <2>1, <2>2, OnlyThePlace, ServesOffCourse
<1>9. CASE PreparePrefixes(p)
  <2>1. PICK assets : Working(p, "prepare prefixes", [pc |-> "warm up", assets |-> assets])
    BY <1>9 DEF PreparePrefixes
  <2> DEFINE changes == [pc |-> "warm up", assets |-> assets]
  <2>2. DOMAIN changes = {"pc", "assets"} /\ changes.pc \in Serving /\ "prepare prefixes" \in Serving
    BY DEF Serving
  <2>3. Working(p, "prepare prefixes", changes) /\ report' = report
    BY <1>9, <2>1 DEF PreparePrefixes
  <2> HIDE DEF changes
  <2>4. CourseFields \intersect DOMAIN changes = {} /\ "pc" \in DOMAIN changes
    BY <2>2, OtherFields
  <2> QED
    BY <2>2, <2>3, <2>4, ServesOffCourse
<1>10. CASE Raise(p)
  BY <1>10, FailingOffCourse DEF Raise
<1>c. ASSUME NEW at \in Closing, NEW onward \in Closing, NEW service,
             StopService(p, at, service, onward)
      PROVE  Turns(p)
  <2>1. PICK held, running, stuck :
          Working(p, at, [pc |-> onward, held |-> held, running |-> running, stuck |-> stuck])
    BY <1>c DEF StopService
  <2> DEFINE changes == [pc |-> onward, held |-> held, running |-> running, stuck |-> stuck]
  <2>2. DOMAIN changes = {"pc", "held", "running", "stuck"} /\ changes.pc = onward
    OBVIOUS
  <2>3. Working(p, at, changes) /\ report' = report
    BY <1>c, <2>1 DEF StopService
  <2> HIDE DEF changes
  <2>4. CourseFields \intersect DOMAIN changes = {} /\ "pc" \in DOMAIN changes
    BY <2>2, OtherFields
  <2> QED
    BY <1>c, <2>2, <2>3, <2>4, ClosesOffCourse
<1>11. CASE StopEngine(p) \/ CloseCollector(p) \/ CloseWriter(p) \/ StopServer(p)
  BY <1>11, <1>c DEF StopEngine, CloseCollector, CloseWriter, StopServer, Closing
<1>12. CASE DrainOnClose(p)
  <2>1. PICK failing : failing = (w.failing \/ ~Drained(p))
    OBVIOUS
  <2> DEFINE changes == [pc |-> "close collector", failing |-> failing]
  <2>2. DOMAIN changes = {"pc", "failing"} /\ changes.pc \in Closing /\ "drain" \in Closing
    BY DEF Closing
  <2>3. Working(p, "drain", changes) /\ report' = report
    BY <1>12, <2>1 DEF DrainOnClose
  <2> HIDE DEF changes
  <2>4. CourseFields \intersect DOMAIN changes = {} /\ "pc" \in DOMAIN changes
    BY <2>2, OtherFields
  <2> QED
    BY <2>2, <2>3, <2>4, ClosesOffCourse
<1>13. CASE EndClose(p)
  <2>1. /\ w.pc = "closed" /\ UNCHANGED evaluationFiles
        /\ Working(p, "closed", IF w.failing \/ w.stuck # {} THEN [pc |-> "raised"] ELSE Onward(p))
    BY <1>13, WorkingAt DEF EndClose
  <2>2. CASE w.failing \/ w.stuck # {}
    <3> DEFINE changes == [pc |-> "raised"]
    <3>1. Working(p, "closed", changes) /\ "pc" \in DOMAIN changes /\ changes.pc = "raised"
      BY <2>1, <2>2
    <3> HIDE DEF changes
    <3>2. workers'[p].pc = "raised"
      BY <3>1, MovesTo
    <3> QED
      BY <2>1, <3>2, GoneOffCourse DEF Gone, Concluding, Turns
  <2>3. CASE ~(w.failing \/ w.stuck # {})
    <3>1. ~Lost(w)
      BY <2>3 DEF Lost
    <3>2. Ready(kind, w)
      BY <2>1, <3>1 DEF Evaluator
    <3>3. "row" \in DOMAIN w
      BY <3>2 DEF Ready, OnRow, RowFields
    <3> DEFINE changes == Onward(p)
    <3>4. Working(p, "closed", changes)
      BY <2>1, <2>3
    <3>5. GoingOn(w, changes) /\ DOMAIN changes = {"pc", "course"}
      BY OnwardGoesOn
    <3>6. Past(w) /\ "closed" \notin Concluding \union Gone
      BY <2>1 DEF Past, Closing, Concluding, Gone
    <3> HIDE DEF changes
    <3>7. Drawing \intersect DOMAIN changes = {}
      BY <3>5 DEF Drawing
    <3>8. OnStep(kind, workers'[p], 1)
      BY <3>3, <3>4, <3>5, <3>6, <3>7, OntoCourse
    <3> QED
      BY <2>1, <3>6, <3>8 DEF Turns, Enters
  <2> QED
    BY <2>2, <2>3
<1> QED
  BY <1>1, <1>2, <1>3, <1>4, <1>5, <1>6, <1>7, <1>8, <1>9, <1>10, <1>11, <1>12, <1>13
  DEF ServiceStep

\* An audit that begins.
LEMMA BeginAuditOffCourse ==
  ASSUME FrameTyped, kind = "runtime_audit", NEW p \in Processes, BeginAudit(p)
  PROVE  OffCourse(p)
<1> DEFINE v == workers'[p]
           fields == Changed(NoServices, EvaluationIdle)
           others == [pc |-> "bind evidence", course |-> AuditCourse]
<1>1. /\ DOMAIN EvaluationIdle = {"row", "histories", "measured", "example", "prefix", "course",
                                  "result", "reported", "bound", "objects"}
      /\ EvaluationIdle.row = 1 /\ EvaluationIdle.objects = <<>>
  BY DEF EvaluationIdle
<1>2. /\ DOMAIN fields = DOMAIN NoServices \union DOMAIN EvaluationIdle
      /\ \A f \in DOMAIN EvaluationIdle : fields[f] = EvaluationIdle[f]
  BY ChangedFields
<1>3. /\ DOMAIN others = {"pc", "course"} /\ others.pc = "bind evidence"
      /\ others.course = AuditCourse
  OBVIOUS
<1>4. Begin(p, {"runtime_audit"}, Changed(fields, others)) /\ report' = report
  BY DEF BeginAudit
<1> HIDE DEF fields, others
<1>5. /\ DOMAIN fields \union DOMAIN others \union {"attempt"} \subseteq DOMAIN v
      /\ \A f \in DOMAIN others : v[f] = others[f]
      /\ \A f \in DOMAIN fields \ (DOMAIN others \union {"attempt"}) : v[f] = fields[f]
  BY <1>3, <1>4, BeginChanges
<1>6. /\ Drawing \union {"course"} \subseteq DOMAIN v /\ v.row = 1 /\ v.objects = <<>>
      /\ v.pc = "bind evidence" /\ v.course = AuditCourse
  BY <1>1, <1>2, <1>3, <1>5 DEF Drawing
<1>7. AuditCourse = Course(kind)
  BY CourseOf
<1> QED
  BY <1>4, <1>6, <1>7, BeginsOnCourse

\* A request that is made leaves the course alone.
LEMMA RequestOffCourse ==
  ASSUME FrameTyped, NEW p \in Processes, StandsOnCourse(kind, workers[p]),
         NEW at \in {"warm up", "evaluate", "measure"}, NEW id, NEW accepted, NEW onward,
         onward = "drain probe" => workers[p].row = AllRows + 1,
         Request(p, at, id, accepted, [after |-> onward])
  PROVE  Turns(p)
<1> DEFINE w == workers[p]  v == workers'[p]
<1>1. PICK changes :
        /\ Working(p, at, changes)
        /\ DOMAIN changes = {"after", "pc", "awaited", "wire", "asked"}
        /\ changes.pc = "await" /\ changes.after = onward
  <2>1. PICK awaited, wire, asked :
          Working(p, at, Changed([after |-> onward],
                                 [pc |-> "await", awaited |-> awaited, wire |-> wire,
                                  asked |-> asked]))
    BY DEF Request
  <2> DEFINE changes == Changed([after |-> onward],
                                [pc |-> "await", awaited |-> awaited, wire |-> wire,
                                 asked |-> asked])
  <2>2. /\ DOMAIN changes = {"after", "pc", "awaited", "wire", "asked"}
        /\ changes.pc = "await" /\ changes.after = onward
    BY DEF Changed
  <2>3. Working(p, at, changes)
    BY <2>1
  <2> HIDE DEF changes
  <2> QED
    BY <2>2, <2>3
<1>2. report' = report
  BY DEF Request
<1>f. \A f \in DOMAIN changes : v[f] = changes[f]
  BY <1>1, WorkingFields
<1>3. v.pc = "await" /\ v.after = onward
  BY <1>1, <1>f
<1>4. Past(v) => onward = "drain probe"
  BY <1>3 DEF Past, Closing
<1>5. at \notin Concluding \union Gone
  BY DEF Concluding, Gone
<1>6. ({"row", "course"} \union Drawing) \intersect DOMAIN changes = {}
  BY <1>1, OtherFields DEF CourseFields
<1>7. v.pc \notin Concluding
  BY <1>3, NotThere
<1> QED
  BY <1>1, <1>2, <1>4, <1>5, <1>6, <1>7, QuietOnCourse DEF Turns

LEMMA ObservationOffCourse ==
  ASSUME FrameTyped, NEW p \in Processes, StandsOnCourse(kind, workers[p]), BuildObservation(p)
  PROVE  Turns(p)
<1>1. PICK x : Working(p, "evaluate", [pc |-> "measure", example |-> x])
  BY DEF BuildObservation
<1> DEFINE changes == [pc |-> "measure", example |-> x]
<1>2. DOMAIN changes = {"pc", "example"} /\ changes.pc \in Serving /\ "evaluate" \in Serving
  BY DEF Serving
<1>3. Working(p, "evaluate", changes) /\ report' = report
  BY <1>1 DEF BuildObservation
<1> HIDE DEF changes
<1>4. CourseFields \intersect DOMAIN changes = {} /\ "pc" \in DOMAIN changes
  BY <1>2, OtherFields
<1> QED
  BY <1>2, <1>3, <1>4, ServesOffCourse

\* A line that is read leaves the audit where it is.
LEMMA DeliverOffCourse ==
  ASSUME FrameTyped, kind = "runtime_audit", NEW p \in Processes, Auditor(workers[p]),
         StandsOnCourse(kind, workers[p]), Deliver(p)
  PROVE  Turns(p)
<1> DEFINE w == workers[p]  v == workers'[p]
<1>1. PICK line : Working(p, w.pc, Accept(p, line))
  BY DEF Deliver
<1> DEFINE changes == Accept(p, line)
<1>2. DOMAIN changes = {"wire", "arrived", "broken", "events"}
  BY DEF Accept
<1>3. Working(p, w.pc, changes) /\ report' = report
  BY <1>1 DEF Deliver
<1>4. w.pc \in {"evaluate", "measure", "await", "save sample", "drain warmup", "drain probe",
                "close engine", "drain"}
  BY DEF Deliver, Listening
<1> HIDE DEF changes
<1>5. /\ DOMAIN v = DOMAIN w \union DOMAIN changes
      /\ \A f \in DOMAIN w \ DOMAIN changes : v[f] = w[f]
  BY <1>3, WorkingFields
<1>6. w.pc = "await" => "after" \in DOMAIN w
  BY <1>4 DEF Auditor, OnCourse
<1>7. "pc" \in DOMAIN w
  BY <1>4 DEF Auditor, Served
<1>8. v.pc = w.pc /\ (w.pc = "await" => v.after = w.after)
  BY <1>2, <1>5, <1>6, <1>7
<1>9. Past(v) => Past(w)
  BY <1>8 DEF Past
<1>10. w.pc \notin Concluding \union Gone
  BY <1>4 DEF Concluding, Gone
<1>11. ({"row", "course"} \union Drawing) \intersect DOMAIN changes = {}
  BY <1>2, OtherFields DEF CourseFields
<1> QED
  BY <1>3, <1>8, <1>9, <1>10, <1>11, QuietOnCourse DEF Turns

\* An event that is waited for.
LEMMA WaitOffCourse ==
  ASSUME FrameTyped, kind = "runtime_audit", NEW p \in Processes, Auditor(workers[p]),
         StandsOnCourse(kind, workers[p]), NEW sort, WaitFor(p, sort)
  PROVE  Turns(p)
<1> DEFINE w == workers[p]
           v == workers'[p]
           changes == [pc |-> IF Len(w.awaited) = 1 THEN w.after ELSE "await",
                       awaited |-> Tail(w.awaited), events |-> w.events \ {Head(w.awaited)}]
<1>1. Working(p, "await", changes) /\ report' = report
  BY DEF WaitFor
<1>2. DOMAIN changes = {"pc", "awaited", "events"} /\ changes.pc \in {w.after, "await"}
  OBVIOUS
<1> HIDE DEF changes
<1>3. w.pc = "await"
  BY <1>1, WorkingAt
<1>4. "after" \in DOMAIN w /\ w.after \in Entered \ {"refused"}
  BY <1>3 DEF Auditor, OnCourse
<1>5. v.pc \in {w.after, "await"} /\ v.after = w.after
  BY <1>1, <1>2, <1>4, WorkingFields
<1>6. v.pc \notin Closing \union Concluding
  BY <1>4, <1>5 DEF Entered, Closing, Concluding
<1>7. Past(v) => Past(w)
  BY <1>3, <1>5, <1>6 DEF Past
<1>8. ({"row", "course"} \union Drawing) \intersect DOMAIN changes = {}
  BY <1>2, OtherFields DEF CourseFields
<1> QED
  BY <1>1, <1>6, <1>7, <1>8, NotThere, QuietOnCourse DEF Turns

LEMMA AuditTurns ==
  ASSUME FrameTyped, kind = "runtime_audit", NEW p \in Processes, Auditor(workers[p]),
         Evaluator(kind, workers[p]), StandsOnCourse(kind, workers[p]), AuditStep(p)
  PROVE  Turns(p)
<1> DEFINE w == workers[p]
<1>0. CASE ServiceStep(p)
  BY <1>0, ServiceTurns
<1>1. CASE BeginAudit(p)
  BY <1>1, BeginAuditOffCourse DEF Turns
<1>2. CASE Warmup(p)
  <2>1. Request(p, "warm up", WarmupId, TRUE, [after |-> "drain warmup"])
    BY <1>2 DEF Warmup
  <2> QED
    BY <2>1, RequestOffCourse
<1>3. CASE RestoreAudit(p)
  BY <1>3, RestoreOffCourse DEF RestoreAudit, Turns
<1>4. CASE BuildObservation(p)
  BY <1>4, ObservationOffCourse
<1>5. CASE MeasurePair(p)
  <2>1. PICK onward \in {"save sample", "noncausal"} :
          Request(p, "measure", w.row, w.example.decision = "accepted", [after |-> onward])
    BY <1>5 DEF MeasurePair
  <2>2. onward # "drain probe"
    OBVIOUS
  <2> QED
    BY <2>1, <2>2, RequestOffCourse
<1>6. CASE ProbeFailure(p)
  <2>1. /\ w.pc = "evaluate" /\ w.row \notin Rows
        /\ Request(p, "evaluate", ProbeId, TRUE, [after |-> "drain probe"])
    BY <1>6 DEF ProbeFailure, AfterRows, At
  <2>2. "row" \in DOMAIN w
    <3>1. Ready(kind, w)
      BY <2>1, ReadyAt DEF Closing
    <3> QED
      BY <3>1 DEF Ready, OnRow, RowFields
  <2>3. w.row = AllRows + 1
    BY <2>1, <2>2, RowsDone
  <2> QED
    BY <2>1, <2>3, RequestOffCourse
<1>7. CASE Deliver(p)
  BY <1>7, DeliverOffCourse
<1>8. CASE ConsumeGateEvent(p) \/ ConsumeExecutionEvent(p)
  BY <1>8, WaitOffCourse DEF ConsumeGateEvent, ConsumeExecutionEvent
<1>9. CASE DrainWarmup(p)
  <2>1. Working(p, "drain warmup", [pc |-> "evaluate"]) /\ report' = report
    BY <1>9 DEF DrainWarmup, Drain
  <2>2. "drain warmup" \in Serving /\ "evaluate" \in Serving
    BY DEF Serving
  <2> QED
    BY <2>1, <2>2, OnlyThePlace, ServesOffCourse
<1>10. CASE DrainProbe(p)
  <2>1. Working(p, "drain probe", [pc |-> "close engine"]) /\ report' = report
    BY <1>10 DEF DrainProbe, Drain
  <2>2. Past(w)
    BY <2>1, WorkingAt DEF Past
  <2>3. "drain probe" \notin Concluding \union Gone /\ "close engine" \notin Concluding \union {"await"}
    BY DEF Concluding, Gone
  <2> QED
    BY <2>1, <2>2, <2>3, OnlyThePlace, MovesOffCourse DEF Turns
<1>11. CASE ConcludeAudit(p)
  <2>1. PICK enough, cheap :
          Conclude(p, "runtime_audit", IF enough THEN RuntimeSummary(w.measured) ELSE None,
                   enough /\ cheap)
    BY <1>11 DEF ConcludeAudit
  <2>2. enough /\ cheap => Drawn(kind, w.measured, IF enough THEN RuntimeSummary(w.measured) ELSE None)
    BY DEF Drawn, MethodDev
  <2> DEFINE result == IF enough THEN RuntimeSummary(w.measured) ELSE None
             acceptable == enough /\ cheap
  <2>3. Conclude(p, "runtime_audit", result, acceptable)
        /\ (acceptable => Drawn(kind, w.measured, result))
    BY <2>1, <2>2
  <2> HIDE DEF result, acceptable
  <2> QED
    BY <2>3, ConcludeTurns
<1>12. CASE WriteApproved(p)
  <2>1. WriteArtifact(p, "runtime_audit", Approved(w.result, w.reported))
    BY <1>12 DEF WriteApproved
  <2>2. Approved(w.result, w.reported) = Contents(kind, w.measured, w.result, w.reported)
    BY DEF Contents
  <2> QED
    BY <2>1, <2>2, ArtifactTurns
<1>13. CASE WriteRuntimeManifest(p)
  <2>1. WriteManifest(p, "runtime_audit", ValidAudit(w.result))
    BY <1>13 DEF WriteRuntimeManifest
  <2>2. ValidAudit(w.result) => Valid(kind, w.result)
    BY DEF Valid
  <2> QED
    BY <2>1, <2>2, ManifestTurns
<1> QED
  BY <1>0, <1>1, <1>2, <1>3, <1>4, <1>5, <1>6, <1>7, <1>8, <1>9, <1>10, <1>11, <1>12, <1>13
  DEF AuditStep

-----------------------------------------------------------------------------
(* The course that attempts stand on.                                      *)

\* Every step of an evaluation is a turn.
LEMMA EvaluatingTurns ==
  ASSUME FrameTyped, AuditInv, HistoryInv, kind \in Evaluations, NEW p \in Processes,
         StandsOnCourse(kind, workers[p]),
         Fitting(p) \/ Collecting(p) \/ Evaluating(p) \/ Stopping(p)
  PROVE  Turns(p)
<1>0. kind \in Kinds /\ Evaluator(kind, workers[p])
  BY DEF HistoryInv
<1>1. CASE Stopping(p)
  <2>1. workers'[p] = Idle /\ report' = report
    BY <1>1 DEF Stopping, FailStage, Crash, FrameTyped
  <2> QED
    BY <2>1, IdleOffCourse
<1>2. CASE kind = "runtime_audit" /\ ~Stopping(p)
  <2>1. Auditor(workers[p])
    BY <1>2 DEF AuditInv
  <2>2. workers[p].pc \in AuditPlaces \union {"idle"}
    BY <2>1 DEF Auditor, Served
  <2>3. EvaluationStep(p) \/ AuditStep(p)
    BY <1>2, <2>2, OnlyAuditing
  <2> QED
    BY <1>0, <1>2, <2>1, <2>3, EvaluationTurns, AuditTurns
<1>3. CASE kind # "runtime_audit" /\ ~Stopping(p)
  <2>1. workers[p].pc \in SamplePlaces \union {"idle"}
    BY <1>0, <1>3 DEF Evaluator, Ready, Placed
  <2>2. ~Fitting(p) /\ ~Collecting(p) /\ ~AuditStep(p)
    BY <1>3, <2>1, OnlyEvaluating
  <2>3. \/ EvaluationStep(p) \/ RiskFitStep(p) \/ CalibrationStep(p)
        \/ ValidationStep(p) \/ SemanticStep(p) \/ MethodDevStep(p)
    BY <1>3, <2>2 DEF Evaluating
  <2> QED
    BY <1>0, <2>3, EvaluationTurns, RiskFitTurns, CalibrationTurns, ValidationTurns,
       SemanticTurns, MethodDevTurns
<1> QED
  BY <1>1, <1>2, <1>3

\* A step from one place of the course to the next.
PassesTo(w, v, at) ==
  \E i \in 1..PublishAt(kind) :
    /\ w.pc = at /\ at = Course(kind)[i] /\ PlaceIs(kind, i) /\ OnStep(kind, w, i)
    /\ i + 1 \in 1..PublishAt(kind) /\ OnStep(kind, v, i + 1)

\* Steps of the course by their place in it.
LEMMA LeadsPast ==
  ASSUME FrameTyped, NEW p \in Processes, NEW at \in Concluding \ {"conclude", "publish"},
         NEW changes, Working(p, at, changes), GoingOn(workers[p], changes),
         "result" \notin DOMAIN changes, StandsOnCourse(kind, workers[p])
  PROVE  PassesTo(workers[p], workers'[p], at)
<1>1. workers[p].pc = at
  BY WorkingAt
<1>2. PICK i \in 1..PublishAt(kind) :
        OnStep(kind, workers[p], i) /\ PlaceIs(kind, i) /\ at = Course(kind)[i]
  BY <1>1, StandsAt
<1>3. OnStep(kind, workers'[p], i + 1) /\ i + 1 \in 1..PublishAt(kind)
  BY <1>2, PassesOn
<1> QED
  BY <1>1, <1>2, <1>3 DEF PassesTo

LEMMA LeadsPastPlain ==
  ASSUME FrameTyped, NEW p \in Processes, NEW at \in Concluding \ {"conclude", "publish"},
         Working(p, at, Onward(p)), StandsOnCourse(kind, workers[p])
  PROVE  PassesTo(workers[p], workers'[p], at)
<1>1. GoingOn(workers[p], Onward(p)) /\ "result" \notin DOMAIN Onward(p)
  BY OnwardGoesOn
<1> QED
  BY <1>1, LeadsPast

\* A step that also notes what lies in a file.
Noting(p, at, field, contents) ==
  \E others : /\ Working(p, at, Changed(Onward(p), others))
              /\ DOMAIN others = {field} /\ others[field] = contents

LEMMA LeadsPastNoting ==
  ASSUME FrameTyped, NEW p \in Processes, NEW at \in Concluding \ {"conclude", "publish"},
         NEW field \in {"reported", "bound"}, NEW contents, Noting(p, at, field, contents),
         StandsOnCourse(kind, workers[p])
  PROVE  PassesTo(workers[p], workers'[p], at)
<1>1. PICK others : Working(p, at, Changed(Onward(p), others)) /\ DOMAIN others = {field}
  BY DEF Noting
<1>2. {"pc", "course", "row", "measured", "objects"} \intersect DOMAIN others = {}
  BY <1>1
<1> DEFINE changes == Changed(Onward(p), others)
<1>3. GoingOn(workers[p], changes) /\ DOMAIN changes = {"pc", "course"} \union DOMAIN others
  BY <1>2, OnwardWithGoesOn
<1>4. Working(p, at, changes)
  BY <1>1
<1> HIDE DEF changes
<1>5. "result" \notin DOMAIN changes
  BY <1>1, <1>3
<1> QED
  BY <1>3, <1>4, <1>5, LeadsPast

LEMMA HashNotes ==
  ASSUME NEW p, HashReport(p)
  PROVE  Noting(p, Hashing, "reported", report) /\ UNCHANGED evaluationFiles
<1> DEFINE others == [reported |-> report]
<1>1. Working(p, Hashing, Changed(Onward(p), others))
  BY Zenon DEF HashReport, Hashing
<1>2. DOMAIN others = {"reported"} /\ others["reported"] = report
  OBVIOUS
<1> HIDE DEF others
<1>3. UNCHANGED evaluationFiles
  BY DEF HashReport
<1> QED
  BY <1>1, <1>2, <1>3 DEF Noting

LEMMA BindNotes ==
  ASSUME NEW p, BindArtifact(p)
  PROVE  Noting(p, Binding, "bound", artifact) /\ UNCHANGED evaluationFiles
<1> DEFINE others == [bound |-> artifact]
<1>1. Working(p, Binding, Changed(Onward(p), others))
  BY Zenon DEF BindArtifact, Binding
<1>2. DOMAIN others = {"bound"} /\ others["bound"] = artifact
  OBVIOUS
<1> HIDE DEF others
<1>3. UNCHANGED evaluationFiles
  BY DEF BindArtifact
<1> QED
  BY <1>1, <1>2, <1>3 DEF Noting

LEMMA LeadsPlaces ==
  /\ {"report", "artifact", "manifest", Hashing, Binding} \subseteq Concluding \ {"conclude", "publish"}
  /\ {"conclude", "publish"} \subseteq Concluding
<1>1. {"report", "artifact", "manifest", "conclude", "publish"} \subseteq Concluding
  BY DEF Concluding
<1> QED
  BY <1>1, Spaced

LEMMA LeadsStands ==
  ASSUME NEW w, NEW v, NEW at, PassesTo(w, v, at)
  PROVE  StandsOnCourse(kind, v)
BY StandsThere DEF PassesTo

\* What a result is drawn from stands in the report of a calibration when it is written.
LEMMA ReportsDrawn ==
  ASSUME FrameTyped, NEW p \in Processes, WriteReport(p), StandsOnCourse(kind, workers[p])
  PROVE  Calibrated(kind, report')
<1>1. Working(p, "report", Onward(p))
  BY DEF WriteReport
<1>2. PICK i \in 1..PublishAt(kind) :
        OnStep(kind, workers[p], i) /\ PlaceIs(kind, i) /\ "report" = Course(kind)[i]
  <2>1. workers[p].pc = "report"
    BY <1>1, WorkingAt
  <2> QED
    BY <2>1, StandsAt, LeadsPlaces
<1>3. i = ReportAt(kind)
  BY <1>2 DEF PlaceIs
<1>4. kind = "calibrate" => i > ConcludeAt(kind)
  BY <1>3 DEF ReportAt, ConcludeAt, MethodDev
<1>5. kind = "calibrate" => Drawn(kind, workers[p].measured, workers[p].result)
  BY <1>2, <1>4 DEF OnStep
<1>6. report'.measured = workers[p].measured /\ report'.result = workers[p].result
  BY DEF WriteReport
<1> QED
  BY <1>5, <1>6 DEF Calibrated

\* A turn keeps an attempt on its course, and the report of a calibration right.
LEMMA TurnsStand ==
  ASSUME FrameTyped, NEW p \in Processes, StandsOnCourse(kind, workers[p]),
         Calibrated(kind, report), Turns(p)
  PROVE  StandsOnCourse(kind, workers'[p]) /\ Calibrated(kind, report')
<1> DEFINE w == workers[p]  v == workers'[p]
<1>1. CASE OffCourse(p)
  BY <1>1 DEF OffCourse
<1>2. CASE Enters(p)
  <2>1. 1 \in 1..PublishAt(kind)
    BY CoursePlaces
  <2> QED
    BY <1>2, <2>1, StandsThere DEF Enters
<1>3. CASE Draws(p)
  <2>1. PICK result :
          /\ Working(p, "conclude", Changed(Onward(p), [result |-> result]))
          /\ Drawn(kind, w.measured, result) /\ report' = report
    BY <1>3 DEF Draws
  <2>2. w.pc = "conclude"
    BY <2>1, WorkingAt
  <2>3. PICK i \in 1..PublishAt(kind) : OnStep(kind, w, i)
    BY <2>2, StandsAt, LeadsPlaces
  <2>4. OnStep(kind, v, i + 1) /\ i + 1 \in 1..PublishAt(kind)
    BY <2>1, <2>3, ConcludesOn
  <2>5. StandsOnCourse(kind, v)
    BY <2>4, StandsThere
  <2> QED
    BY <2>1, <2>5
<1>4. CASE WriteReport(p)
  <2>1. PassesTo(w, v, "report")
    BY <1>4, LeadsPlaces, LeadsPastPlain DEF WriteReport
  <2> QED
    BY <1>4, <2>1, LeadsStands, ReportsDrawn
<1>5. CASE HashReport(p)
  <2>1. PassesTo(w, v, Hashing) /\ report' = report
    BY <1>5, HashNotes, LeadsPlaces, LeadsPastNoting
  <2> QED
    BY <2>1, LeadsStands
<1>6. CASE WritesArtifact(p)
  <2>1. Working(p, "artifact", Onward(p)) /\ report' = report
    BY <1>6 DEF WritesArtifact, WriteArtifact
  <2>2. PassesTo(w, v, "artifact")
    BY <2>1, LeadsPlaces, LeadsPastPlain
  <2> QED
    BY <2>1, <2>2, LeadsStands
<1>7. CASE BindArtifact(p)
  <2>1. PassesTo(w, v, Binding) /\ report' = report
    BY <1>7, BindNotes, LeadsPlaces, LeadsPastNoting
  <2> QED
    BY <2>1, LeadsStands
<1>8. CASE WritesManifest(p)
  <2>1. Working(p, "manifest", Onward(p)) /\ report' = report
    BY <1>8 DEF WritesManifest, WriteManifest
  <2>2. PassesTo(w, v, "manifest")
    BY <2>1, LeadsPlaces, LeadsPastPlain
  <2> QED
    BY <2>1, <2>2, LeadsStands
<1>9. CASE PublishOutput(p)
  <2>1. PICK objects : Working(p, "publish", [objects |-> objects])
    BY <1>9 DEF PublishOutput
  <2>2. w.pc = "publish" /\ report' = report
    BY <1>9, <2>1, WorkingAt DEF PublishOutput
  <2>3. PICK i \in 1..PublishAt(kind) : OnStep(kind, w, i)
    BY <2>2, StandsAt, LeadsPlaces
  <2>4. OnStep(kind, v, i)
    BY <2>1, <2>3, PublishesOn
  <2>5. StandsOnCourse(kind, v)
    BY <2>4, StandsThere
  <2> QED
    BY <2>2, <2>5
<1> QED
  BY <1>1, <1>2, <1>3, <1>4, <1>5, <1>6, <1>7, <1>8, <1>9 DEF Turns

LEMMA CourseInvInit == Init => CourseInv
<1> SUFFICES ASSUME Init
             PROVE  /\ Calibrated(kind, report)
                    /\ \A p \in Processes : StandsOnCourse(kind, workers[p])
  BY DEF CourseInv
<1>1. report = None
  BY DEF Init, AuditInit, EvaluationInit
<1>2. \A p \in Processes : workers[p].pc = "idle"
  BY DEF Init, FrameInit, Idle
<1> QED
  BY <1>1, <1>2 DEF Calibrated, StandsOnCourse, Gone, Concluding

LEMMA CourseInvStep ==
  ASSUME FrameTyped, AuditInv, HistoryInv, CourseInv, [Next]_vars
  PROVE  CourseInv'
<1> SUFFICES ASSUME kind \in Evaluations, kind' = kind
             PROVE  /\ Calibrated(kind, report')
                    /\ \A q \in Processes : StandsOnCourse(kind, workers'[q])
  BY FrameStep DEF CourseInv
<1>0. /\ Calibrated(kind, report)
      /\ \A q \in Processes : StandsOnCourse(kind, workers[q])
  BY DEF CourseInv
<1>1. CASE UNCHANGED vars
  BY <1>0, <1>1
<1>2. CASE PowerLoss
  BY <1>2 DEF PowerLoss, Fits, Evaluations
<1>3. ASSUME NEW p \in Processes,
             Fitting(p) \/ Collecting(p) \/ Evaluating(p) \/ Stopping(p)
      PROVE  /\ Calibrated(kind, report')
             /\ \A q \in Processes : StandsOnCourse(kind, workers'[q])
  <2>1. Turns(p)
    BY <1>0, <1>3, EvaluatingTurns
  <2>2. \A q \in Processes \ {p} : workers'[q] = workers[q]
    BY <1>3, StepActs DEF Acts
  <2>3. StandsOnCourse(kind, workers'[p]) /\ Calibrated(kind, report')
    BY <1>0, <2>1, TurnsStand
  <2>4. ASSUME NEW q \in Processes
        PROVE  StandsOnCourse(kind, workers'[q])
    BY <1>0, <2>2, <2>3
  <2> QED
    BY <2>3, <2>4
<1> QED
  BY <1>1, <1>2, <1>3 DEF Next

\* The threshold in the report of a calibration is the highest that the bound allows, of
\* the risk levels that accept enough of the rows which the report lists: whatever is
\* measured and however rows are split into prefix groups, with any number of processes,
\* attempts and crashes, and also when attempts alive at once share the report's file.
THEOREM ThresholdsMaximal == Spec => []ThresholdIsMaximal
<1> DEFINE Calibrating == FrameTyped /\ AuditInv /\ HistoryInv /\ CourseInv
<1>1. Init => Calibrating
  <2>1. Init => FrameTyped
    BY DEF Init, FrameInit, FrameTyped
  <2> QED
    BY <2>1, AuditInvInit, HistoryInvInit, CourseInvInit
<1>2. Calibrating /\ [Next]_vars => Calibrating'
  BY FrameStep, AuditInvStep, HistoryInvStep, CourseInvStep
<1>3. Calibrating => ThresholdIsMaximal
  <2> SUFFICES ASSUME HistoryInv, CourseInv, kind = "calibrate", report # None
               PROVE  Maximal(report.measured, report.result)
    BY DEF ThresholdIsMaximal, Maximal
  <2>0. kind \in Evaluations
    BY DEF Evaluations
  <2>1. PICK m \in Nat : CausalUpTo(kind, report.measured, m)
    BY <2>0 DEF HistoryInv, FilesCausal, Causal
  <2> DEFINE examples == report.measured
  <2>2. DOMAIN examples = 1..m
    BY <2>1 DEF CausalUpTo, Listing
  <2>3. ASSUME NEW i \in 1..m PROVE examples[i].outcome.risk \in Nat
    BY <2>1 DEF CausalUpTo, MeasuredAt, MethodDev
  <2>4. report.result = CalibratedThreshold(examples) /\ report.result # NoThreshold
    BY <2>0 DEF CourseInv, Calibrated, Drawn, MethodDev
  <2> HIDE DEF examples
  <2> QED
    BY <2>2, <2>3, <2>4, ThresholdRight DEF examples
<1> QED
  BY <1>1, <1>2, <1>3, PTL DEF Spec

-----------------------------------------------------------------------------
(* Only CompleteEvaluation marks the stage of an evaluation as completed.  *)

Marks(p) == stage' = stage \/ stage'.status # "completed" \/ CompleteEvaluation(p)

\* Steps of a process, beginnings and failures do not complete a stage.
LEMMA StepsMark ==
  ASSUME FrameTyped, NEW p
  PROVE  /\ \A pc, changes : Working(p, pc, changes) => Marks(p)
         /\ \A stages, changes : Begin(p, stages, changes) => Marks(p)
         /\ \A running, stuck : Failing(p, running, stuck) => Marks(p)
         /\ FailStage(p) \/ Crash(p) => Marks(p)
<1>1. \A pc, changes : Working(p, pc, changes) => Marks(p)
  BY DEF Working, Marks
<1>2. \A stages, changes : Begin(p, stages, changes) => Marks(p)
  <2>1. ASSUME NEW stages, NEW changes, Begin(p, stages, changes)
        PROVE  stage'.status = "running"
    BY <2>1 DEF Begin, FrameTyped
  <2> QED
    BY <2>1 DEF Marks
<1>3. \A running, stuck : Failing(p, running, stuck) => Marks(p)
  BY DEF Failing, Marks
<1>4. FailStage(p) \/ Crash(p) => Marks(p)
  BY DEF FailStage, Crash, FrameTyped, Marks
<1> QED
  BY <1>1, <1>2, <1>3, <1>4

LEMMA EvaluationMarks ==
  ASSUME FrameTyped, NEW p,
         \/ EvaluationStep(p) \/ RiskFitStep(p) \/ CalibrationStep(p)
         \/ ValidationStep(p) \/ SemanticStep(p) \/ MethodDevStep(p)
  PROVE  Marks(p)
<1> USE DEF Open, EnterEvaluator, RestoreRow, MeasureRow, Conclude, WriteArtifact, WriteManifest
<1>1. CASE CompleteEvaluation(p)
  BY <1>1 DEF Marks
<1>2. CASE EvaluationStep(p) /\ ~CompleteEvaluation(p)
  BY <1>2, StepsMark DEF EvaluationStep, SaveSample, EndSamples, WriteReport, HashReport,
                         BindArtifact, PublishOutput
<1>3. CASE RiskFitStep(p)
  BY <1>3, StepsMark DEF RiskFitStep, BeginRiskFit, EnterRiskFit, RestoreRiskExample,
                     MeasureRiskExample, FitPredictor, SavePredictor, WriteRiskManifest
<1>4. CASE CalibrationStep(p)
  BY <1>4, StepsMark DEF CalibrationStep, BeginCalibration, EnterCalibration, RestoreCalibration,
                     MeasureCalibration, SelectThreshold, WriteCalibrationManifest
<1>5. CASE ValidationStep(p)
  BY <1>5, StepsMark DEF ValidationStep, BeginValidation, EnterValidation, RestoreValidation,
                     MeasureValidation, ConcludeValidation, ConcludeSelective, WriteCandidate,
                     WriteValidationManifest
<1>6. CASE SemanticStep(p)
  BY <1>6, StepsMark DEF SemanticStep, BeginSemantic, EnterSemantic, RestoreSemantic,
                     MeasureSemantic, ConcludeSemantic, ConcludeSelective, WriteSemanticApproved,
                     WriteSemanticManifest
<1>7. CASE MethodDevStep(p)
  BY <1>7, StepsMark DEF MethodDevStep, BeginMethodDev, EnterMethodDev, RestoreMethodDev,
                     MeasureMethodDev, FreezeStructure, WriteStructure
<1> QED
  BY <1>1, <1>2, <1>3, <1>4, <1>5, <1>6, <1>7

LEMMA AuditMarks ==
  ASSUME FrameTyped, NEW p, AuditStep(p)
  PROVE  Marks(p)
<1>1. CASE ServiceStep(p)
  <2>1. CASE LoadBindings(p) \/ LaunchServer(p) \/ ServerReady(p) \/ ServerNotReady(p)
    BY <2>1, StepsMark DEF LoadBindings, LaunchServer, ServerReady, ServerNotReady
  <2>2. CASE StartCollector(p) \/ StartEngine(p) \/ StartWriter(p)
    BY <2>2, StepsMark DEF StartCollector, StartEngine, StartWriter, Starts
  <2>3. CASE LoadModels(p) \/ PreparePrefixes(p) \/ Raise(p)
    BY <2>3, StepsMark DEF LoadModels, PreparePrefixes, Raise
  <2>4. CASE StopEngine(p) \/ CloseCollector(p) \/ CloseWriter(p) \/ StopServer(p)
    BY <2>4, StepsMark DEF StopEngine, CloseCollector, CloseWriter, StopServer, StopService
  <2>5. CASE DrainOnClose(p) \/ EndClose(p)
    BY <2>5, StepsMark DEF DrainOnClose, EndClose
  <2> QED
    BY <1>1, <2>1, <2>2, <2>3, <2>4, <2>5 DEF ServiceStep
<1>2. \A at, id, accepted, changes : Request(p, at, id, accepted, changes) => Marks(p)
  BY StepsMark DEF Request
<1>3. CASE BeginAudit(p) \/ Warmup(p) \/ MeasurePair(p) \/ ProbeFailure(p)
  BY <1>2, <1>3, StepsMark DEF BeginAudit, Warmup, MeasurePair, ProbeFailure
<1>4. CASE RestoreAudit(p) \/ BuildObservation(p) \/ Deliver(p)
  BY <1>4, StepsMark DEF RestoreAudit, RestoreRow, BuildObservation, Deliver
<1>5. CASE ConsumeGateEvent(p) \/ ConsumeExecutionEvent(p) \/ DrainWarmup(p) \/ DrainProbe(p)
  BY <1>5, StepsMark DEF ConsumeGateEvent, ConsumeExecutionEvent, WaitFor, DrainWarmup, DrainProbe, Drain
<1>6. CASE ConcludeAudit(p) \/ WriteApproved(p) \/ WriteRuntimeManifest(p)
  BY <1>6, StepsMark DEF ConcludeAudit, Conclude, WriteApproved, WriteArtifact,
                         WriteRuntimeManifest, WriteManifest
<1> QED
  BY <1>1, <1>3, <1>4, <1>5, <1>6 DEF AuditStep

\* Of an evaluation, and of no other stage, for others have their own steps to complete.
LEMMA EvaluatingMarks ==
  ASSUME FrameTyped, AuditInv, HistoryInv, kind \in Evaluations, NEW p \in Processes,
         Fitting(p) \/ Collecting(p) \/ Evaluating(p) \/ Stopping(p)
  PROVE  Marks(p)
<1>0. kind \in Kinds /\ Evaluator(kind, workers[p])
  BY DEF HistoryInv
<1>1. CASE Stopping(p)
  BY <1>1, StepsMark DEF Stopping
<1>2. CASE kind = "runtime_audit" /\ ~Stopping(p)
  <2>1. Auditor(workers[p])
    BY <1>2 DEF AuditInv
  <2>2. workers[p].pc \in AuditPlaces \union {"idle"}
    BY <2>1 DEF Auditor, Served
  <2>3. EvaluationStep(p) \/ AuditStep(p)
    BY <1>2, <2>2, OnlyAuditing
  <2> QED
    BY <2>3, EvaluationMarks, AuditMarks
<1>3. CASE kind # "runtime_audit" /\ ~Stopping(p)
  <2>1. workers[p].pc \in SamplePlaces \union {"idle"}
    BY <1>0, <1>3 DEF Evaluator, Ready, Placed
  <2>2. ~Fitting(p) /\ ~Collecting(p) /\ ~AuditStep(p)
    BY <1>3, <2>1, OnlyEvaluating
  <2> QED
    BY <1>3, <2>2, EvaluationMarks DEF Evaluating
<1> QED
  BY <1>1, <1>2, <1>3

-----------------------------------------------------------------------------
(* What each step of the course adds to what is written.                   *)

\* One lemma for each step: what it needs of what is written, and what it adds.
LEMMA ConcludedOn ==
  ASSUME NEW k, NEW w, NEW v, NEW published, NEW selected, NEW bound,
         WrittenBy(k, w, ConcludeAt(k), published, selected, bound),
         v.measured = w.measured, v.reported = w.reported
  PROVE  WrittenBy(k, v, ConcludeAt(k) + 1, published, selected, bound)
BY DEF WrittenBy, ConcludeAt, ReportAt, HashAt, ManifestAt, HasArtifact

LEMMA ReportedOn ==
  ASSUME NEW k, NEW v, NEW published, NEW selected, NEW bound,
         published.measured = v.measured, published.result = v.result
  PROVE  WrittenBy(k, v, ReportAt(k) + 1, published, selected, bound)
BY DEF WrittenBy, ReportAt, HashAt, ManifestAt, HasArtifact

LEMMA HashedOn ==
  ASSUME NEW k, NEW w, NEW v, NEW published, NEW selected, NEW bound,
         WrittenBy(k, w, HashAt(k), published, selected, bound),
         v.measured = w.measured, v.result = w.result, v.reported = published
  PROVE  WrittenBy(k, v, HashAt(k) + 1, published, selected, bound)
BY DEF WrittenBy, ReportAt, HashAt, ManifestAt, HasArtifact

LEMMA ArtifactOn ==
  ASSUME NEW k, HasArtifact(k), NEW w, NEW v, NEW published, NEW selected, NEW bound, NEW later,
         WrittenBy(k, w, 4, published, selected, bound),
         v.measured = w.measured, v.result = w.result, v.reported = w.reported,
         later = Contents(k, w.measured, w.result, w.reported)
  PROVE  WrittenBy(k, v, 5, published, later, bound)
BY DEF WrittenBy, ReportAt, HashAt, ManifestAt, HasArtifact

LEMMA BoundOn ==
  ASSUME NEW k, HasArtifact(k), NEW w, NEW v, NEW published, NEW selected, NEW bound,
         WrittenBy(k, w, 5, published, selected, bound),
         v.measured = w.measured, v.result = w.result, v.reported = w.reported,
         v.bound = selected
  PROVE  WrittenBy(k, v, 6, published, selected, bound)
BY DEF WrittenBy, ReportAt, HashAt, ManifestAt, HasArtifact

LEMMA ManifestOn ==
  ASSUME NEW k, NEW w, NEW v, NEW published, NEW selected, NEW bound, NEW later,
         WrittenBy(k, w, ManifestAt(k), published, selected, bound),
         v.measured = w.measured, v.result = w.result, v.reported = w.reported,
         v.bound = w.bound, v.objects = <<>>, Valid(k, w.result),
         later = [report |-> w.reported, artifact |-> w.bound, result |-> w.result]
  PROVE  WrittenBy(k, v, ManifestAt(k) + 1, published, selected, later)
<1>1. PutSoFar(Outputs(k, published, later, selected), v.objects, OutputCount(k))
  <2>1. Listing(<<>>, 0)
    BY DEF Listing
  <2>2. 0 \in 0..OutputCount(k)
    BY DEF OutputCount
  <2> QED
    BY <2>1, <2>2 DEF PutSoFar
<1>2. /\ ManifestAt(k) > ReportAt(k) /\ ManifestAt(k) > HashAt(k)
      /\ ManifestAt(k) \in Nat
      /\ HasArtifact(k) => ManifestAt(k) = 6
  BY DEF ReportAt, HashAt, ManifestAt, HasArtifact
<1> QED
  BY <1>1, <1>2 DEF WrittenBy

LEMMA ListingLen ==
  ASSUME NEW n \in Nat, NEW s, Listing(s, n)
  PROVE  Len(s) = n
<1> DEFINE S == {s[i] : i \in 1..n}
<1>1. \A i \in 1..n : s[i] \in S
  OBVIOUS
<1> HIDE DEF S
<1>2. s \in [1..n -> S]
  BY <1>1 DEF Listing
<1>3. s \in Seq(S)
  BY <1>2, SeqDef
<1> QED
  BY <1>2, <1>3

\* One more output is put.
LEMMA PutOn ==
  ASSUME NEW outputs, NEW count \in Nat, NEW objects, PutSoFar(outputs, objects, count),
         Len(objects) < count
  PROVE  PutSoFar(outputs, Append(objects, outputs[Len(objects) + 1]), count)
<1>1. PICK m \in 0..count : Listing(objects, m) /\ \A j \in 1..m : objects[j] = outputs[j]
  BY DEF PutSoFar
<1>2. m \in Nat /\ Len(objects) = m
  BY <1>1, ListingLen
<1> DEFINE e == outputs[m + 1]  later == Append(objects, e)
<1>3. Longer(objects, later, m, e)
  BY <1>1, <1>2, AppendAny
<1>4. /\ Listing(later, m + 1)
      /\ \A j \in 1..m + 1 : later[j] = outputs[j]
  <2>1. \A j \in 1..m + 1 : j \in 1..m \/ j = m + 1
    BY <1>2
  <2> HIDE DEF later
  <2> QED
    BY <1>1, <1>3, <2>1 DEF Longer
<1>5. m + 1 \in 0..count
  BY <1>2
<1>6. PutSoFar(outputs, later, count)
  <2> HIDE DEF later
  <2> QED
    BY <1>4, <1>5 DEF PutSoFar
<1> QED
  BY <1>2, <1>6

LEMMA PublishedOn ==
  ASSUME NEW k, NEW w, NEW v, NEW published, NEW selected, NEW bound,
         WrittenBy(k, w, PublishAt(k), published, selected, bound),
         v.measured = w.measured, v.result = w.result, v.reported = w.reported,
         v.bound = w.bound, Len(w.objects) < OutputCount(k),
         v.objects = Append(w.objects, Outputs(k, published, bound, selected)[Len(w.objects) + 1])
  PROVE  WrittenBy(k, v, PublishAt(k), published, selected, bound)
<1>1. /\ PublishAt(k) > ReportAt(k) /\ PublishAt(k) > HashAt(k) /\ PublishAt(k) > ManifestAt(k)
      /\ HasArtifact(k) => PublishAt(k) > 4 /\ PublishAt(k) > 5
  BY DEF PublishAt, ReportAt, HashAt, ManifestAt, HasArtifact
<1>2. OutputCount(k) \in Nat
  BY DEF OutputCount
<1>3. PutSoFar(Outputs(k, published, bound, selected), w.objects, OutputCount(k))
  BY <1>1 DEF WrittenBy
<1>4. PutSoFar(Outputs(k, published, bound, selected), v.objects, OutputCount(k))
  BY <1>2, <1>3, PutOn
<1> HIDE DEF PutSoFar
<1> QED
  BY <1>1, <1>4 DEF WrittenBy

-----------------------------------------------------------------------------
(* The steps of an attempt that is alone.                                  *)

\* What is written by the step that an attempt is at.
LEMMA WrittenThere ==
  ASSUME NEW v, NEW n \in 1..PublishAt(kind), OnStep(kind, v, n), NEW published, NEW selected,
         NEW bound, WrittenBy(kind, v, n, published, selected, bound)
  PROVE  WrittenSoFar(kind, v, published, selected, bound)
BY DEF WrittenSoFar, OnStep

LEMMA NothingWritten ==
  ASSUME NEW k, NEW v, NEW published, NEW selected, NEW bound
  PROVE  WrittenBy(k, v, 1, published, selected, bound)
BY DEF WrittenBy, ReportAt, HashAt, ManifestAt, HasArtifact

LEMMA WrittenHere ==
  ASSUME NEW w, w.pc \in Concluding, NEW published, NEW selected, NEW bound,
         WrittenSoFar(kind, w, published, selected, bound)
  PROVE  \E i \in 1..PublishAt(kind) :
           /\ w.pc = Course(kind)[i] /\ PlaceIs(kind, i)
           /\ WrittenBy(kind, w, i, published, selected, bound)
BY CoursePlaces DEF WrittenSoFar

\* What a step leaves of what is drawn.
LEMMA KeepsDrawing ==
  ASSUME FrameTyped, NEW p \in Processes, NEW at, NEW changes, Working(p, at, changes),
         Drawing \subseteq DOMAIN workers[p]
  PROVE  \A f \in Drawing \ DOMAIN changes : workers'[p][f] = workers[p][f]
BY WorkingFields

LEMMA OutputsAre ==
  OutputFiles = Outputs(kind, report, manifest, artifact) /\ Len(OutputFiles) = OutputCount(kind)
BY DEF OutputFiles, Outputs, OutputCount, Selective

\* The place of a step is its only one.
OnlyAt(at, n) ==
  \A i \in 1..PublishAt(kind) : PlaceIs(kind, i) /\ Course(kind)[i] = at => i = n

LEMMA OnlyPlaces ==
  /\ OnlyAt("conclude", ConcludeAt(kind)) /\ OnlyAt("report", ReportAt(kind))
  /\ OnlyAt(Hashing, HashAt(kind)) /\ OnlyAt("artifact", 4) /\ OnlyAt(Binding, 5)
  /\ OnlyAt("manifest", ManifestAt(kind)) /\ OnlyAt("publish", PublishAt(kind))
BY DEF OnlyAt, PlaceIs

LEMMA WrittenThenOn ==
  ASSUME NEW w, NEW v, NEW at \in Concluding, PassesTo(w, v, at), NEW n, OnlyAt(at, n),
         WrittenSoFar(kind, w, report, artifact, manifest)
  PROVE  /\ WrittenBy(kind, w, n, report, artifact, manifest)
         /\ n + 1 \in 1..PublishAt(kind) /\ OnStep(kind, v, n + 1)
         /\ Drawing \subseteq DOMAIN w
<1>1. PICK i \in 1..PublishAt(kind) :
        /\ w.pc = at /\ at = Course(kind)[i] /\ PlaceIs(kind, i) /\ OnStep(kind, w, i)
        /\ i + 1 \in 1..PublishAt(kind) /\ OnStep(kind, v, i + 1)
  BY DEF PassesTo
<1>2. PICK j \in 1..PublishAt(kind) :
        /\ w.pc = Course(kind)[j] /\ PlaceIs(kind, j)
        /\ WrittenBy(kind, w, j, report, artifact, manifest)
  BY <1>1, WrittenHere
<1>3. i = n /\ j = n
  BY <1>1, <1>2 DEF OnlyAt
<1> QED
  BY <1>1, <1>2, <1>3 DEF OnStep

\* Each action of the course with the files it leaves.
LEMMA WritesReport ==
  ASSUME FrameTyped, NEW p \in Processes, StandsOnCourse(kind, workers[p]), WriteReport(p),
         WrittenSoFar(kind, workers[p], report, artifact, manifest)
  PROVE  WrittenSoFar(kind, workers'[p], report', artifact', manifest')
<1> DEFINE w == workers[p]  v == workers'[p]
<1>1. Working(p, "report", Onward(p))
  BY DEF WriteReport
<1>2. PassesTo(w, v, "report")
  BY <1>1, LeadsPlaces, LeadsPastPlain
<1>3. /\ ReportAt(kind) + 1 \in 1..PublishAt(kind) /\ OnStep(kind, v, ReportAt(kind) + 1)
      /\ Drawing \subseteq DOMAIN w
  BY <1>2, LeadsPlaces, OnlyPlaces, WrittenThenOn
<1>4. v.measured = w.measured /\ v.result = w.result
  BY <1>1, <1>3, KeepsDrawing, OnwardGoesOn DEF Drawing
<1>5. report'.measured = v.measured /\ report'.result = v.result
  BY <1>4 DEF WriteReport
<1>6. WrittenBy(kind, v, ReportAt(kind) + 1, report', artifact', manifest')
  BY <1>5, ReportedOn
<1> QED
  BY <1>3, <1>6, WrittenThere

LEMMA NotingKeeps ==
  ASSUME FrameTyped, NEW p \in Processes, NEW at, NEW field \in {"reported", "bound"},
         NEW contents, Noting(p, at, field, contents), Drawing \subseteq DOMAIN workers[p]
  PROVE  /\ workers'[p][field] = contents
         /\ \A f \in Drawing \ {field} : workers'[p][f] = workers[p][f]
<1>1. PICK others : /\ Working(p, at, Changed(Onward(p), others))
                    /\ DOMAIN others = {field} /\ others[field] = contents
  BY DEF Noting
<1> DEFINE changes == Changed(Onward(p), others)
<1>2. /\ DOMAIN changes = DOMAIN Onward(p) \union DOMAIN others
      /\ \A f \in DOMAIN others : changes[f] = others[f]
  BY ChangedFields
<1>3. DOMAIN changes = {"pc", "course", field} /\ changes[field] = contents
  BY <1>1, <1>2, OnwardGoesOn
<1>4. Working(p, at, changes)
  BY <1>1
<1> HIDE DEF changes
<1>5. \A f \in DOMAIN changes : workers'[p][f] = changes[f]
  BY <1>4, WorkingFields
<1>6. \A f \in Drawing \ DOMAIN changes : workers'[p][f] = workers[p][f]
  BY <1>4, KeepsDrawing
<1>7. "pc" \notin Drawing /\ "course" \notin Drawing
  BY DEF Drawing
<1> QED
  BY <1>3, <1>5, <1>6, <1>7

LEMMA HashesReport ==
  ASSUME FrameTyped, NEW p \in Processes, StandsOnCourse(kind, workers[p]), HashReport(p),
         WrittenSoFar(kind, workers[p], report, artifact, manifest)
  PROVE  WrittenSoFar(kind, workers'[p], report', artifact', manifest')
<1> DEFINE w == workers[p]  v == workers'[p]
<1>1. Noting(p, Hashing, "reported", report) /\ UNCHANGED evaluationFiles
  BY HashNotes
<1>2. PassesTo(w, v, Hashing)
  BY <1>1, LeadsPlaces, LeadsPastNoting
<1>3. /\ WrittenBy(kind, w, HashAt(kind), report, artifact, manifest)
      /\ HashAt(kind) + 1 \in 1..PublishAt(kind) /\ OnStep(kind, v, HashAt(kind) + 1)
      /\ Drawing \subseteq DOMAIN w
  BY <1>2, LeadsPlaces, OnlyPlaces, WrittenThenOn
<1>4. v.measured = w.measured /\ v.result = w.result /\ v.reported = report
  BY <1>1, <1>3, NotingKeeps DEF Drawing
<1>5. WrittenBy(kind, v, HashAt(kind) + 1, report, artifact, manifest)
  BY <1>3, <1>4, HashedOn
<1> QED
  BY <1>1, <1>3, <1>5, WrittenThere

LEMMA BindsArtifact ==
  ASSUME FrameTyped, NEW p \in Processes, StandsOnCourse(kind, workers[p]), BindArtifact(p),
         WrittenSoFar(kind, workers[p], report, artifact, manifest)
  PROVE  WrittenSoFar(kind, workers'[p], report', artifact', manifest')
<1> DEFINE w == workers[p]  v == workers'[p]
<1>1. Noting(p, Binding, "bound", artifact) /\ UNCHANGED evaluationFiles
  BY BindNotes
<1>2. PassesTo(w, v, Binding)
  BY <1>1, LeadsPlaces, LeadsPastNoting
<1>a. HasArtifact(kind)
  BY <1>2 DEF PassesTo, PlaceIs
<1>3. /\ WrittenBy(kind, w, 5, report, artifact, manifest)
      /\ 6 \in 1..PublishAt(kind) /\ OnStep(kind, v, 6) /\ Drawing \subseteq DOMAIN w
  <2>1. 5 + 1 = 6
    OBVIOUS
  <2> QED
    BY <1>2, <2>1, LeadsPlaces, OnlyPlaces, WrittenThenOn
<1>4. v.measured = w.measured /\ v.result = w.result /\ v.reported = w.reported
      /\ v.bound = artifact
  BY <1>1, <1>3, NotingKeeps DEF Drawing
<1>5. WrittenBy(kind, v, 6, report, artifact, manifest)
  BY <1>a, <1>3, <1>4, BoundOn
<1> QED
  BY <1>1, <1>3, <1>5, WrittenThere

LEMMA WritesTheArtifact ==
  ASSUME FrameTyped, NEW p \in Processes, StandsOnCourse(kind, workers[p]), WritesArtifact(p),
         WrittenSoFar(kind, workers[p], report, artifact, manifest)
  PROVE  WrittenSoFar(kind, workers'[p], report', artifact', manifest')
<1> DEFINE w == workers[p]  v == workers'[p]
<1>1. /\ Working(p, "artifact", Onward(p)) /\ report' = report /\ manifest' = manifest
      /\ artifact' = Contents(kind, w.measured, w.result, w.reported)
  BY DEF WritesArtifact, WriteArtifact
<1>2. PassesTo(w, v, "artifact")
  BY <1>1, LeadsPlaces, LeadsPastPlain
<1>a. HasArtifact(kind)
  BY <1>2 DEF PassesTo, PlaceIs
<1>3. /\ WrittenBy(kind, w, 4, report, artifact, manifest)
      /\ 5 \in 1..PublishAt(kind) /\ OnStep(kind, v, 5) /\ Drawing \subseteq DOMAIN w
  <2>1. 4 + 1 = 5
    OBVIOUS
  <2> QED
    BY <1>2, <2>1, LeadsPlaces, OnlyPlaces, WrittenThenOn
<1>4. v.measured = w.measured /\ v.result = w.result /\ v.reported = w.reported
  BY <1>1, <1>3, KeepsDrawing, OnwardGoesOn DEF Drawing
<1>5. WrittenBy(kind, v, 5, report, artifact', manifest)
  BY <1>a, <1>1, <1>3, <1>4, ArtifactOn
<1> QED
  BY <1>1, <1>3, <1>5, WrittenThere

LEMMA WritesTheManifest ==
  ASSUME FrameTyped, NEW p \in Processes, StandsOnCourse(kind, workers[p]), WritesManifest(p),
         WrittenSoFar(kind, workers[p], report, artifact, manifest)
  PROVE  WrittenSoFar(kind, workers'[p], report', artifact', manifest')
<1> DEFINE w == workers[p]  v == workers'[p]
<1>1. /\ Working(p, "manifest", Onward(p)) /\ report' = report /\ artifact' = artifact
      /\ manifest' = [report |-> w.reported, artifact |-> w.bound, result |-> w.result]
      /\ Valid(kind, w.result)
  BY DEF WritesManifest, WriteManifest
<1>2. PassesTo(w, v, "manifest")
  BY <1>1, LeadsPlaces, LeadsPastPlain
<1>3. /\ WrittenBy(kind, w, ManifestAt(kind), report, artifact, manifest)
      /\ ManifestAt(kind) + 1 \in 1..PublishAt(kind) /\ OnStep(kind, v, ManifestAt(kind) + 1)
      /\ Drawing \subseteq DOMAIN w
  BY <1>2, LeadsPlaces, OnlyPlaces, WrittenThenOn
<1>4. /\ v.measured = w.measured /\ v.result = w.result /\ v.reported = w.reported
      /\ v.bound = w.bound /\ v.objects = w.objects
  BY <1>1, <1>3, KeepsDrawing, OnwardGoesOn DEF Drawing
<1>5. w.objects = <<>>
  <2>1. PICK i \in 1..PublishAt(kind) :
          "manifest" = Course(kind)[i] /\ PlaceIs(kind, i) /\ OnStep(kind, w, i)
    BY <1>2 DEF PassesTo
  <2>2. i = ManifestAt(kind) /\ i < PublishAt(kind)
    BY <2>1 DEF PlaceIs, PublishAt, ManifestAt
  <2> QED
    BY <2>1, <2>2 DEF OnStep
<1>6. WrittenBy(kind, v, ManifestAt(kind) + 1, report, artifact, manifest')
  BY <1>1, <1>3, <1>4, <1>5, ManifestOn
<1> QED
  BY <1>1, <1>3, <1>6, WrittenThere

LEMMA DrawsResult ==
  ASSUME FrameTyped, NEW p \in Processes, StandsOnCourse(kind, workers[p]), Draws(p),
         WrittenSoFar(kind, workers[p], report, artifact, manifest)
  PROVE  WrittenSoFar(kind, workers'[p], report', artifact', manifest')
<1> DEFINE w == workers[p]  v == workers'[p]
<1>1. PICK result :
        /\ Working(p, "conclude", Changed(Onward(p), [result |-> result]))
        /\ Drawn(kind, w.measured, result) /\ UNCHANGED evaluationFiles
  BY DEF Draws
<1>2. w.pc = "conclude"
  BY <1>1, WorkingAt
<1>3. PICK i \in 1..PublishAt(kind) :
        OnStep(kind, w, i) /\ PlaceIs(kind, i) /\ "conclude" = Course(kind)[i]
  BY <1>2, StandsAt, LeadsPlaces
<1>4. OnStep(kind, v, i + 1) /\ i + 1 \in 1..PublishAt(kind)
  BY <1>1, <1>3, ConcludesOn
<1>5. PassesTo(w, v, "conclude")
  BY <1>2, <1>3, <1>4 DEF PassesTo
<1>6. /\ WrittenBy(kind, w, ConcludeAt(kind), report, artifact, manifest)
      /\ ConcludeAt(kind) + 1 \in 1..PublishAt(kind) /\ OnStep(kind, v, ConcludeAt(kind) + 1)
      /\ Drawing \subseteq DOMAIN w
  BY <1>5, LeadsPlaces, OnlyPlaces, WrittenThenOn
<1> DEFINE others == [result |-> result]  changes == Changed(Onward(p), others)
<1>7. v.measured = w.measured /\ v.reported = w.reported
  <2>1. DOMAIN others = {"result"}
    OBVIOUS
  <2> HIDE DEF others
  <2>2. DOMAIN changes = DOMAIN Onward(p) \union DOMAIN others
    BY ChangedFields
  <2>3. Working(p, "conclude", changes)
    BY <1>1 DEF others
  <2> HIDE DEF changes
  <2>4. \A f \in Drawing \ DOMAIN changes : v[f] = w[f]
    BY <1>6, <2>3, KeepsDrawing
  <2> QED
    BY <2>1, <2>2, <2>4, OnwardGoesOn DEF Drawing
<1>8. WrittenBy(kind, v, ConcludeAt(kind) + 1, report, artifact, manifest)
  BY <1>6, <1>7, ConcludedOn
<1> QED
  BY <1>1, <1>6, <1>8, WrittenThere

LEMMA PublishesObject ==
  ASSUME FrameTyped, NEW p \in Processes, StandsOnCourse(kind, workers[p]), PublishOutput(p),
         WrittenSoFar(kind, workers[p], report, artifact, manifest)
  PROVE  WrittenSoFar(kind, workers'[p], report', artifact', manifest')
<1> DEFINE w == workers[p]  v == workers'[p]
<1>1. PICK objects :
        /\ objects = Append(w.objects, OutputFiles[Len(w.objects) + 1])
        /\ Working(p, "publish", [objects |-> objects])
  BY DEF PublishOutput
<1>2. /\ w.pc = "publish" /\ UNCHANGED evaluationFiles
      /\ Len(w.objects) < Len(OutputFiles)
  BY <1>1, WorkingAt DEF PublishOutput
<1>3. PICK i \in 1..PublishAt(kind) : OnStep(kind, w, i)
  BY <1>2, StandsAt, LeadsPlaces
<1>4. OnStep(kind, v, PublishAt(kind)) /\ PublishAt(kind) \in 1..PublishAt(kind)
  BY <1>1, <1>3, PublishesOn
<1>5. WrittenBy(kind, w, PublishAt(kind), report, artifact, manifest)
  <2>1. PICK j \in 1..PublishAt(kind) :
          /\ w.pc = Course(kind)[j] /\ PlaceIs(kind, j)
          /\ WrittenBy(kind, w, j, report, artifact, manifest)
    BY <1>2, LeadsPlaces, WrittenHere
  <2>2. j = PublishAt(kind)
    BY <1>2, <2>1 DEF PlaceIs
  <2> QED
    BY <2>1, <2>2
<1> DEFINE changes == [objects |-> objects]
<1>6. /\ v.measured = w.measured /\ v.result = w.result /\ v.reported = w.reported
      /\ v.bound = w.bound /\ v.objects = objects
  <2>1. DOMAIN changes = {"objects"} /\ changes.objects = objects /\ Working(p, "publish", changes)
    BY <1>1
  <2> HIDE DEF changes
  <2>2. Drawing \subseteq DOMAIN w
    BY <1>3 DEF OnStep
  <2>3. \A f \in Drawing \ DOMAIN changes : v[f] = w[f]
    BY <2>1, <2>2, KeepsDrawing
  <2>4. v.objects = changes.objects
    BY <2>1, WorkingFields
  <2> QED
    BY <2>1, <2>3, <2>4 DEF Drawing
<1>7. /\ v.objects = Append(w.objects, Outputs(kind, report, manifest, artifact)[Len(w.objects) + 1])
      /\ Len(w.objects) < OutputCount(kind)
  BY <1>1, <1>2, <1>6, OutputsAre
<1>8. WrittenBy(kind, v, PublishAt(kind), report, artifact, manifest)
  BY <1>5, <1>6, <1>7, PublishedOn
<1> QED
  BY <1>2, <1>4, <1>8, WrittenThere

\* A turn of an attempt that is alone keeps what it has written.
LEMMA TurnsWrite ==
  ASSUME FrameTyped, NEW p \in Processes, StandsOnCourse(kind, workers[p]), Turns(p),
         WrittenSoFar(kind, workers[p], report, artifact, manifest)
  PROVE  WrittenSoFar(kind, workers'[p], report', artifact', manifest')
<1>1. CASE OffCourse(p)
  BY <1>1 DEF OffCourse, WrittenSoFar
<1>2. CASE Enters(p)
  <2>1. 1 \in 1..PublishAt(kind) /\ OnStep(kind, workers'[p], 1)
    BY <1>2, CoursePlaces DEF Enters
  <2> QED
    BY <2>1, NothingWritten, WrittenThere
<1>3. CASE Draws(p)
  BY <1>3, DrawsResult
<1>4. CASE WriteReport(p)
  BY <1>4, WritesReport
<1>5. CASE HashReport(p)
  BY <1>5, HashesReport
<1>6. CASE WritesArtifact(p)
  BY <1>6, WritesTheArtifact
<1>7. CASE BindArtifact(p)
  BY <1>7, BindsArtifact
<1>8. CASE WritesManifest(p)
  BY <1>8, WritesTheManifest
<1>9. CASE PublishOutput(p)
  BY <1>9, PublishesObject
<1> QED
  BY <1>1, <1>2, <1>3, <1>4, <1>5, <1>6, <1>7, <1>8, <1>9 DEF Turns

-----------------------------------------------------------------------------
(* What an attempt that is alone completes with.                           *)

\* All rows are measured by the time outputs are published.
LEMMA AllCausal ==
  ASSUME NEW w, Evaluator(kind, w), w.pc = "publish", w.row = AllRows + 1
  PROVE  CausalUpTo(kind, w.measured, AllRows)
<1>1. Ready(kind, w)
  BY ReadyAt DEF Closing
<1>2. (AllRows + 1) - 1 = AllRows
  BY AllOfThem DEF RowsAre
<1> QED
  BY <1>1, <1>2 DEF Ready, OnRow

\* With as many objects as outputs, each output is put.
LEMMA AllPut ==
  ASSUME NEW outputs, NEW objects, NEW count \in Nat, PutSoFar(outputs, objects, count),
         Len(objects) = count
  PROVE  \A j \in 1..count : objects[j] = outputs[j]
<1>1. PICK m \in 0..count : Listing(objects, m) /\ \A j \in 1..m : objects[j] = outputs[j]
  BY DEF PutSoFar
<1>2. m = count
  BY <1>1, ListingLen
<1> QED
  BY <1>1, <1>2

\* What is completed is accepted evidence.
LEMMA CompletesAccepted ==
  ASSUME FrameTyped, NEW p \in Processes, Evaluator(kind, workers[p]),
         StandsOnCourse(kind, workers[p]),
         WrittenSoFar(kind, workers[p], report, artifact, manifest), CompleteEvaluation(p)
  PROVE  Accepted(kind, stage'.outputs)
<1> DEFINE w == workers[p]  outputs == Outputs(kind, report, manifest, artifact)
<1>1. /\ w.pc = "publish" /\ Len(w.objects) = OutputCount(kind)
      /\ stage'.outputs = w.objects
  BY OutputsAre DEF CompleteEvaluation, At, Finish, FrameTyped
<1>2. PICK i \in 1..PublishAt(kind) : OnStep(kind, w, i) /\ PlaceIs(kind, i)
                                      /\ w.pc = Course(kind)[i]
  BY <1>1, LeadsPlaces, StandsAt
<1>3. PICK j \in 1..PublishAt(kind) :
        /\ w.pc = Course(kind)[j] /\ PlaceIs(kind, j)
        /\ WrittenBy(kind, w, j, report, artifact, manifest)
  BY <1>1, LeadsPlaces, WrittenHere
<1>4. i = PublishAt(kind) /\ j = PublishAt(kind)
  BY <1>1, <1>2, <1>3 DEF PlaceIs
<1>5. /\ PublishAt(kind) > ConcludeAt(kind) /\ PublishAt(kind) > ReportAt(kind)
      /\ PublishAt(kind) > HashAt(kind) /\ PublishAt(kind) > ManifestAt(kind)
      /\ HasArtifact(kind) => PublishAt(kind) > 4 /\ PublishAt(kind) > 5
  BY DEF ConcludeAt, ReportAt, HashAt, ManifestAt, PublishAt, HasArtifact
<1>6. Drawn(kind, w.measured, w.result) /\ w.row = AllRows + 1
  BY <1>2, <1>4, <1>5 DEF OnStep
<1>7. CausalUpTo(kind, w.measured, AllRows)
  BY <1>1, <1>6, AllCausal
<1>8. /\ report.measured = w.measured /\ (kind # MethodDev => report.result = w.result)
      /\ w.reported = report
      /\ HasArtifact(kind) => artifact = Contents(kind, w.measured, w.result, w.reported)
                              /\ w.bound = artifact
      /\ manifest = [report |-> w.reported, artifact |-> w.bound, result |-> w.result]
      /\ Valid(kind, w.result)
      /\ PutSoFar(outputs, w.objects, OutputCount(kind))
  BY <1>3, <1>4, <1>5 DEF WrittenBy
<1>9. /\ manifest.report = w.reported /\ manifest.artifact = w.bound
      /\ manifest.result = w.result
  BY <1>8
<1>10. /\ w.objects[1] = report /\ w.objects[2] = manifest
       /\ kind \in Selective => w.objects[3] = artifact
  <2>1. OutputCount(kind) \in Nat /\ {1, 2} \subseteq 1..OutputCount(kind)
        /\ (kind \in Selective => 3 \in 1..OutputCount(kind))
    BY DEF OutputCount
  <2>2. \A n \in 1..OutputCount(kind) : w.objects[n] = outputs[n]
    BY <1>1, <1>8, <2>1, AllPut
  <2>3. /\ outputs[1] = report /\ outputs[2] = manifest
        /\ kind \in Selective => outputs[3] = artifact
    BY DEF Outputs
  <2> HIDE DEF outputs
  <2> QED
    BY <2>1, <2>2, <2>3
<1>11. kind \in Selective => HasArtifact(kind)
  BY DEF Selective, HasArtifact, MethodDev
<1> QED
  BY <1>1, <1>6, <1>7, <1>8, <1>9, <1>10, <1>11 DEF Accepted

LEMMA EvidenceInvInit == Init => EvidenceInv
<1> SUFFICES ASSUME Init
             PROVE  /\ \A p \in Processes : WrittenSoFar(kind, workers[p], report, artifact, manifest)
                    /\ stage.status # "completed"
  BY DEF EvidenceInv
<1>1. \A p \in Processes : workers[p].pc = "idle"
  BY DEF Init, FrameInit, Idle
<1>2. stage.status = "absent"
  BY DEF Init, FrameInit
<1> QED
  BY <1>1, <1>2 DEF WrittenSoFar, Concluding

LEMMA EvidenceInvStep ==
  ASSUME FrameTyped, Alone, AuditInv, HistoryInv, CourseInv, EvidenceInv, [Next]_vars
  PROVE  EvidenceInv'
<1> SUFFICES ASSUME kind \in Evaluations, kind' = kind, ~overlapped'
             PROVE  /\ \A q \in Processes :
                         WrittenSoFar(kind, workers'[q], report', artifact', manifest')
                    /\ stage'.status = "completed" => Accepted(kind, stage'.outputs)
  BY FrameStep DEF EvidenceInv
<1>1. CASE UNCHANGED vars
  BY <1>1 DEF EvidenceInv
<1>2. CASE PowerLoss
  BY <1>2 DEF PowerLoss, Fits, Evaluations
<1>3. ASSUME NEW p \in Processes,
             Fitting(p) \/ Collecting(p) \/ Evaluating(p) \/ Stopping(p)
      PROVE  /\ \A q \in Processes :
                  WrittenSoFar(kind, workers'[q], report', artifact', manifest')
             /\ stage'.status = "completed" => Accepted(kind, stage'.outputs)
  <2>0. Evaluator(kind, workers[p]) /\ StandsOnCourse(kind, workers[p])
    BY DEF HistoryInv, CourseInv
  <2>1. Turns(p) /\ Marks(p) /\ Acts(p)
    BY <1>3, <2>0, EvaluatingTurns, EvaluatingMarks, StepActs
  <2>2. ~overlapped
    BY <2>1 DEF Acts
  <2>3. /\ WrittenSoFar(kind, workers[p], report, artifact, manifest)
        /\ stage.status = "completed" => Accepted(kind, stage.outputs)
    BY <2>2 DEF EvidenceInv
  <2>4. WrittenSoFar(kind, workers'[p], report', artifact', manifest')
    BY <2>0, <2>1, <2>3, TurnsWrite
  <2>5. ASSUME NEW q \in Processes \ {p}
        PROVE  WrittenSoFar(kind, workers'[q], report', artifact', manifest')
    <3>1. workers'[q].pc = "idle"
      BY <2>1, <2>5 DEF Acts
    <3> QED
      BY <3>1 DEF WrittenSoFar, Concluding
  <2>6. stage'.status = "completed" => Accepted(kind, stage'.outputs)
    BY <2>0, <2>1, <2>3, CompletesAccepted DEF Marks
  <2> QED
    BY <2>4, <2>5, <2>6
<1> QED
  BY <1>1, <1>2, <1>3 DEF Next

-----------------------------------------------------------------------------
(* What loaders ask of evidence.                                           *)

\* Every row of a causal list is what its loader makes of the rows before it.
LEMMA RowsReplay ==
  ASSUME kind \in Evaluations \ {MethodDev}, NEW n \in Nat, NEW rows, CausalUpTo(kind, rows, n)
  PROVE  /\ Len(rows) = n
         /\ rows = [i \in DOMAIN rows |-> Made(kind, Replayed(rows, i), rows[i].outcome)]
<1>1. Listing(rows, n)
  BY DEF CausalUpTo
<1>2. Len(rows) = n
  BY <1>1, ListingLen
<1>3. DOMAIN rows = 1..n
  BY <1>1 DEF Listing
<1>4. ASSUME NEW i \in 1..n
      PROVE  rows[i] = Made(kind, Replayed(rows, i), rows[i].outcome)
  <2>1. /\ rows[i] = Made(kind, rows[i].history, rows[i].outcome)
        /\ rows[i].history = Counted(kind, rows, PrefixGroup[i], i - 1)
    BY DEF CausalUpTo, MeasuredAt
  <2>2. PICK m \in Nat : i = m + 1 /\ i - 1 = m
    <3>1. i - 1 \in Nat /\ i = (i - 1) + 1
      OBVIOUS
    <3> QED
      BY <3>1
  <2>3. \A j \in 1..m : rows[j].outcome.matches \in Nat
    BY <2>2 DEF CausalUpTo, MeasuredAt
  <2>4. Replayed(rows, i) = Counted(kind, rows, PrefixGroup[i], i - 1)
    BY <2>2, <2>3, ReplayIsCount
  <2> QED
    BY <2>1, <2>4
<1>5. rows = [i \in DOMAIN rows |-> Made(kind, Replayed(rows, i), rows[i].outcome)]
  BY <1>1, <1>3, <1>4 DEF Listing
<1> QED
  BY <1>2, <1>5

\* The four loaders that replay their report.
LEMMA LoadsWhatReplays ==
  ASSUME kind \in {"calibrate", "validate", "semantic_sealed", "runtime_audit"},
         NEW outputs, Accepted(kind, outputs)
  PROVE  Loads(outputs)
<1> DEFINE published == outputs[1]  bound == outputs[2]  rows == published.measured
<1>1. /\ CausalUpTo(kind, rows, AllRows)
      /\ bound.report = published /\ published.result = bound.result
      /\ Drawn(kind, rows, bound.result) /\ Valid(kind, bound.result)
      /\ HasArtifact(kind) => bound.artifact = Contents(kind, rows, bound.result, published)
      /\ kind \in Selective => outputs[3] = bound.artifact
  BY DEF Accepted, MethodDev
<1>2. /\ Len(rows) = AllRows
      /\ rows = [i \in DOMAIN rows |-> Made(kind, Replayed(rows, i), rows[i].outcome)]
  <2>1. kind \in Evaluations \ {MethodDev} /\ AllRows \in Nat
    BY AllOfThem DEF Evaluations, MethodDev, RowsAre
  <2> QED
    BY <1>1, <2>1, RowsReplay
<1> HIDE DEF rows
<1>3. CASE kind = "calibrate"
  <2>1. rows = [i \in DOMAIN rows |-> CalibrationMeasurement(Replayed(rows, i), rows[i].outcome)]
    BY <1>2, <1>3 DEF Made, CalibrationMeasurement
  <2>2. bound.result = CalibratedThreshold(rows) /\ ValidCalibration(bound.result)
    BY <1>1, <1>3 DEF Drawn, Valid
  <2>3. CalibrationReplays(published)
    BY <1>1, <1>2, <2>1, <2>2 DEF CalibrationReplays, ReplaysTo, AllRows, rows
  <2> QED
    BY <1>1, <1>3, <2>2, <2>3 DEF Loads, LoadsCalibration
<1>4. CASE kind = "validate"
  <2>1. rows = [i \in DOMAIN rows |-> ValidationMeasurement(Replayed(rows, i), rows[i].outcome)]
    BY <1>2, <1>4 DEF Made
  <2>2. bound.result = SelectiveResult(rows) /\ ValidSelective(bound.result)
    BY <1>1, <1>4 DEF Drawn, Valid, MethodDev
  <2>3. ValidationReplays(published)
    BY <1>1, <1>2, <2>1, <2>2 DEF ValidationReplays, ReplaysTo, AllRows, rows
  <2>4. outputs[3] = bound.artifact /\ outputs[3] = Candidate(bound.result)
    BY <1>1, <1>4 DEF HasArtifact, Selective, Contents, MethodDev
  <2>5. outputs[3].quality = bound.result.quality
    BY <2>4 DEF Candidate
  <2> QED
    BY <1>1, <1>4, <2>2, <2>3, <2>4, <2>5 DEF Loads, LoadsValidation, LoadsSelective
<1>5. CASE kind = "semantic_sealed"
  <2>1. rows = [i \in DOMAIN rows |-> SemanticMeasurement(Replayed(rows, i), rows[i].outcome)]
    BY <1>2, <1>5 DEF Made, SemanticMeasurement
  <2>2. bound.result = SelectiveResult(rows) /\ ValidSelective(bound.result)
    BY <1>1, <1>5 DEF Drawn, Valid, MethodDev
  <2>3. SemanticReplays(published)
    BY <1>1, <1>2, <2>1, <2>2 DEF SemanticReplays, ReplaysTo, AllRows, rows
  <2>4. outputs[3] = bound.artifact /\ outputs[3] = SemanticApproved(bound.result, published)
    BY <1>1, <1>5 DEF HasArtifact, Selective, Contents, MethodDev
  <2>5. outputs[3].quality = bound.result.quality
    BY <2>4 DEF SemanticApproved
  <2> QED
    BY <1>1, <1>5, <2>2, <2>3, <2>4, <2>5 DEF Loads, LoadsSemantic, LoadsSelective
<1>6. CASE kind = "runtime_audit"
  <2>1. rows = [i \in DOMAIN rows |-> AuditMeasurement(Replayed(rows, i), rows[i].outcome)]
    BY <1>2, <1>6 DEF Made, AuditMeasurement
  <2>2. bound.result = RuntimeSummary(rows) /\ ValidAudit(bound.result)
    BY <1>1, <1>6 DEF Drawn, Valid, MethodDev
  <2>3. AuditReplays(published)
    BY <1>1, <1>2, <2>1, <2>2 DEF AuditReplays, ReplaysTo, AllRows, rows
  <2>4. outputs[3] = bound.artifact /\ outputs[3] = Approved(bound.result, published)
    BY <1>1, <1>6 DEF HasArtifact, Selective, Contents, MethodDev
  <2> QED
    BY <1>1, <1>6, <2>2, <2>3, <2>4 DEF Loads, LoadsAudit
<1> QED
  BY <1>3, <1>4, <1>5, <1>6

\* Accepted evidence loads, and its artifacts follow from its report.
LEMMA AcceptedLoads ==
  ASSUME kind \in Evaluations, NEW outputs, Accepted(kind, outputs)
  PROVE  Loads(outputs) /\ FollowsReport(outputs)
<1> DEFINE published == outputs[1]  bound == outputs[2]
<1>1. /\ bound.report = published
      /\ Drawn(kind, published.measured, bound.result) /\ Valid(kind, bound.result)
      /\ HasArtifact(kind) =>
           bound.artifact = Contents(kind, published.measured, bound.result, published)
  BY DEF Accepted
<1>2. CASE kind = "fit_risk"
  <2>1. /\ bound.result = [unsafe |-> Cardinality(UnsafeRows(published.measured))]
        /\ ValidRiskFit(bound.result)
    BY <1>1, <1>2 DEF Drawn, Valid, MethodDev
  <2>2. bound.artifact = [fitted |-> published.measured]
    BY <1>1, <1>2 DEF HasArtifact, Contents, MethodDev
  <2> QED
    BY <1>1, <1>2, <2>1, <2>2 DEF Loads, LoadsRiskFit, FollowsReport
<1>3. CASE kind = "evaluate_method_dev"
  <2>1. bound.result = FrozenStructure(published.measured) /\ ValidStructure(bound.result)
    BY <1>1, <1>3 DEF Drawn, MethodDev
  <2> QED
    BY <1>1, <1>3, <2>1 DEF Loads, LoadsStructure, FollowsReport
<1>4. CASE kind \in {"calibrate", "validate", "semantic_sealed", "runtime_audit"}
  <2>1. FollowsReport(outputs)
    BY <1>4 DEF FollowsReport
  <2> QED
    BY <1>4, <2>1, LoadsWhatReplays
<1> QED
  BY <1>2, <1>3, <1>4 DEF Evaluations

\* An evaluation whose attempts never overlapped completes only with evidence that its
\* loader accepts, and of which the predictor and the structure are those of the rows in
\* the report: in all six stages, for every split, whatever is measured, however many
\* attempts have died before and at whatever step, also in the midst of the files that a
\* dead attempt had half written.
THEOREM CompletedLoads == Spec => []CompletedEvidenceLoads
<1> DEFINE Evidence == /\ FrameTyped /\ Alone /\ AuditInv /\ HistoryInv
                       /\ CourseInv /\ EvidenceInv
<1>1. Init => Evidence
  <2>1. Init => FrameTyped /\ Alone
    BY DEF Init, FrameInit, FrameTyped, Alone, Idle
  <2> QED
    BY <2>1, AuditInvInit, HistoryInvInit, CourseInvInit, EvidenceInvInit
<1>2. Evidence /\ [Next]_vars => Evidence'
  BY FrameStep, AloneStep, AuditInvStep, HistoryInvStep, CourseInvStep, EvidenceInvStep
<1>3. Evidence => CompletedEvidenceLoads
  BY AcceptedLoads DEF EvidenceInv, CompletedEvidenceLoads
<1> QED
  BY <1>1, <1>2, <1>3, PTL DEF Spec

===============================================================================
