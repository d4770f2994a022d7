-------------------------- MODULE InductionLemmas --------------------------
(***************************************************************************)
(* Induction over the natural numbers and the recursive functions it       *)
(* justifies, about sets instead of predicates: the provers instantiate a  *)
(* set where they cannot instantiate an operator. With them, what two      *)
(* operators of SequencesExt return: FlattenSeq and SetToSeq.              *)
(***************************************************************************)
EXTENDS Integers, FiniteSets, Sequences, SequencesExt, SequenceTheorems,
        FiniteSetTheorems, WellFoundedInduction, TLAPS

\* Every set of naturals that is not empty has a least element, because finite
\* intervals are well founded under inclusion.
LEMMA LeastNatural ==
    ASSUME NEW T, T \subseteq Nat, T # {}
    PROVE  \E n \in T : \A m \in T : n <= m
<1> DEFINE R == StrictSubsetOrdering(Nat)
           F == {0..m : m \in T}
<1>1. IsWellFoundedOn(R, FiniteSubsetsOf(Nat))
  BY FS_StrictSubsetOrderingWellFounded
<1>2. F \subseteq FiniteSubsetsOf(Nat)
  <2>1. ASSUME NEW m \in T PROVE 0..m \subseteq Nat /\ IsFiniteSet(0..m)
    BY FS_Interval
  <2> QED
    BY <2>1 DEF FiniteSubsetsOf
<1>3. F # {}
  OBVIOUS
<1>4. \E x \in F : \A y \in F : ~ (<<y, x>> \in R)
  <2> HIDE DEF R, F
  <2> QED
    BY <1>1, <1>2, <1>3, WFMin
<1>5. PICK n \in T : \A m \in T : ~ (<<0..m, 0..n>> \in R)
  BY <1>4
<1>6. ASSUME NEW m \in T, m < n PROVE FALSE
  <2>1. 0..m \subseteq 0..n /\ 0..m # 0..n
    <3>1. n \in 0..n /\ n \notin 0..m
      BY <1>6
    <3> QED
      BY <1>6, <3>1
  <2>2. <<0..m, 0..n>> \in R
    BY <2>1 DEF StrictSubsetOrdering
  <2> QED
    BY <2>2, <1>5
<1> QED
  BY <1>6

\* Induction: a set that holds 0 and the successor of each of its naturals
\* holds every natural.
LEMMA Induction ==
    ASSUME NEW S, 0 \in S, \A n \in Nat : n \in S => n + 1 \in S
    PROVE  Nat \subseteq S
<1> DEFINE T == Nat \ S
<1>1. ASSUME T # {} PROVE FALSE
  <2>1. PICK n \in T : \A m \in T : n <= m
    BY <1>1, LeastNatural
  <2>2. n # 0 /\ n - 1 \in Nat /\ n - 1 \notin T
    BY <2>1
  <2> QED
    BY <2>2, <2>1
<1> QED
  BY <1>1

\* Induction within an interval, upwards.
LEMMA InductionUp ==
    ASSUME NEW a \in Nat, NEW b \in Nat, NEW S,
           a \in S, \A i \in a..(b - 1) : i \in S => i + 1 \in S
    PROVE  a..b \subseteq S
<1> DEFINE T == {i \in Nat : a + i <= b => a + i \in S}
<1>1. 0 \in T
  OBVIOUS
<1>2. ASSUME NEW n \in Nat, n \in T PROVE n + 1 \in T
  BY <1>2
<1>3. Nat \subseteq T
  <2> HIDE DEF T
  <2> QED
    BY <1>1, <1>2, Induction
<1>4. ASSUME NEW i \in a..b PROVE i \in S
  <2> DEFINE k == i - a
  <2>1. k \in Nat /\ a + k = i /\ a <= i /\ i <= b
    OBVIOUS
  <2>2. k \in T
    BY <1>3, <2>1
  <2> HIDE DEF k
  <2> QED
    BY <2>1, <2>2
<1> QED
  BY <1>4

\* Induction within an interval, downwards.
LEMMA InductionDown ==
    ASSUME NEW a \in Nat, NEW b \in Nat, NEW S,
           b \in S, \A i \in (a + 1)..b : i \in S => i - 1 \in S
    PROVE  a..b \subseteq S
<1> DEFINE T == {i \in Nat : b - i >= a => b - i \in S}
<1>1. 0 \in T
  OBVIOUS
<1>2. ASSUME NEW n \in Nat, n \in T PROVE n + 1 \in T
  BY <1>2
<1>3. Nat \subseteq T
  <2> HIDE DEF T
  <2> QED
    BY <1>1, <1>2, Induction
<1>4. ASSUME NEW i \in a..b PROVE i \in S
  <2> DEFINE k == b - i
  <2>1. k \in Nat /\ b - k = i /\ a <= i /\ i <= b
    OBVIOUS
  <2>2. k \in T
    BY <1>3, <2>1
  <2> HIDE DEF k
  <2> QED
    BY <2>1, <2>2
<1> QED
  BY <1>4

\* A function over an interval that has a first value, and at each later index
\* what a step makes of the value before it.
IsRecursive(f, a, b, V, first, step) ==
    /\ f \in [a..b -> V]
    /\ f[a] = first
    /\ \A i \in (a + 1)..b : f[i] = step[i][f[i - 1]]

\* Such a function exists, whatever the step.
LEMMA Recursion ==
    ASSUME NEW a \in Nat, NEW b \in Nat, a <= b, NEW V, NEW first \in V,
           NEW step, \A i \in (a + 1)..b : step[i] \in [V -> V]
    PROVE  \E f : IsRecursive(f, a, b, V, first, step)
<1> DEFINE Upto(n, f) == IsRecursive(f, a, n, V, first, step)
           S == {n \in a..b : \E f : Upto(n, f)}
<1>1. a \in S
  <2>1. Upto(a, [i \in a..a |-> first])
    BY DEF IsRecursive
  <2> QED
    BY <2>1
<1>2. ASSUME NEW n \in a..(b - 1), n \in S PROVE n + 1 \in S
  <2>1. n \in Int /\ a <= n /\ n + 1 \in a..b
    BY a \in Int, b \in Int
  <2>2. PICK f : Upto(n, f)
    BY <1>2
  <2> DEFINE g == [i \in a..(n + 1) |-> IF i = n + 1 THEN step[n + 1][f[n]] ELSE f[i]]
  <2>3. step[n + 1][f[n]] \in V
    <3>1. n + 1 \in (a + 1)..b /\ f[n] \in V
      BY <2>1, <2>2 DEF IsRecursive
    <3> QED
      BY <3>1
  <2>4. g \in [a..(n + 1) -> V] /\ g[a] = first
    BY <2>1, <2>2, <2>3 DEF IsRecursive
  <2>5. ASSUME NEW i \in (a + 1)..(n + 1) PROVE g[i] = step[i][g[i - 1]]
    <3>1. i \in a..(n + 1) /\ i - 1 \in a..(n + 1) /\ i - 1 # n + 1
      BY <2>1
    <3>2. CASE i = n + 1
      <4>1. g[i - 1] = f[n] /\ g[i] = step[n + 1][f[n]]
        BY <3>1, <3>2, <2>1
      <4> QED
        BY <3>2, <4>1
    <3>3. CASE i # n + 1
      <4>1. g[i - 1] = f[i - 1] /\ g[i] = f[i] /\ i \in (a + 1)..n
        BY <3>1, <3>3, <2>1
      <4> QED
        BY <2>2, <4>1 DEF IsRecursive
    <3> QED
      BY <3>2, <3>3
  <2>6. Upto(n + 1, g)
    BY <2>4, <2>5 DEF IsRecursive
  <2> QED
    BY <2>1, <2>6
<1>3. b \in S
  <2> HIDE DEF S
  <2>1. a..b \subseteq S
    BY <1>1, <1>2, InductionUp
  <2> QED
    BY <2>1
<1> QED
  BY <1>3
\* A function that takes those steps wherever the value before is in V.
TakesSteps(g, a, b, V, first, step) ==
    /\ g = [i \in a..b |-> g[i]]
    /\ g[a] = first
    /\ \A i \in (a + 1)..b : g[i - 1] \in V => g[i] = step[i][g[i - 1]]

\* There is only one such function.
LEMMA RecursionIsUnique ==
    ASSUME NEW a \in Nat, NEW b \in Nat, a <= b, NEW V, NEW first, NEW step,
           NEW f, IsRecursive(f, a, b, V, first, step),
           NEW g, TakesSteps(g, a, b, V, first, step)
    PROVE  g = f
<1> DEFINE S == {i \in a..b : g[i] = f[i]}
<1>1. f \in [a..b -> V] /\ f[a] = first
  BY DEF IsRecursive
<1>2. a \in S
  BY <1>1 DEF TakesSteps
<1>3. ASSUME NEW i \in a..(b - 1), i \in S PROVE i + 1 \in S
  <2>1. i + 1 \in (a + 1)..b /\ i + 1 \in a..b /\ i \in a..b /\ (i + 1) - 1 = i
    OBVIOUS
  <2>2. g[i] = f[i] /\ f[i] \in V
    BY <1>1, <1>3, <2>1
  <2>3. g[i + 1] = step[i + 1][g[i]] /\ f[i + 1] = step[i + 1][f[i]]
    BY <2>1, <2>2 DEF IsRecursive, TakesSteps
  <2> QED
    BY <2>1, <2>2, <2>3
<1>4. a..b \subseteq S
  <2> HIDE DEF S
  <2> QED
    BY <1>2, <1>3, InductionUp
<1>5. \A i \in a..b : g[i] = f[i]
  BY <1>4
<1> QED
  BY <1>1, <1>5 DEF TakesSteps

-----------------------------------------------------------------------------
\* What solves the equations of FlattenSeq's definition is what it returns.
LEMMA FlattenSeqSolution ==
    ASSUME NEW seqs, Len(seqs) \in Nat \ {0}, NEW f,
           \A g : g = [i \in 1..Len(seqs) |->
                          IF i = 1 THEN seqs[i] ELSE g[i - 1] \o seqs[i]] <=> g = f
    PROVE  FlattenSeq(seqs) = f[Len(seqs)]
BY DEF FlattenSeq

\* FlattenSeq concatenates from the front, one sequence at a time.
LEMMA FlattenSeqSteps ==
    ASSUME NEW V, NEW seqs \in Seq(Seq(V)), seqs # <<>>
    PROVE  \E f \in [1..Len(seqs) -> Seq(V)] :
              /\ f[1] = seqs[1]
              /\ \A i \in 2..Len(seqs) : f[i] = f[i - 1] \o seqs[i]
              /\ FlattenSeq(seqs) = f[Len(seqs)]
<1> DEFINE n == Len(seqs)
           step == [i \in (1 + 1)..n |-> [v \in Seq(V) |-> v \o seqs[i]]]
           Solves(g) == g = [i \in 1..n |-> IF i = 1 THEN seqs[i] ELSE g[i - 1] \o seqs[i]]
<1>1. n \in Nat /\ 1 <= n /\ \A i \in 1..n : seqs[i] \in Seq(V)
  BY EmptySeq
<1>2. PICK f : IsRecursive(f, 1, n, Seq(V), seqs[1], step)
  <2>1. \A i \in (1 + 1)..n : step[i] \in [Seq(V) -> Seq(V)]
    BY <1>1
  <2>2. seqs[1] \in Seq(V) /\ 1 \in Nat
    BY <1>1
  <2> HIDE DEF n, step
  <2> QED
    BY <1>1, <2>1, <2>2, Recursion
<1>3. f \in [1..n -> Seq(V)] /\ f[1] = seqs[1]
  <2> HIDE DEF n, step
  <2> QED
    BY <1>2 DEF IsRecursive
<1>4. ASSUME NEW i \in 2..n PROVE f[i] = f[i - 1] \o seqs[i]
  <2>1. i \in (1 + 1)..n /\ i \in 1..n /\ i - 1 \in 1..n
    BY <1>1
  <2>2. f[i] = step[i][f[i - 1]] /\ f[i - 1] \in Seq(V)
    <3> HIDE DEF n, step
    <3> QED
      BY <1>2, <1>3, <2>1 DEF IsRecursive
  <2> QED
    BY <2>1, <2>2
<1>5. Solves(f)
  <2>1. ASSUME NEW i \in 1..n
        PROVE  f[i] = IF i = 1 THEN seqs[i] ELSE f[i - 1] \o seqs[i]
    <3>1. i # 1 => i \in 2..n
      BY <1>1
    <3> QED
      BY <1>3, <1>4, <3>1
  <2>2. f = [i \in 1..n |-> f[i]]
    BY <1>3
  <2> QED
    BY <2>1, <2>2
<1>6. ASSUME NEW g, Solves(g) PROVE g = f
  <2>1. g = [i \in 1..n |-> g[i]] /\ g[1] = seqs[1]
    BY <1>1, <1>6
  <2>2. ASSUME NEW i \in (1 + 1)..n, g[i - 1] \in Seq(V) PROVE g[i] = step[i][g[i - 1]]
    <3>1. i \in 1..n /\ i # 1
      BY <1>1
    <3>2. g[i] = g[i - 1] \o seqs[i]
      BY <1>6, <3>1
    <3> QED
      BY <2>2, <3>2
  <2> HIDE DEF n, step
  <2>3. TakesSteps(g, 1, n, Seq(V), seqs[1], step)
    BY <2>1, <2>2 DEF TakesSteps
  <2> QED
    BY <1>1, <1>2, <2>3, RecursionIsUnique
<1>7. FlattenSeq(seqs) = f[n]
  <2> HIDE DEF step
  <2>1. Len(seqs) \in Nat \ {0}
    BY <1>1
  <2>2. \A g : Solves(g) <=> g = f
    BY <1>5, <1>6
  <2> QED
    BY <2>1, <2>2, FlattenSeqSolution
<1> QED
  BY <1>3, <1>4, <1>7

LEMMA FlattenSeqType ==
    ASSUME NEW V, NEW seqs \in Seq(Seq(V))
    PROVE  FlattenSeq(seqs) \in Seq(V)
<1>1. CASE seqs = <<>>
  BY <1>1 DEF FlattenSeq
<1>2. CASE seqs # <<>>
  <2>1. Len(seqs) \in Nat /\ Len(seqs) \in 1..Len(seqs)
    BY <1>2, EmptySeq
  <2>2. PICK f \in [1..Len(seqs) -> Seq(V)] : FlattenSeq(seqs) = f[Len(seqs)]
    BY <1>2, FlattenSeqSteps
  <2> QED
    BY <2>1, <2>2
<1> QED
  BY <1>1, <1>2

\* Where FlattenSeq puts what it flattens: the i-th sequence ends at end[i], and
\* begins after end[i - 1].
Flattens(flat, seqs, end) ==
    /\ end \in [0..Len(seqs) -> Nat] /\ end[0] = 0
    /\ Len(flat) = end[Len(seqs)]
    /\ \A i \in 1..Len(seqs) : end[i] = end[i - 1] + Len(seqs[i])
    /\ \A i \in 1..Len(seqs) : \A k \in 0..(i - 1) : end[k] <= end[i - 1]
    /\ \A i \in 1..Len(seqs) : \A j \in 1..Len(seqs[i]) : flat[end[i - 1] + j] = seqs[i][j]
    /\ \A n \in 1..Len(flat) :
          \E i \in 1..Len(seqs) : \E j \in 1..Len(seqs[i]) : n = end[i - 1] + j

LEMMA FlattensOneMore ==
    ASSUME NEW V, NEW seqs \in Seq(Seq(V)), NEW more \in Seq(V), NEW flat \in Seq(V),
           NEW end, Flattens(flat, seqs, end)
    PROVE  LET m == Len(seqs)
           IN  Flattens(flat \o more, Append(seqs, more),
                        [i \in 0..(m + 1) |-> IF i = m + 1 THEN end[m] + Len(more) ELSE end[i]])
<1> DEFINE m == Len(seqs)
           seqs2 == Append(seqs, more)
           flat2 == flat \o more
           end2 == [i \in 0..(m + 1) |-> IF i = m + 1 THEN end[m] + Len(more) ELSE end[i]]
<1>1. m \in Nat /\ Len(more) \in Nat /\ Len(flat) \in Nat
  OBVIOUS
<1>2. /\ Len(seqs2) = m + 1 /\ seqs2[m + 1] = more
      /\ \A i \in 1..m : seqs2[i] = seqs[i]
  <2>1. more \in Seq(V)
    OBVIOUS
  <2> DEFINE W == Seq(V)
  <2> HIDE DEF W
  <2> QED
    BY <2>1, AppendProperties DEF W
<1>3. /\ end \in [0..m -> Nat] /\ end[0] = 0 /\ Len(flat) = end[m]
      /\ \A i \in 1..m : end[i] = end[i - 1] + Len(seqs[i])
      /\ \A i \in 1..m : \A k \in 0..(i - 1) : end[k] <= end[i - 1]
      /\ \A i \in 1..m : \A j \in 1..Len(seqs[i]) : flat[end[i - 1] + j] = seqs[i][j]
      /\ \A n \in 1..Len(flat) :
            \E i \in 1..m : \E j \in 1..Len(seqs[i]) : n = end[i - 1] + j
  BY DEF Flattens
<1>4. /\ Len(flat2) = end[m] + Len(more)
      /\ \A n \in 1..end[m] : flat2[n] = flat[n]
      /\ \A j \in 1..Len(more) : flat2[end[m] + j] = more[j]
  <2>1. /\ Len(flat2) = Len(flat) + Len(more)
        /\ \A n \in 1..(Len(flat) + Len(more)) :
              flat2[n] = IF n <= Len(flat) THEN flat[n] ELSE more[n - Len(flat)]
    BY ConcatProperties
  <2> DEFINE l == Len(flat)
  <2> HIDE DEF flat2, l
  <2>2. l = end[m]
    BY <1>3 DEF l
  <2>3. l \in Nat /\ Len(flat2) = l + Len(more)
    BY <1>1, <2>1 DEF l
  <2>4. \A n \in 1..(l + Len(more)) : flat2[n] = IF n <= l THEN flat[n] ELSE more[n - l]
    BY <2>1 DEF l
  <2>5. ASSUME NEW n \in 1..l PROVE flat2[n] = flat[n]
    <3>1. n \in 1..(l + Len(more)) /\ n <= l
      BY <1>1, <2>3
    <3> QED
      BY <2>4, <3>1
  <2>6. ASSUME NEW j \in 1..Len(more) PROVE flat2[l + j] = more[j]
    <3>1. l + j \in 1..(l + Len(more)) /\ ~(l + j <= l) /\ (l + j) - l = j
      BY <1>1, <2>3
    <3> QED
      BY <2>4, <3>1
  <2> QED
    BY <2>2, <2>3, <2>5, <2>6
<1>5. /\ end2 \in [0..(m + 1) -> Nat] /\ end2[m + 1] = end[m] + Len(more)
      /\ \A i \in 0..m : end2[i] = end[i]
  BY <1>1, <1>3
<1>6. \A i \in 1..m : i \in 1..(m + 1) /\ i \in 0..m /\ i - 1 \in 0..m
  BY <1>1
<1>7. \A i \in 1..(m + 1) : i \in 1..m \/ i = m + 1
  BY <1>1
<1>8. (m + 1) - 1 = m /\ 0 \in 0..m /\ m \in 0..m /\ m + 1 \in 1..(m + 1)
  BY <1>1
<1> HIDE DEF m, seqs2, flat2, end2
<1>9. \A i \in 1..(m + 1) : end2[i] = end2[i - 1] + Len(seqs2[i])
  <2>1. ASSUME NEW i \in 1..m PROVE end2[i] = end2[i - 1] + Len(seqs2[i])
    BY <1>2, <1>3, <1>5, <1>6
  <2>2. end2[m + 1] = end2[(m + 1) - 1] + Len(seqs2[m + 1])
    BY <1>2, <1>5, <1>8
  <2> QED
    BY <1>7, <2>1, <2>2
<1>10. ASSUME NEW i \in 1..(m + 1), NEW k \in 0..(i - 1) PROVE end2[k] <= end2[i - 1]
  <2>1. CASE i \in 1..m
    <3>1. k \in 0..m
      BY <1>1, <2>1
    <3> QED
      BY <1>3, <1>5, <1>6, <2>1, <3>1
  <2>2. CASE i = m + 1
    <3>1. k \in 0..m /\ end2[i - 1] = end[m] /\ end2[k] = end[k]
      BY <1>1, <1>5, <1>8, <2>2
    <3>2. CASE k = m
      BY <1>3, <1>8, <3>1, <3>2
    <3>3. CASE k # m
      <4>1. m \in 1..m /\ k \in 0..(m - 1)
        BY <1>1, <3>1, <3>3
      <4>2. end[k] <= end[m - 1] /\ end[m] = end[m - 1] + Len(seqs[m])
        BY <1>3, <4>1
      <4>3. end[k] \in Nat /\ end[m - 1] \in Nat /\ Len(seqs[m]) \in Nat
        <5>1. seqs[m] \in Seq(V) /\ m - 1 \in 0..m
          BY <4>1 DEF m
        <5>2. Len(seqs[m]) \in Nat
          BY <5>1
        <5> QED
          BY <1>3, <3>1, <5>1, <5>2
      <4> QED
        BY <3>1, <4>2, <4>3
    <3> QED
      BY <3>2, <3>3
  <2> QED
    BY <1>7, <2>1, <2>2
<1>11. ASSUME NEW i \in 1..(m + 1), NEW j \in 1..Len(seqs2[i])
       PROVE  flat2[end2[i - 1] + j] = seqs2[i][j]
  <2>1. CASE i \in 1..m
    <3>1. end2[i - 1] = end[i - 1] /\ seqs2[i] = seqs[i] /\ j \in 1..Len(seqs[i])
      BY <1>2, <1>5, <1>6, <2>1
    <3>2. end[i - 1] + j \in 1..end[m]
      <4>1. end[i] = end[i - 1] + Len(seqs[i])
        BY <1>3, <2>1
      <4>2. end[i] <= end[m]
        <5>1. CASE i = m
          BY <1>3, <1>8, <5>1
        <5>2. CASE i # m
          <6>1. i \in 0..((m + 1) - 1)
            BY <1>1, <2>1
          <6>2. end2[i] <= end2[(m + 1) - 1]
            BY <1>8, <1>10, <6>1
          <6> QED
            BY <1>5, <1>6, <1>8, <2>1, <6>2
        <5> QED
          BY <5>1, <5>2
      <4>3. end[i - 1] \in Nat /\ end[m] \in Nat /\ Len(seqs[i]) \in Nat /\ j \in Nat
        <5>1. seqs[i] \in Seq(V)
          BY <2>1 DEF m
        <5>2. Len(seqs[i]) \in Nat
          BY <5>1
        <5>3. end[i - 1] \in Nat /\ end[m] \in Nat
          BY <1>3, <1>6, <1>8, <2>1
        <5>4. j \in Nat
          BY <3>1, <5>2
        <5> QED
          BY <5>2, <5>3, <5>4
      <4>4. j >= 1 /\ j <= Len(seqs[i])
        BY <3>1, <4>3
      <4> QED
        BY <4>1, <4>2, <4>3, <4>4
    <3> QED
      BY <1>3, <1>4, <2>1, <3>1, <3>2
  <2>2. CASE i = m + 1
    BY <1>2, <1>4, <1>5, <1>8, <2>2
  <2> QED
    BY <1>7, <2>1, <2>2
<1>12. ASSUME NEW n \in 1..Len(flat2)
       PROVE  \E i \in 1..(m + 1) : \E j \in 1..Len(seqs2[i]) : n = end2[i - 1] + j
  <2>1. CASE n \in 1..Len(flat)
    <3>1. PICK i \in 1..m : \E j \in 1..Len(seqs[i]) : n = end[i - 1] + j
      BY <1>3, <2>1
    <3>2. i \in 1..(m + 1) /\ seqs2[i] = seqs[i] /\ end2[i - 1] = end[i - 1]
      BY <1>2, <1>5, <1>6
    <3> QED
      BY <3>1, <3>2
  <2>2. CASE n \notin 1..Len(flat)
    <3> DEFINE j == n - end[m]
    <3>1. j \in 1..Len(more) /\ n = end[m] + j
      BY <1>1, <1>3, <1>4, <2>2
    <3> HIDE DEF j
    <3>2. end2[(m + 1) - 1] = end[m] /\ seqs2[m + 1] = more
      BY <1>2, <1>5, <1>8
    <3> QED
      BY <1>8, <3>1, <3>2
  <2> QED
    BY <2>1, <2>2
<1>13. /\ end2 \in [0..Len(seqs2) -> Nat] /\ end2[0] = 0 /\ Len(flat2) = end2[Len(seqs2)]
  BY <1>2, <1>3, <1>4, <1>5, <1>8
<1>14. Flattens(flat2, seqs2, end2)
  <2> DEFINE len == Len(seqs2)
  <2>1. len = m + 1
    BY <1>2
  <2> HIDE DEF len
  <2>2. \A i \in 1..len : end2[i] = end2[i - 1] + Len(seqs2[i])
    BY <1>9, <2>1
  <2>3. \A i \in 1..len : \A k \in 0..(i - 1) : end2[k] <= end2[i - 1]
    BY <1>10, <2>1
  <2>4. \A i \in 1..len : \A j \in 1..Len(seqs2[i]) : flat2[end2[i - 1] + j] = seqs2[i][j]
    BY <1>11, <2>1
  <2>5. \A n \in 1..Len(flat2) :
           \E i \in 1..len : \E j \in 1..Len(seqs2[i]) : n = end2[i - 1] + j
    BY <1>12, <2>1
  <2> QED
    BY <1>13, <2>2, <2>3, <2>4, <2>5 DEF Flattens, len
<1> QED
  BY <1>14 DEF m, seqs2, flat2, end2

LEMMA FlattensNothing == Flattens(<<>>, <<>>, [i \in 0..0 |-> 0])
<1>1. Len(<<>>) = 0 /\ 0 \in Nat
  OBVIOUS
<1>2. 1..0 = {} /\ 0..0 = {0}
  OBVIOUS
<1> QED
  BY <1>1, <1>2 DEF Flattens

LEMMA FlattenSeqPositions ==
    ASSUME NEW V, NEW seqs \in Seq(Seq(V))
    PROVE  \E end : Flattens(FlattenSeq(seqs), seqs, end)
<1> DEFINE n == Len(seqs)
<1>1. n \in Nat
  OBVIOUS
<1>2. CASE seqs = <<>>
  BY <1>2, FlattensNothing DEF FlattenSeq
<1>3. CASE seqs # <<>>
  <2>1. PICK f \in [1..n -> Seq(V)] :
            /\ FlattenSeq(seqs) = f[n] /\ f[1] = seqs[1]
            /\ \A i \in 2..n : f[i] = f[i - 1] \o seqs[i]
    BY <1>3, FlattenSeqSteps
  <2> DEFINE part(k) == SubSeq(seqs, 1, k)
             S == {k \in 1..n : \E end : Flattens(f[k], part(k), end)}
  <2>2. 1 \in 1..n /\ n \in 1..n
    BY <1>1, <1>3, EmptySeq
  <2>3. \A k \in 1..n : seqs[k] \in Seq(V)
    OBVIOUS
  <2>4. \A k \in 0..n : part(k) \in Seq(Seq(V))
    <3> DEFINE W == Seq(V)
    <3>1. \A k \in 0..n : k \in Int /\ \A i \in 1..k : seqs[i] \in W
      BY <1>1
    <3>2. 1 \in Int
      OBVIOUS
    <3> HIDE DEF W
    <3> QED
      BY <3>1, <3>2, SubSeqProperties DEF W
  <2>5. ASSUME NEW k \in 1..n PROVE part(k) = Append(part(k - 1), seqs[k])
    <3> DEFINE W == Seq(V)
    <3>1. seqs \in Seq(W) /\ 1 \in 1..Len(seqs) /\ k \in 1..Len(seqs) /\ part(k - 1) \in Seq(W)
      BY <1>1, <2>2, <2>4
    <3> HIDE DEF W
    <3>2. part(k) = part(k - 1) \o <<seqs[k]>>
      BY <3>1, SubSeqRecursiveSecond
    <3>3. seqs[k] \in W
      BY <3>1
    <3> HIDE DEF part
    <3> QED
      BY <3>1, <3>2, <3>3, AppendIsConcat
  <2>6. ASSUME NEW k \in 1..n, NEW flat \in Seq(V), NEW end, Flattens(flat, part(k - 1), end),
               f[k] = flat \o seqs[k]
        PROVE  k \in S
    <3> DEFINE less == part(k - 1)
               more == seqs[k]
    <3>1. less \in Seq(Seq(V)) /\ more \in Seq(V)
      BY <1>1, <2>3, <2>4
    <3> HIDE DEF less, more
    <3>2. \E end2 : Flattens(flat \o more, Append(less, more), end2)
      BY <2>6, <3>1, FlattensOneMore DEF less
    <3> QED
      BY <2>5, <2>6, <3>2 DEF less, more
  <2>7. 1 \in S
    <3>1. part(1 - 1) = <<>>
      BY SubSeqEmpty
    <3>2. <<>> \in Seq(V) /\ f[1] = <<>> \o seqs[1]
      BY <2>1, <2>2, <2>3, ConcatEmptySeq
    <3> HIDE DEF S, part
    <3> QED
      BY <2>2, <2>6, <3>1, <3>2, FlattensNothing
  <2>8. ASSUME NEW k \in 1..(n - 1), k \in S PROVE k + 1 \in S
    <3>1. k + 1 \in 1..n /\ k + 1 \in 2..n /\ (k + 1) - 1 = k /\ k \in 1..n
      BY <1>1
    <3>2. f[k] \in Seq(V) /\ f[k + 1] = f[k] \o seqs[k + 1]
      <4> HIDE DEF n
      <4> QED
        BY <2>1, <3>1
    <3>3. PICK end : Flattens(f[k], part(k), end)
      BY <2>8
    <3> HIDE DEF S, part, n
    <3> QED
      BY <2>6, <3>1, <3>2, <3>3
  <2>9. n \in S
    <3> HIDE DEF S, part, n
    <3>1. 1..n \subseteq S
      BY <1>1, <2>7, <2>8, InductionUp
    <3> QED
      BY <2>2, <3>1
  <2>10. part(n) = seqs
    <3> DEFINE W == Seq(V)
    <3>1. seqs \in Seq(W)
      OBVIOUS
    <3> HIDE DEF W
    <3> QED
      BY <3>1, SubSeqFull
  <2> QED
    BY <2>1, <2>9, <2>10
<1> QED
  BY <1>2, <1>3

-----------------------------------------------------------------------------
\* SetToSeq lists every element of a finite set once.
LEMMA SetToSeqIsList ==
    ASSUME NEW S, IsFiniteSet(S)
    PROVE  /\ SetToSeq(S) \in Seq(S) /\ IsInjective(SetToSeq(S))
           /\ \A x \in S : \E i \in 1..Len(SetToSeq(S)) : SetToSeq(S)[i] = x
<1> DEFINE n == Cardinality(S)
<1>1. n \in Nat /\ ExistsBijection(1..n, S)
  BY FS_CardinalityType
<1>2. \E f \in [1..n -> S] : IsInjective(f)
  BY <1>1 DEF ExistsBijection, Bijection, Injection
<1>3. SetToSeq(S) \in [1..n -> S] /\ IsInjective(SetToSeq(S))
  BY <1>2 DEF SetToSeq
<1>4. SetToSeq(S) \in Surjection(1..n, S)
  <2>1. SetToSeq(S) \in Injection(1..n, S)
    BY <1>3 DEF Injection
  <2>2. IsFiniteSet(1..n) /\ Cardinality(1..n) = n
    BY <1>1, FS_Interval
  <2> HIDE DEF n
  <2> QED
    BY <2>1, <2>2, FS_Injection DEF n
<1>5. SetToSeq(S) \in Seq(S) /\ Len(SetToSeq(S)) = n
  BY <1>1, <1>3
<1> QED
  BY <1>3, <1>4, <1>5 DEF Surjection
=============================================================================
