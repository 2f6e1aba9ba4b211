----------------------------- MODULE FoldFacts -----------------------------
(***************************************************************************)
(* What FoldLeft makes of a sequence, for any step: op(c, a, x) is what a  *)
(* step of context c makes of the accumulator a and the element x.  The    *)
(* theorems are used through an instance of this module for each step that *)
(* a model folds.                                                          *)
(*                                                                         *)
(* A run of a fold lists the accumulators that it goes through.            *)
(***************************************************************************)
EXTENDS Integers, Sequences, SequencesExt, WellFoundedInduction, SequenceTheorems, TLAPS

CONSTANT op(_, _, _)

Fold(c, base, seq) == FoldLeft(LAMBDA a, x : op(c, a, x), base, seq)

IsRun(c, base, seq, run) ==
  /\ run[0] = base
  /\ \A k \in 1 .. Len(seq) : run[k] = op(c, run[k - 1], seq[k])

\* Induction up to a bound, for a property that is given by the set of what has it.
THEOREM Reaches ==
  ASSUME NEW n \in Nat, NEW P, 0 \in P, \A k \in 0 .. n - 1 : k \in P => k + 1 \in P
  PROVE  \A k \in 0 .. n : k \in P
<1> DEFINE missing == {k \in 0 .. n : k \notin P}
<1> SUFFICES ASSUME missing # {} PROVE FALSE
  OBVIOUS
<1>1. missing \in SUBSET Nat
  OBVIOUS
<1>2. PICK k \in missing : \A m \in missing : ~ (<<m, k>> \in OpToRel(<, Nat))
  BY <1>1, NatLessThanWellFounded, WFMin
<1>3. \A m \in missing : ~(m < k)
  BY <1>1, <1>2 DEF OpToRel
<1>4. k \in 0 .. n /\ k \notin P
  BY <1>2
<1>5. k - 1 \in 0 .. n - 1 /\ k - 1 + 1 = k
  <2>1. k # 0
    BY <1>4
  <2> QED
    BY <1>4, <2>1
<1>6. k - 1 \in P
  <2>1. k - 1 \in 0 .. n /\ k - 1 < k
    BY <1>5
  <2> QED
    BY <1>3, <2>1
<1> QED
  BY <1>4, <1>5, <1>6

\* The folds of the sets of the first positions.
Body(c, base, seq, f, s) ==
  IF s = {} THEN base ELSE op(c, f[s \ {Max(s)}], seq[Max(s)])

LEMMA MaxIsLast ==
  ASSUME NEW k \in Nat, NEW s \in SUBSET (1 .. k + 1), k + 1 \in s
  PROVE  Max(s) = k + 1
<1>1. \A y \in s : k + 1 >= y
  OBVIOUS
<1>2. \E x \in s : \A y \in s : x >= y
  BY <1>1
<1>3. Max(s) \in s /\ \A y \in s : Max(s) >= y
  BY <1>2 DEF Max
<1>4. Max(s) \in 1 .. k + 1 /\ Max(s) >= k + 1
  BY <1>3
<1> QED
  BY <1>4

LEMMA FoldIsDefined ==
  ASSUME NEW c, NEW base, NEW seq, NEW n \in Nat
  PROVE  \E f : f = [s \in SUBSET (1 .. n) |-> Body(c, base, seq, f, s)]
<1> DEFINE Defined(k) == \E f : f = [s \in SUBSET (1 .. k) |-> Body(c, base, seq, f, s)]
           P == {k \in Nat : Defined(k)}
<1>1. 0 \in P
  <2> DEFINE f == [s \in SUBSET (1 .. 0) |-> base]
  <2>1. f = [s \in SUBSET (1 .. 0) |-> Body(c, base, seq, f, s)]
    BY DEF Body
  <2> QED
    BY <2>1
<1>2. ASSUME NEW k \in 0 .. n - 1, k \in P
      PROVE  k + 1 \in P
  <2>1. PICK f : f = [s \in SUBSET (1 .. k) |-> Body(c, base, seq, f, s)]
    BY <1>2
  <2> DEFINE g == [s \in SUBSET (1 .. k + 1) |->
                     IF k + 1 \in s THEN op(c, f[s \ {k + 1}], seq[k + 1]) ELSE f[s]]
  <2>2. ASSUME NEW s \in SUBSET (1 .. k + 1)
        PROVE  g[s] = Body(c, base, seq, g, s)
    <3>1. CASE k + 1 \in s
      <4>1. Max(s) = k + 1
        BY <3>1, MaxIsLast
      <4>2. s \ {k + 1} \in SUBSET (1 .. k + 1) /\ k + 1 \notin s \ {k + 1}
        OBVIOUS
      <4>3. g[s \ {k + 1}] = f[s \ {k + 1}]
        BY <4>2
      <4> QED
        BY <3>1, <4>1, <4>3 DEF Body
    <3>2. CASE k + 1 \notin s
      <4>1. s \in SUBSET (1 .. k)
        BY <3>2
      <4>2. g[s] = f[s] /\ f[s] = Body(c, base, seq, f, s)
        BY <2>1, <3>2, <4>1
      <4>3. s \ {Max(s)} \in SUBSET (1 .. k + 1) /\ k + 1 \notin s \ {Max(s)}
        BY <3>2
      <4>4. g[s \ {Max(s)}] = f[s \ {Max(s)}]
        BY <4>3
      <4> QED
        BY <4>2, <4>4 DEF Body
    <3> QED
      BY <3>1, <3>2
  <2>3. g = [s \in SUBSET (1 .. k + 1) |-> Body(c, base, seq, g, s)]
    BY <2>2
  <2>4. Defined(k + 1)
    BY <2>3
  <2> HIDE DEF Defined
  <2> QED
    BY <2>4
<1>3. \A k \in 0 .. n : k \in P
  <2> HIDE DEF P
  <2> QED
    BY <1>1, <1>2, Reaches
<1>4. n \in 0 .. n
  OBVIOUS
<1> QED
  BY <1>3, <1>4

\* A fold is the end of a run.
THEOREM FoldHasRun ==
  ASSUME NEW c, NEW base, NEW T, NEW seq \in Seq(T)
  PROVE  \E run : IsRun(c, base, seq, run) /\ Fold(c, base, seq) = run[Len(seq)]
<1> DEFINE n == Len(seq)
           iter == CHOOSE f : f = [s \in SUBSET DOMAIN seq |-> Body(c, base, seq, f, s)]
           run == [k \in 0 .. n |-> iter[1 .. k]]
<1>1. n \in Nat /\ DOMAIN seq = 1 .. n
  OBVIOUS
<1>2. iter = [s \in SUBSET (1 .. n) |-> Body(c, base, seq, iter, s)]
  BY <1>1, FoldIsDefined
<1>3. Fold(c, base, seq) = iter[1 .. n]
  BY <1>1 DEF Fold, FoldLeft, MapThenFoldSet, Body
<1> HIDE DEF iter
<1>4. run[0] = base
  BY <1>1, <1>2 DEF Body
<1>5. ASSUME NEW k \in 1 .. n
      PROVE  run[k] = op(c, run[k - 1], seq[k])
  <2>1. Max(1 .. k) = k
    <3>1. k - 1 \in Nat /\ k - 1 + 1 = k
      OBVIOUS
    <3>2. k - 1 + 1 \in 1 .. k
      BY <3>1
    <3> QED
      BY <3>1, <3>2, MaxIsLast
  <2>2. (1 .. k) \ {k} = 1 .. k - 1 /\ 1 .. k # {}
    OBVIOUS
  <2>3. iter[1 .. k] = op(c, iter[1 .. k - 1], seq[k])
    <3>1. 1 .. k \in SUBSET (1 .. n)
      BY <1>1
    <3>2. iter[1 .. k] = Body(c, base, seq, iter, 1 .. k)
      BY <1>2, <3>1
    <3> QED
      BY <2>1, <2>2, <3>2 DEF Body
  <2> QED
    BY <2>3, <1>1
<1>6. IsRun(c, base, seq, run)
  BY <1>4, <1>5 DEF IsRun
<1> QED
  BY <1>1, <1>3, <1>6

\* The runs of a fold are alike.
THEOREM RunsAgree ==
  ASSUME NEW c, NEW base, NEW T, NEW seq \in Seq(T), NEW one, NEW two,
         IsRun(c, base, seq, one), IsRun(c, base, seq, two)
  PROVE  one[Len(seq)] = two[Len(seq)]
<1> DEFINE P == {k \in Nat : one[k] = two[k]}
<1>1. 0 \in P
  BY DEF IsRun
<1>2. ASSUME NEW k \in 0 .. Len(seq) - 1, k \in P
      PROVE  k + 1 \in P
  <2>1. k + 1 \in 1 .. Len(seq) /\ k + 1 - 1 = k
    OBVIOUS
  <2> QED
    BY <1>2, <2>1 DEF IsRun
<1>3. \A k \in 0 .. Len(seq) : k \in P
  <2>1. Len(seq) \in Nat
    OBVIOUS
  <2> HIDE DEF P
  <2> QED
    BY <1>1, <1>2, <2>1, Reaches
<1> QED
  BY <1>3

\* What ends a run is the fold.
THEOREM RunIsFold ==
  ASSUME NEW c, NEW base, NEW T, NEW seq \in Seq(T), NEW run, IsRun(c, base, seq, run)
  PROVE  Fold(c, base, seq) = run[Len(seq)]
<1>1. PICK other : IsRun(c, base, seq, other) /\ Fold(c, base, seq) = other[Len(seq)]
  BY FoldHasRun
<1> QED
  BY <1>1, RunsAgree

THEOREM FoldEmpty == ASSUME NEW c, NEW base PROVE Fold(c, base, <<>>) = base
<1>1. <<>> \in Seq({}) /\ Len(<<>>) = 0
  OBVIOUS
<1>2. PICK run : IsRun(c, base, <<>>, run) /\ Fold(c, base, <<>>) = run[0]
  BY <1>1, FoldHasRun
<1> QED
  BY <1>2 DEF IsRun

THEOREM FoldAppend ==
  ASSUME NEW c, NEW base, NEW T, NEW seq \in Seq(T), NEW x \in T
  PROVE  Fold(c, base, Append(seq, x)) = op(c, Fold(c, base, seq), x)
<1> DEFINE n == Len(seq)
<1>1. PICK run : IsRun(c, base, seq, run) /\ Fold(c, base, seq) = run[n]
  BY FoldHasRun
<1> DEFINE more == [k \in 0 .. n + 1 |-> IF k = n + 1 THEN op(c, run[n], x) ELSE run[k]]
<1>2. Append(seq, x) \in Seq(T) /\ Len(Append(seq, x)) = n + 1
  OBVIOUS
<1>3. IsRun(c, base, Append(seq, x), more)
  <2>1. more[0] = base
    BY <1>1 DEF IsRun
  <2>2. ASSUME NEW k \in 1 .. n + 1
        PROVE  more[k] = op(c, more[k - 1], Append(seq, x)[k])
    <3>1. CASE k = n + 1
      BY <3>1
    <3>2. CASE k \in 1 .. n
      BY <1>1, <3>2 DEF IsRun
    <3> QED
      BY <3>1, <3>2
  <2> QED
    BY <1>2, <2>1, <2>2 DEF IsRun
<1>4. Fold(c, base, Append(seq, x)) = more[n + 1]
  BY <1>2, <1>3, RunIsFold
<1> QED
  BY <1>1, <1>4

THEOREM FoldOne ==
  ASSUME NEW c, NEW base, NEW x
  PROVE  Fold(c, base, <<x>>) = op(c, base, x)
<1>1. <<x>> \in Seq({x}) /\ Len(<<x>>) = 1 /\ <<x>>[1] = x
  OBVIOUS
<1>2. PICK run : IsRun(c, base, <<x>>, run) /\ Fold(c, base, <<x>>) = run[1]
  BY <1>1, FoldHasRun
<1> QED
  BY <1>1, <1>2 DEF IsRun

\* A fold of two sequences goes on with the second where it stands after the first.
THEOREM FoldConcat ==
  ASSUME NEW c, NEW base, NEW T, NEW one \in Seq(T), NEW two \in Seq(T)
  PROVE  Fold(c, base, one \o two) = Fold(c, Fold(c, base, one), two)
<1> DEFINE n == Len(one)
           m == Len(two)
<1>1. PICK run : IsRun(c, base, one, run) /\ Fold(c, base, one) = run[n]
  BY FoldHasRun
<1>2. PICK rest : IsRun(c, run[n], two, rest) /\ Fold(c, run[n], two) = rest[m]
  BY FoldHasRun
<1> DEFINE more == [k \in 0 .. n + m |-> IF k <= n THEN run[k] ELSE rest[k - n]]
<1>3. one \o two \in Seq(T) /\ Len(one \o two) = n + m /\ n \in Nat /\ m \in Nat
  OBVIOUS
<1>4. IsRun(c, base, one \o two, more)
  <2>1. more[0] = base
    BY <1>1, <1>3 DEF IsRun
  <2>2. ASSUME NEW k \in 1 .. n + m
        PROVE  more[k] = op(c, more[k - 1], (one \o two)[k])
    <3>1. CASE k <= n
      BY <1>1, <1>3, <3>1 DEF IsRun
    <3>2. CASE k = n + 1
      <4>1. more[k] = rest[1] /\ more[k - 1] = run[n] /\ (one \o two)[k] = two[1] /\ 1 \in 1 .. m
        BY <1>3, <3>2
      <4>2. rest[1] = op(c, rest[1 - 1], two[1]) /\ rest[0] = run[n] /\ 1 - 1 = 0
        BY <1>2, <4>1 DEF IsRun
      <4> QED
        BY <4>1, <4>2
    <3>3. CASE k > n + 1
      <4>1. /\ more[k] = rest[k - n] /\ more[k - 1] = rest[k - 1 - n]
            /\ (one \o two)[k] = two[k - n] /\ k - n \in 1 .. m
        BY <1>3, <3>3
      <4>2. rest[k - n] = op(c, rest[k - n - 1], two[k - n]) /\ k - n - 1 = k - 1 - n
        BY <1>2, <1>3, <4>1 DEF IsRun
      <4> QED
        BY <4>1, <4>2
    <3> QED
      BY <1>3, <3>1, <3>2, <3>3
  <2> QED
    BY <1>3, <2>1, <2>2 DEF IsRun
<1>5. Fold(c, base, one \o two) = more[n + m]
  BY <1>3, <1>4, RunIsFold
<1>6. more[n + m] = rest[m]
  BY <1>1, <1>2, <1>3 DEF IsRun
<1> QED
  BY <1>1, <1>2, <1>5, <1>6

\* What holds at first and is kept by every step holds at the end: I[k] is the set of
\* the accumulators that are right after k elements.
THEOREM FoldKeeps ==
  ASSUME NEW c, NEW base, NEW T, NEW seq \in Seq(T), NEW I, base \in I[0],
         \A k \in 1 .. Len(seq) : \A a \in I[k - 1] : op(c, a, seq[k]) \in I[k]
  PROVE  Fold(c, base, seq) \in I[Len(seq)]
<1>1. PICK run : IsRun(c, base, seq, run) /\ Fold(c, base, seq) = run[Len(seq)]
  BY FoldHasRun
<1> DEFINE P == {k \in Nat : run[k] \in I[k]}
<1>2. 0 \in P
  BY <1>1 DEF IsRun
<1>3. ASSUME NEW k \in 0 .. Len(seq) - 1, k \in P
      PROVE  k + 1 \in P
  <2>1. k + 1 \in 1 .. Len(seq) /\ k + 1 - 1 = k
    OBVIOUS
  <2> QED
    BY <1>1, <1>3, <2>1 DEF IsRun
<1>4. \A k \in 0 .. Len(seq) : k \in P
  <2>1. Len(seq) \in Nat
    OBVIOUS
  <2> HIDE DEF P
  <2> QED
    BY <1>2, <1>3, <2>1, Reaches
<1> QED
  BY <1>1, <1>4
=============================================================================
