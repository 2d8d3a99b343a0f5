--------------------------- MODULE SequenceLemmas ---------------------------
(***************************************************************************)
(* Facts about sequences and about the recursive functions behind          *)
(* FoldLeft, FlattenSeq and the folds over sets, which the proofs about    *)
(* chunking and evaluation share.  Induction is on sets of numbers: every  *)
(* set that holds 0, and n + 1 with every n, holds all numbers.            *)
(***************************************************************************)
EXTENDS Integers, Sequences, FiniteSets, SequencesExt, SequenceTheorems,
        FiniteSetTheorems, WellFoundedInduction, TLAPS

\* A sequence, of whatever elements.
IsSequence(s) == s \in Seq({s[i] : i \in DOMAIN s})

----------------------------------------------------------------------------
(* Numbers.                                                                *)

\* A set of numbers has a least.
LEMMA LeastNumber ==
    ASSUME NEW T, T \subseteq Nat, T # {}
    PROVE  \E n \in T : \A m \in T : n <= m
<1> DEFINE R == OpToRel(<, Nat)
<1>1. \A x, y \in Nat : x < y => <<x, y>> \in R
  BY DEF OpToRel
<1>2. IsWellFoundedOn(R, Nat)
  BY NatLessThanWellFounded
<1> HIDE DEF R
<1>3. PICK n \in T : \A m \in T : ~(<<m, n>> \in R)
  BY <1>2, WFMin
<1>4. ASSUME NEW m \in T PROVE n <= m
  <2>1. m \in Nat /\ n \in Nat /\ ~(<<m, n>> \in R)
    BY <1>3
  <2>2. ~(m < n)
    BY <1>1, <2>1
  <2> QED
    BY <2>1, <2>2
<1> QED
  BY <1>4

\* Induction up to m.
LEMMA CountingTo ==
    ASSUME NEW m \in Nat, NEW S, 0 \in S,
           \A n \in 0..(m - 1) : n \in S => n + 1 \in S
    PROVE  \A n \in 0..m : n \in S
<1> DEFINE T == (0..m) \ S
<1> SUFFICES ASSUME T # {} PROVE FALSE
  OBVIOUS
<1>1. T \subseteq Nat
  OBVIOUS
<1> HIDE DEF T
<1>2. PICK n \in T : \A k \in T : n <= k
  BY <1>1, LeastNumber
<1>3. n \in 1..m /\ n - 1 \in 0..(m - 1) /\ n \notin S
  BY <1>2 DEF T
<1>4. n - 1 \notin T
  BY <1>2, <1>3
<1> QED
  BY <1>3, <1>4 DEF T

\* Max chooses the greatest of a range's numbers.
LEMMA MaxOfRange ==
    ASSUME NEW n \in Nat, NEW S, S \subseteq 1..n, S # {}
    PROVE  Max(S) \in S /\ \A y \in S : y <= Max(S)
<1> DEFINE T == {n - x : x \in S}
<1>1. ASSUME NEW x \in S PROVE x \in 1..n /\ n - x \in Nat /\ n - x \in T
  <2>1. x \in 1..n
    OBVIOUS
  <2> QED
    BY <2>1
<1>2. T \subseteq Nat /\ T # {}
  BY <1>1
<1>3. PICK t \in T : \A u \in T : t <= u
  <2> HIDE DEF T
  <2> QED
    BY <1>2, LeastNumber
<1>4. PICK x \in S : t = n - x
  BY <1>3
<1>5. ASSUME NEW y \in S PROVE x >= y
  <2>1. n - y \in T /\ x \in 1..n /\ y \in 1..n
    BY <1>1
  <2>2. n - x <= n - y
    BY <1>3, <1>4, <2>1
  <2> QED
    BY <2>1, <2>2
<1>6. Max(S) \in S /\ \A y \in S : Max(S) >= y
  BY <1>5 DEF Max
<1>7. \A y \in S : y \in Nat
  BY <1>1
<1> QED
  BY <1>6, <1>7

\* FoldLeft takes the last index off an interval first.
LEMMA MaxOfInterval ==
    ASSUME NEW n \in Nat \ {0}
    PROVE  Max(1..n) = n /\ (1..n) \ {Max(1..n)} = 1..(n - 1) /\ 1..n # {}
<1>1. n \in 1..n
  OBVIOUS
<1>2. Max(1..n) \in 1..n /\ n <= Max(1..n)
  BY <1>1, MaxOfRange
<1>3. Max(1..n) = n
  BY <1>2
<1> QED
  BY <1>1, <1>3

----------------------------------------------------------------------------
(* Sequences of any elements.                                              *)

\* A sequence is a function on 1 to its length.
LEMMA SequenceShape ==
    ASSUME NEW s, IsSequence(s)
    PROVE  Len(s) \in Nat /\ DOMAIN s = 1..Len(s)
BY DEF IsSequence

\* A function on 1..n is a sequence of length n.
LEMMA FunctionIsSequence ==
    ASSUME NEW n \in Nat, NEW s, DOMAIN s = 1..n, s = [i \in 1..n |-> s[i]]
    PROVE  IsSequence(s) /\ Len(s) = n
<1> DEFINE elements == {s[i] : i \in DOMAIN s}
<1>1. s \in [1..n -> elements]
  OBVIOUS
<1> HIDE DEF elements
<1>2. s \in Seq(elements) /\ Len(s) = n
  BY <1>1
<1> QED
  BY <1>2 DEF IsSequence, elements

\* The members of Seq(S) are sequences.
LEMMA MemberIsSequence ==
    ASSUME NEW S, NEW s \in Seq(S)
    PROVE  IsSequence(s)
<1>1. Len(s) \in Nat /\ DOMAIN s = 1..Len(s) /\ s = [i \in 1..Len(s) |-> s[i]]
  OBVIOUS
<1> QED
  BY <1>1, FunctionIsSequence

\* The parts of a concatenation.
LEMMA Concatenated ==
    ASSUME NEW s, NEW t, IsSequence(s), IsSequence(t)
    PROVE  /\ IsSequence(s \o t) /\ Len(s \o t) = Len(s) + Len(t)
           /\ \A i \in 1..Len(s) : (s \o t)[i] = s[i]
           /\ \A i \in 1..Len(t) : (s \o t)[Len(s) + i] = t[i]
<1> DEFINE elements == {s[i] : i \in DOMAIN s} \cup {t[i] : i \in DOMAIN t}
           n == Len(s) + Len(t)
<1>1. Len(s) \in Nat /\ Len(t) \in Nat
  BY SequenceShape
<1>2. s \in Seq(elements) /\ t \in Seq(elements)
  BY DEF IsSequence
<1> HIDE DEF elements
<1>3. /\ s \o t \in Seq(elements) /\ Len(s \o t) = n
      /\ \A i \in 1..Len(s) : (s \o t)[i] = s[i]
      /\ \A i \in 1..Len(t) : (s \o t)[Len(s) + i] = t[i]
  BY <1>1, <1>2
<1>4. IsSequence(s \o t)
  BY <1>3, MemberIsSequence
<1> QED
  BY <1>3, <1>4

\* The parts of a sequence with one element more.
LEMMA Appended ==
    ASSUME NEW s, NEW x, IsSequence(s)
    PROVE  /\ IsSequence(Append(s, x)) /\ Len(Append(s, x)) = Len(s) + 1
           /\ \A i \in 1..Len(s) : Append(s, x)[i] = s[i]
           /\ Append(s, x)[Len(s) + 1] = x
<1> DEFINE elements == {s[i] : i \in DOMAIN s} \cup {x}
           n == Len(s) + 1
<1>1. Len(s) \in Nat
  BY SequenceShape
<1>2. s \in Seq(elements) /\ x \in elements
  BY DEF IsSequence
<1> HIDE DEF elements
<1>3. /\ Append(s, x) \in Seq(elements) /\ Len(Append(s, x)) = n
      /\ \A i \in 1..Len(s) : Append(s, x)[i] = s[i]
      /\ Append(s, x)[n] = x
  BY <1>1, <1>2
<1>4. IsSequence(Append(s, x))
  BY <1>3, MemberIsSequence
<1> QED
  BY <1>3, <1>4

\* The empty sequence is one.
LEMMA EmptyIsSequence == IsSequence(<<>>) /\ Len(<<>>) = 0
BY DEF IsSequence

----------------------------------------------------------------------------
(* Recursive functions.                                                    *)

\* The recursion of FoldLeft over s, with an operator given as a function.
Folds(f, G, base, s) ==
    \A S \in SUBSET (DOMAIN s) :
        f[S] = IF S = {} THEN base ELSE G[<<f[S \ {Max(S)}], s[Max(S)]>>]

\* It has a solution when the operator stays in A.
LEMMA FoldExists ==
    ASSUME NEW A, NEW B, NEW base \in A, NEW G \in [A \X B -> A],
           NEW m \in Nat, NEW s \in [1..m -> B]
    PROVE  \E f \in [SUBSET (1..m) -> A] : Folds(f, G, base, s)
<1> DEFINE Solves(f, n) ==
             /\ f \in [SUBSET (1..n) -> A]
             /\ \A S \in SUBSET (1..n) :
                   f[S] = IF S = {} THEN base ELSE G[<<f[S \ {Max(S)}], s[Max(S)]>>]
           Solvable == {n \in 0..m : \E f : Solves(f, n)}
<1>1. 0 \in Solvable
  <2> DEFINE f == [S \in SUBSET (1..0) |-> base]
  <2>1. \A S \in SUBSET (1..0) : S = {}
    OBVIOUS
  <2>2. Solves(f, 0)
    BY <2>1
  <2> HIDE DEF f, Solves
  <2> QED
    BY <2>2
<1>2. ASSUME NEW n \in 0..(m - 1), n \in Solvable
      PROVE  n + 1 \in Solvable
  <2>1. PICK f : Solves(f, n)
    BY <1>2
  <2> DEFINE step(S) == G[<<f[S \ {n + 1}], s[n + 1]>>]
             g == [S \in SUBSET (1..(n + 1)) |-> IF n + 1 \in S THEN step(S) ELSE f[S]]
  <2>2. n \in Nat /\ n + 1 \in 1..m /\ s[n + 1] \in B
    BY <1>2
  <2>3. \A S \in SUBSET (1..(n + 1)) : S \ {n + 1} \in SUBSET (1..n)
    BY <2>2
  <2>4. g \in [SUBSET (1..(n + 1)) -> A]
    <3>1. ASSUME NEW S \in SUBSET (1..(n + 1)) PROVE (IF n + 1 \in S THEN step(S) ELSE f[S]) \in A
      <4>1. f[S \ {n + 1}] \in A
        BY <2>1, <2>3
      <4>2. n + 1 \notin S => S \in SUBSET (1..n)
        BY <2>2
      <4> QED
        BY <2>1, <2>2, <4>1, <4>2
    <3> QED
      BY <3>1
  <2>5. ASSUME NEW S \in SUBSET (1..(n + 1))
        PROVE  g[S] = IF S = {} THEN base ELSE G[<<g[S \ {Max(S)}], s[Max(S)]>>]
    <3>1. CASE n + 1 \in S
      <4>1. Max(S) = n + 1
        <5>1. n + 1 \in Nat /\ S \subseteq 1..(n + 1) /\ S # {}
          BY <2>2, <3>1
        <5>2. Max(S) \in S /\ n + 1 <= Max(S)
          BY <3>1, <5>1, MaxOfRange
        <5>3. Max(S) \in 1..(n + 1)
          BY <5>1, <5>2
        <5> QED
          BY <2>2, <5>2, <5>3
      <4>2. S \ {n + 1} \in SUBSET (1..(n + 1)) /\ g[S \ {n + 1}] = f[S \ {n + 1}]
        OBVIOUS
      <4> QED
        BY <3>1, <4>1, <4>2
    <3>2. CASE n + 1 \notin S
      <4>1. S \in SUBSET (1..n)
        BY <2>2, <3>2
      <4>2. /\ S \ {Max(S)} \in SUBSET (1..(n + 1)) /\ n + 1 \notin S \ {Max(S)}
            /\ g[S] = f[S] /\ g[S \ {Max(S)}] = f[S \ {Max(S)}]
        BY <3>2
      <4> QED
        BY <2>1, <4>1, <4>2
    <3> QED
      BY <3>1, <3>2
  <2>6. Solves(g, n + 1)
    BY <2>4, <2>5
  <2>7. n + 1 \in 0..m
    BY <2>2
  <2> HIDE DEF g, Solves
  <2> QED
    BY <2>6, <2>7
<1>3. \A n \in 0..m : n \in Solvable
  <2> HIDE DEF Solvable
  <2> QED
    BY <1>1, <1>2, CountingTo
<1>4. m \in Solvable
  <2> HIDE DEF Solvable
  <2> QED
    BY <1>3
<1>5. DOMAIN s = 1..m
  OBVIOUS
<1> QED
  BY <1>4, <1>5 DEF Folds

\* r unfolds the recursion on the prefixes of s, as long as it stays in A.
Unfolds(r, G, A, base, s) ==
    /\ r[0] = base
    /\ \A i \in DOMAIN s : r[i - 1] \in A => r[i] = G[<<r[i - 1], s[i]>>]

\* Then it does stay there, because the operator does.
LEMMA FoldStays ==
    ASSUME NEW A, NEW B, NEW base \in A, NEW G \in [A \X B -> A],
           NEW m \in Nat, NEW s \in [1..m -> B],
           NEW r, Unfolds(r, G, A, base, s)
    PROVE  \A i \in 0..m : r[i] \in A
<1> DEFINE S == {i \in 0..m : r[i] \in A}
<1>1. 0 \in S
  BY DEF Unfolds
<1>2. ASSUME NEW n \in 0..(m - 1), n \in S PROVE n + 1 \in S
  <2>1. n + 1 \in 1..m /\ (n + 1) - 1 = n /\ n + 1 \in 0..m
    OBVIOUS
  <2>2. r[n] \in A /\ s[n + 1] \in B
    BY <1>2, <2>1
  <2>3. r[n + 1] = G[<<r[n], s[n + 1]>>]
    BY <2>1, <2>2 DEF Unfolds
  <2> QED
    BY <2>1, <2>2, <2>3
<1> HIDE DEF S
<1>3. \A i \in 0..m : i \in S
  BY <1>1, <1>2, CountingTo
<1> QED
  BY <1>3 DEF S

\* FlattenSeq by its partial results.
LEMMA FlattenSteps ==
    ASSUME NEW seqs, IsSequence(seqs), seqs # <<>>
    PROVE  \E f : /\ f[1] = seqs[1]
                  /\ \A i \in 2..Len(seqs) : f[i] = f[i - 1] \o seqs[i]
                  /\ FlattenSeq(seqs) = f[Len(seqs)]
<1> DEFINE m == Len(seqs)
           Solves(f, n) == f = [i \in 1..n |-> IF i = 1 THEN seqs[i] ELSE f[i - 1] \o seqs[i]]
           Solvable == {n \in 0..m : \E f : Solves(f, n)}
<1>1. m \in Nat /\ m # 0
  BY EmptySeq DEF IsSequence
<1>2. 0 \in Solvable
  <2>1. Solves([i \in 1..0 |-> i], 0)
    OBVIOUS
  <2>2. \E f : Solves(f, 0)
    <3> HIDE DEF Solves
    <3> QED
      BY <2>1
  <2> HIDE DEF Solves, m
  <2> QED
    BY <1>1, <2>2
<1>3. ASSUME NEW n \in 0..(m - 1), n \in Solvable
      PROVE  n + 1 \in Solvable
  <2>1. PICK f : Solves(f, n)
    BY <1>3
  <2> DEFINE g == [i \in 1..(n + 1) |->
                     IF i # n + 1 THEN f[i] ELSE IF i = 1 THEN seqs[i] ELSE f[n] \o seqs[i]]
  <2>2. ASSUME NEW i \in 1..(n + 1)
        PROVE  g[i] = IF i = 1 THEN seqs[i] ELSE g[i - 1] \o seqs[i]
    <3>1. CASE i = n + 1
      BY <1>1, <3>1
    <3>2. CASE i # n + 1
      <4>1. i \in 1..n /\ (i # 1 => i - 1 \in 1..n)
        BY <1>1, <3>2
      <4>2. f[i] = IF i = 1 THEN seqs[i] ELSE f[i - 1] \o seqs[i]
        BY <2>1, <4>1
      <4> QED
        BY <1>1, <3>2, <4>1, <4>2
    <3> QED
      BY <3>1, <3>2
  <2>3. Solves(g, n + 1)
    BY <2>2
  <2> HIDE DEF g, Solves, m
  <2> QED
    BY <1>1, <2>3
<1>4. m \in Solvable
  <2> HIDE DEF Solvable, m
  <2>1. \A n \in 0..m : n \in Solvable
    BY <1>1, <1>2, <1>3, CountingTo
  <2> QED
    BY <1>1, <2>1
<1>5. \E f : Solves(f, m)
  BY <1>4
<1>6. FlattenSeq(seqs) = (CHOOSE f : Solves(f, m))[m]
  BY <1>1 DEF FlattenSeq
<1> DEFINE c == CHOOSE f : Solves(f, m)
<1>7. Solves(c, m)
  BY <1>5
<1> HIDE DEF c
<1>8. \A i \in 1..m : c[i] = IF i = 1 THEN seqs[i] ELSE c[i - 1] \o seqs[i]
  BY <1>7
<1>9. FlattenSeq(seqs) = c[m]
  BY <1>6 DEF c
<1> HIDE DEF m
<1>10. c[1] = seqs[1] /\ \A i \in 2..m : c[i] = c[i - 1] \o seqs[i]
  <2>1. 1 \in 1..m
    BY <1>1
  <2>2. \A i \in 2..m : i \in 1..m /\ i # 1
    BY <1>1
  <2> QED
    BY <1>8, <2>1, <2>2
<1> QED
  BY <1>9, <1>10 DEF m

\* What is true of all partial results is true of the result: it is a
\* sequence of the elements of the sequences joined.
LEMMA FlattenElements ==
    ASSUME NEW seqs, IsSequence(seqs), \A i \in DOMAIN seqs : IsSequence(seqs[i])
    PROVE  /\ IsSequence(FlattenSeq(seqs))
           /\ \A x : (\E k \in DOMAIN FlattenSeq(seqs) : FlattenSeq(seqs)[k] = x)
                        <=> \E i \in DOMAIN seqs : \E k \in DOMAIN seqs[i] : seqs[i][k] = x
<1> DEFINE m == Len(seqs)
<1>1. m \in Nat /\ DOMAIN seqs = 1..m
  BY SequenceShape
<1>2. CASE seqs = <<>>
  <2>1. FlattenSeq(seqs) = <<>> /\ DOMAIN seqs = {}
    BY <1>2, EmptyIsSequence DEF FlattenSeq
  <2> QED
    BY <1>2, <2>1, EmptyIsSequence
<1>3. CASE seqs # <<>>
  <2>1. PICK f : /\ f[1] = seqs[1]
                 /\ \A i \in 2..m : f[i] = f[i - 1] \o seqs[i]
                 /\ FlattenSeq(seqs) = f[m]
    BY <1>3, FlattenSteps
  <2>2. m # 0
    BY <1>3, EmptySeq DEF IsSequence
  <2> DEFINE Joined(n) ==
               /\ IsSequence(f[n])
               /\ \A x : (\E k \in DOMAIN f[n] : f[n][k] = x)
                            <=> \E i \in 1..n : \E k \in DOMAIN seqs[i] : seqs[i][k] = x
             S == {n \in 0..m : n = 0 \/ Joined(n)}
  <2> HIDE DEF m
  <2>3. 0 \in S
    BY <1>1
  <2>4. ASSUME NEW n \in 0..(m - 1), n \in S
        PROVE  n + 1 \in S
    <3>1. n + 1 \in 1..m /\ n \in Nat /\ IsSequence(seqs[n + 1])
      BY <1>1
    <3>2. CASE n = 0
      <4>1. Joined(1)
        BY <2>1, <3>1, <3>2
      <4> QED
        BY <3>1, <3>2, <4>1
    <3>3. CASE n # 0
      <4>1. f[n + 1] = f[n] \o seqs[n + 1] /\ Joined(n)
        <5>1. n + 1 \in 2..m /\ (n + 1) - 1 = n
          BY <1>1, <3>1, <3>3
        <5>2. f[n + 1] = f[n] \o seqs[n + 1]
          BY <2>1, <5>1
        <5> QED
          BY <2>4, <3>3, <5>2
      <4> DEFINE s == f[n]  t == seqs[n + 1]
      <4>2. /\ IsSequence(s \o t) /\ Len(s \o t) = Len(s) + Len(t)
            /\ \A i \in 1..Len(s) : (s \o t)[i] = s[i]
            /\ \A i \in 1..Len(t) : (s \o t)[Len(s) + i] = t[i]
        <5>1. IsSequence(s) /\ IsSequence(t)
          BY <3>1, <4>1
        <5> HIDE DEF s, t
        <5> QED
          BY <5>1, Concatenated
      <4>3. /\ Len(s) \in Nat /\ Len(t) \in Nat
            /\ DOMAIN s = 1..Len(s) /\ DOMAIN t = 1..Len(t) /\ DOMAIN (s \o t) = 1..(Len(s) + Len(t))
        BY <3>1, <4>1, <4>2, SequenceShape
      <4>4. ASSUME NEW x
            PROVE  (\E k \in DOMAIN (s \o t) : (s \o t)[k] = x)
                      <=> \/ \E k \in DOMAIN s : s[k] = x
                          \/ \E k \in DOMAIN t : t[k] = x
        <5> HIDE DEF s, t
        <5>1. ASSUME NEW k \in DOMAIN (s \o t), (s \o t)[k] = x
              PROVE  (\E j \in DOMAIN s : s[j] = x) \/ (\E j \in DOMAIN t : t[j] = x)
          <6>1. k \in 1..Len(s) \/ (k - Len(s) \in 1..Len(t) /\ k = Len(s) + (k - Len(s)))
            BY <4>3
          <6> QED
            BY <4>2, <4>3, <5>1, <6>1
        <5>2. ASSUME NEW k \in DOMAIN s, s[k] = x PROVE \E j \in DOMAIN (s \o t) : (s \o t)[j] = x
          BY <4>2, <4>3, <5>2
        <5>3. ASSUME NEW k \in DOMAIN t, t[k] = x PROVE \E j \in DOMAIN (s \o t) : (s \o t)[j] = x
          <6>1. Len(s) + k \in 1..(Len(s) + Len(t))
            BY <4>3
          <6> QED
            BY <4>2, <4>3, <5>3, <6>1
        <5> QED
          BY <5>1, <5>2, <5>3
      <4>5. \A i : i \in 1..(n + 1) <=> i \in 1..n \/ i = n + 1
        BY <3>1
      <4>6. Joined(n + 1)
        BY <4>1, <4>2, <4>4, <4>5
      <4> QED
        BY <3>1, <4>6
    <3> QED
      BY <3>2, <3>3
  <2>5. m \in S
    <3> HIDE DEF S
    <3> QED
      BY <1>1, <2>3, <2>4, CountingTo
  <2> QED
    BY <1>1, <2>1, <2>2, <2>5
<1> QED
  BY <1>2, <1>3

\* The parts of a subsequence.
LEMMA SubSequence ==
    ASSUME NEW s, IsSequence(s), NEW a \in Nat \ {0}, NEW b \in Nat, a <= b + 1, b <= Len(s)
    PROVE  /\ IsSequence(SubSeq(s, a, b)) /\ Len(SubSeq(s, a, b)) = b - a + 1
           /\ \A i \in 1..(b - a + 1) : SubSeq(s, a, b)[i] = s[a + i - 1]
<1> DEFINE E == {s[i] : i \in DOMAIN s}
<1>1. Len(s) \in Nat /\ s \in Seq(E)
  BY SequenceShape DEF IsSequence
<1> HIDE DEF E
<1>2. /\ SubSeq(s, a, b) \in Seq(E) /\ Len(SubSeq(s, a, b)) = b - a + 1
      /\ \A i \in 1..(b - a + 1) : SubSeq(s, a, b)[i] = s[a + i - 1]
  <2>1. a = b + 1 \/ (a <= b /\ a \in 1..Len(s) /\ b \in 1..Len(s))
    BY <1>1
  <2> QED
    BY <1>1, <2>1
<1> QED
  BY <1>2, MemberIsSequence

\* The parts of a sequence of elements of S without its last.
LEMMA FrontAndLast ==
    ASSUME NEW S, NEW s \in Seq(S), s # <<>>
    PROVE  /\ Front(s) \in Seq(S) /\ Len(Front(s)) = Len(s) - 1 /\ Last(s) \in S /\ Last(s) = s[Len(s)]
           /\ Len(s) \in Nat \ {0}
           /\ \A i \in 1..(Len(s) - 1) : Front(s)[i] = s[i]
<1> DEFINE n == Len(s)
<1>1. n \in Nat \ {0}
  BY EmptySeq
<1>2. n - 1 = 0 \/ n - 1 \in 1..n
  <2> HIDE DEF n
  <2> QED
    BY <1>1
<1> QED
  BY <1>1, <1>2 DEF Front, Last

\* A sequence of elements of S.
LEMMA SequenceIn ==
    ASSUME NEW S, NEW s, IsSequence(s), \A i \in 1..Len(s) : s[i] \in S
    PROVE  s \in Seq(S)
<1>1. Len(s) \in Nat /\ s = [i \in 1..Len(s) |-> s[i]]
  BY DEF IsSequence
<1> QED
  BY <1>1

\* A sequence is its last element appended to the rest.
LEMMA FrontParts ==
    ASSUME NEW s, IsSequence(s), Len(s) # 0
    PROVE  /\ IsSequence(Front(s)) /\ Len(Front(s)) = Len(s) - 1 /\ Last(s) = s[Len(s)]
           /\ \A i \in 1..(Len(s) - 1) : Front(s)[i] = s[i]
           /\ s = Append(Front(s), Last(s))
<1> DEFINE E == {s[i] : i \in DOMAIN s}
<1>1. s \in Seq(E) /\ s # <<>>
  BY EmptyIsSequence DEF IsSequence
<1> HIDE DEF E
<1>2. /\ Front(s) \in Seq(E) /\ Len(Front(s)) = Len(s) - 1 /\ Last(s) \in E /\ Last(s) = s[Len(s)]
      /\ Len(s) \in Nat \ {0} /\ \A i \in 1..(Len(s) - 1) : Front(s)[i] = s[i]
  BY <1>1, FrontAndLast
<1>3. s = Append(Front(s), Last(s))
  <2> DEFINE f == Front(s)  x == Last(s)  n == Len(s)
  <2>1. f \in Seq(E) /\ Len(f) = n - 1 /\ x \in E /\ x = s[n] /\ n \in Nat \ {0}
        /\ \A i \in 1..(n - 1) : f[i] = s[i]
    BY <1>2
  <2> HIDE DEF f, x
  <2>2. Append(f, x) \in Seq(E) /\ Len(Append(f, x)) = n
    BY <2>1
  <2>3. \A i \in 1..n : Append(f, x)[i] = s[i]
    BY <2>1
  <2> QED
    BY <1>1, <2>2, <2>3 DEF f, x
<1> QED
  BY <1>2, <1>3, MemberIsSequence

\* To append an element is to concatenate it.
LEMMA AppendJoins ==
    ASSUME NEW s, NEW x, IsSequence(s)
    PROVE  Append(s, x) = s \o <<x>>
<1>1. s \in Seq({s[i] : i \in DOMAIN s} \cup {x}) /\ x \in {s[i] : i \in DOMAIN s} \cup {x}
  BY DEF IsSequence
<1> DEFINE E == {s[i] : i \in DOMAIN s} \cup {x}
<1> HIDE DEF E
<1>2. s \in Seq(E) /\ x \in E
  BY <1>1 DEF E
<1> QED
  BY <1>2

----------------------------------------------------------------------------
(* Lists of numbers.                                                       *)

\* c lists the n members of G in increasing order.
Lists(c, n, G) ==
    /\ n \in Nat /\ c \in [1..n -> G]
    /\ \A i, j \in 1..n : i < j => c[i] < c[j]
    /\ \A g \in G : \E i \in 1..n : c[i] = g

\* The k-th of the n numbers listed has k numbers up to it.
Ranks(c, n, G) ==
    /\ Cardinality(G) = n
    /\ \A k \in 1..n : Cardinality({m \in G : m <= c[k]}) = k

\* Numbers listed in order have their places as ranks.
LEMMA RankOf ==
    ASSUME NEW c, NEW n, NEW G, G \subseteq Nat, Lists(c, n, G)
    PROVE  Ranks(c, n, G)
<1> DEFINE Up(k) == {c[i] : i \in 1..k}
           S == {k \in 0..n : IsFiniteSet(Up(k)) /\ Cardinality(Up(k)) = k}
<1>1. /\ n \in Nat /\ \A i \in 1..n : c[i] \in G /\ c[i] \in Nat
      /\ \A i, j \in 1..n : i < j => c[i] < c[j]
      /\ \A g \in G : \E i \in 1..n : c[i] = g
  BY DEF Lists
<1>2. 0 \in S
  <2>1. Up(0) = {} /\ 0 \in 0..n
    BY <1>1
  <2> HIDE DEF Up
  <2> QED
    BY <2>1, FS_EmptySet
<1>3. ASSUME NEW k \in 0..(n - 1), k \in S PROVE k + 1 \in S
  <2>1. k + 1 \in 1..n /\ k + 1 \in 0..n /\ k \in Nat
    BY <1>1
  <2>2. Up(k + 1) = Up(k) \cup {c[k + 1]}
    <3>1. \A i : i \in 1..(k + 1) <=> i \in 1..k \/ i = k + 1
      BY <2>1
    <3> QED
      BY <3>1
  <2>3. c[k + 1] \notin Up(k)
    <3>1. \A i \in 1..k : i \in 1..n /\ i < k + 1
      BY <1>1, <2>1
    <3>2. \A i \in 1..k : c[i] < c[k + 1] /\ c[i] \in Nat
      BY <1>1, <2>1, <3>1
    <3>3. \A i \in 1..k : c[i] # c[k + 1]
      BY <3>2
    <3> QED
      BY <3>3
  <2>4. IsFiniteSet(Up(k)) /\ Cardinality(Up(k)) = k
    BY <1>3
  <2> HIDE DEF Up
  <2>5. IsFiniteSet(Up(k + 1)) /\ Cardinality(Up(k + 1)) = k + 1
    BY <2>2, <2>3, <2>4, FS_AddElement
  <2> QED
    BY <2>1, <2>5
<1>4. \A k \in 0..n : k \in S
  <2> HIDE DEF S
  <2> QED
    BY <1>1, <1>2, <1>3, CountingTo
<1>5. Up(n) = G
  BY <1>1
<1>6. ASSUME NEW k \in 1..n PROVE {m \in G : m <= c[k]} = Up(k)
  <2>1. ASSUME NEW i \in 1..n PROVE c[i] <= c[k] <=> i <= k
    <3>1. i < k \/ i = k \/ k < i
      BY <1>1
    <3>2. i < k => c[i] < c[k]
      BY <1>1
    <3>3. k < i => c[k] < c[i]
      BY <1>1
    <3>4. c[i] \in Nat /\ c[k] \in Nat /\ i \in Nat /\ k \in Nat
      BY <1>1
    <3> QED
      BY <3>1, <3>2, <3>3, <3>4
  <2>2. \A i : i \in 1..k <=> i \in 1..n /\ i <= k
    BY <1>1
  <2> QED
    BY <1>1, <2>1, <2>2
<1>7. \A k \in 1..n : k \in 0..n
  BY <1>1
<1> HIDE DEF Up
<1>8. \A k \in 0..n : Cardinality(Up(k)) = k
  BY <1>4
<1>9. n \in 0..n
  BY <1>1
<1> QED
  BY <1>5, <1>6, <1>7, <1>8, <1>9 DEF Ranks

----------------------------------------------------------------------------
(* Intervals that tile a range.                                            *)

Intervals == Nat \X Nat

\* Neighbouring intervals from lo to hi, none of them empty.
Tiles(p, lo, hi) ==
    /\ IsSequence(p)
    /\ \A i \in 1..Len(p) :
          /\ p[i] \in Intervals /\ p[i][1] <= p[i][2]
          /\ p[i][1] = IF i = 1 THEN lo ELSE p[i - 1][2] + 1
    /\ IF Len(p) = 0 THEN lo = hi + 1 ELSE p[Len(p)][2] = hi

\* The ends of an interval.
LEMMA IntervalParts ==
    ASSUME NEW x \in Intervals
    PROVE  x[1] \in Nat /\ x[2] \in Nat /\ x = <<x[1], x[2]>>
BY DEF Intervals

\* The interval with given ends.
LEMMA IntervalMade ==
    ASSUME NEW a \in Nat, NEW b \in Nat
    PROVE  <<a, b>> \in Intervals /\ <<a, b>>[1] = a /\ <<a, b>>[2] = b
BY DEF Intervals

\* No tiles tile nothing.
LEMMA TilesNone ==
    ASSUME NEW lo \in Nat, NEW hi \in Nat, lo = hi + 1
    PROVE  Tiles(<<>>, lo, hi)
BY EmptyIsSequence DEF Tiles

\* One interval tiles itself.
LEMMA TilesOne ==
    ASSUME NEW lo \in Nat, NEW hi \in Nat, lo <= hi
    PROVE  Tiles(<<<<lo, hi>>>>, lo, hi)
<1> DEFINE x == <<lo, hi>>
<1>1. x \in Intervals /\ x[1] = lo /\ x[2] = hi
  BY IntervalMade
<1> HIDE DEF x
<1>2. IsSequence(<<x>>) /\ Len(<<x>>) = 1 /\ <<x>>[1] = x
  <2>1. <<x>> \in Seq(Intervals)
    BY <1>1
  <2> QED
    BY <2>1, MemberIsSequence
<1>3. Tiles(<<x>>, lo, hi)
  BY <1>1, <1>2 DEF Tiles
<1> QED
  BY <1>3 DEF x

\* Tiles of neighbouring ranges tile both.
LEMMA TilesJoin ==
    ASSUME NEW p, NEW q, NEW lo \in Nat, NEW mid \in Nat, NEW hi \in Nat,
           Tiles(p, lo, mid), Tiles(q, mid + 1, hi)
    PROVE  Tiles(p \o q, lo, hi)
<1> DEFINE m == Len(p)  n == Len(q)  w == p \o q
<1>1. /\ m \in Nat
      /\ \A i \in 1..m :
            /\ p[i] \in Intervals /\ p[i][1] <= p[i][2]
            /\ p[i][1] = IF i = 1 THEN lo ELSE p[i - 1][2] + 1
      /\ IF m = 0 THEN lo = mid + 1 ELSE p[m][2] = mid
  BY SequenceShape DEF Tiles
<1>2. /\ n \in Nat
      /\ \A i \in 1..n :
            /\ q[i] \in Intervals /\ q[i][1] <= q[i][2]
            /\ q[i][1] = IF i = 1 THEN mid + 1 ELSE q[i - 1][2] + 1
      /\ IF n = 0 THEN mid + 1 = hi + 1 ELSE q[n][2] = hi
  BY SequenceShape DEF Tiles
<1>3. /\ IsSequence(w) /\ Len(w) = m + n
      /\ \A i \in 1..m : w[i] = p[i]
      /\ \A i \in 1..n : w[m + i] = q[i]
  BY Concatenated DEF Tiles
<1> HIDE DEF m, n, w
<1>4. ASSUME NEW i \in 1..(m + n)
      PROVE  /\ w[i] \in Intervals /\ w[i][1] <= w[i][2]
             /\ w[i][1] = IF i = 1 THEN lo ELSE w[i - 1][2] + 1
  <2>1. CASE i \in 1..m
    <3>1. i # 1 => i - 1 \in 1..m
      BY <1>1, <2>1
    <3> QED
      BY <1>1, <1>3, <2>1, <3>1
  <2>2. CASE i \notin 1..m
    <3>1. i - m \in 1..n /\ m + (i - m) = i
      BY <1>1, <1>2, <2>2
    <3>2. w[i] = q[i - m]
      BY <1>3, <3>1
    <3>3. CASE i - m = 1
      <4>1. q[1][1] = mid + 1
        BY <1>2, <3>1, <3>3
      <4>2. CASE m = 0
        BY <1>1, <1>2, <3>1, <3>2, <3>3, <4>1, <4>2
      <4>3. CASE m # 0
        <5>1. i # 1 /\ i - 1 = m /\ m \in 1..m
          BY <1>1, <3>1, <3>3, <4>3
        <5>2. w[i - 1] = p[m] /\ p[m][2] = mid
          BY <1>1, <1>3, <4>3, <5>1
        <5> QED
          BY <1>2, <3>1, <3>2, <3>3, <4>1, <5>1, <5>2
      <4> QED
        BY <4>2, <4>3
    <3>4. CASE i - m # 1
      <4>1. i # 1 /\ (i - m) - 1 \in 1..n /\ m + ((i - m) - 1) = i - 1
        BY <1>1, <1>2, <3>1, <3>4
      <4>2. w[i - 1] = q[(i - m) - 1]
        BY <1>3, <4>1
      <4> QED
        BY <1>2, <3>1, <3>2, <3>4, <4>1, <4>2
    <3> QED
      BY <3>3, <3>4
  <2> QED
    BY <2>1, <2>2
<1>5. IF Len(w) = 0 THEN lo = hi + 1 ELSE w[Len(w)][2] = hi
  <2>1. CASE n = 0
    <3>1. hi = mid /\ Len(w) = m
      BY <1>1, <1>2, <1>3, <2>1
    <3>2. m # 0 => m \in 1..m
      BY <1>1
    <3> QED
      BY <1>1, <1>3, <3>1, <3>2
  <2>2. CASE n # 0
    <3>1. n \in 1..n /\ m + n # 0
      BY <1>1, <1>2, <2>2
    <3> QED
      BY <1>2, <1>3, <2>2, <3>1
  <2> QED
    BY <2>1, <2>2
<1> QED
  BY <1>3, <1>4, <1>5 DEF Tiles, w

\* One more tile after those there are.
LEMMA TilesAppend ==
    ASSUME NEW p, NEW lo \in Nat, NEW mid \in Nat, NEW hi \in Nat,
           Tiles(p, lo, mid), mid < hi
    PROVE  Tiles(Append(p, <<mid + 1, hi>>), lo, hi)
<1>1. Tiles(<<<<mid + 1, hi>>>>, mid + 1, hi)
  <2>1. mid + 1 \in Nat /\ mid + 1 <= hi
    OBVIOUS
  <2> QED
    BY <2>1, TilesOne
<1>2. Append(p, <<mid + 1, hi>>) = p \o <<<<mid + 1, hi>>>>
  BY AppendJoins DEF Tiles
<1> QED
  BY <1>1, <1>2, TilesJoin

\* Without the last tile, the range before it is tiled.
LEMMA TilesFront ==
    ASSUME NEW p, NEW lo \in Nat \ {0}, NEW hi \in Nat, Tiles(p, lo, hi), Len(p) # 0
    PROVE  /\ Tiles(Front(p), lo, Last(p)[1] - 1)
           /\ Last(p) \in Intervals /\ Last(p)[1] \in Nat \ {0} /\ Last(p)[1] <= hi /\ Last(p)[2] = hi
<1> DEFINE n == Len(p)  f == Front(p)
<1>1. /\ n \in Nat \ {0} /\ Last(p) = p[n] /\ IsSequence(f) /\ Len(f) = n - 1
      /\ \A i \in 1..(n - 1) : f[i] = p[i]
  BY FrontParts, SequenceShape DEF Tiles
<1>2. /\ \A i \in 1..n :
            /\ p[i] \in Intervals /\ p[i][1] <= p[i][2]
            /\ p[i][1] = IF i = 1 THEN lo ELSE p[i - 1][2] + 1
      /\ p[n][2] = hi
  BY DEF Tiles
<1> HIDE DEF n, f
<1>3. n \in 1..n /\ (n # 1 => n - 1 \in 1..n)
  BY <1>1
<1>4. p[n] \in Intervals /\ p[n][1] \in Nat \ {0} /\ p[n][1] <= hi
  <2>1. n # 1 => p[n - 1][2] \in Nat
    BY <1>2, <1>3, IntervalParts
  <2> QED
    BY <1>2, <1>3, <2>1, IntervalParts
<1>5. ASSUME NEW i \in 1..(n - 1)
      PROVE  /\ f[i] \in Intervals /\ f[i][1] <= f[i][2]
             /\ f[i][1] = IF i = 1 THEN lo ELSE f[i - 1][2] + 1
  <2>1. i \in 1..n /\ (i # 1 => i - 1 \in 1..(n - 1))
    BY <1>1
  <2> QED
    BY <1>1, <1>2, <2>1
<1>6. IF n - 1 = 0 THEN lo = (p[n][1] - 1) + 1 ELSE f[n - 1][2] = p[n][1] - 1
  <2>1. CASE n = 1
    BY <1>2, <1>3, <2>1
  <2>2. CASE n # 1
    <3>1. p[n][1] = p[n - 1][2] + 1 /\ p[n - 1][2] \in Nat /\ n - 1 # 0 /\ n - 1 \in 1..(n - 1)
      BY <1>1, <1>2, <1>3, <2>2, IntervalParts
    <3> QED
      BY <1>1, <3>1
  <2> QED
    BY <2>1, <2>2
<1> QED
  BY <1>1, <1>2, <1>4, <1>5, <1>6 DEF Tiles, n, f

\* The last tile can be made longer.
LEMMA TilesExtend ==
    ASSUME NEW p, NEW lo \in Nat \ {0}, NEW mid \in Nat, NEW hi \in Nat, Tiles(p, lo, mid), Len(p) # 0,
           mid < hi
    PROVE  Tiles(Append(Front(p), <<Last(p)[1], hi>>), lo, hi)
<1> DEFINE a == Last(p)[1]  b == a - 1
<1>1. Tiles(Front(p), lo, b) /\ a \in Nat \ {0} /\ a <= mid
  BY TilesFront
<1>2. b \in Nat /\ b < hi /\ b + 1 = a
  BY <1>1
<1> HIDE DEF a, b
<1>3. Tiles(Append(Front(p), <<b + 1, hi>>), lo, hi)
  BY <1>1, <1>2, TilesAppend
<1> QED
  BY <1>2, <1>3 DEF a

\* Every tile is within the range.
LEMMA TilesWithin ==
    ASSUME NEW p, NEW lo \in Nat, NEW hi \in Nat, Tiles(p, lo, hi)
    PROVE  \A i \in 1..Len(p) : lo <= p[i][1] /\ p[i][1] <= p[i][2] /\ p[i][2] <= hi
<1> DEFINE n == Len(p)
<1>1. /\ n \in Nat
      /\ \A i \in 1..n :
            /\ p[i][1] \in Nat /\ p[i][2] \in Nat /\ p[i][1] <= p[i][2]
            /\ p[i][1] = IF i = 1 THEN lo ELSE p[i - 1][2] + 1
      /\ n # 0 => p[n][2] = hi
  <2>1. \A i \in 1..n : p[i] \in Intervals
    BY DEF Tiles
  <2> QED
    BY <2>1, SequenceShape, IntervalParts DEF Tiles
<1> HIDE DEF n
<1>2. \A i \in 1..n : lo <= p[i][1]
  <2> DEFINE S == {i \in 0..n : i = 0 \/ lo <= p[i][1]}
  <2>1. 0 \in S
    BY <1>1
  <2>2. ASSUME NEW i \in 0..(n - 1), i \in S PROVE i + 1 \in S
    <3>1. i + 1 \in 1..n /\ (i + 1) - 1 = i /\ (i # 0 => i \in 1..n) /\ i + 1 \in 0..n
      BY <1>1
    <3>2. CASE i = 0
      BY <1>1, <3>1, <3>2
    <3>3. CASE i # 0
      <4>1. /\ p[i + 1][1] = p[i][2] + 1 /\ p[i][1] <= p[i][2] /\ lo <= p[i][1]
            /\ p[i][1] \in Nat /\ p[i][2] \in Nat
        BY <1>1, <2>2, <3>1, <3>3
      <4> QED
        BY <3>1, <4>1
    <3> QED
      BY <3>2, <3>3
  <2>3. \A i \in 0..n : i \in S
    <3> HIDE DEF S
    <3> QED
      BY <1>1, <2>1, <2>2, CountingTo
  <2> QED
    BY <1>1, <2>3
<1>3. \A i \in 1..n : p[i][2] <= hi
  <2> DEFINE S == {i \in 0..n : i = n \/ p[n - i][2] <= hi}
  <2>1. 0 \in S
    BY <1>1
  <2>2. ASSUME NEW i \in 0..(n - 1), i \in S PROVE i + 1 \in S
    <3> SUFFICES ASSUME i + 1 # n PROVE p[n - (i + 1)][2] <= hi
      BY <1>1
    <3> DEFINE j == n - i
    <3>1. j \in 1..n /\ j - 1 \in 1..n /\ n - (i + 1) = j - 1 /\ j # 1
      BY <1>1
    <3>2. p[j][2] <= hi
      BY <1>1, <2>2
    <3> HIDE DEF j
    <3>3. /\ p[j][1] = p[j - 1][2] + 1 /\ p[j][1] <= p[j][2]
          /\ p[j][1] \in Nat /\ p[j][2] \in Nat /\ p[j - 1][2] \in Nat
      BY <1>1, <3>1
    <3> QED
      BY <3>1, <3>2, <3>3
  <2>3. \A i \in 0..n : i \in S
    <3> HIDE DEF S
    <3> QED
      BY <1>1, <2>1, <2>2, CountingTo
  <2>4. ASSUME NEW i \in 1..n PROVE p[i][2] <= hi
    <3>1. n - i \in 0..n /\ n - (n - i) = i /\ n - i # n
      BY <1>1
    <3>2. n - i \in S
      BY <2>3, <3>1
    <3> QED
      BY <3>1, <3>2
  <2> QED
    BY <2>4
<1> QED
  BY <1>1, <1>2, <1>3 DEF n

\* Every place in the range is in a tile.
LEMMA TilesCover ==
    ASSUME NEW p, NEW lo \in Nat, NEW hi \in Nat, Tiles(p, lo, hi), NEW x \in lo..hi
    PROVE  \E i \in 1..Len(p) : p[i][1] <= x /\ x <= p[i][2]
<1> DEFINE n == Len(p)
           T == {i \in 1..n : x <= p[i][2]}
<1>1. /\ n \in Nat
      /\ \A i \in 1..n :
            /\ p[i][1] \in Nat /\ p[i][2] \in Nat /\ p[i][1] <= p[i][2]
            /\ p[i][1] = IF i = 1 THEN lo ELSE p[i - 1][2] + 1
      /\ IF n = 0 THEN lo = hi + 1 ELSE p[n][2] = hi
  <2>1. \A i \in 1..n : p[i] \in Intervals
    BY DEF Tiles
  <2> QED
    BY <2>1, SequenceShape, IntervalParts DEF Tiles
<1> HIDE DEF n
<1>2. n \in T
  BY <1>1
<1>3. PICK i \in T : \A j \in T : i <= j
  <2>1. T \subseteq Nat /\ T # {}
    BY <1>1, <1>2
  <2> HIDE DEF T
  <2> QED
    BY <2>1, LeastNumber
<1>4. p[i][1] <= x
  <2>1. CASE i = 1
    BY <1>1, <1>3, <2>1
  <2>2. CASE i # 1
    <3>1. i - 1 \in 1..n /\ i - 1 \notin T
      BY <1>1, <1>3, <2>2
    <3>2. p[i - 1][2] < x /\ p[i][1] = p[i - 1][2] + 1 /\ p[i - 1][2] \in Nat
      BY <1>1, <1>3, <2>2, <3>1
    <3> QED
      BY <3>2
  <2> QED
    BY <2>1, <2>2
<1> QED
  BY <1>3, <1>4 DEF n

\* Tiles of neighbouring ranges, any number of them, tile all.
LEMMA TilesFlatten ==
    ASSUME NEW seqs, IsSequence(seqs), NEW e \in [0..Len(seqs) -> Nat],
           \A i \in 1..Len(seqs) : Tiles(seqs[i], e[i - 1] + 1, e[i])
    PROVE  Tiles(FlattenSeq(seqs), e[0] + 1, e[Len(seqs)])
<1> DEFINE m == Len(seqs)
<1>1. m \in Nat /\ DOMAIN seqs = 1..m /\ \A i \in 0..m : e[i] \in Nat
  BY SequenceShape
<1>2. CASE m = 0
  <2>1. FlattenSeq(seqs) = seqs /\ e[0] \in Nat
    BY <1>1, <1>2 DEF FlattenSeq
  <2>2. IsSequence(seqs) /\ Len(seqs) = 0
    BY <1>2
  <2> QED
    BY <2>1, <2>2, <1>1, <1>2 DEF Tiles
<1>3. CASE m # 0
  <2>1. PICK f : /\ f[1] = seqs[1]
                 /\ \A i \in 2..m : f[i] = f[i - 1] \o seqs[i]
                 /\ FlattenSeq(seqs) = f[m]
    <3>1. seqs # <<>>
      BY <1>3, EmptyIsSequence
    <3> QED
      BY <3>1, FlattenSteps
  <2> DEFINE S == {n \in 0..m : n = 0 \/ Tiles(f[n], e[0] + 1, e[n])}
  <2> HIDE DEF m
  <2>2. 0 \in S
    BY <1>1
  <2>3. ASSUME NEW n \in 0..(m - 1), n \in S PROVE n + 1 \in S
    <3>1. n + 1 \in 1..m /\ (n + 1) - 1 = n /\ n + 1 \in 0..m /\ n \in 0..m
      BY <1>1
    <3>2. Tiles(seqs[n + 1], e[n] + 1, e[n + 1])
      BY <3>1 DEF m
    <3>3. CASE n = 0
      <4>1. Tiles(f[1], e[0] + 1, e[1])
        BY <2>1, <3>2, <3>3
      <4> QED
        BY <3>1, <3>3, <4>1
    <3>4. CASE n # 0
      <4>1. f[n + 1] = f[n] \o seqs[n + 1]
        <5>1. n + 1 \in 2..m
          BY <3>1, <3>4
        <5> QED
          BY <2>1, <3>1, <5>1
      <4>2. Tiles(f[n], e[0] + 1, e[n])
        BY <2>3, <3>4
      <4>3. e[0] + 1 \in Nat /\ e[n] \in Nat /\ e[n + 1] \in Nat
        BY <1>1, <3>1
      <4>4. Tiles(f[n] \o seqs[n + 1], e[0] + 1, e[n + 1])
        BY <3>2, <4>2, <4>3, TilesJoin
      <4> QED
        BY <3>1, <4>1, <4>4
    <3> QED
      BY <3>3, <3>4
  <2>4. m \in S
    <3> HIDE DEF S
    <3>1. \A n \in 0..m : n \in S
      BY <1>1, <2>2, <2>3, CountingTo
    <3> QED
      BY <1>1, <3>1
  <2>5. Tiles(f[m], e[0] + 1, e[m])
    BY <1>3, <2>4
  <2> QED
    BY <2>1, <2>5 DEF m
<1> QED
  BY <1>2, <1>3

\* Tiles that are moved tile the range moved.
LEMMA TilesShift ==
    ASSUME NEW p, NEW h \in Nat, NEW d \in Nat, Tiles(p, 1, h)
    PROVE  Tiles([i \in 1..Len(p) |-> <<d + p[i][1], d + p[i][2]>>], d + 1, d + h)
<1> DEFINE m == Len(p)
           q == [i \in 1..m |-> <<d + p[i][1], d + p[i][2]>>]
<1>1. /\ IsSequence(p) /\ m \in Nat
      /\ \A i \in 1..m : /\ p[i] \in Intervals /\ p[i][1] <= p[i][2]
                         /\ p[i][1] = IF i = 1 THEN 1 ELSE p[i - 1][2] + 1
      /\ IF m = 0 THEN 1 = h + 1 ELSE p[m][2] = h
  BY SequenceShape DEF Tiles
<1>2. \A i \in 1..m : q[i] = <<d + p[i][1], d + p[i][2]>> /\ p[i][1] \in Nat /\ p[i][2] \in Nat
  BY <1>1, IntervalParts
<1>3. DOMAIN q = 1..m /\ q = [i \in 1..m |-> q[i]]
  OBVIOUS
<1> HIDE DEF m, q
<1>4. IsSequence(q) /\ Len(q) = m
  BY <1>1, <1>3, FunctionIsSequence
<1>5. ASSUME NEW i \in 1..m
      PROVE  /\ q[i] \in Intervals /\ q[i][1] <= q[i][2]
             /\ q[i][1] = IF i = 1 THEN d + 1 ELSE q[i - 1][2] + 1
  <2>1. q[i] = <<d + p[i][1], d + p[i][2]>> /\ p[i][1] \in Nat /\ p[i][2] \in Nat /\ p[i][1] <= p[i][2]
        /\ p[i][1] = IF i = 1 THEN 1 ELSE p[i - 1][2] + 1
    BY <1>1, <1>2
  <2>2. q[i] \in Intervals /\ q[i][1] = d + p[i][1] /\ q[i][2] = d + p[i][2]
    BY <2>1, IntervalMade
  <2>3. CASE i = 1
    BY <2>1, <2>2, <2>3
  <2>4. CASE i # 1
    <3>1. i - 1 \in 1..m
      BY <1>1, <2>4
    <3>2. q[i - 1][2] = d + p[i - 1][2] /\ p[i - 1][2] \in Nat
      BY <1>2, <3>1
    <3>3. p[i][1] = p[i - 1][2] + 1
      BY <2>1, <2>4
    <3> QED
      BY <2>1, <2>2, <2>4, <3>2, <3>3
  <2> QED
    BY <2>3, <2>4
<1>6. IF m = 0 THEN d + 1 = (d + h) + 1 ELSE q[m][2] = d + h
  <2>1. CASE m = 0
    BY <1>1, <2>1
  <2>2. CASE m # 0
    <3>1. m \in 1..m
      BY <1>1, <2>2
    <3> QED
      BY <1>1, <1>2, <2>2, <3>1
  <2> QED
    BY <2>1, <2>2
<1>7. Tiles(q, d + 1, d + h)
  BY <1>4, <1>5, <1>6 DEF Tiles
<1> QED
  BY <1>7 DEF q, m

----------------------------------------------------------------------------
(* Folds over sets.                                                        *)

\* The recursion of MapThenFoldSet over the subsets of D, with an operator,
\* the values of the elements and the choice of an element as functions.
SetFolds(f, G, base, F, choice, D) ==
    \A s \in SUBSET D :
        f[s] = IF s = {} THEN base ELSE G[<<f[s \ {choice[s]}], F[choice[s]]>>]

\* Choice takes an element of every subset of D that has one.
Chooses(choice, D) == \A s \in SUBSET D : s # {} => choice[s] \in s

\* One element less.
LEMMA OneLess ==
    ASSUME NEW D, IsFiniteSet(D), NEW s \in SUBSET D, NEW x \in s
    PROVE  /\ s \ {x} \in SUBSET D /\ IsFiniteSet(s)
           /\ Cardinality(s) \in Nat \ {0} /\ Cardinality(s \ {x}) = Cardinality(s) - 1
<1>1. IsFiniteSet(s)
  BY FS_Subset
<1>2. Cardinality(s) \in Nat /\ s # {}
  BY <1>1, FS_CardinalityType
<1>3. Cardinality(s) # 0
  BY <1>1, <1>2, FS_EmptySet
<1>4. Cardinality(s \ {x}) = Cardinality(s) - 1
  BY <1>1, FS_RemoveElement
<1> QED
  BY <1>1, <1>2, <1>3, <1>4

\* The recursion has a solution when the operator stays in A.
LEMMA SetFoldExists ==
    ASSUME NEW A, NEW B, NEW base \in A, NEW G \in [A \X B -> A],
           NEW D, IsFiniteSet(D), NEW F \in [D -> B], NEW choice, Chooses(choice, D)
    PROVE  \E f \in [SUBSET D -> A] : SetFolds(f, G, base, F, choice, D)
<1> DEFINE Small(n) == {s \in SUBSET D : Cardinality(s) <= n}
           Solves(f, n) ==
             /\ f \in [Small(n) -> A]
             /\ \A s \in Small(n) :
                   f[s] = IF s = {} THEN base ELSE G[<<f[s \ {choice[s]}], F[choice[s]]>>]
           size == Cardinality(D)
           Solvable == {n \in 0..size : \E f : Solves(f, n)}
<1>1. size \in Nat
  BY FS_CardinalityType
<1>2. \A s \in SUBSET D : IsFiniteSet(s) /\ Cardinality(s) \in Nat /\ Cardinality(s) <= size
  BY FS_Subset, FS_CardinalityType
<1>3. 0 \in Solvable
  <2>1. \A s \in Small(0) : s = {}
    <3>1. ASSUME NEW s \in Small(0) PROVE s = {}
      <4>1. IsFiniteSet(s) /\ Cardinality(s) = 0
        BY <1>2
      <4> QED
        BY <4>1, FS_EmptySet
    <3> QED
      BY <3>1
  <2>2. Solves([s \in Small(0) |-> base], 0)
    BY <2>1
  <2>3. \E f : Solves(f, 0)
    <3> HIDE DEF Solves
    <3> QED
      BY <2>2
  <2> HIDE DEF Solves, size
  <2> QED
    BY <1>1, <2>3
<1>4. ASSUME NEW n \in 0..(size - 1), n \in Solvable PROVE n + 1 \in Solvable
  <2>1. PICK f : Solves(f, n)
    BY <1>4
  <2> DEFINE step(s) == IF s = {} THEN base ELSE G[<<f[s \ {choice[s]}], F[choice[s]]>>]
             g == [s \in Small(n + 1) |-> step(s)]
  <2>2. n \in Nat
    BY <1>1
  <2>3. ASSUME NEW s \in Small(n + 1), s # {}
        PROVE  s \ {choice[s]} \in Small(n) /\ choice[s] \in D
    <3>1. choice[s] \in s
      BY <2>3 DEF Chooses
    <3>2. s \ {choice[s]} \in SUBSET D /\ Cardinality(s) \in Nat
          /\ Cardinality(s \ {choice[s]}) = Cardinality(s) - 1
      BY <3>1, OneLess
    <3>3. Cardinality(s) <= n + 1
      OBVIOUS
    <3>4. Cardinality(s \ {choice[s]}) <= n
      BY <2>2, <3>2, <3>3
    <3> QED
      BY <3>1, <3>2, <3>4
  <2>4. \A s \in Small(n) : f[s] = step(s) /\ f[s] \in A
    BY <2>1
  <2>5. \A s \in Small(n) : s \in Small(n + 1)
    BY <1>2, <2>2
  <2>6. g \in [Small(n + 1) -> A]
    <3>1. ASSUME NEW s \in Small(n + 1) PROVE step(s) \in A
      <4>1. CASE s = {}
        BY <4>1
      <4>2. CASE s # {}
        <5>1. <<f[s \ {choice[s]}], F[choice[s]]>> \in A \X B
          <6>1. f[s \ {choice[s]}] \in A /\ F[choice[s]] \in B
            <7> HIDE DEF Small
            <7> QED
              BY <2>3, <2>4, <4>2
          <6> QED
            BY <6>1
        <5> QED
          BY <4>2, <5>1
      <4> QED
        BY <4>1, <4>2
    <3> HIDE DEF Small, step
    <3> QED
      BY <3>1
  <2>7. ASSUME NEW s \in Small(n + 1)
        PROVE  g[s] = IF s = {} THEN base ELSE G[<<g[s \ {choice[s]}], F[choice[s]]>>]
    <3>1. CASE s = {}
      BY <3>1
    <3>2. CASE s # {}
      <4> DEFINE t == s \ {choice[s]}
      <4>1. t \in Small(n)
        BY <2>3, <3>2
      <4>2. t \in Small(n + 1) /\ f[t] = step(t)
        <5> HIDE DEF Small, t, step
        <5> QED
          BY <2>4, <2>5, <4>1
      <4>3. g[t] = f[t]
        <5> HIDE DEF Small, t, step
        <5> QED
          BY <4>2
      <4>4. g[s] = G[<<f[t], F[choice[s]]>>]
        <5> HIDE DEF Small
        <5> QED
          BY <3>2
      <4> QED
        BY <3>2, <4>3, <4>4
    <3> QED
      BY <3>1, <3>2
  <2>8. Solves(g, n + 1)
    <3> HIDE DEF g, Small
    <3> QED
      BY <2>6, <2>7
  <2>9. n + 1 \in 0..size
    BY <1>1
  <2> HIDE DEF g, Solves
  <2> QED
    BY <2>8, <2>9
<1>5. size \in Solvable
  <2> HIDE DEF Solvable, size
  <2>1. \A n \in 0..size : n \in Solvable
    BY <1>1, <1>3, <1>4, CountingTo
  <2> QED
    BY <1>1, <2>1
<1>6. PICK f : Solves(f, size)
  BY <1>5
<1>7. Small(size) = SUBSET D
  BY <1>2
<1>8. f \in [SUBSET D -> A]
  BY <1>6, <1>7
<1>9. SetFolds(f, G, base, F, choice, D)
  BY <1>6, <1>7 DEF SetFolds
<1> QED
  BY <1>8, <1>9

\* What unfolds the recursion as long as it stays in A does stay there.
SetUnfolds(f, G, A, base, F, choice, D) ==
    /\ f[{}] = base
    /\ \A s \in SUBSET D : s # {} /\ f[s \ {choice[s]}] \in A =>
          f[s] = G[<<f[s \ {choice[s]}], F[choice[s]]>>]

LEMMA SetFoldStays ==
    ASSUME NEW A, NEW B, NEW base \in A, NEW G \in [A \X B -> A],
           NEW D, IsFiniteSet(D), NEW F \in [D -> B], NEW choice, Chooses(choice, D),
           NEW f, SetUnfolds(f, G, A, base, F, choice, D)
    PROVE  \A s \in SUBSET D : f[s] \in A
<1> DEFINE size == Cardinality(D)
           S == {n \in 0..size : \A s \in SUBSET D : Cardinality(s) = n => f[s] \in A}
<1>1. size \in Nat
  BY FS_CardinalityType
<1>2. \A s \in SUBSET D : IsFiniteSet(s) /\ Cardinality(s) \in 0..size
  BY FS_Subset, FS_CardinalityType, <1>1
<1>3. 0 \in S
  <2>1. ASSUME NEW s \in SUBSET D, Cardinality(s) = 0 PROVE f[s] \in A
    <3>1. s = {}
      BY <1>2, <2>1, FS_EmptySet
    <3> QED
      BY <3>1 DEF SetUnfolds
  <2> HIDE DEF size
  <2> QED
    BY <1>1, <2>1
<1>4. ASSUME NEW n \in 0..(size - 1), n \in S PROVE n + 1 \in S
  <2>1. n \in Nat /\ n + 1 \in 0..size
    BY <1>1
  <2>2. ASSUME NEW s \in SUBSET D, Cardinality(s) = n + 1 PROVE f[s] \in A
    <3> DEFINE y == choice[s]  t == s \ {y}
    <3>1. s # {}
      BY <2>1, <2>2, FS_EmptySet
    <3>2. y \in s
      BY <3>1 DEF Chooses
    <3>3. t \in SUBSET D /\ Cardinality(t) = n
      BY <2>1, <2>2, <3>2, OneLess
    <3>4. f[t] \in A
      <4> HIDE DEF t
      <4> QED
        BY <1>4, <3>3
    <3>5. f[s] = G[<<f[t], F[y]>>]
      BY <3>1, <3>4 DEF SetUnfolds
    <3> HIDE DEF t, y
    <3>6. F[y] \in B
      BY <3>2
    <3> QED
      BY <3>4, <3>5, <3>6
  <2> HIDE DEF size
  <2> QED
    BY <2>1, <2>2
<1>5. \A n \in 0..size : n \in S
  <2> HIDE DEF S, size
  <2> QED
    BY <1>1, <1>3, <1>4, CountingTo
<1> HIDE DEF size
<1> QED
  BY <1>2, <1>5

\* Two values go in in any order.
Commutes(G, A, B) ==
    \A a \in A : \A x, y \in B : G[<<G[<<a, x>>], y>>] = G[<<G[<<a, y>>], x>>]

\* Any element could have been chosen last.
AnyLast(f, G, F, D) == \A s \in SUBSET D : \A x \in s : f[s] = G[<<f[s \ {x}], F[x]>>]

\* That is so when the operator commutes.
LEMMA FoldExchange ==
    ASSUME NEW A, NEW B, NEW base \in A, NEW G \in [A \X B -> A], Commutes(G, A, B),
           NEW D, IsFiniteSet(D), NEW F \in [D -> B], NEW choice, Chooses(choice, D),
           NEW f \in [SUBSET D -> A], SetFolds(f, G, base, F, choice, D)
    PROVE  AnyLast(f, G, F, D)
<1> DEFINE Exchanges(s) == \A x \in s : f[s] = G[<<f[s \ {x}], F[x]>>]
           size == Cardinality(D)
           S == {n \in 0..size : \A s \in SUBSET D : Cardinality(s) = n => Exchanges(s)}
<1>1. size \in Nat
  BY FS_CardinalityType
<1>2. \A s \in SUBSET D : IsFiniteSet(s) /\ Cardinality(s) \in 0..size
  BY FS_Subset, FS_CardinalityType, <1>1
<1>3. 0 \in S
  <2>1. ASSUME NEW s \in SUBSET D, Cardinality(s) = 0 PROVE s = {}
    BY <1>2, <2>1, FS_EmptySet
  <2>2. \A s \in SUBSET D : Cardinality(s) = 0 => Exchanges(s)
    BY <2>1
  <2> HIDE DEF Exchanges, size
  <2> QED
    BY <1>1, <2>2
<1>4. ASSUME NEW n \in 0..(size - 1), n \in S PROVE n + 1 \in S
  <2>1. n \in Nat /\ n + 1 \in 0..size
    BY <1>1
  <2>2. ASSUME NEW s \in SUBSET D, Cardinality(s) = n + 1, NEW x \in s
        PROVE  f[s] = G[<<f[s \ {x}], F[x]>>]
    <3> DEFINE y == choice[s]
    <3>1. y \in s /\ f[s] = G[<<f[s \ {y}], F[y]>>]
      BY DEF Chooses, SetFolds
    <3>2. CASE x = y
      BY <3>1, <3>2
    <3>3. CASE x # y
      <4> HIDE DEF y
      <4> DEFINE t == s \ {x}
                 u == s \ {y}
                 rest == (s \ {x}) \ {y}
      <4>1. t \in SUBSET D /\ Cardinality(t) = n /\ u \in SUBSET D /\ Cardinality(u) = n
        BY <2>1, <2>2, <3>1, OneLess
      <4>2. y \in t /\ x \in u /\ t \ {y} = rest /\ u \ {x} = rest /\ rest \in SUBSET D
        BY <3>1, <3>3
      <4>3. Exchanges(t) /\ Exchanges(u)
        <5> HIDE DEF Exchanges, t, u
        <5> QED
          BY <1>4, <4>1
      <4>4. f[t] = G[<<f[rest], F[y]>>] /\ f[u] = G[<<f[rest], F[x]>>]
        <5> HIDE DEF t, u, rest
        <5> QED
          BY <4>2, <4>3
      <4>5. F[x] \in B /\ F[y] \in B /\ f[rest] \in A
        BY <3>1, <4>2
      <4>6. G[<<G[<<f[rest], F[x]>>], F[y]>>] = G[<<G[<<f[rest], F[y]>>], F[x]>>]
        BY <4>5 DEF Commutes
      <4> QED
        BY <3>1, <4>4, <4>6
    <3> QED
      BY <3>2, <3>3
  <2>3. \A s \in SUBSET D : Cardinality(s) = n + 1 => Exchanges(s)
    BY <2>2
  <2> HIDE DEF Exchanges, size
  <2> QED
    BY <2>1, <2>3
<1>5. \A n \in 0..size : n \in S
  <2> HIDE DEF S, size
  <2> QED
    BY <1>1, <1>3, <1>4, CountingTo
<1> HIDE DEF size
<1> QED
  BY <1>2, <1>5 DEF AnyLast

\* An enumeration of a set that takes every member once.
Enumerates(c, n, D) ==
    /\ c \in [1..n -> D]
    /\ \A i, j \in 1..n : c[i] = c[j] => i = j
    /\ D = {c[i] : i \in 1..n}

\* All of that: f is the fold of the values F with an operator that commutes.
IsSetFold(f, G, A, B, base, F, choice, D) ==
    /\ base \in A /\ G \in [A \X B -> A] /\ Commutes(G, A, B)
    /\ IsFiniteSet(D) /\ F \in [D -> B] /\ Chooses(choice, D)
    /\ f \in [SUBSET D -> A] /\ SetFolds(f, G, base, F, choice, D)

\* The partial results when the values go in in that order.
PartialResults(r, G, base, F, c, n) ==
    r[0] = base /\ \A i \in 1..n : r[i] = G[<<r[i - 1], F[c[i]]>>]

\* So the elements can be taken in any order that takes each once.
LEMMA FoldEnumerated ==
    ASSUME NEW A, NEW B, NEW base, NEW G, NEW D, NEW F, NEW choice, NEW f,
           IsSetFold(f, G, A, B, base, F, choice, D),
           NEW n \in Nat, NEW c, Enumerates(c, n, D),
           NEW r, PartialResults(r, G, base, F, c, n)
    PROVE  r[n] = f[D]
<1>0. AnyLast(f, G, F, D) /\ SetFolds(f, G, base, F, choice, D)
  BY FoldExchange DEF IsSetFold
<1>5. c \in [1..n -> D] /\ (\A i, j \in 1..n : c[i] = c[j] => i = j) /\ D = {c[i] : i \in 1..n}
  BY DEF Enumerates
<1>6. r[0] = base /\ \A i \in 1..n : r[i] = G[<<r[i - 1], F[c[i]]>>]
  BY DEF PartialResults
<1> DEFINE first(m) == {c[i] : i \in 1..m}
           S == {m \in 0..n : r[m] = f[first(m)]}
<1>1. 0 \in S
  <2>1. first(0) = {}
    OBVIOUS
  <2>2. f[{}] = base
    BY <1>0 DEF SetFolds
  <2>3. r[0] = f[first(0)]
    BY <1>6, <2>1, <2>2
  <2> HIDE DEF first
  <2> QED
    BY <2>3
<1>2. ASSUME NEW m \in 0..(n - 1), m \in S PROVE m + 1 \in S
  <2>1. m + 1 \in 1..n /\ (m + 1) - 1 = m /\ m + 1 \in 0..n
    OBVIOUS
  <2>2. c[m + 1] \in first(m + 1) /\ first(m + 1) \in SUBSET D
    BY <1>5, <2>1
  <2>3. first(m + 1) \ {c[m + 1]} = first(m)
    <3>1. \A i \in 1..m : i \in 1..n /\ i \in 1..(m + 1) /\ i # m + 1
      OBVIOUS
    <3>2. \A i \in 1..(m + 1) : i \in 1..m \/ i = m + 1
      OBVIOUS
    <3>3. \A i \in 1..m : c[i] # c[m + 1]
      BY <1>5, <2>1, <3>1
    <3> QED
      BY <3>1, <3>2, <3>3
  <2>4. f[first(m + 1)] = G[<<f[first(m + 1) \ {c[m + 1]}], F[c[m + 1]]>>]
    <3> HIDE DEF first
    <3> QED
      BY <1>0, <2>2 DEF AnyLast
  <2>5. r[m + 1] = G[<<r[m], F[c[m + 1]]>>]
    BY <1>6, <2>1
  <2> HIDE DEF first
  <2> QED
    BY <1>2, <2>1, <2>3, <2>4, <2>5
<1>3. \A m \in 0..n : m \in S
  <2> HIDE DEF S
  <2> QED
    BY <1>1, <1>2, CountingTo
<1>4. n \in 0..n
  OBVIOUS
<1> QED
  BY <1>3, <1>4, <1>5

----------------------------------------------------------------------------
(* Enumerations.                                                           *)

\* An enumeration grows by an element that was not in it.
LEMMA EnumerationGrows ==
    ASSUME NEW S, NEW s \in Seq(S), NEW D, Enumerates(s, Len(s), D), NEW x \in S, x \notin D
    PROVE  Append(s, x) \in Seq(S) /\ Enumerates(Append(s, x), Len(Append(s, x)), D \cup {x})
<1> DEFINE n == Len(s)
           t == Append(s, x)
<1>1. /\ n \in Nat /\ t \in Seq(S) /\ Len(t) = n + 1
      /\ \A i \in 1..n : t[i] = s[i]
      /\ t[n + 1] = x
  OBVIOUS
<1>2. /\ s \in [1..n -> D] /\ D = {s[i] : i \in 1..n}
      /\ \A i, j \in 1..n : s[i] = s[j] => i = j
  BY DEF Enumerates
<1>3. DOMAIN t = 1..(n + 1) /\ t = [i \in 1..(n + 1) |-> t[i]]
  <2>1. t \in Seq(S) /\ Len(t) = n + 1
    BY <1>1
  <2> HIDE DEF t, n
  <2> QED
    BY <2>1
<1> HIDE DEF n, t
<1>4. \A i \in 1..(n + 1) : i \in 1..n \/ i = n + 1
  BY <1>1
<1>5. \A i \in 1..n : i \in 1..(n + 1) /\ i # n + 1
  BY <1>1
<1>6. n + 1 \in 1..(n + 1)
  BY <1>1
<1>7. \A i \in 1..(n + 1) : t[i] \in D \cup {x}
  BY <1>1, <1>2, <1>4
<1>8. t \in [1..(n + 1) -> D \cup {x}]
  BY <1>3, <1>7
<1>9. \A i, j \in 1..(n + 1) : t[i] = t[j] => i = j
  BY <1>1, <1>2, <1>4
<1>10. D \cup {x} = {t[i] : i \in 1..(n + 1)}
  BY <1>1, <1>2, <1>4, <1>5, <1>6
<1>11. Enumerates(t, n + 1, D \cup {x})
  BY <1>8, <1>9, <1>10 DEF Enumerates
<1> QED
  BY <1>1, <1>11 DEF t

\* There are as many members as numbers.
LEMMA EnumerationCounts ==
    ASSUME NEW n \in Nat, NEW D, NEW c, Enumerates(c, n, D)
    PROVE  IsFiniteSet(D) /\ Cardinality(D) = n
<1>1. c \in Bijection(1..n, D)
  BY DEF Enumerates, Bijection, Injection, Surjection, IsInjective
<1>2. IsFiniteSet(1..n) /\ Cardinality(1..n) = n
  BY FS_Interval
<1> QED
  BY <1>1, <1>2, FS_Bijection DEF ExistsBijection

\* Sequences that hold their own place or nothing, joined: the places of
\* those that are not empty, each once.
LEMMA FlattenEnumerates ==
    ASSUME NEW seqs, IsSequence(seqs),
           \A i \in DOMAIN seqs : seqs[i] = <<>> \/ seqs[i] = <<i>>
    PROVE  LET D == {i \in DOMAIN seqs : seqs[i] # <<>>}
           IN  /\ FlattenSeq(seqs) \in Seq(DOMAIN seqs)
               /\ Enumerates(FlattenSeq(seqs), Len(FlattenSeq(seqs)), D)
<1> DEFINE m == Len(seqs)
           M == DOMAIN seqs
           Of(n) == {i \in M : i <= n /\ seqs[i] # <<>>}
           Listed(s, n) == s \in Seq(M) /\ Enumerates(s, Len(s), Of(n))
<1>1. m \in Nat /\ M = 1..m
  BY SequenceShape
<1>2. \A i \in M : seqs[i] = <<>> \/ seqs[i] = <<i>>
  OBVIOUS
<1>3. Listed(<<>>, 0)
  <2>1. Of(0) = {}
    BY <1>1
  <2>2. <<>> \in Seq(M) /\ Len(<<>>) = 0
    OBVIOUS
  <2>3. Enumerates(<<>>, 0, {})
    BY DEF Enumerates
  <2> HIDE DEF Of
  <2> QED
    BY <2>1, <2>2, <2>3
<1>4. ASSUME NEW n \in 0..(m - 1), NEW s, Listed(s, n)
      PROVE  Listed(s \o seqs[n + 1], n + 1)
  <2> DEFINE p == n + 1
  <2>1. p \in M /\ p \in Nat /\ n \in Nat /\ p = n + 1
    BY <1>1
  <2>2. s \in Seq(M) /\ Enumerates(s, Len(s), Of(n))
    BY <1>4
  <2> HIDE DEF p
  <2>3. CASE seqs[p] = <<>>
    <3>1. Of(p) = Of(n)
      BY <1>1, <2>1, <2>3
    <3>2. s \o <<>> = s
      BY <2>2
    <3> HIDE DEF Of
    <3> QED
      BY <2>1, <2>2, <2>3, <3>1, <3>2
  <2>4. CASE seqs[p] # <<>>
    <3>1. seqs[p] = <<p>>
      BY <1>2, <2>1, <2>4
    <3>2. Of(p) = Of(n) \cup {p} /\ p \notin Of(n)
      BY <1>1, <2>1, <2>4
    <3>3. Append(s, p) = s \o <<p>>
      BY <2>2, MemberIsSequence, AppendJoins
    <3> HIDE DEF Of, M
    <3>4. Append(s, p) \in Seq(M) /\ Enumerates(Append(s, p), Len(Append(s, p)), Of(n) \cup {p})
      BY <2>1, <2>2, <3>2, EnumerationGrows
    <3> QED
      BY <2>1, <3>1, <3>2, <3>3, <3>4
  <2> QED
    BY <2>3, <2>4
<1>5. Listed(FlattenSeq(seqs), m)
  <2>1. CASE seqs = <<>>
    <3>1. FlattenSeq(seqs) = <<>> /\ m = 0
      BY <2>1, EmptyIsSequence DEF FlattenSeq
    <3> HIDE DEF Listed, m
    <3> QED
      BY <1>3, <3>1
  <2>2. CASE seqs # <<>>
    <3>1. PICK f : /\ f[1] = seqs[1]
                   /\ \A i \in 2..m : f[i] = f[i - 1] \o seqs[i]
                   /\ FlattenSeq(seqs) = f[m]
      BY <2>2, FlattenSteps
    <3>2. m # 0
      BY <2>2, EmptySeq DEF IsSequence
    <3> HIDE DEF Listed, m
    <3> DEFINE S == {n \in 0..(m - 1) : Listed(f[n + 1], n + 1)}
    <3>3. 0 \in S
      <4>1. <<>> \o seqs[1] = seqs[1]
        <5>1. 1 \in M
          BY <1>1, <3>2
        <5>2. seqs[1] = <<>> \/ seqs[1] = <<1>>
          BY <1>2, <5>1
        <5> QED
          BY <5>2
      <4>2. Listed(<<>> \o seqs[0 + 1], 0 + 1)
        <5>1. 0 \in 0..(m - 1)
          BY <1>1, <3>2
        <5> HIDE DEF M
        <5> QED
          BY <1>3, <1>4, <5>1
      <4> QED
        BY <1>1, <3>1, <3>2, <4>1, <4>2
    <3>4. ASSUME NEW n \in 0..((m - 1) - 1), n \in S
          PROVE  n + 1 \in S
      <4>1. n + 1 \in 0..(m - 1) /\ (n + 1) + 1 \in 2..m /\ ((n + 1) + 1) - 1 = n + 1
        BY <1>1, <3>2
      <4>2. Listed(f[n + 1], n + 1)
        BY <3>4
      <4>3. Listed(f[n + 1] \o seqs[(n + 1) + 1], (n + 1) + 1)
        BY <1>4, <4>1, <4>2
      <4>4. f[(n + 1) + 1] = f[n + 1] \o seqs[(n + 1) + 1]
        BY <3>1, <4>1
      <4> QED
        BY <4>1, <4>3, <4>4
    <3>5. \A n \in 0..(m - 1) : n \in S
      <4>1. m - 1 \in Nat
        BY <1>1, <3>2
      <4> HIDE DEF S
      <4> QED
        BY <3>3, <3>4, <4>1, CountingTo
    <3>6. m - 1 \in 0..(m - 1) /\ (m - 1) + 1 = m
      BY <1>1, <3>2
    <3>7. Listed(f[(m - 1) + 1], (m - 1) + 1)
      BY <3>5, <3>6
    <3> QED
      BY <3>1, <3>6, <3>7
  <2> QED
    BY <2>1, <2>2
<1>6. Of(m) = {i \in DOMAIN seqs : seqs[i] # <<>>}
  BY <1>1
<1> HIDE DEF Of
<1> QED
  BY <1>5, <1>6
=============================================================================
