---------------------------- MODULE ChunkerProofs ----------------------------
(***************************************************************************)
(* Proofs about Chunker: how the text of one section is cut into atoms,    *)
(* and what packing does with them, for texts of any length, lines of any  *)
(* length and every bound.                                                 *)
(***************************************************************************)
EXTENDS DocumentChunks, SequenceLemmas

----------------------------------------------------------------------------
(* Paragraphs.                                                             *)

\* A text of lines that are blank or not.
Lined(t) == IsSequence(t) /\ \A i \in DOMAIN t : t[i].blank \in BOOLEAN

\* One step of Runs.
NextRun(t, runs, i) ==
    IF runs # <<>> /\ t[Splitter!Last(runs)[1]].blank = t[i].blank
    THEN Append(Splitter!Front(runs), <<Splitter!Last(runs)[1], i>>)
    ELSE Append(runs, <<i, i>>)

\* Runs folds NextRun over the lines.
LEMMA RunsSteps ==
    ASSUME NEW t, IsSequence(t)
    PROVE  \E r \in [0..Len(t) -> Seq(Intervals)] :
              /\ r[0] = <<>> /\ r[Len(t)] = Splitter!Runs(t)
              /\ \A i \in 1..Len(t) : r[i] = NextRun(t, r[i - 1], i)
<1> DEFINE m == Len(t)
           A == Seq(Intervals)
           B == 1..m
           G == [p \in A \X B |-> NextRun(t, p[1], p[2])]
           s == [i \in DOMAIN t |-> i]
           Solves(f) == f = [S \in SUBSET (1..m) |->
                               IF S = {} THEN <<>> ELSE NextRun(t, f[S \ {Max(S)}], s[Max(S)])]
<1>1. m \in Nat /\ DOMAIN t = 1..m /\ s \in [1..m -> B] /\ \A i \in 1..m : s[i] = i
  BY SequenceShape
<1>2. G \in [A \X B -> A]
  <2>1. ASSUME NEW runs \in A, NEW i \in B PROVE NextRun(t, runs, i) \in A
    <3>1. i \in Nat
      BY <1>1
    <3>2. runs # <<>> => Front(runs) \in Seq(Intervals) /\ Last(runs) \in Intervals
      BY FrontAndLast
    <3> QED
      BY <3>1, <3>2 DEF NextRun, Intervals, Splitter!Front, Splitter!Last, Front, Last
  <2> QED
    BY <2>1
<1>3. <<>> \in A
  OBVIOUS
<1>4. \E f : Solves(f)
  <2>1. PICK f \in [SUBSET (1..m) -> A] : Folds(f, G, <<>>, s)
    <3> HIDE DEF m, A, B, G, s
    <3> QED
      BY <1>1, <1>2, <1>3, FoldExists
  <2>2. ASSUME NEW S \in SUBSET (1..m)
        PROVE  f[S] = IF S = {} THEN <<>> ELSE NextRun(t, f[S \ {Max(S)}], s[Max(S)])
    <3>1. S # {} => Max(S) \in 1..m
      BY <1>1, MaxOfRange
    <3>2. S # {} => <<f[S \ {Max(S)}], s[Max(S)]>> \in A \X B
      BY <1>1, <3>1
    <3>3. f[S] = IF S = {} THEN <<>> ELSE G[<<f[S \ {Max(S)}], s[Max(S)]>>]
      BY <1>1, <2>1 DEF Folds
    <3> HIDE DEF A, B, s
    <3> QED
      BY <3>2, <3>3
  <2>3. Solves(f)
    BY <2>2
  <2> HIDE DEF Solves
  <2> QED
    BY <2>3
<1> DEFINE c == CHOOSE f : Solves(f)
<1>5. Splitter!Runs(t) = c[1..m]
  BY <1>1 DEF Splitter!Runs, Splitter!FoldLeft, Splitter!MapThenFoldSet, Splitter!Max, Max, NextRun
<1>6. Solves(c)
  <2> HIDE DEF Solves
  <2> QED
    BY <1>4
<1> HIDE DEF c
<1>7. \A S \in SUBSET (1..m) :
        c[S] = IF S = {} THEN <<>> ELSE NextRun(t, c[S \ {Max(S)}], s[Max(S)])
  BY <1>6
<1> HIDE DEF m, A, B, G, Solves, s
<1> DEFINE r == [i \in 0..m |-> c[1..i]]
<1>8. r[0] = <<>> /\ r[m] = c[1..m]
  <2>1. 1..0 = {} /\ 1..0 \in SUBSET (1..m) /\ 0 \in 0..m /\ m \in 0..m
    BY <1>1
  <2> QED
    BY <1>7, <2>1
<1>9. ASSUME NEW i \in 1..m PROVE r[i] = NextRun(t, r[i - 1], i)
  <2>1. i \in Nat \ {0} /\ 1..i \in SUBSET (1..m) /\ i \in 0..m /\ i - 1 \in 0..m
    BY <1>1
  <2>2. Max(1..i) = i /\ (1..i) \ {Max(1..i)} = 1..(i - 1) /\ 1..i # {}
    BY <2>1, MaxOfInterval
  <2> QED
    BY <1>1, <1>7, <2>1, <2>2
<1> HIDE DEF r
<1>10. r \in [0..m -> A]
  <2>1. Unfolds(r, G, A, <<>>, s)
    BY <1>1, <1>8, <1>9 DEF Unfolds, G
  <2>2. \A i \in 0..m : r[i] \in A
    BY <1>1, <1>2, <1>3, <2>1, FoldStays
  <2> QED
    BY <2>2 DEF r
<1> QED
  BY <1>5, <1>8, <1>9, <1>10 DEF m, A

----------------------------------------------------------------------------
(* Runs of like lines.                                                     *)

\* What Runs has found in the first n lines of t.
RunsOf(t, runs, n) ==
    /\ Tiles(runs, 1, n)
    /\ \A k \in 1..Len(runs) : \A x \in runs[k][1]..runs[k][2] : t[x].blank = t[runs[k][1]].blank
    /\ \A k \in 2..Len(runs) : t[runs[k][1]].blank # t[runs[k - 1][1]].blank

\* One more line leaves the runs maximal.
LEMMA NextRunKeeps ==
    ASSUME NEW t, NEW runs, NEW n \in Nat, RunsOf(t, runs, n)
    PROVE  RunsOf(t, NextRun(t, runs, n + 1), n + 1)
<1> DEFINE m == Len(runs)  new == NextRun(t, runs, n + 1)
           x == <<n + 1, n + 1>>  y == <<runs[m][1], n + 1>>
<1>1. m \in Nat /\ IsSequence(runs) /\ Tiles(runs, 1, n)
  BY SequenceShape DEF RunsOf, Tiles
<1>2. /\ \A k \in 1..m : \A z \in runs[k][1]..runs[k][2] : t[z].blank = t[runs[k][1]].blank
      /\ \A k \in 2..m : t[runs[k][1]].blank # t[runs[k - 1][1]].blank
  BY DEF RunsOf
<1>3. x[1] = n + 1 /\ x[2] = n + 1 /\ y[1] = runs[m][1] /\ y[2] = n + 1
  OBVIOUS
<1>4. CASE m # 0 /\ t[runs[m][1]].blank = t[n + 1].blank
  <2>1. /\ IsSequence(Front(runs)) /\ Len(Front(runs)) = m - 1 /\ Last(runs) = runs[m]
        /\ \A i \in 1..(m - 1) : Front(runs)[i] = runs[i]
    BY <1>1, <1>4, FrontParts
  <2>2. new = Append(Front(runs), y)
    <3>1. runs # <<>>
      BY <1>4, EmptyIsSequence
    <3>2. Splitter!Last(runs) = runs[m] /\ Splitter!Front(runs) = Front(runs)
      BY DEF Splitter!Last, Splitter!Front, Front
    <3> QED
      BY <1>4, <3>1, <3>2 DEF NextRun
  <2>3. Tiles(new, 1, n + 1)
    <3>1. n < n + 1 /\ n + 1 \in Nat /\ 1 \in Nat \ {0}
      OBVIOUS
    <3>2. Tiles(Append(Front(runs), <<Last(runs)[1], n + 1>>), 1, n + 1)
      BY <1>1, <1>4, <3>1, TilesExtend
    <3> QED
      BY <2>1, <2>2, <3>2
  <2>4. Len(new) = m /\ new[m] = y /\ \A i \in 1..(m - 1) : new[i] = runs[i]
    BY <1>1, <2>1, <2>2, Appended
  <2>5. runs[m][1] \in Nat /\ runs[m][2] = n
    <3>1. m \in 1..m /\ runs[m] \in Intervals
      BY <1>1, <1>4 DEF Tiles
    <3> QED
      BY <1>1, <1>4, <3>1, IntervalParts DEF Tiles
  <2> HIDE DEF new, y
  <2>6. ASSUME NEW k \in 1..m, NEW z \in new[k][1]..new[k][2] PROVE t[z].blank = t[new[k][1]].blank
    <3>1. CASE k # m
      <4>1. k \in 1..(m - 1)
        BY <1>1, <3>1
      <4> QED
        BY <1>2, <2>4, <2>6, <4>1
    <3>2. CASE k = m
      <4>1. new[k][1] = runs[m][1] /\ z \in runs[m][1]..(n + 1)
        BY <1>3, <2>4, <2>6, <3>2
      <4>2. z = n + 1 \/ z \in runs[m][1]..runs[m][2]
        BY <2>5, <4>1
      <4>3. m \in 1..m
        BY <1>1, <1>4
      <4> QED
        BY <1>2, <1>4, <4>1, <4>2, <4>3
    <3> QED
      BY <3>1, <3>2
  <2>7. ASSUME NEW k \in 2..m PROVE t[new[k][1]].blank # t[new[k - 1][1]].blank
    <3>1. new[k][1] = runs[k][1] /\ new[k - 1][1] = runs[k - 1][1]
      <4>1. k \in 1..(m - 1) \/ k = m
        BY <1>1
      <4>2. k - 1 \in 1..(m - 1)
        BY <1>1
      <4> QED
        BY <1>3, <2>4, <4>1, <4>2
    <3> QED
      BY <1>2, <3>1
  <2> QED
    BY <2>3, <2>4, <2>6, <2>7 DEF RunsOf, new
<1>5. CASE m = 0 \/ t[runs[m][1]].blank # t[n + 1].blank
  <2>1. new = Append(runs, x)
    <3>1. m = 0 => runs = <<>>
      BY <1>1, EmptySeq DEF IsSequence
    <3>2. Splitter!Last(runs) = runs[m]
      BY DEF Splitter!Last
    <3> QED
      BY <1>5, <3>1, <3>2 DEF NextRun
  <2>2. Tiles(new, 1, n + 1)
    <3>1. n < n + 1 /\ n + 1 \in Nat /\ 1 \in Nat
      OBVIOUS
    <3> QED
      BY <1>1, <2>1, <3>1, TilesAppend
  <2>3. Len(new) = m + 1 /\ new[m + 1] = x /\ \A i \in 1..m : new[i] = runs[i]
    BY <1>1, <2>1, Appended
  <2> HIDE DEF new, x
  <2>4. ASSUME NEW k \in 1..(m + 1), NEW z \in new[k][1]..new[k][2] PROVE t[z].blank = t[new[k][1]].blank
    <3>1. CASE k # m + 1
      <4>1. k \in 1..m
        BY <1>1, <3>1
      <4> QED
        BY <1>2, <2>3, <2>4, <4>1
    <3>2. CASE k = m + 1
      <4>1. new[k][1] = n + 1 /\ new[k][2] = n + 1
        BY <1>3, <2>3, <3>2
      <4>2. z = n + 1
        BY <2>4, <4>1
      <4> QED
        BY <4>1, <4>2
    <3> QED
      BY <3>1, <3>2
  <2>5. ASSUME NEW k \in 2..(m + 1) PROVE t[new[k][1]].blank # t[new[k - 1][1]].blank
    <3>1. k - 1 \in 1..m /\ (k \in 2..m \/ k = m + 1)
      BY <1>1
    <3>2. CASE k = m + 1
      <4>1. m # 0 /\ k - 1 = m
        BY <1>1, <3>1, <3>2
      <4>2. new[k][1] = n + 1 /\ new[k - 1] = runs[m]
        BY <1>3, <2>3, <3>1, <3>2, <4>1
      <4> QED
        BY <1>5, <4>1, <4>2
    <3>3. CASE k \in 2..m
      <4>1. k \in 1..m
        BY <1>1, <3>3
      <4>2. new[k] = runs[k] /\ new[k - 1] = runs[k - 1]
        BY <2>3, <3>1, <4>1
      <4> QED
        BY <1>2, <3>3, <4>2
    <3> QED
      BY <3>1, <3>2, <3>3
  <2> QED
    BY <2>2, <2>3, <2>4, <2>5 DEF RunsOf, new
<1> QED
  BY <1>4, <1>5

\* Runs: maximal runs of like lines, from the first line to the last.
LEMMA RunsAreMaximal ==
    ASSUME NEW t, IsSequence(t)
    PROVE  RunsOf(t, Splitter!Runs(t), Len(t))
<1> DEFINE m == Len(t)
<1>1. PICK r \in [0..m -> Seq(Intervals)] :
         /\ r[0] = <<>> /\ r[m] = Splitter!Runs(t)
         /\ \A i \in 1..m : r[i] = NextRun(t, r[i - 1], i)
  BY RunsSteps
<1>2. m \in Nat
  BY SequenceShape
<1> DEFINE S == {n \in 0..m : RunsOf(t, r[n], n)}
<1> HIDE DEF m
<1>3. 0 \in S
  <2>1. Tiles(<<>>, 1, 0)
    BY TilesNone
  <2>2. RunsOf(t, <<>>, 0)
    BY <2>1, EmptyIsSequence DEF RunsOf
  <2> QED
    BY <1>1, <1>2, <2>2
<1>4. ASSUME NEW n \in 0..(m - 1), n \in S PROVE n + 1 \in S
  <2>1. n \in Nat /\ n + 1 \in 1..m /\ (n + 1) - 1 = n /\ n + 1 \in 0..m
    BY <1>2
  <2>2. r[n + 1] = NextRun(t, r[n], n + 1)
    BY <1>1, <2>1
  <2>3. RunsOf(t, NextRun(t, r[n], n + 1), n + 1)
    BY <1>4, <2>1, NextRunKeeps
  <2> QED
    BY <2>1, <2>2, <2>3
<1>5. m \in S
  <2> HIDE DEF S
  <2>1. \A n \in 0..m : n \in S
    BY <1>2, <1>3, <1>4, CountingTo
  <2> QED
    BY <1>2, <2>1
<1> QED
  BY <1>1, <1>5 DEF m

----------------------------------------------------------------------------
(* Units: a paragraph and the blank lines after it.                        *)

\* One step of Units.
NextUnit(t, units, run) ==
    IF units # <<>> /\ t[run[1]].blank
    THEN Append(Splitter!Front(units), <<Splitter!Last(units)[1], run[2]>>)
    ELSE Append(units, run)

\* Units folds NextUnit over the runs.
LEMMA UnitsSteps ==
    ASSUME NEW t, NEW runs \in Seq(Intervals), runs = Splitter!Runs(t)
    PROVE  \E r \in [0..Len(runs) -> Seq(Intervals)] :
              /\ r[0] = <<>> /\ r[Len(runs)] = Splitter!Units(t)
              /\ \A i \in 1..Len(runs) : r[i] = NextUnit(t, r[i - 1], runs[i])
<1> DEFINE m == Len(runs)
           A == Seq(Intervals)
           G == [p \in A \X Intervals |-> NextUnit(t, p[1], p[2])]
           Solves(f) == f = [S \in SUBSET (1..m) |->
                               IF S = {} THEN <<>> ELSE NextUnit(t, f[S \ {Max(S)}], runs[Max(S)])]
<1>1. m \in Nat /\ DOMAIN runs = 1..m /\ runs \in [1..m -> Intervals]
  OBVIOUS
<1>2. G \in [A \X Intervals -> A]
  <2>1. ASSUME NEW units \in A, NEW run \in Intervals PROVE NextUnit(t, units, run) \in A
    <3>1. run[2] \in Nat
      BY IntervalParts
    <3>2. units # <<>> => Front(units) \in Seq(Intervals) /\ Last(units) \in Intervals
      BY FrontAndLast
    <3>3. units # <<>> => <<Last(units)[1], run[2]>> \in Intervals
      BY <3>1, <3>2, IntervalParts, IntervalMade
    <3> QED
      BY <3>2, <3>3 DEF NextUnit, Splitter!Front, Splitter!Last, Front, Last
  <2> QED
    BY <2>1
<1>3. <<>> \in A
  OBVIOUS
<1>4. \E f : Solves(f)
  <2>1. PICK f \in [SUBSET (1..m) -> A] : Folds(f, G, <<>>, runs)
    <3> HIDE DEF m, A, G
    <3> QED
      BY <1>1, <1>2, <1>3, FoldExists
  <2>2. ASSUME NEW S \in SUBSET (1..m)
        PROVE  f[S] = IF S = {} THEN <<>> ELSE NextUnit(t, f[S \ {Max(S)}], runs[Max(S)])
    <3>1. S # {} => Max(S) \in 1..m
      BY <1>1, MaxOfRange
    <3>2. S # {} => <<f[S \ {Max(S)}], runs[Max(S)]>> \in A \X Intervals
      BY <1>1, <3>1
    <3>3. f[S] = IF S = {} THEN <<>> ELSE G[<<f[S \ {Max(S)}], runs[Max(S)]>>]
      BY <1>1, <2>1 DEF Folds
    <3> HIDE DEF A
    <3> QED
      BY <3>2, <3>3
  <2>3. Solves(f)
    BY <2>2
  <2> HIDE DEF Solves
  <2> QED
    BY <2>3
<1> DEFINE c == CHOOSE f : Solves(f)
<1>5. Splitter!Units(t) = c[1..m]
  BY <1>1 DEF Splitter!Units, Splitter!FoldLeft, Splitter!MapThenFoldSet, Splitter!Max, Max, NextUnit
<1>6. Solves(c)
  <2> HIDE DEF Solves
  <2> QED
    BY <1>4
<1> HIDE DEF c
<1>7. \A S \in SUBSET (1..m) :
        c[S] = IF S = {} THEN <<>> ELSE NextUnit(t, c[S \ {Max(S)}], runs[Max(S)])
  BY <1>6
<1> HIDE DEF m, A, G, Solves
<1> DEFINE r == [i \in 0..m |-> c[1..i]]
<1>8. r[0] = <<>> /\ r[m] = c[1..m]
  <2>1. 1..0 = {} /\ 1..0 \in SUBSET (1..m) /\ 0 \in 0..m /\ m \in 0..m
    BY <1>1
  <2> QED
    BY <1>7, <2>1
<1>9. ASSUME NEW i \in 1..m PROVE r[i] = NextUnit(t, r[i - 1], runs[i])
  <2>1. i \in Nat \ {0} /\ 1..i \in SUBSET (1..m) /\ i \in 0..m /\ i - 1 \in 0..m
    BY <1>1
  <2>2. Max(1..i) = i /\ (1..i) \ {Max(1..i)} = 1..(i - 1) /\ 1..i # {}
    BY <2>1, MaxOfInterval
  <2> QED
    BY <1>1, <1>7, <2>1, <2>2
<1> HIDE DEF r
<1>10. r \in [0..m -> A]
  <2>1. Unfolds(r, G, A, <<>>, runs)
    BY <1>1, <1>8, <1>9 DEF Unfolds, G
  <2>2. \A i \in 0..m : r[i] \in A
    BY <1>1, <1>2, <1>3, <2>1, FoldStays
  <2> QED
    BY <2>2 DEF r
<1> QED
  BY <1>5, <1>8, <1>9, <1>10 DEF m, A

\* A unit: lines that are not blank, then blank ones.
IsUnit(t, u) ==
    \E m \in (u[1] - 1)..u[2] :
        (\A x \in u[1]..m : ~t[x].blank) /\ (\A x \in (m + 1)..u[2] : t[x].blank)

\* What Units has made of the first n lines of t.
UnitsOf(t, units, n) ==
    /\ Tiles(units, 1, n)
    /\ \A k \in 1..Len(units) : IsUnit(t, units[k])
    /\ \A k \in 2..Len(units) : ~t[units[k][1]].blank /\ t[units[k - 1][2]].blank

\* One more run leaves the units what they should be.
LEMMA NextUnitKeeps ==
    ASSUME NEW t, NEW units, NEW n \in Nat, NEW run \in Intervals,
           UnitsOf(t, units, n), run[1] = n + 1, run[1] <= run[2],
           \A x \in run[1]..run[2] : t[x].blank = t[run[1]].blank,
           t[run[1]].blank \in BOOLEAN,
           n # 0 => (t[n].blank <=> ~t[run[1]].blank)
    PROVE  UnitsOf(t, NextUnit(t, units, run), run[2])
<1> DEFINE m == Len(units)  new == NextUnit(t, units, run)  y == <<units[m][1], run[2]>>
           e == run[2]
<1>1. m \in Nat /\ IsSequence(units) /\ Tiles(units, 1, n) /\ e \in Nat /\ n + 1 <= e /\ run = <<n + 1, e>>
  BY SequenceShape, IntervalParts DEF UnitsOf, Tiles
<1>2. /\ \A k \in 1..m : IsUnit(t, units[k])
      /\ \A k \in 2..m : ~t[units[k][1]].blank /\ t[units[k - 1][2]].blank
      /\ m # 0 => units[m][2] = n /\ units[m] \in Intervals /\ units[m][1] <= units[m][2]
                    /\ units[m][1] \in Nat \ {0}
  <2>1. m # 0 => m \in 1..m
    BY <1>1
  <2>2. m # 0 => 1 <= units[m][1] /\ units[m][1] \in Nat
    <3>1. 1 \in Nat
      OBVIOUS
    <3>2. \A i \in 1..m : 1 <= units[i][1] /\ units[i][1] <= units[i][2] /\ units[i][2] <= n
      BY <1>1, <3>1, TilesWithin
    <3>3. m # 0 => units[m] \in Intervals
      BY <2>1 DEF UnitsOf, Tiles
    <3> QED
      BY <2>1, <3>2, <3>3, IntervalParts
  <2> QED
    BY <2>1, <2>2 DEF UnitsOf, Tiles
<1>3. y[1] = units[m][1] /\ y[2] = e
  OBVIOUS
<1>4. CASE m # 0 /\ t[run[1]].blank
  <2>1. /\ IsSequence(Front(units)) /\ Len(Front(units)) = m - 1 /\ Last(units) = units[m]
        /\ \A i \in 1..(m - 1) : Front(units)[i] = units[i]
    BY <1>1, <1>4, FrontParts
  <2>2. new = Append(Front(units), y)
    <3>1. units # <<>>
      BY <1>4, EmptyIsSequence
    <3>2. Splitter!Last(units) = units[m] /\ Splitter!Front(units) = Front(units)
      BY DEF Splitter!Last, Splitter!Front, Front
    <3> QED
      BY <1>4, <3>1, <3>2 DEF NextUnit
  <2>3. Tiles(new, 1, e)
    <3>1. n < e /\ 1 \in Nat \ {0}
      BY <1>1
    <3>2. Tiles(Append(Front(units), <<Last(units)[1], e>>), 1, e)
      BY <1>1, <1>4, <3>1, TilesExtend
    <3> QED
      BY <2>1, <2>2, <3>2
  <2>4. Len(new) = m /\ new[m] = y /\ \A i \in 1..(m - 1) : new[i] = units[i]
    BY <1>1, <2>1, <2>2, Appended
  <2> HIDE DEF new, y, e
  <2>5. n # 0 /\ ~t[n].blank /\ m \in 1..m
    <3>1. n # 0 /\ m \in 1..m
      BY <1>1, <1>2, <1>4
    <3> QED
      BY <1>4, <3>1
  <2>6. IsUnit(t, new[m])
    <3>1. PICK k \in (units[m][1] - 1)..units[m][2] :
             (\A x \in units[m][1]..k : ~t[x].blank) /\ (\A x \in (k + 1)..units[m][2] : t[x].blank)
      BY <1>2, <2>5 DEF IsUnit
    <3>2. k = n
      <4>1. k <= n /\ k \in Int
        BY <1>2, <1>4, <3>1
      <4>2. ~(k < n)
        BY <1>2, <1>4, <2>5, <3>1, <4>1
      <4> QED
        BY <4>1, <4>2
    <3>3. \A x \in (n + 1)..e : t[x].blank
      BY <1>1, <1>4 DEF e
    <3>4. n \in (units[m][1] - 1)..e
      BY <1>1, <1>2, <1>4
    <3> QED
      BY <1>3, <2>4, <3>1, <3>2, <3>3, <3>4 DEF IsUnit
  <2>7. ASSUME NEW k \in 1..m PROVE IsUnit(t, new[k])
    <3>1. k \in 1..(m - 1) \/ k = m
      BY <1>1
    <3> QED
      BY <1>2, <2>4, <2>6, <3>1
  <2>8. ASSUME NEW k \in 2..m PROVE ~t[new[k][1]].blank /\ t[new[k - 1][2]].blank
    <3>1. (k \in 1..(m - 1) \/ k = m) /\ k - 1 \in 1..(m - 1)
      BY <1>1
    <3>2. new[k][1] = units[k][1] /\ new[k - 1] = units[k - 1]
      BY <1>3, <2>4, <3>1
    <3> QED
      BY <1>2, <3>2
  <2> QED
    BY <2>3, <2>4, <2>7, <2>8 DEF UnitsOf, new, e
<1>5. CASE m = 0 \/ ~t[run[1]].blank
  <2>1. new = Append(units, run)
    <3>1. m = 0 => units = <<>>
      BY <1>1, EmptySeq DEF IsSequence
    <3> QED
      BY <1>5, <3>1 DEF NextUnit
  <2>2. Tiles(new, 1, e)
    <3>1. n < e /\ 1 \in Nat
      BY <1>1
    <3>2. Tiles(Append(units, <<n + 1, e>>), 1, e)
      BY <1>1, <3>1, TilesAppend
    <3> QED
      BY <1>1, <2>1, <3>2
  <2>3. Len(new) = m + 1 /\ new[m + 1] = run /\ \A i \in 1..m : new[i] = units[i]
    BY <1>1, <2>1, Appended
  <2> HIDE DEF new, e
  <2>4. IsUnit(t, run)
    <3>1. CASE t[run[1]].blank
      <4>1. run[1] - 1 \in (run[1] - 1)..run[2] /\ \A x : x \notin run[1]..(run[1] - 1)
        BY <1>1 DEF e
      <4>2. (run[1] - 1) + 1 = run[1]
        BY <1>1
      <4> QED
        BY <3>1, <4>1, <4>2 DEF IsUnit
    <3>2. CASE ~t[run[1]].blank
      <4>1. run[2] \in (run[1] - 1)..run[2] /\ \A x : x \notin (run[2] + 1)..run[2]
        BY <1>1 DEF e
      <4> QED
        BY <3>2, <4>1 DEF IsUnit
    <3> QED
      BY <3>1, <3>2
  <2>5. ASSUME NEW k \in 1..(m + 1) PROVE IsUnit(t, new[k])
    <3>1. k \in 1..m \/ k = m + 1
      BY <1>1
    <3> QED
      BY <1>2, <2>3, <2>4, <3>1
  <2>6. ASSUME NEW k \in 2..(m + 1) PROVE ~t[new[k][1]].blank /\ t[new[k - 1][2]].blank
    <3>1. k - 1 \in 1..m /\ (k \in 2..m \/ k = m + 1)
      BY <1>1
    <3>2. CASE k = m + 1
      <4>1. m # 0 /\ k - 1 = m
        BY <1>1, <3>1, <3>2
      <4>2. new[k] = run /\ new[k - 1][2] = n /\ n # 0
        BY <1>1, <1>2, <2>3, <3>1, <3>2, <4>1
      <4> QED
        BY <1>5, <4>1, <4>2
    <3>3. CASE k \in 2..m
      <4>1. k \in 1..m
        BY <1>1, <3>3
      <4>2. new[k] = units[k] /\ new[k - 1] = units[k - 1]
        BY <2>3, <3>1, <4>1
      <4> QED
        BY <1>2, <3>3, <4>2
    <3> QED
      BY <3>1, <3>2, <3>3
  <2> QED
    BY <2>2, <2>3, <2>5, <2>6 DEF UnitsOf, new, e
<1> QED
  BY <1>4, <1>5

\* The units of a text tile its lines, each with its paragraph first.
LEMMA UnitsAreParagraphs ==
    ASSUME NEW t, Lined(t)
    PROVE  UnitsOf(t, Splitter!Units(t), Len(t))
<1> DEFINE m == Len(t)  runs == Splitter!Runs(t)  n == Len(runs)
<1>1. IsSequence(t) /\ m \in Nat /\ DOMAIN t = 1..m
  BY SequenceShape DEF Lined
<1>2. RunsOf(t, runs, m)
  BY <1>1, RunsAreMaximal
<1>3. /\ IsSequence(runs) /\ n \in Nat /\ runs \in Seq(Intervals)
      /\ \A i \in 1..n : /\ runs[i] \in Intervals /\ runs[i][1] <= runs[i][2]
                         /\ runs[i][1] = IF i = 1 THEN 1 ELSE runs[i - 1][2] + 1
      /\ IF n = 0 THEN 1 = m + 1 ELSE runs[n][2] = m
  BY <1>2, SequenceShape, SequenceIn DEF RunsOf, Tiles
<1>4. /\ \A k \in 1..n : \A x \in runs[k][1]..runs[k][2] : t[x].blank = t[runs[k][1]].blank
      /\ \A k \in 2..n : t[runs[k][1]].blank # t[runs[k - 1][1]].blank
  BY <1>2 DEF RunsOf
<1>5. \A i \in 1..n : runs[i][1] \in 1..m /\ runs[i][2] \in 1..m
  <2>1. Tiles(runs, 1, m) /\ 1 \in Nat
    BY <1>2 DEF RunsOf
  <2>2. \A i \in 1..n : 1 <= runs[i][1] /\ runs[i][1] <= runs[i][2] /\ runs[i][2] <= m
    BY <1>1, <2>1, TilesWithin
  <2> QED
    BY <1>1, <1>3, <2>2, IntervalParts
<1>6. PICK r \in [0..n -> Seq(Intervals)] :
         /\ r[0] = <<>> /\ r[n] = Splitter!Units(t)
         /\ \A i \in 1..n : r[i] = NextUnit(t, r[i - 1], runs[i])
  BY <1>3, UnitsSteps
<1> DEFINE at == [i \in 0..n |-> IF i = 0 THEN 0 ELSE runs[i][2]]
           S == {i \in 0..n : UnitsOf(t, r[i], at[i])}
<1> HIDE DEF m, n, runs
<1>7. 0 \in S
  <2>1. Tiles(<<>>, 1, 0)
    BY TilesNone
  <2>2. UnitsOf(t, <<>>, 0)
    BY <2>1, EmptyIsSequence DEF UnitsOf
  <2> QED
    BY <1>3, <1>6, <2>2
<1>8. ASSUME NEW i \in 0..(n - 1), i \in S PROVE i + 1 \in S
  <2>1. i \in Nat /\ i + 1 \in 1..n /\ (i + 1) - 1 = i /\ i + 1 \in 0..n /\ i \in 0..n
    BY <1>3
  <2> DEFINE run == runs[i + 1]
  <2>2. run \in Intervals /\ run[1] <= run[2] /\ run[1] \in 1..m /\ run[2] \in 1..m
    BY <1>3, <1>5, <2>1
  <2>3. at[i] \in Nat /\ run[1] = at[i] + 1 /\ at[i + 1] = run[2]
    <3>1. CASE i = 0
      BY <1>3, <2>1, <3>1
    <3>2. CASE i # 0
      <4>1. i \in 1..n /\ i + 1 # 1
        BY <2>1, <3>2
      <4> QED
        BY <1>3, <1>5, <2>1, <3>2, <4>1
    <3> QED
      BY <3>1, <3>2
  <2>4. UnitsOf(t, r[i], at[i])
    BY <1>8
  <2>5. t[run[1]].blank \in BOOLEAN /\ \A x \in run[1]..run[2] : t[x].blank = t[run[1]].blank
    <3>1. t[run[1]].blank \in BOOLEAN
      BY <1>1, <2>2 DEF Lined
    <3> QED
      BY <1>4, <2>1, <3>1
  <2>6. at[i] # 0 => (t[at[i]].blank <=> ~t[run[1]].blank)
    <3> SUFFICES ASSUME at[i] # 0 PROVE t[at[i]].blank <=> ~t[run[1]].blank
      OBVIOUS
    <3>1. i \in 1..n /\ i + 1 \in 2..n /\ at[i] = runs[i][2]
      BY <2>1
    <3>2. runs[i][2] \in runs[i][1]..runs[i][2]
      BY <1>3, <1>5, <3>1
    <3>3. t[runs[i][2]].blank = t[runs[i][1]].blank
      BY <1>4, <3>1, <3>2
    <3>4. t[run[1]].blank # t[runs[i][1]].blank
      BY <1>4, <2>1, <3>1
    <3>5. t[runs[i][1]].blank \in BOOLEAN
      BY <1>1, <1>5, <3>1 DEF Lined
    <3> QED
      BY <2>5, <3>1, <3>3, <3>4, <3>5
  <2> HIDE DEF run, at
  <2>7. UnitsOf(t, NextUnit(t, r[i], run), run[2])
    BY <2>2, <2>3, <2>4, <2>5, <2>6, NextUnitKeeps
  <2>8. r[i + 1] = NextUnit(t, r[i], run)
    BY <1>6, <2>1 DEF run
  <2> QED
    BY <2>1, <2>3, <2>7, <2>8 DEF at
<1>9. n \in S
  <2> HIDE DEF S
  <2>1. \A i \in 0..n : i \in S
    BY <1>3, <1>7, <1>8, CountingTo
  <2> QED
    BY <1>3, <2>1
<1>10. at[n] = m
  BY <1>1, <1>3
<1> QED
  BY <1>6, <1>9, <1>10 DEF m

----------------------------------------------------------------------------
(* The length of a text.                                                   *)

\* The length of some lines, as Total has it of the first.
Summed(s) == FoldLeft(LAMBDA sum, l : sum + l.length, 0, s)

\* Lines that have a length.
HasLengths(s) == IsSequence(s) /\ \A i \in DOMAIN s : s[i].length \in Nat

\* Lengths are summed from the first line on.
LEMMA SummedSteps ==
    ASSUME NEW s, HasLengths(s)
    PROVE  \E r \in [0..Len(s) -> Nat] :
              /\ r[0] = 0
              /\ \A i \in 1..Len(s) : r[i] = r[i - 1] + s[i].length
              /\ Summed(s) = r[Len(s)]
<1> DEFINE m == Len(s)
           B == {s[i] : i \in DOMAIN s}
           G == [p \in Nat \X B |-> p[1] + p[2].length]
           Solves(f) == f = [S \in SUBSET (1..m) |->
                               IF S = {} THEN 0 ELSE f[S \ {Max(S)}] + s[Max(S)].length]
<1>1. /\ m \in Nat /\ DOMAIN s = 1..m /\ s \in [1..m -> B]
      /\ \A i \in 1..m : s[i].length \in Nat
  <2>1. m \in Nat /\ DOMAIN s = 1..m /\ s = [i \in 1..m |-> s[i]]
    BY SequenceShape DEF HasLengths, IsSequence
  <2> QED
    BY <2>1 DEF HasLengths
<1>2. G \in [Nat \X B -> Nat]
  BY <1>1
<1>3. \E f : Solves(f)
  <2>1. PICK f \in [SUBSET (1..m) -> Nat] : Folds(f, G, 0, s)
    <3>1. m \in Nat /\ s \in [1..m -> B] /\ 0 \in Nat
      BY <1>1
    <3> HIDE DEF m, B, G
    <3> QED
      BY <1>2, <3>1, FoldExists
  <2>2. ASSUME NEW S \in SUBSET (1..m)
        PROVE  f[S] = IF S = {} THEN 0 ELSE f[S \ {Max(S)}] + s[Max(S)].length
    <3> SUFFICES S # {} => f[S] = f[S \ {Max(S)}] + s[Max(S)].length
      BY <1>1, <2>1 DEF Folds
    <3>1. CASE S = {}
      BY <3>1
    <3>2. CASE S # {}
      <4>1. Max(S) \in 1..m
        BY <1>1, <3>2, MaxOfRange
      <4>2. <<f[S \ {Max(S)}], s[Max(S)]>> \in Nat \X B
        BY <1>1, <4>1
      <4> QED
        BY <1>1, <2>1, <3>2, <4>2 DEF Folds
    <3> QED
      BY <3>1, <3>2
  <2>3. Solves(f)
    BY <2>2
  <2> HIDE DEF Solves
  <2> QED
    BY <2>3
<1> DEFINE c == CHOOSE f : Solves(f)
<1>4. Summed(s) = c[1..m]
  BY <1>1 DEF Summed, FoldLeft, MapThenFoldSet
<1>5. Solves(c)
  <2> HIDE DEF Solves
  <2> QED
    BY <1>3
<1> HIDE DEF c
<1>6. \A S \in SUBSET (1..m) : c[S] = IF S = {} THEN 0 ELSE c[S \ {Max(S)}] + s[Max(S)].length
  BY <1>5
<1> HIDE DEF m, B, G, Solves
<1> DEFINE r == [i \in 0..m |-> c[1..i]]
<1>7. r[0] = 0 /\ r[m] = c[1..m]
  <2>1. 1..0 = {} /\ 0 \in 0..m /\ m \in 0..m /\ 1..0 \in SUBSET (1..m)
    BY <1>1
  <2> QED
    BY <1>6, <2>1
<1>8. ASSUME NEW i \in 1..m PROVE r[i] = r[i - 1] + s[i].length
  <2>1. i \in Nat \ {0} /\ i - 1 \in 0..m /\ i \in 0..m /\ 1..i \in SUBSET (1..m)
    BY <1>1
  <2>2. Max(1..i) = i /\ (1..i) \ {Max(1..i)} = 1..(i - 1) /\ 1..i # {}
    BY <2>1, MaxOfInterval
  <2> QED
    BY <1>6, <2>1, <2>2
<1> HIDE DEF r
<1>9. \A i \in 0..m : r[i] \in Nat
  <2> DEFINE S == {i \in 0..m : r[i] \in Nat}
  <2>1. 0 \in S
    BY <1>1, <1>7
  <2>2. ASSUME NEW i \in 0..(m - 1), i \in S PROVE i + 1 \in S
    <3>1. i + 1 \in 1..m /\ (i + 1) - 1 = i /\ i + 1 \in 0..m
      BY <1>1
    <3> QED
      BY <1>1, <1>8, <2>2, <3>1
  <2> HIDE DEF S
  <2>3. \A i \in 0..m : i \in S
    BY <1>1, <2>1, <2>2, CountingTo
  <2> QED
    BY <2>3 DEF S
<1>10. r \in [0..m -> Nat]
  BY <1>9 DEF r
<1> QED
  BY <1>4, <1>7, <1>8, <1>10 DEF m

\* A table of sums is determined by the lengths, up to where they agree.
LEMMA SumsAgree ==
    ASSUME NEW m \in Nat, NEW q \in [0..m -> Nat], NEW r \in [0..m -> Nat], NEW d \in Nat,
           q[0] + d = r[0], NEW len \in [1..m -> Nat],
           \A i \in 1..m : q[i] = q[i - 1] + len[i],
           \A i \in 1..m : r[i] = r[i - 1] + len[i]
    PROVE  \A i \in 0..m : q[i] + d = r[i]
<1> DEFINE S == {i \in 0..m : q[i] + d = r[i]}
<1>1. 0 \in S
  OBVIOUS
<1>2. ASSUME NEW i \in 0..(m - 1), i \in S PROVE i + 1 \in S
  <2>1. i + 1 \in 1..m /\ (i + 1) - 1 = i /\ i \in 0..m /\ i + 1 \in 0..m
    OBVIOUS
  <2>2. q[i + 1] = q[i] + len[i + 1] /\ r[i + 1] = r[i] + len[i + 1]
    BY <2>1
  <2>3. q[i] \in Nat /\ r[i] \in Nat /\ len[i + 1] \in Nat /\ q[i] + d = r[i]
    BY <1>2, <2>1
  <2> QED
    BY <2>1, <2>2, <2>3
<1> HIDE DEF S
<1>3. \A i \in 0..m : i \in S
  BY <1>1, <1>2, CountingTo
<1> QED
  BY <1>3 DEF S

\* The length up to a line is that up to the one before and its own.
LEMMA TotalSteps ==
    ASSUME NEW t, HasLengths(t)
    PROVE  /\ Splitter!Total(t, 0) = 0
           /\ \A n \in 1..Len(t) : Splitter!Total(t, n) = Splitter!Total(t, n - 1) + t[n].length
           /\ \A n \in 0..Len(t) : Splitter!Total(t, n) \in Nat
<1>1. PICK r \in [0..Len(t) -> Nat] :
         r[0] = 0 /\ \A i \in 1..Len(t) : r[i] = r[i - 1] + t[i].length
  BY SummedSteps
<1>2. IsSequence(t) /\ Len(t) \in Nat /\ DOMAIN t = 1..Len(t) /\ \A i \in 1..Len(t) : t[i].length \in Nat
  BY SequenceShape DEF HasLengths
<1>3. ASSUME NEW n \in 0..Len(t)
      PROVE  Splitter!Total(t, n) = r[n]
  <2> DEFINE s == SubSeq(t, 1, n)
             len == [i \in 1..n |-> t[i].length]
             r2 == [i \in 0..n |-> r[i]]
  <2>1. IsSequence(s) /\ Len(s) = n /\ \A i \in 1..n : s[i] = t[i]
    BY <1>2, SubSequence
  <2>2. HasLengths(s)
    <3>1. DOMAIN s = 1..n /\ \A i \in 1..n : i \in 1..Len(t)
      BY <1>2, <2>1, SequenceShape
    <3> QED
      BY <1>2, <2>1, <3>1 DEF HasLengths
  <2> HIDE DEF s
  <2>3. PICK q \in [0..n -> Nat] :
           q[0] = 0 /\ (\A i \in 1..n : q[i] = q[i - 1] + s[i].length) /\ Summed(s) = q[n]
    BY <2>1, <2>2, SummedSteps
  <2>4. /\ len \in [1..n -> Nat] /\ r2 \in [0..n -> Nat] /\ r2[0] = 0 /\ n \in Nat
        /\ \A i \in 1..n : q[i] = q[i - 1] + len[i]
        /\ \A i \in 1..n : r2[i] = r2[i - 1] + len[i]
    <3>1. n \in Nat /\ 0 \in 0..n /\ \A i \in 0..n : i \in 0..Len(t)
      BY <1>2
    <3>2. \A i \in 1..n : i \in 1..Len(t) /\ i \in 0..n /\ i - 1 \in 0..n
      BY <1>2
    <3>3. len \in [1..n -> Nat] /\ r2 \in [0..n -> Nat] /\ r2[0] = 0
      BY <1>1, <1>2, <3>1, <3>2
    <3>4. \A i \in 1..n : len[i] = t[i].length /\ s[i] = t[i] /\ r2[i] = r[i] /\ r2[i - 1] = r[i - 1]
      BY <2>1, <3>2
    <3> QED
      BY <1>1, <2>3, <3>1, <3>2, <3>3, <3>4
  <2> HIDE DEF len, r2
  <2>5. \A i \in 0..n : q[i] + 0 = r2[i]
    <3>1. q[0] + 0 = r2[0] /\ 0 \in Nat
      BY <2>3, <2>4
    <3> QED
      BY <2>3, <2>4, <3>1, SumsAgree
  <2>6. q[n] = r[n]
    <3>1. n \in 0..n /\ q[n] \in Nat
      BY <2>4
    <3> QED
      BY <2>5, <3>1 DEF r2
  <2>7. Splitter!Total(t, n) = Summed(s)
    BY DEF Splitter!Total, Summed, s, FoldLeft, MapThenFoldSet,
           Splitter!FoldLeft, Splitter!MapThenFoldSet, Splitter!Max, Max
  <2> QED
    BY <2>3, <2>6, <2>7
<1>4. ASSUME NEW n \in 1..Len(t)
      PROVE  Splitter!Total(t, n) = Splitter!Total(t, n - 1) + t[n].length
  <2>1. n \in 0..Len(t) /\ n - 1 \in 0..Len(t)
    BY <1>2
  <2> QED
    BY <1>1, <1>3, <2>1
<1>5. 0 \in 0..Len(t)
  BY <1>2
<1> HIDE DEF Splitter!Total
<1> QED
  BY <1>1, <1>3, <1>4, <1>5

----------------------------------------------------------------------------
(* Atoms: what packing may not split.                                      *)

\* A text the chunker cuts.
IsText(t) ==
    /\ IsSequence(t)
    /\ \A i \in 1..Len(t) : t[i].length \in Nat \ {0} /\ t[i].blank \in BOOLEAN

\* The length of the first n lines.
Total(t, n) == Splitter!Total(t, n)

\* The same of a text the chunker cuts.
LEMMA Totals ==
    ASSUME NEW t, IsText(t)
    PROVE  /\ Len(t) \in Nat /\ DOMAIN t = 1..Len(t)
           /\ Total(t, 0) = 0
           /\ \A n \in 0..Len(t) : Total(t, n) \in Nat
           /\ \A n \in 1..Len(t) : /\ t[n].length \in Nat \ {0}
                                   /\ Total(t, n) = Total(t, n - 1) + t[n].length
           /\ Lined(t)
<1>1. IsSequence(t) /\ Len(t) \in Nat /\ DOMAIN t = 1..Len(t)
  BY SequenceShape DEF IsText
<1>2. HasLengths(t) /\ Lined(t)
  BY <1>1 DEF IsText, HasLengths, Lined
<1> QED
  BY <1>1, <1>2, TotalSteps DEF IsText, Total

\* Lines have characters, so lengths grow with every line.
LEMMA TotalsGrow ==
    ASSUME NEW t, IsText(t), NEW a \in 0..Len(t), NEW b \in 0..Len(t), a <= b
    PROVE  Total(t, a) <= Total(t, b) /\ (a < b => Total(t, a) < Total(t, b))
<1> DEFINE m == b - a
           S == {i \in 0..m : Total(t, a) <= Total(t, a + i) /\ (i # 0 => Total(t, a) < Total(t, a + i))}
<1>1. m \in Nat /\ a \in Nat /\ b \in Nat /\ Len(t) \in Nat /\ a + m = b
  BY Totals
<1>2. 0 \in S
  BY <1>1, Totals
<1>3. ASSUME NEW i \in 0..(m - 1), i \in S PROVE i + 1 \in S
  <2>1. a + i \in 0..Len(t) /\ a + (i + 1) \in 1..Len(t) /\ (a + (i + 1)) - 1 = a + i
        /\ a + (i + 1) \in 0..Len(t) /\ i + 1 \in 0..m
    BY <1>1
  <2>2. /\ Total(t, a + (i + 1)) = Total(t, a + i) + t[a + (i + 1)].length
        /\ t[a + (i + 1)].length \in Nat \ {0} /\ Total(t, a) \in Nat /\ Total(t, a + i) \in Nat
    BY <2>1, Totals
  <2> QED
    BY <1>3, <2>1, <2>2
<1> HIDE DEF S
<1>4. \A i \in 0..m : i \in S
  BY <1>1, <1>2, <1>3, CountingTo
<1>5. m \in S
  BY <1>1, <1>4
<1> QED
  BY <1>1, <1>5 DEF S

\* Lines i to j of a text.
LEMMA Spans ==
    ASSUME NEW t, IsText(t), NEW i \in 1..Len(t), NEW j \in i..Len(t)
    PROVE  /\ Splitter!Span(t, i, j) = <<Total(t, i - 1) + 1, Total(t, j)>>
           /\ Total(t, i - 1) \in Nat /\ Total(t, j) \in Nat /\ Total(t, i - 1) < Total(t, j)
           /\ Splitter!Span(t, i, j) \in Intervals
           /\ Splitter!Span(t, i, j)[1] = Total(t, i - 1) + 1
           /\ Splitter!Span(t, i, j)[2] = Total(t, j)
           /\ Splitter!Size(Splitter!Span(t, i, j)) = Total(t, j) - Total(t, i - 1)
           /\ i = j => Splitter!Size(Splitter!Span(t, i, j)) = t[i].length
<1>1. i - 1 \in 0..Len(t) /\ j \in 0..Len(t) /\ i - 1 < j /\ i - 1 <= j /\ Len(t) \in Nat
  BY Totals
<1> DEFINE a == Total(t, i - 1)  b == Total(t, j)
<1>2. a \in Nat /\ b \in Nat /\ a < b
  BY <1>1, Totals, TotalsGrow
<1>3. Splitter!Span(t, i, j) = <<a + 1, b>>
  BY DEF Splitter!Span, Total
<1>4. i = j => b = a + t[i].length /\ t[i].length \in Nat
  BY Totals
<1> HIDE DEF a, b
<1>5. <<a + 1, b>> \in Intervals /\ <<a + 1, b>>[1] = a + 1 /\ <<a + 1, b>>[2] = b
  BY <1>2, IntervalMade
<1>6. Splitter!Size(<<a + 1, b>>) = b - a
  BY <1>2 DEF Splitter!Size
<1> QED
  BY <1>2, <1>3, <1>4, <1>5, <1>6 DEF a, b

\* Pieces from lo to hi that respect the bound.
Cut(p, lo, hi) == Tiles(p, lo, hi) /\ \A i \in 1..Len(p) : Splitter!Size(p[i]) <= bound

\* The division HardSplit counts its pieces with rounds up.
LEMMA DivisionRoundsUp ==
    ASSUME NEW n \in Nat \ {0}, NEW b \in Nat \ {0}
    PROVE  /\ (n + b - 1) \div b \in Nat \ {0}
           /\ (((n + b - 1) \div b) - 1) * b < n
           /\ n <= ((n + b - 1) \div b) * b
<1> DEFINE q == (n + b - 1) \div b  r == (n + b - 1) % b
<1>1. q \in Int /\ r \in 0..(b - 1) /\ n + b - 1 = b * q + r
  OBVIOUS
<1> HIDE DEF q, r
<1>2. b * q = n + b - 1 - r
  BY <1>1
<1>3. (q - 1) * b = b * q - b /\ q * b = b * q
  BY <1>1
<1>4. (q - 1) * b < n /\ n <= q * b
  BY <1>1, <1>2, <1>3
<1>5. q > 0
  <2> SUFFICES ASSUME q <= 0 PROVE FALSE
    BY <1>1
  <2>1. q * b <= 0
    BY <1>1
  <2> QED
    BY <1>1, <1>4, <2>1
<1> QED
  BY <1>1, <1>4, <1>5 DEF q

\* _hard_split cuts a piece into pieces that respect the bound.
LEMMA HardSplitCuts ==
    ASSUME bound \in Nat \ {0}, NEW lo \in Nat \ {0}, NEW hi \in Nat, lo <= hi
    PROVE  Cut(Splitter!HardSplit(<<lo, hi>>), lo, hi)
<1> DEFINE b == bound
           n == hi - lo + 1
           m == (n + b - 1) \div b
           w == Splitter!HardSplit(<<lo, hi>>)
           From(j) == lo + (j - 1) * b
           To(j) == IF lo + j * b - 1 < hi THEN lo + j * b - 1 ELSE hi
<1>1. b \in Nat \ {0} /\ n \in Nat \ {0} /\ hi = lo + n - 1
  OBVIOUS
<1>2. w = [j \in 1..m |-> <<From(j), To(j)>>]
  BY DEF Splitter!HardSplit, Splitter!Size
<1>3. m \in Nat \ {0} /\ (m - 1) * b < n /\ n <= m * b
  <2> HIDE DEF n, b
  <2> QED
    BY <1>1, DivisionRoundsUp
<1> HIDE DEF b, n, m, w
<1>4. IsSequence(w) /\ Len(w) = m /\ \A j \in 1..m : w[j] = <<From(j), To(j)>>
  <2>1. DOMAIN w = 1..m /\ \A j \in 1..m : w[j] = <<From(j), To(j)>>
    BY <1>2
  <2>2. w = [j \in 1..m |-> w[j]]
    BY <1>2
  <2> QED
    BY <1>3, <2>1, <2>2, FunctionIsSequence
<1>5. ASSUME NEW j \in 1..m
      PROVE  /\ From(j) \in Nat \ {0} /\ To(j) \in Nat /\ From(j) <= To(j) /\ To(j) <= From(j) + b - 1
             /\ (j # m => To(j) = lo + j * b - 1) /\ (j = m => To(j) = hi)
  <2> DEFINE x == (j - 1) * b  y == j * b
  <2>1. j \in Nat \ {0} /\ j - 1 \in Nat
    BY <1>3
  <2>2. x \in Nat /\ y = x + b
    BY <1>1, <2>1
  <2>3. x < n
    <3>1. x <= (m - 1) * b
      <4>1. m - 1 \in Nat /\ j - 1 <= m - 1
        BY <1>3, <2>1
      <4>2. PICK d \in Nat : m - 1 = (j - 1) + d
        <5>1. (m - 1) - (j - 1) \in Nat /\ m - 1 = (j - 1) + ((m - 1) - (j - 1))
          BY <2>1, <4>1
        <5> QED
          BY <5>1
      <4>3. (m - 1) * b = (j - 1) * b + d * b /\ d * b \in Nat
        BY <1>1, <2>1, <4>1, <4>2
      <4> QED
        BY <2>2, <4>3
    <3>2. (m - 1) * b \in Int
      BY <1>1, <1>3
    <3> QED
      BY <1>1, <1>3, <2>2, <3>1, <3>2
  <2>4. j # m => y < n
    <3> SUFFICES ASSUME j # m PROVE y < n
      OBVIOUS
    <3>1. m - 1 \in Nat /\ j <= m - 1
      BY <1>3, <2>1
    <3>2. PICK d \in Nat : m - 1 = j + d
      <4>1. (m - 1) - j \in Nat /\ m - 1 = j + ((m - 1) - j)
        BY <2>1, <3>1
      <4> QED
        BY <4>1
    <3>3. (m - 1) * b = j * b + d * b /\ d * b \in Nat /\ y \in Nat
      BY <1>1, <2>1, <3>1, <3>2
    <3> QED
      BY <1>1, <1>3, <3>3
  <2>5. j = m => y >= n
    BY <1>3
  <2> HIDE DEF x, y
  <2>6. From(j) = lo + x /\ To(j) = IF lo + y - 1 < hi THEN lo + y - 1 ELSE hi
    BY DEF x, y
  <2>7. j # m => To(j) = lo + y - 1
    BY <1>1, <2>2, <2>4, <2>6
  <2>8. j = m => To(j) = hi
    BY <1>1, <2>2, <2>5, <2>6
  <2>9. From(j) \in Nat \ {0} /\ To(j) \in Nat /\ From(j) <= To(j) /\ To(j) <= From(j) + b - 1
    BY <1>1, <2>2, <2>3, <2>6
  <2> HIDE DEF From, To
  <2> QED
    BY <2>7, <2>8, <2>9 DEF y
<1>6. ASSUME NEW j \in 1..m
      PROVE  From(j) = IF j = 1 THEN lo ELSE To(j - 1) + 1
  <2>1. CASE j = 1
    BY <1>1, <2>1
  <2>2. CASE j # 1
    <3>1. j - 1 \in 1..m /\ j - 1 # m
      BY <1>3, <2>2
    <3>2. To(j - 1) = lo + (j - 1) * b - 1
      BY <1>5, <3>1
    <3>3. (j - 1) * b \in Int
      BY <1>1, <1>3
    <3> QED
      BY <2>2, <3>2, <3>3
  <2> QED
    BY <2>1, <2>2
<1> HIDE DEF From, To
<1>7. ASSUME NEW j \in 1..m
      PROVE  /\ w[j] \in Intervals /\ w[j][1] = From(j) /\ w[j][2] = To(j)
             /\ Splitter!Size(w[j]) <= bound
  <2>1. w[j] \in Intervals /\ w[j][1] = From(j) /\ w[j][2] = To(j)
    <3>1. From(j) \in Nat /\ To(j) \in Nat /\ w[j] = <<From(j), To(j)>>
      BY <1>4, <1>5
    <3> QED
      BY <3>1 DEF Intervals
  <2>2. To(j) - From(j) + 1 <= b
    BY <1>1, <1>5
  <2> QED
    BY <2>1, <2>2 DEF Splitter!Size, b
<1>8. \A j \in 1..m : j # 1 => j - 1 \in 1..m
  BY <1>3
<1>9. Tiles(w, lo, hi)
  <2>1. m # 0 /\ m \in 1..m /\ w[m][2] = hi
    BY <1>3, <1>5, <1>7
  <2>2. \A j \in 1..m : /\ w[j] \in Intervals /\ w[j][1] <= w[j][2]
                        /\ w[j][1] = IF j = 1 THEN lo ELSE w[j - 1][2] + 1
    BY <1>5, <1>6, <1>7, <1>8
  <2> QED
    BY <1>4, <2>1, <2>2 DEF Tiles
<1> QED
  BY <1>4, <1>7, <1>9 DEF Cut, w

\* A line, or what becomes of one that is too long.
LEMMA LineAtomsCut ==
    ASSUME bound \in Nat \ {0}, NEW t, IsText(t), NEW i \in 1..Len(t)
    PROVE  /\ Cut(Splitter!LineAtoms(Splitter!Span(t, i, i)), Total(t, i - 1) + 1, Total(t, i))
           /\ t[i].length <= bound =>
                 Splitter!LineAtoms(Splitter!Span(t, i, i)) = <<Splitter!Span(t, i, i)>>
<1> DEFINE s == Splitter!Span(t, i, i)  lo == Total(t, i - 1) + 1  hi == Total(t, i)
<1>1. s = <<lo, hi>> /\ lo \in Nat \ {0} /\ hi \in Nat /\ lo <= hi /\ Splitter!Size(s) = t[i].length
  <2>1. Len(t) \in Nat
    BY Totals
  <2>2. i \in i..Len(t)
    BY <2>1
  <2>3. /\ s = <<Total(t, i - 1) + 1, Total(t, i)>>
        /\ Total(t, i - 1) \in Nat /\ Total(t, i) \in Nat /\ Total(t, i - 1) < Total(t, i)
        /\ Splitter!Size(s) = t[i].length
    BY <2>2, Spans
  <2> QED
    BY <2>3
<1> HIDE DEF lo, hi, s
<1>2. CASE Splitter!Size(s) <= bound
  <2>1. Splitter!LineAtoms(s) = <<s>>
    BY <1>2 DEF Splitter!LineAtoms
  <2>2. Tiles(<<s>>, lo, hi)
    BY <1>1, TilesOne
  <2>3. <<s>>[1] = s /\ Len(<<s>>) = 1
    OBVIOUS
  <2>4. \A j \in 1..Len(<<s>>) : Splitter!Size(<<s>>[j]) <= bound
    BY <1>2, <2>3
  <2> QED
    BY <2>1, <2>2, <2>4 DEF Cut, s, lo, hi
<1>3. CASE ~(Splitter!Size(s) <= bound)
  <2>1. Splitter!LineAtoms(s) = Splitter!HardSplit(<<lo, hi>>)
    BY <1>1, <1>3 DEF Splitter!LineAtoms
  <2>2. Cut(Splitter!HardSplit(<<lo, hi>>), lo, hi)
    BY <1>1, HardSplitCuts
  <2> QED
    BY <1>1, <1>3, <2>1, <2>2 DEF s, lo, hi
<1> QED
  BY <1>2, <1>3

\* Pieces joined from sequences of pieces that respect the bound do too.
LEMMA CutFlatten ==
    ASSUME NEW seqs, IsSequence(seqs), NEW e \in [0..Len(seqs) -> Nat],
           \A i \in 1..Len(seqs) : Cut(seqs[i], e[i - 1] + 1, e[i])
    PROVE  /\ Cut(FlattenSeq(seqs), e[0] + 1, e[Len(seqs)])
           /\ \A i \in 1..Len(seqs) : \A k \in 1..Len(seqs[i]) :
                 \E j \in 1..Len(FlattenSeq(seqs)) : FlattenSeq(seqs)[j] = seqs[i][k]
<1> DEFINE w == FlattenSeq(seqs)
<1>1. Tiles(w, e[0] + 1, e[Len(seqs)])
  BY TilesFlatten DEF Cut
<1>2. DOMAIN seqs = 1..Len(seqs) /\ \A i \in 1..Len(seqs) : IsSequence(seqs[i])
  BY SequenceShape DEF Cut, Tiles
<1>3. IsSequence(w) /\ \A x : (\E k \in DOMAIN w : w[k] = x)
                              <=> \E i \in DOMAIN seqs : \E k \in DOMAIN seqs[i] : seqs[i][k] = x
  BY <1>2, FlattenElements
<1>4. DOMAIN w = 1..Len(w) /\ \A i \in 1..Len(seqs) : DOMAIN seqs[i] = 1..Len(seqs[i])
  BY <1>2, <1>3, SequenceShape
<1> HIDE DEF w
<1>5. ASSUME NEW j \in 1..Len(w) PROVE Splitter!Size(w[j]) <= bound
  <2>1. PICK i \in 1..Len(seqs) : \E k \in 1..Len(seqs[i]) : seqs[i][k] = w[j]
    BY <1>2, <1>3, <1>4
  <2> QED
    BY <2>1 DEF Cut
<1>6. ASSUME NEW i \in 1..Len(seqs), NEW k \in 1..Len(seqs[i])
      PROVE  \E j \in 1..Len(w) : w[j] = seqs[i][k]
  BY <1>2, <1>3, <1>4
<1> QED
  BY <1>1, <1>5, <1>6 DEF Cut, w

\* A piece of the text that is inside one of the pieces p.
Whole(piece, p) == \E j \in 1..Len(p) : Splitter!Inside(piece, p[j])

\* The splitter's FlattenSeq is the one the sequence lemmas are about.
LEMMA SplitterFlattens ==
    ASSUME NEW seqs
    PROVE  Splitter!FlattenSeq(seqs) = FlattenSeq(seqs)
BY DEF Splitter!FlattenSeq, FlattenSeq

\* The atoms of a unit cut it, whole if it fits, and its lines that fit whole.
LEMMA UnitAtomsCut ==
    ASSUME bound \in Nat \ {0}, NEW t, IsText(t),
           NEW u \in Intervals, u[1] \in 1..Len(t), u[2] \in u[1]..Len(t)
    PROVE  /\ Cut(Splitter!UnitAtoms(t, u), Total(t, u[1] - 1) + 1, Total(t, u[2]))
           /\ Splitter!Size(Splitter!Span(t, u[1], u[2])) <= bound =>
                 Whole(Splitter!Span(t, u[1], u[2]), Splitter!UnitAtoms(t, u))
           /\ \A i \in u[1]..u[2] :
                 t[i].length <= bound => Whole(Splitter!Span(t, i, i), Splitter!UnitAtoms(t, u))
<1> DEFINE a == u[1]  b == u[2]  s == Splitter!Span(t, a, b)
           lo == Total(t, a - 1) + 1  hi == Total(t, b)
           w == Splitter!UnitAtoms(t, u)
<1>1. /\ a \in Nat \ {0} /\ b \in Nat /\ a <= b /\ b <= Len(t) /\ Len(t) \in Nat
      /\ a \in 1..Len(t) /\ b \in 1..Len(t) /\ b \in a..Len(t)
  BY Totals
<1>2. /\ s = <<lo, hi>> /\ lo \in Nat \ {0} /\ hi \in Nat /\ lo <= hi
      /\ s[1] = lo /\ s[2] = hi
  <2>1. /\ s = <<Total(t, a - 1) + 1, Total(t, b)>>
        /\ Total(t, a - 1) \in Nat /\ Total(t, b) \in Nat /\ Total(t, a - 1) < Total(t, b)
        /\ s[1] = Total(t, a - 1) + 1 /\ s[2] = Total(t, b)
    BY <1>1, Spans
  <2> QED
    BY <2>1
<1>3. CASE Splitter!Size(s) <= bound
  <2>1. w = <<s>>
    BY <1>3 DEF Splitter!UnitAtoms, Splitter!Fits
  <2>2. Len(<<s>>) = 1 /\ <<s>>[1] = s
    OBVIOUS
  <2>3. Cut(<<s>>, lo, hi)
    <3> HIDE DEF s, lo, hi
    <3>1. Tiles(<<s>>, lo, hi)
      BY <1>2, TilesOne
    <3> QED
      BY <1>3, <2>2, <3>1 DEF Cut
  <2>4. \A x : Splitter!Inside(x, s) => Whole(x, <<s>>)
    BY <2>2 DEF Whole
  <2>5. Splitter!Inside(s, s)
    BY <1>2 DEF Splitter!Inside
  <2>6. ASSUME NEW i \in a..b PROVE Splitter!Inside(Splitter!Span(t, i, i), s)
    <3>1. i \in 1..Len(t) /\ i \in i..Len(t) /\ i - 1 \in 0..Len(t) /\ i \in 0..Len(t)
          /\ a - 1 \in 0..Len(t) /\ b \in 0..Len(t) /\ a - 1 <= i - 1 /\ i <= b
      BY <1>1
    <3>2. /\ Splitter!Span(t, i, i)[1] = Total(t, i - 1) + 1
          /\ Splitter!Span(t, i, i)[2] = Total(t, i)
      BY <3>1, Spans
    <3>3. Total(t, a - 1) <= Total(t, i - 1) /\ Total(t, i) <= Total(t, b)
      BY <3>1, TotalsGrow
    <3>4. Total(t, a - 1) \in Nat /\ Total(t, i - 1) \in Nat
      BY <3>1, Totals
    <3> HIDE DEF s
    <3> QED
      BY <1>2, <3>2, <3>3, <3>4 DEF Splitter!Inside
  <2> HIDE DEF s, w, lo, hi
  <2> QED
    BY <2>1, <2>3, <2>4, <2>5, <2>6 DEF s, w, lo, hi
<1>4. CASE ~(Splitter!Size(s) <= bound)
  <2> DEFINE m == b - a + 1
             seqs == [i \in 1..m |-> Splitter!LineAtoms(Splitter!Span(t, a + i - 1, a + i - 1))]
             e == [i \in 0..m |-> Total(t, a - 1 + i)]
  <2>1. w = FlattenSeq(seqs)
    BY <1>4, SplitterFlattens DEF Splitter!UnitAtoms, Splitter!Fits
  <2>2. m \in Nat
    BY <1>1
  <2>3. IsSequence(seqs) /\ Len(seqs) = m
    <3>1. DOMAIN seqs = 1..m /\ seqs = [i \in 1..m |-> seqs[i]]
      OBVIOUS
    <3> HIDE DEF seqs, m
    <3> QED
      BY <2>2, <3>1, FunctionIsSequence
  <2>4. e \in [0..Len(seqs) -> Nat] /\ e[0] = Total(t, a - 1) /\ e[m] = hi
    <3>1. \A i \in 0..m : a - 1 + i \in 0..Len(t)
      BY <1>1
    <3>2. \A i \in 0..m : Total(t, a - 1 + i) \in Nat
      BY <3>1, Totals
    <3>3. 0 \in 0..m /\ m \in 0..m /\ a - 1 + 0 = a - 1 /\ a - 1 + m = b
      BY <1>1
    <3> HIDE DEF seqs, m
    <3> QED
      BY <2>3, <3>2, <3>3
  <2>5. ASSUME NEW i \in 1..m
        PROVE  /\ Cut(seqs[i], e[i - 1] + 1, e[i])
               /\ t[a + i - 1].length <= bound =>
                     seqs[i] = <<Splitter!Span(t, a + i - 1, a + i - 1)>>
    <3> DEFINE k == a + i - 1
    <3>1. k \in 1..Len(t) /\ a - 1 + i = k /\ a - 1 + (i - 1) = k - 1 /\ i \in 0..m /\ i - 1 \in 0..m
      BY <1>1
    <3>2. e[i] = Total(t, k) /\ e[i - 1] = Total(t, k - 1)
      BY <3>1
    <3>3. seqs[i] = Splitter!LineAtoms(Splitter!Span(t, k, k))
      OBVIOUS
    <3> HIDE DEF k, seqs, e, m
    <3>4. /\ Cut(seqs[i], e[i - 1] + 1, e[i])
          /\ t[k].length <= bound => seqs[i] = <<Splitter!Span(t, k, k)>>
      BY <3>1, <3>2, <3>3, LineAtomsCut
    <3> QED
      BY <3>4 DEF k
  <2> HIDE DEF seqs, e, m
  <2>6. /\ Cut(FlattenSeq(seqs), e[0] + 1, e[Len(seqs)])
        /\ \A i \in 1..Len(seqs) : \A k \in 1..Len(seqs[i]) :
              \E j \in 1..Len(FlattenSeq(seqs)) : FlattenSeq(seqs)[j] = seqs[i][k]
    <3>1. \A i \in 1..Len(seqs) : Cut(seqs[i], e[i - 1] + 1, e[i])
      BY <2>3, <2>5
    <3> QED
      BY <2>3, <2>4, <3>1, CutFlatten
  <2>7. Cut(w, lo, hi)
    BY <2>1, <2>3, <2>4, <2>6
  <2>8. ASSUME NEW i \in a..b, t[i].length <= bound
        PROVE  Whole(Splitter!Span(t, i, i), w)
    <3> DEFINE x == Splitter!Span(t, i, i)
    <3>1. i - a + 1 \in 1..m /\ a + (i - a + 1) - 1 = i
      BY <1>1 DEF m
    <3>2. seqs[i - a + 1] = <<x>>
      BY <2>5, <2>8, <3>1
    <3>3. x[1] \in Nat /\ x[2] \in Nat
      <4>1. i \in 1..Len(t) /\ i \in i..Len(t)
        BY <1>1
      <4>2. x \in Intervals
        BY <4>1, Spans
      <4> QED
        BY <4>2, IntervalParts
    <3> HIDE DEF x, w
    <3>4. Len(<<x>>) = 1 /\ <<x>>[1] = x
      OBVIOUS
    <3>5. 1 \in 1..Len(seqs[i - a + 1])
      BY <3>2, <3>4
    <3>6. \E j \in 1..Len(w) : w[j] = seqs[i - a + 1][1]
      BY <2>1, <2>3, <2>6, <3>1, <3>5
    <3>7. PICK j \in 1..Len(w) : w[j] = x
      BY <3>2, <3>4, <3>6
    <3>8. Splitter!Inside(x, w[j])
      BY <3>3, <3>7 DEF Splitter!Inside
    <3> QED
      BY <3>8 DEF Whole, x
  <2> HIDE DEF w, lo, hi, s
  <2> QED
    BY <1>4, <2>7, <2>8 DEF w, lo, hi, s
<1> QED
  BY <1>3, <1>4

\* _atoms_for_units cuts the text, and keeps what fits whole.
LEMMA AtomsCutText ==
    ASSUME bound \in Nat \ {0}, NEW t, IsText(t)
    PROVE  /\ Cut(Splitter!AtomsForUnits(t), 1, Total(t, Len(t)))
           /\ \A k \in 1..Len(Splitter!Units(t)) :
                 LET u == Splitter!Units(t)[k]
                 IN  Splitter!Size(Splitter!Span(t, u[1], u[2])) <= bound =>
                        Whole(Splitter!Span(t, u[1], u[2]), Splitter!AtomsForUnits(t))
           /\ \A i \in 1..Len(t) :
                 t[i].length <= bound => Whole(Splitter!Span(t, i, i), Splitter!AtomsForUnits(t))
<1> DEFINE units == Splitter!Units(t)  m == Len(units)  n == Len(t)
           w == Splitter!AtomsForUnits(t)
           seqs == [k \in 1..m |-> Splitter!UnitAtoms(t, units[k])]
           e == [k \in 0..m |-> IF k = 0 THEN 0 ELSE Total(t, units[k][2])]
<1>1. n \in Nat /\ Lined(t) /\ Total(t, 0) = 0
  BY Totals
<1>2. Tiles(units, 1, n)
  BY <1>1, UnitsAreParagraphs DEF UnitsOf
<1>3. /\ m \in Nat /\ IsSequence(units) /\ DOMAIN units = 1..m
      /\ \A k \in 1..m :
            /\ units[k] \in Intervals /\ units[k][1] <= units[k][2]
            /\ units[k][1] = IF k = 1 THEN 1 ELSE units[k - 1][2] + 1
      /\ IF m = 0 THEN 1 = n + 1 ELSE units[m][2] = n
  BY <1>2, SequenceShape DEF Tiles
<1>4. \A k \in 1..m : units[k][1] \in 1..n /\ units[k][2] \in units[k][1]..n
  <2>1. \A k \in 1..m : 1 <= units[k][1] /\ units[k][1] <= units[k][2] /\ units[k][2] <= n
    <3>1. 1 \in Nat
      OBVIOUS
    <3> HIDE DEF units, n
    <3> QED
      BY <1>1, <1>2, <3>1, TilesWithin
  <2> QED
    BY <1>1, <1>3, <2>1, IntervalParts
<1>5. w = FlattenSeq(seqs)
  BY <1>3, SplitterFlattens DEF Splitter!AtomsForUnits
<1>6. IsSequence(seqs) /\ Len(seqs) = m
  <2>1. DOMAIN seqs = 1..m /\ seqs = [k \in 1..m |-> seqs[k]]
    OBVIOUS
  <2> HIDE DEF seqs, m
  <2> QED
    BY <1>3, <2>1, FunctionIsSequence
<1>7. \A k \in 1..m : seqs[k] = Splitter!UnitAtoms(t, units[k])
  OBVIOUS
<1> HIDE DEF units, m, n, w, seqs
<1>8. e \in [0..m -> Nat] /\ e[0] = 0 /\ e[m] = Total(t, n)
  <2>1. \A k \in 1..m : units[k][2] \in 0..n
    BY <1>1, <1>4
  <2>2. \A k \in 1..m : Total(t, units[k][2]) \in Nat
    BY <2>1, Totals DEF n
  <2>3. \A k \in 0..m : k # 0 => k \in 1..m
    BY <1>3
  <2> QED
    BY <1>1, <1>3, <2>2, <2>3
<1>9. \A k \in 1..m : e[k] = Total(t, units[k][2]) /\ e[k - 1] = Total(t, units[k][1] - 1)
  <2> SUFFICES ASSUME NEW k \in 1..m
               PROVE  e[k] = Total(t, units[k][2]) /\ e[k - 1] = Total(t, units[k][1] - 1)
    OBVIOUS
  <2>1. k \in 0..m /\ k - 1 \in 0..m /\ k # 0
    BY <1>3
  <2>2. CASE k = 1
    BY <1>1, <1>3, <2>1, <2>2
  <2>3. CASE k # 1
    <3>1. k - 1 # 0 /\ k - 1 \in 1..m
      BY <1>3, <2>3
    <3>2. units[k][1] - 1 = units[k - 1][2]
      <4>1. units[k - 1][2] \in Nat /\ units[k][1] = units[k - 1][2] + 1
        BY <1>3, <2>3, <3>1, IntervalParts
      <4> QED
        BY <4>1
    <3> QED
      BY <2>1, <3>1, <3>2
  <2> QED
    BY <2>2, <2>3
<1> HIDE DEF e
<1>10. \A k \in 1..m :
         /\ Cut(seqs[k], e[k - 1] + 1, e[k])
         /\ Splitter!Size(Splitter!Span(t, units[k][1], units[k][2])) <= bound =>
               Whole(Splitter!Span(t, units[k][1], units[k][2]), seqs[k])
         /\ \A i \in units[k][1]..units[k][2] :
               t[i].length <= bound => Whole(Splitter!Span(t, i, i), seqs[k])
  BY <1>3, <1>4, <1>7, <1>9, UnitAtomsCut DEF n
<1>11. /\ Cut(w, e[0] + 1, e[m])
       /\ \A i \in 1..m : \A k \in 1..Len(seqs[i]) :
             \E j \in 1..Len(w) : w[j] = seqs[i][k]
  <2>1. e \in [0..Len(seqs) -> Nat] /\ \A i \in 1..Len(seqs) : Cut(seqs[i], e[i - 1] + 1, e[i])
    BY <1>6, <1>8, <1>10
  <2>2. /\ Cut(FlattenSeq(seqs), e[0] + 1, e[Len(seqs)])
        /\ \A i \in 1..Len(seqs) : \A k \in 1..Len(seqs[i]) :
              \E j \in 1..Len(FlattenSeq(seqs)) : FlattenSeq(seqs)[j] = seqs[i][k]
    BY <1>6, <2>1, CutFlatten
  <2> QED
    BY <1>5, <1>6, <2>2
<1>12. ASSUME NEW k \in 1..m, NEW x, Whole(x, seqs[k]) PROVE Whole(x, w)
  <2>1. PICK j \in 1..Len(seqs[k]) : Splitter!Inside(x, seqs[k][j])
    BY <1>12 DEF Whole
  <2>2. PICK i \in 1..Len(w) : w[i] = seqs[k][j]
    BY <1>11
  <2> QED
    BY <2>1, <2>2 DEF Whole
<1>13. ASSUME NEW i \in 1..n, t[i].length <= bound PROVE Whole(Splitter!Span(t, i, i), w)
  <2>1. PICK k \in 1..m : units[k][1] <= i /\ i <= units[k][2]
    <3>1. 1 \in Nat /\ i \in 1..n
      OBVIOUS
    <3> QED
      BY <1>1, <1>2, <3>1, TilesCover DEF m
  <2>2. i \in units[k][1]..units[k][2]
    BY <1>1, <1>4, <2>1
  <2> QED
    BY <1>10, <1>12, <1>13, <2>2
<1>14. Cut(w, 1, Total(t, n))
  <2>1. e[0] + 1 = 1
    BY <1>8
  <2> QED
    BY <1>8, <1>11, <2>1
<1>15. \A k \in 1..m :
          Splitter!Size(Splitter!Span(t, units[k][1], units[k][2])) <= bound =>
             Whole(Splitter!Span(t, units[k][1], units[k][2]), w)
  BY <1>10, <1>12
<1> QED
  BY <1>13, <1>14, <1>15 DEF w, units, m, n

----------------------------------------------------------------------------
(* Packing.                                                                *)

\* No two neighbouring pieces could have been one.
Greedy(w) == \A i \in 1..(Len(w) - 1) : Splitter!Size(w[i]) + Splitter!Size(w[i + 1]) > bound

\* The character before atom n.
EndBefore(a, n) == IF n = 1 THEN 0 ELSE a[n - 1][2]

\* The atoms before the n-th are packed into w.
Packed(a, n, w) ==
    /\ Cut(w, 1, EndBefore(a, n))
    /\ \A k \in 1..(n - 1) : Whole(a[k], w)
    /\ Greedy(w)

\* Where the n-th atom is.
LEMMA AtomPlace ==
    ASSUME NEW a, NEW top \in Nat, Cut(a, 1, top), NEW n \in 1..Len(a)
    PROVE  /\ EndBefore(a, n) \in Nat /\ a[n][1] = EndBefore(a, n) + 1 /\ EndBefore(a, n + 1) = a[n][2]
           /\ a[n][1] \in Nat /\ a[n][2] \in Nat /\ a[n][1] <= a[n][2] /\ a[n] = <<a[n][1], a[n][2]>>
           /\ Splitter!Size(a[n]) \in 1..bound /\ a[n][2] <= top /\ Len(a) \in Nat
<1> DEFINE m == Len(a)
<1>1. /\ m \in Nat
      /\ \A i \in 1..m : /\ a[i] \in Intervals /\ a[i][1] <= a[i][2]
                         /\ a[i][1] = IF i = 1 THEN 1 ELSE a[i - 1][2] + 1
                         /\ Splitter!Size(a[i]) <= bound
  BY SequenceShape DEF Cut, Tiles
<1>2. \A i \in 1..m : a[i][2] <= top
  <2>1. 1 \in Nat /\ Tiles(a, 1, top)
    BY DEF Cut
  <2> QED
    BY <2>1, TilesWithin
<1> HIDE DEF m
<1>3. n \in 1..m /\ (n # 1 => n - 1 \in 1..m) /\ n + 1 # 1 /\ (n + 1) - 1 = n /\ n \in Nat
  BY <1>1 DEF m
<1>4. a[n][1] \in Nat /\ a[n][2] \in Nat /\ a[n] = <<a[n][1], a[n][2]>> /\ (n # 1 => a[n - 1][2] \in Nat)
  BY <1>1, <1>3, IntervalParts
<1> QED
  BY <1>1, <1>2, <1>3, <1>4 DEF EndBefore, Splitter!Size, m

\* Neighbouring pieces joined are as long as both.
LEMMA SizeAdds ==
    ASSUME NEW x, NEW y, x[1] \in Nat, x[2] \in Nat, y[1] = x[2] + 1, y[2] \in Nat
    PROVE  Splitter!Size(<<x[1], y[2]>>) = Splitter!Size(x) + Splitter!Size(y)
BY DEF Splitter!Size

\* An atom becomes a piece of its own.
LEMMA PackedAppend ==
    ASSUME bound \in Nat \ {0}, NEW a, NEW top \in Nat, Cut(a, 1, top), NEW n \in 1..Len(a),
           NEW w, Packed(a, n, w),
           Len(w) # 0 => Splitter!Size(w[Len(w)]) + Splitter!Size(a[n]) > bound
    PROVE  Packed(a, n + 1, Append(w, a[n]))
<1> DEFINE x == a[n]  m == Len(w)  new == Append(w, x)  mid == EndBefore(a, n)
<1>1. /\ mid \in Nat /\ x[1] = mid + 1 /\ EndBefore(a, n + 1) = x[2] /\ x[2] \in Nat /\ x[1] <= x[2]
      /\ x = <<x[1], x[2]>> /\ Splitter!Size(x) \in 1..bound
  BY AtomPlace
<1>2. Cut(w, 1, mid) /\ (\A k \in 1..(n - 1) : Whole(a[k], w)) /\ Greedy(w)
  BY DEF Packed
<1>3. IsSequence(w) /\ m \in Nat
  BY <1>2, SequenceShape DEF Cut, Tiles
<1>4. Len(new) = m + 1 /\ new[m + 1] = x /\ \A i \in 1..m : new[i] = w[i]
  BY <1>3, Appended
<1> HIDE DEF x, mid, m
<1>5. Tiles(new, 1, x[2])
  <2>1. mid < x[2] /\ 1 \in Nat
    BY <1>1
  <2>2. Tiles(Append(w, <<mid + 1, x[2]>>), 1, x[2])
    BY <1>1, <1>2, <2>1, TilesAppend DEF Cut
  <2> QED
    BY <1>1, <2>2
<1> HIDE DEF new
<1>6. ASSUME NEW i \in 1..(m + 1) PROVE Splitter!Size(new[i]) <= bound
  <2>1. i \in 1..m \/ i = m + 1
    BY <1>3
  <2> QED
    BY <1>1, <1>2, <1>4, <2>1 DEF Cut, m
<1>7. ASSUME NEW k \in 1..((n + 1) - 1) PROVE Whole(a[k], new)
  <2>1. n \in Nat
    OBVIOUS
  <2>2. CASE k = n
    <3>1. m + 1 \in 1..Len(new) /\ Splitter!Inside(a[k], new[m + 1])
      BY <1>1, <1>3, <1>4, <2>2 DEF Splitter!Inside, x
    <3> QED
      BY <3>1 DEF Whole
  <2>3. CASE k # n
    <3>1. k \in 1..(n - 1)
      BY <2>1, <2>3
    <3>2. PICK j \in 1..m : Splitter!Inside(a[k], w[j])
      BY <1>2, <3>1 DEF Whole, m
    <3>3. j \in 1..Len(new) /\ new[j] = w[j]
      BY <1>3, <1>4
    <3> QED
      BY <3>2, <3>3 DEF Whole
  <2> QED
    BY <2>2, <2>3
<1>8. ASSUME NEW i \in 1..(Len(new) - 1)
      PROVE  Splitter!Size(new[i]) + Splitter!Size(new[i + 1]) > bound
  <2>1. i \in 1..m /\ (i + 1 \in 1..m \/ i = m)
    BY <1>3, <1>4
  <2>2. CASE i = m
    BY <1>3, <1>4, <2>1, <2>2 DEF x, m
  <2>3. CASE i + 1 \in 1..m
    <3>1. i \in 1..(m - 1)
      BY <1>3, <2>1, <2>3
    <3> QED
      BY <1>2, <1>4, <2>1, <2>3, <3>1 DEF Greedy, m
  <2> QED
    BY <2>1, <2>2, <2>3
<1> QED
  BY <1>1, <1>4, <1>5, <1>6, <1>7, <1>8 DEF Packed, Cut, Greedy, new, x

\* An atom joins the last piece.
LEMMA PackedExtend ==
    ASSUME bound \in Nat \ {0}, NEW a, NEW top \in Nat, Cut(a, 1, top), NEW n \in 1..Len(a),
           NEW p, IsSequence(p), NEW x, Packed(a, n, Append(p, x)),
           Splitter!Size(x) + Splitter!Size(a[n]) <= bound
    PROVE  Packed(a, n + 1, Append(p, <<x[1], a[n][2]>>))
<1> DEFINE w == Append(p, x)  m == Len(p)  y == <<x[1], a[n][2]>>  new == Append(p, y)
           mid == EndBefore(a, n)
<1>1. /\ mid \in Nat /\ a[n][1] = mid + 1 /\ EndBefore(a, n + 1) = a[n][2] /\ a[n][2] \in Nat
      /\ a[n][1] <= a[n][2] /\ Splitter!Size(a[n]) \in 1..bound
  BY AtomPlace
<1>2. Cut(w, 1, mid) /\ (\A k \in 1..(n - 1) : Whole(a[k], w)) /\ Greedy(w)
  BY DEF Packed
<1>3. /\ m \in Nat /\ IsSequence(w) /\ Len(w) = m + 1 /\ w[m + 1] = x /\ \A i \in 1..m : w[i] = p[i]
      /\ IsSequence(new) /\ Len(new) = m + 1 /\ new[m + 1] = y /\ \A i \in 1..m : new[i] = p[i]
  BY Appended, SequenceShape
<1>4. /\ x[1] \in Nat \ {0} /\ x[2] = mid /\ x[1] <= x[2]
      /\ x[1] = IF m = 0 THEN 1 ELSE p[m][2] + 1
      /\ \A i \in 1..m : /\ p[i] \in Intervals /\ p[i][1] <= p[i][2]
                         /\ p[i][1] = IF i = 1 THEN 1 ELSE p[i - 1][2] + 1
                         /\ Splitter!Size(p[i]) <= bound
  <2>1. /\ \A i \in 1..(m + 1) : /\ w[i] \in Intervals /\ w[i][1] <= w[i][2]
                                 /\ w[i][1] = IF i = 1 THEN 1 ELSE w[i - 1][2] + 1
                                 /\ Splitter!Size(w[i]) <= bound
        /\ w[m + 1][2] = mid
    BY <1>2, <1>3 DEF Cut, Tiles
  <2>2. m + 1 \in 1..(m + 1) /\ (m # 0 => m \in 1..m /\ m + 1 # 1 /\ (m + 1) - 1 = m)
        /\ \A i \in 1..m : i \in 1..(m + 1) /\ (i # 1 => i - 1 \in 1..m)
    BY <1>3
  <2>3. 1 <= w[m + 1][1]
    <3>1. 1 \in Nat /\ Tiles(w, 1, mid)
      BY <1>2 DEF Cut
    <3> HIDE DEF w, m, mid
    <3>2. \A i \in 1..Len(w) : 1 <= w[i][1]
      BY <1>1, <3>1, TilesWithin
    <3> QED
      BY <1>3, <2>2, <3>2
  <2> HIDE DEF w, m, mid, new
  <2>4. x[1] \in Nat \ {0} /\ x[2] = mid /\ x[1] <= x[2] /\ x[1] = IF m = 0 THEN 1 ELSE p[m][2] + 1
    BY <1>3, <2>1, <2>2, <2>3, IntervalParts
  <2>5. ASSUME NEW i \in 1..m
        PROVE  /\ p[i] \in Intervals /\ p[i][1] <= p[i][2]
               /\ p[i][1] = IF i = 1 THEN 1 ELSE p[i - 1][2] + 1
               /\ Splitter!Size(p[i]) <= bound
    BY <1>3, <2>1, <2>2
  <2> QED
    BY <2>4, <2>5
<1>5. Splitter!Size(y) = Splitter!Size(x) + Splitter!Size(a[n])
  <2>1. a[n][1] = x[2] + 1 /\ x[1] \in Nat /\ x[2] \in Nat
    BY <1>1, <1>4
  <2> QED
    BY <1>1, <2>1, SizeAdds
<1>6. y \in Intervals /\ y[1] = x[1] /\ y[2] = a[n][2] /\ y[1] <= y[2]
  BY <1>1, <1>4 DEF Intervals
<1>7. n \in Nat
  OBVIOUS
<1> HIDE DEF w, m, new, y, mid
<1>8. ASSUME NEW i \in 1..(m + 1)
      PROVE  /\ new[i] \in Intervals /\ new[i][1] <= new[i][2] /\ Splitter!Size(new[i]) <= bound
             /\ new[i][1] = IF i = 1 THEN 1 ELSE new[i - 1][2] + 1
  <2>1. (i \in 1..m \/ i = m + 1) /\ (i # 1 => i - 1 \in 1..m) /\ (i = m + 1 /\ i # 1 => i - 1 = m)
        /\ (i = m + 1 => (i = 1 <=> m = 0))
    BY <1>3
  <2> QED
    BY <1>3, <1>4, <1>5, <1>6, <2>1
<1>9. Cut(new, 1, a[n][2])
  <2>1. Len(new) # 0 /\ new[Len(new)][2] = a[n][2]
    BY <1>3, <1>6
  <2> QED
    BY <1>3, <1>8, <2>1 DEF Cut, Tiles
<1>10. ASSUME NEW k \in 1..((n + 1) - 1) PROVE Whole(a[k], new)
  <2>1. k = n \/ k \in 1..(n - 1)
    BY <1>7
  <2>2. m + 1 \in 1..Len(new)
    BY <1>3
  <2>3. CASE k = n
    <3>1. Splitter!Inside(a[k], new[m + 1])
      BY <1>1, <1>3, <1>4, <1>6, <2>3 DEF Splitter!Inside
    <3> QED
      BY <2>2, <3>1 DEF Whole
  <2>4. CASE k \in 1..(n - 1)
    <3>1. PICK j \in 1..(m + 1) : Splitter!Inside(a[k], w[j])
      BY <1>2, <1>3, <2>4 DEF Whole
    <3>2. j \in 1..m \/ j = m + 1
      BY <1>3
    <3>3. CASE j = m + 1
      <4>1. a[k][2] \in Nat
        <5>1. k \in 1..Len(a)
          <6>1. Len(a) \in Nat
            BY AtomPlace
          <6> QED
            BY <1>7, <2>4, <6>1
        <5> QED
          BY <5>1, AtomPlace
      <4>2. Splitter!Inside(a[k], new[m + 1])
        BY <1>1, <1>3, <1>4, <1>6, <3>1, <3>3, <4>1 DEF Splitter!Inside
      <4> QED
        BY <2>2, <4>2 DEF Whole
    <3>4. CASE j \in 1..m
      <4>1. j \in 1..Len(new) /\ new[j] = w[j]
        BY <1>3, <3>4
      <4> QED
        BY <3>1, <4>1 DEF Whole
    <3> QED
      BY <3>2, <3>3, <3>4
  <2> QED
    BY <2>1, <2>3, <2>4
<1>11. ASSUME NEW i \in 1..(Len(new) - 1)
       PROVE  Splitter!Size(new[i]) + Splitter!Size(new[i + 1]) > bound
  <2>1. i \in 1..m /\ (i + 1 \in 1..m \/ i = m) /\ i \in 1..(Len(w) - 1)
    BY <1>3
  <2>2. Splitter!Size(w[i]) + Splitter!Size(w[i + 1]) > bound
    BY <1>2, <2>1 DEF Greedy
  <2>3. Splitter!Size(w[i]) \in Int /\ Splitter!Size(x) \in Int
    <3>1. w[i] = p[i] /\ p[i] \in Intervals /\ x[1] \in Nat /\ x[2] \in Nat
      BY <1>1, <1>3, <1>4, <2>1
    <3>2. p[i][1] \in Nat /\ p[i][2] \in Nat
      BY <3>1, IntervalParts
    <3>3. Splitter!Size(p[i]) \in Int
      BY <3>2 DEF Splitter!Size
    <3>4. Splitter!Size(x) \in Int
      BY <3>1 DEF Splitter!Size
    <3> QED
      BY <3>1, <3>3, <3>4
  <2>4. Splitter!Size(x) <= Splitter!Size(y)
    BY <1>1, <1>5, <2>3
  <2>5. Splitter!Size(y) \in Int
    BY <1>1, <1>5, <2>3
  <2>6. CASE i = m
    <3>1. new[i] = w[i] /\ w[i + 1] = x /\ new[i + 1] = y
      BY <1>3, <2>1, <2>6
    <3> QED
      BY <2>2, <2>3, <2>4, <2>5, <3>1
  <2>7. CASE i + 1 \in 1..m
    <3>1. new[i] = w[i] /\ w[i + 1] = new[i + 1]
      BY <1>3, <2>1, <2>7
    <3> QED
      BY <2>2, <3>1
  <2> QED
    BY <2>1, <2>6, <2>7
<1> QED
  BY <1>1, <1>9, <1>10, <1>11 DEF Packed, Greedy, new, y

----------------------------------------------------------------------------
(* Paragraphs and lines that fit.                                          *)

Paragraph(t, i, j) ==
    /\ \A n \in i..j : ~t[n].blank
    /\ i = 1 \/ t[i - 1].blank
    /\ j = Len(t) \/ t[j + 1].blank

BlankEnd(t, j) ==
    CHOOSE e \in j..Len(t) :
        /\ \A n \in (j + 1)..e : t[n].blank
        /\ e = Len(t) \/ ~t[e + 1].blank

\* What fits is inside one of the pieces p.
Natural(t, p) ==
    /\ \A i \in 1..Len(t) : \A j \in i..Len(t) :
          Paragraph(t, i, j) /\ Splitter!Size(Splitter!Span(t, i, BlankEnd(t, j))) <= bound =>
              Whole(Splitter!Span(t, i, BlankEnd(t, j)), p)
    /\ \A i \in 1..Len(t) : t[i].length <= bound => Whole(Splitter!Span(t, i, i), p)

\* A paragraph and the blank lines after it are a unit.
LEMMA ParagraphIsUnit ==
    ASSUME NEW t, Lined(t), NEW i \in 1..Len(t), NEW j \in i..Len(t), Paragraph(t, i, j)
    PROVE  /\ BlankEnd(t, j) \in j..Len(t)
           /\ \E k \in 1..Len(Splitter!Units(t)) : Splitter!Units(t)[k] = <<i, BlankEnd(t, j)>>
<1> DEFINE units == Splitter!Units(t)  m == Len(units)  n == Len(t)
<1>1. n \in Nat /\ DOMAIN t = 1..n
  BY SequenceShape DEF Lined
<1>2. UnitsOf(t, units, n)
  BY UnitsAreParagraphs
<1>3. Tiles(units, 1, n)
  BY <1>2 DEF UnitsOf
<1>4. /\ m \in Nat
      /\ \A k \in 1..m : /\ units[k] \in Intervals /\ units[k][1] <= units[k][2]
                         /\ units[k][1] = IF k = 1 THEN 1 ELSE units[k - 1][2] + 1
      /\ m # 0 => units[m][2] = n
      /\ \A k \in 1..m : IsUnit(t, units[k])
      /\ \A k \in 2..m : ~t[units[k][1]].blank /\ t[units[k - 1][2]].blank
  BY <1>2, <1>3, SequenceShape DEF UnitsOf, Tiles
<1>5. \A k \in 1..m : 1 <= units[k][1] /\ units[k][2] <= n
  <2>1. 1 \in Nat
    OBVIOUS
  <2> HIDE DEF units, n
  <2> QED
    BY <1>1, <1>3, <2>1, TilesWithin
<1>6. PICK k \in 1..m : units[k][1] <= i /\ i <= units[k][2]
  <2>1. 1 \in Nat
    OBVIOUS
  <2> HIDE DEF units
  <2> QED
    BY <1>1, <1>3, <2>1, TilesCover
<1> DEFINE u == units[k]
<1>7. u[1] \in Nat \ {0} /\ u[2] \in Nat /\ u = <<u[1], u[2]>> /\ u[2] <= n
  BY <1>4, <1>5, IntervalParts
<1>8. PICK b \in (u[1] - 1)..u[2] :
         (\A x \in u[1]..b : ~t[x].blank) /\ (\A x \in (b + 1)..u[2] : t[x].blank)
  BY <1>4 DEF IsUnit
<1>9. /\ u[2] = n \/ (k + 1 \in 2..m /\ units[k + 1][1] = u[2] + 1)
      /\ u[2] # n => t[u[2]].blank /\ ~t[u[2] + 1].blank
  <2>1. u[2] # n => k + 1 \in 2..m /\ (k + 1) - 1 = k /\ k + 1 \in 1..m /\ k + 1 # 1
    BY <1>4
  <2> QED
    BY <1>4, <2>1
<1> HIDE DEF u, units, m, n
<1>10. /\ i \in Nat \ {0} /\ j \in Nat /\ i <= j /\ j <= n /\ b \in Int /\ u[1] - 1 <= b /\ b <= u[2]
       /\ u[1] <= i /\ i <= u[2]
  BY <1>1, <1>6, <1>7, <1>8 DEF n, u
<1>11. /\ \A x \in i..j : ~t[x].blank
       /\ i = 1 \/ t[i - 1].blank
       /\ j = n \/ t[j + 1].blank
  BY DEF Paragraph, n
<1>12. i <= b
  <2> SUFFICES ASSUME b < i PROVE FALSE
    BY <1>10
  <2>1. i \in (b + 1)..u[2] /\ i \in i..j
    BY <1>7, <1>10
  <2> QED
    BY <1>8, <1>11, <2>1
<1>13. i = u[1]
  <2> SUFFICES ASSUME u[1] < i PROVE FALSE
    BY <1>7, <1>10
  <2>1. i # 1 /\ i - 1 \in u[1]..b
    BY <1>7, <1>10, <1>12
  <2> QED
    BY <1>8, <1>11, <2>1
<1>14. j <= b
  <2> SUFFICES ASSUME b < j PROVE FALSE
    BY <1>10
  <2>1. CASE b < u[2]
    <3>1. b + 1 \in (b + 1)..u[2] /\ b + 1 \in i..j
      BY <1>7, <1>10, <1>12, <2>1
    <3> QED
      BY <1>8, <1>11, <3>1
  <2>2. CASE b = u[2]
    <3>1. u[2] # n /\ u[2] \in i..j
      BY <1>7, <1>10, <1>12, <2>2, <1>1
    <3> QED
      BY <1>9, <1>11, <3>1
  <2> QED
    BY <1>7, <1>10, <2>1, <2>2
<1>15. b <= j
  <2> SUFFICES ASSUME j < b PROVE FALSE
    BY <1>10
  <2>1. j # n /\ j + 1 \in u[1]..b
    BY <1>1, <1>7, <1>10, <1>13
  <2> QED
    BY <1>8, <1>11, <2>1
<1>16. b = j /\ u[2] \in j..n
  BY <1>1, <1>7, <1>10, <1>14, <1>15
<1> DEFINE Ends(e) == (\A x \in (j + 1)..e : t[x].blank) /\ (e = n \/ ~t[e + 1].blank)
<1>17. Ends(u[2])
  BY <1>8, <1>9, <1>16
<1>18. ASSUME NEW e \in j..n, Ends(e) PROVE e = u[2]
  <2>1. e \in Nat /\ j <= e /\ e <= n
    BY <1>1, <1>10
  <2>2. ~(e < u[2])
    <3> SUFFICES ASSUME e < u[2] PROVE FALSE
      OBVIOUS
    <3>1. e # n /\ e + 1 \in (b + 1)..u[2]
      BY <1>1, <1>7, <1>10, <1>16, <2>1
    <3> QED
      BY <1>8, <1>18, <3>1
  <2>3. ~(u[2] < e)
    <3> SUFFICES ASSUME u[2] < e PROVE FALSE
      OBVIOUS
    <3>1. u[2] # n /\ u[2] + 1 \in (j + 1)..e
      BY <1>1, <1>7, <1>10, <1>16, <2>1
    <3> QED
      BY <1>9, <1>18, <3>1
  <2> QED
    BY <1>7, <2>1, <2>2, <2>3
<1>19. BlankEnd(t, j) = CHOOSE e \in j..n : Ends(e)
  BY DEF BlankEnd, n
<1>20. BlankEnd(t, j) = u[2]
  <2> HIDE DEF Ends
  <2> QED
    BY <1>16, <1>17, <1>18, <1>19
<1>21. units[k] = <<i, BlankEnd(t, j)>>
  BY <1>7, <1>13, <1>20 DEF u
<1> QED
  BY <1>16, <1>20, <1>21 DEF units, m, n

\* No paragraph and no line that fits is split into atoms.
LEMMA AtomsAreNatural ==
    ASSUME bound \in Nat \ {0}, NEW t, IsText(t)
    PROVE  Natural(t, Splitter!AtomsForUnits(t))
<1> DEFINE a == Splitter!AtomsForUnits(t)
<1>1. /\ \A k \in 1..Len(Splitter!Units(t)) :
            LET u == Splitter!Units(t)[k]
            IN  Splitter!Size(Splitter!Span(t, u[1], u[2])) <= bound =>
                   Whole(Splitter!Span(t, u[1], u[2]), a)
      /\ \A i \in 1..Len(t) : t[i].length <= bound => Whole(Splitter!Span(t, i, i), a)
  BY AtomsCutText
<1> HIDE DEF a
<1>2. ASSUME NEW i \in 1..Len(t), NEW j \in i..Len(t), Paragraph(t, i, j),
             Splitter!Size(Splitter!Span(t, i, BlankEnd(t, j))) <= bound
      PROVE  Whole(Splitter!Span(t, i, BlankEnd(t, j)), a)
  <2>1. Lined(t)
    BY Totals
  <2>2. PICK k \in 1..Len(Splitter!Units(t)) : Splitter!Units(t)[k] = <<i, BlankEnd(t, j)>>
    BY <1>2, <2>1, ParagraphIsUnit
  <2> DEFINE e == BlankEnd(t, j)  u == Splitter!Units(t)[k]
  <2>3. u[1] = i /\ u[2] = e
    BY <2>2
  <2>4. Splitter!Size(Splitter!Span(t, u[1], u[2])) <= bound => Whole(Splitter!Span(t, u[1], u[2]), a)
    BY <1>1
  <2> HIDE DEF e, u
  <2> QED
    BY <1>2, <2>3, <2>4 DEF e
<1> QED
  BY <1>1, <1>2 DEF Natural, a

\* Pieces that hold the pieces a hold what was natural in a.
LEMMA NaturalStays ==
    ASSUME NEW t, IsText(t), NEW a, NEW w, NEW top \in Nat, NEW end \in Nat,
           Cut(a, 1, top), Cut(w, 1, end),
           Natural(t, a), \A k \in 1..Len(a) : Whole(a[k], w)
    PROVE  Natural(t, w)
<1>1. 1 \in Nat /\ Tiles(a, 1, top) /\ Tiles(w, 1, end)
  BY DEF Cut
<1>2. /\ \A k \in 1..Len(a) : a[k] \in Intervals
      /\ \A k \in 1..Len(w) : w[k] \in Intervals
  BY <1>1 DEF Tiles
<1>3. ASSUME NEW x \in Intervals, Whole(x, a) PROVE Whole(x, w)
  <2>1. PICK k \in 1..Len(a) : Splitter!Inside(x, a[k])
    BY <1>3 DEF Whole
  <2>2. PICK j \in 1..Len(w) : Splitter!Inside(a[k], w[j])
    BY DEF Whole
  <2>3. /\ x[1] \in Nat /\ x[2] \in Nat /\ a[k][1] \in Nat /\ a[k][2] \in Nat
        /\ w[j][1] \in Nat /\ w[j][2] \in Nat
    BY <1>2, IntervalParts
  <2>4. Splitter!Inside(x, w[j])
    BY <2>1, <2>2, <2>3 DEF Splitter!Inside
  <2> QED
    BY <2>4 DEF Whole
<1>4. ASSUME NEW i \in 1..Len(t), NEW j \in i..Len(t)
      PROVE  Splitter!Span(t, i, j) \in Intervals
  BY Spans
<1>5. ASSUME NEW i \in 1..Len(t), NEW j \in i..Len(t), Paragraph(t, i, j),
             Splitter!Size(Splitter!Span(t, i, BlankEnd(t, j))) <= bound
      PROVE  Whole(Splitter!Span(t, i, BlankEnd(t, j)), w)
  <2>1. Lined(t) /\ Len(t) \in Nat
    BY Totals
  <2>2. BlankEnd(t, j) \in j..Len(t)
    BY <1>5, <2>1, ParagraphIsUnit
  <2>3. BlankEnd(t, j) \in i..Len(t)
    BY <2>1, <2>2
  <2> QED
    BY <1>3, <1>4, <1>5, <2>3 DEF Natural
<1>6. ASSUME NEW i \in 1..Len(t), t[i].length <= bound
      PROVE  Whole(Splitter!Span(t, i, i), w)
  <2>1. i \in i..Len(t)
    BY Totals
  <2> QED
    BY <1>3, <1>4, <1>6, <2>1 DEF Natural
<1> QED
  BY <1>5, <1>6 DEF Natural
=============================================================================
