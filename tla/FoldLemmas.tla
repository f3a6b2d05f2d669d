------------------------------ MODULE FoldLemmas ------------------------------
(***************************************************************************)
(* Induction for the provers, and folds.                                   *)
(*                                                                         *)
(* The library states induction for a predicate that the provers would     *)
(* have to find.  Here it is stated for a set: RangeInduction follows from *)
(* the library's fact that strict inclusion is well-founded on finite      *)
(* sets, which mentions no predicate.                                      *)
(*                                                                         *)
(* FoldLeft of SequencesExt chooses a function on the sets of indices that *)
(* satisfies an equation.  FoldExists says that there is one; a fold over  *)
(* q then takes the step of its operator from 1..(k-1) to 1..k.            *)
(***************************************************************************)
EXTENDS Lists, FiniteSetsExt, Functions, FiniteSetTheorems, TLAPS

\* A set of finite sets has a smallest one.
LEMMA SmallestSet ==
    ASSUME NEW S, NEW T \in SUBSET FiniteSubsetsOf(S), T # {}
    PROVE  \E m \in T : \A U \in T : ~(U \subseteq m /\ U # m)
<1>1. PICK m \in T : \A U \in T : ~(<<U, m>> \in StrictSubsetOrdering(S))
  BY FS_StrictSubsetOrderingWellFounded, WFMin
<1>2. ASSUME NEW U \in T, U \subseteq m, U # m PROVE FALSE
  BY <1>1, <1>2 DEF StrictSubsetOrdering, FiniteSubsetsOf
<1> QED  BY <1>2

\* Induction up to n, for the numbers in a set T.
LEMMA RangeInduction ==
    ASSUME NEW n \in Nat, NEW T, 0 \in T, \A k \in 1..n : k - 1 \in T => k \in T
    PROVE  n \in T
<1> SUFFICES ASSUME n \notin T PROVE FALSE  OBVIOUS
<1> DEFINE Bad == {1..k : k \in {j \in 0..n : j \notin T}}
<1>1. Bad \in SUBSET FiniteSubsetsOf(1..n)
  <2>1. ASSUME NEW k \in 0..n PROVE 1..k \subseteq 1..n /\ IsFiniteSet(1..k)
    BY FS_Interval
  <2>2. ASSUME NEW k \in 0..n PROVE 1..k \in FiniteSubsetsOf(1..n)
    BY <2>1 DEF FiniteSubsetsOf
  <2> QED  BY <2>2
<1>2. Bad # {}  BY n \in 0..n
<1>3. PICK m \in Bad : \A U \in Bad : ~(U \subseteq m /\ U # m)
  <2> HIDE DEF Bad
  <2> QED  BY <1>1, <1>2, SmallestSet
<1>4. PICK k \in 0..n : k \notin T /\ m = 1..k  OBVIOUS
<1>5. k \in 1..n  BY <1>4
<1>6. 1..(k - 1) \in Bad  BY <1>4, <1>5
<1>7. 1..(k - 1) \subseteq 1..k /\ 1..(k - 1) # 1..k  BY <1>5
<1> QED  BY <1>3, <1>4, <1>6, <1>7

\* Max finds the greatest index.
LEMMA MaxIsGreatest ==
    ASSUME NEW n \in Nat, NEW s \in SUBSET (1..n), s # {}
    PROVE  Max(s) \in s /\ \A y \in s : Max(s) >= y
<1> DEFINE T == {k \in 0..n : \A i \in s : i <= k =>
                                \E x \in s : x <= k /\ \A y \in s : y <= k => x >= y}
<1>1. 0 \in T  OBVIOUS
<1>2. \A k \in 1..n : k - 1 \in T => k \in T
  <2> SUFFICES ASSUME NEW k \in 1..n, k - 1 \in T, NEW i \in s, i <= k
               PROVE  \E x \in s : x <= k /\ \A y \in s : y <= k => x >= y
    OBVIOUS
  <2>1. CASE k \in s  BY <2>1
  <2>2. CASE k \notin s  BY <2>2
  <2> QED  BY <2>1, <2>2
<1>3. n \in T
  <2> HIDE DEF T
  <2> QED  BY <1>1, <1>2, RangeInduction
<1>4. PICK i \in s : TRUE  OBVIOUS
<1>5. i <= n  OBVIOUS
<1>6. PICK x \in s : x <= n /\ \A y \in s : y <= n => x >= y  BY <1>3, <1>5
<1>7. \A y \in s : x >= y  BY <1>6
<1> QED  BY <1>7 DEF Max

\* iter satisfies the equation of the fold on the subsets of 1..k.
Solves(iter, k, base, G) ==
    \A s \in SUBSET (1..k) :
        iter[s] = IF s = {} THEN base ELSE G[<<iter[s \ {Max(s)}], Max(s)>>]

\* A solution for one index more: the new index is the greatest of its sets.
LEMMA SolutionGrows ==
    ASSUME NEW n \in Nat, NEW V, NEW base \in V, NEW G \in [V \X (1..n) -> V],
           NEW k \in 1..n,
           NEW old \in [SUBSET (1..(k - 1)) -> V], Solves(old, k - 1, base, G)
    PROVE  \E iter \in [SUBSET (1..k) -> V] : Solves(iter, k, base, G)
<1> DEFINE new == [s \in SUBSET (1..k) |->
                     IF k \in s THEN G[<<old[s \ {k}], k>>] ELSE old[s]]
<1>1. ASSUME NEW s \in SUBSET (1..k), k \in s
      PROVE  s \ {k} \in SUBSET (1..(k - 1)) /\ Max(s) = k
  <2>1. \A y \in s : y <= k  OBVIOUS
  <2>2. k \in Nat /\ s \in SUBSET (1..k) /\ s # {}  BY <1>1
  <2>3. Max(s) \in s /\ \A y \in s : Max(s) >= y  BY <2>2, MaxIsGreatest, Zenon
  <2>4. \A m \in s : (\A y \in s : m >= y) => m = k  BY <1>1, <2>1
  <2>5. Max(s) = k  BY <2>3, <2>4, Zenon
  <2>6. \A y \in s \ {k} : y \in 1..(k - 1)  OBVIOUS
  <2> QED  BY <2>5, <2>6
<1>2. ASSUME NEW s \in SUBSET (1..k), k \notin s PROVE s \in SUBSET (1..(k - 1))
  BY <1>2
<1>3. new \in [SUBSET (1..k) -> V]
  <2> SUFFICES ASSUME NEW s \in SUBSET (1..k)
               PROVE  (IF k \in s THEN G[<<old[s \ {k}], k>>] ELSE old[s]) \in V
    OBVIOUS
  <2>1. CASE k \in s
    <3>1. old[s \ {k}] \in V  BY <2>1, <1>1
    <3> QED  BY <2>1, <3>1
  <2>2. CASE k \notin s  BY <2>2, <1>2
  <2> QED  BY <2>1, <2>2
<1>4. ASSUME NEW s \in SUBSET (1..k)
      PROVE  new[s] = IF s = {} THEN base ELSE G[<<new[s \ {Max(s)}], Max(s)>>]
  <2>1. CASE k \in s
    <3>1. s # {} /\ Max(s) = k /\ s \ {k} \in SUBSET (1..k) /\ k \notin s \ {k}
      BY <2>1, <1>1
    <3>2. new[s \ {k}] = old[s \ {k}]  BY <3>1
    <3>3. new[s] = G[<<old[s \ {k}], k>>]  BY <2>1
    <3> HIDE DEF new
    <3> QED  BY <3>1, <3>2, <3>3
  <2>2. CASE k \notin s
    <3>1. s \in SUBSET (1..(k - 1))  BY <2>2, <1>2
    <3>2. new[s] = old[s]  BY <2>2
    <3>3. ASSUME NEW m PROVE new[s \ {m}] = old[s \ {m}]  BY <2>2
    <3> HIDE DEF new
    <3>4. new[s \ {Max(s)}] = old[s \ {Max(s)}]  BY <3>3
    <3> QED  BY <3>1, <3>2, <3>4 DEF Solves
  <2> QED  BY <2>1, <2>2
<1> HIDE DEF new
<1> QED  BY <1>3, <1>4 DEF Solves

\* The equation of a fold has a solution, whatever the step G and the set V in
\* which it stays.
LEMMA FoldExists ==
    ASSUME NEW n \in Nat, NEW V, NEW base \in V, NEW G \in [V \X (1..n) -> V]
    PROVE  \E iter \in [SUBSET (1..n) -> V] : Solves(iter, n, base, G)
<1> DEFINE Solvable(k) == \E iter \in [SUBSET (1..k) -> V] : Solves(iter, k, base, G)
           T == {k \in 0..n : Solvable(k)}
<1>1. Solvable(0)
  <2> DEFINE first == [s \in SUBSET (1..0) |-> base]
  <2>1. first \in [SUBSET (1..0) -> V]  OBVIOUS
  <2>2. Solves(first, 0, base, G)
    <3>1. \A s \in SUBSET (1..0) : s = {}  OBVIOUS
    <3> QED  BY <3>1 DEF Solves
  <2> HIDE DEF first
  <2> QED  BY <2>1, <2>2
<1>2. ASSUME NEW k \in 1..n, Solvable(k - 1) PROVE Solvable(k)
  BY <1>2, SolutionGrows
<1> HIDE DEF Solvable
<1>3. 0 \in T  BY <1>1
<1>4. \A k \in 1..n : k - 1 \in T => k \in T  BY <1>2
<1>5. n \in T
  <2> HIDE DEF T
  <2> QED  BY <1>3, <1>4, RangeInduction
<1> QED  BY <1>5 DEF Solvable

\* What turns a solution into the steps of the fold.
LEMMA MaxOfRange ==
    ASSUME NEW k \in Nat \ {0}
    PROVE  Max(1..k) = k /\ (1..k) \ {Max(1..k)} = 1..(k - 1) /\ 1..k # {}
<1>1. k \in Nat /\ 1..k \in SUBSET (1..k) /\ 1..k # {} /\ k \in 1..k  OBVIOUS
<1>2. Max(1..k) \in 1..k /\ \A y \in 1..k : Max(1..k) >= y
  BY <1>1, MaxIsGreatest, Zenon
<1> QED  BY <1>1, <1>2

\* it satisfies the equation on the sets 1..k, as far as it stays in V.
SolvesPrefixes(it, n, V, base, G) ==
    /\ it[{}] = base
    /\ \A k \in 1..n : it[1..(k - 1)] \in V => it[1..k] = G[<<it[1..(k - 1)], k>>]

\* F is it, as a function of k, and goes from k - 1 to k by G.
Steps(F, it, n, V, base, G) ==
    /\ F \in [0..n -> V]
    /\ F[0] = base
    /\ F[n] = it[1..n]
    /\ \A k \in 1..n : F[k] = G[<<F[k - 1], k>>]

\* The values of a fold on 1..k are those of a loop.
LEMMA PrefixSteps ==
    ASSUME NEW n \in Nat, NEW V, NEW base \in V, NEW G \in [V \X (1..n) -> V],
           NEW it, SolvesPrefixes(it, n, V, base, G)
    PROVE  \E F : Steps(F, it, n, V, base, G)
<1> USE DEF SolvesPrefixes
<1> DEFINE P == [k \in 0..n |-> it[1..k]]
<1>1. P[0] = base
  <2>1. 1..0 = {} /\ 0 \in 0..n  OBVIOUS
  <2> QED  BY <2>1
<1>2. ASSUME NEW m \in 0..n PROVE P[m] \in V
  <2> DEFINE T == {k \in 0..n : P[k] \in V}
  <2>1. 0 \in T  BY <1>1
  <2>0. \A k \in 1..n : P[k - 1] \in V => P[k] = G[<<P[k - 1], k>>]
    <3> SUFFICES ASSUME NEW k \in 1..n, P[k - 1] \in V PROVE P[k] = G[<<P[k - 1], k>>]
      OBVIOUS
    <3>1. k - 1 \in 0..n /\ k \in 0..n  OBVIOUS
    <3> QED  BY <3>1
  <2> HIDE DEF P
  <2>2. \A k \in 1..n : k - 1 \in T => k \in T
    <3> SUFFICES ASSUME NEW k \in 1..n, P[k - 1] \in V PROVE P[k] \in V
      OBVIOUS
    <3> QED  BY <2>0
  <2>3. m \in Nat /\ \A k \in 1..m : k - 1 \in T => k \in T
    <3> HIDE DEF T
    <3> QED  BY <2>2
  <2> HIDE DEF T
  <2>4. m \in T  BY <2>1, <2>3, RangeInduction
  <2> QED  BY <2>4 DEF T
<1>3. ASSUME NEW k \in 1..n PROVE P[k] = G[<<P[k - 1], k>>]
  <2>1. k - 1 \in 0..n /\ k \in 0..n  OBVIOUS
  <2> QED  BY <1>2, <2>1
<1>4. P \in [0..n -> V] /\ P[n] = it[1..n]  BY <1>2
<1>5. Steps(P, it, n, V, base, G)
  <2> HIDE DEF P
  <2> QED  BY <1>1, <1>3, <1>4 DEF Steps
<1> QED  BY <1>5

-----------------------------------------------------------------------------
(* Sums.                                                                   *)

\* F[k] is the sum of the first k elements of t.
Sums(F, t) ==
    /\ F \in [0..Len(t) -> Int]
    /\ F[0] = 0
    /\ \A k \in 1..Len(t) : F[k] = F[k - 1] + t[k]
    /\ F[Len(t)] = SumOf(t)

LEMMA SumSteps ==
    ASSUME NEW t \in Seq(Int)
    PROVE  \E F : Sums(F, t)
<1> DEFINE n == Len(t)
           G == [p \in Int \X (1..n) |-> p[1] + t[p[2]]]
           Folds(iter) == iter = [s \in SUBSET DOMAIN t |->
                             IF s = {} THEN 0 ELSE iter[s \ {Max(s)}] + t[Max(s)]]
           it == CHOOSE iter : Folds(iter)
<1>1. n \in Nat /\ DOMAIN t = 1..n  OBVIOUS
<1>2. SumOf(t) = it[DOMAIN t]
  BY DEF SumOf, FoldLeft, MapThenFoldSet
<1>3. G \in [Int \X (1..n) -> Int] /\ \A v \in Int, i \in 1..n : G[<<v, i>>] = v + t[i]
  OBVIOUS
<1> HIDE DEF G
<1>4. PICK iter \in [SUBSET (1..n) -> Int] : Solves(iter, n, 0, G)
  <2> DEFINE V == Int
  <2>1. 0 \in V /\ G \in [V \X (1..n) -> V]  BY <1>3
  <2> HIDE DEF V, n
  <2>2. \E iter \in [SUBSET (1..n) -> V] : Solves(iter, n, 0, G)
    BY <1>1, <2>1, FoldExists
  <2> QED  BY <2>2 DEF V
<1>5. ASSUME NEW s \in SUBSET (1..n), s # {}
      PROVE  iter[s \ {Max(s)}] \in Int /\ Max(s) \in 1..n
  BY <1>1, <1>5, MaxIsGreatest
<1>6. Folds(iter)
  <2>1. ASSUME NEW s \in SUBSET (1..n)
        PROVE  iter[s] = IF s = {} THEN 0 ELSE iter[s \ {Max(s)}] + t[Max(s)]
    BY <1>3, <1>4, <1>5 DEF Solves
  <2> QED  BY <1>1, <2>1
<1>7. Folds(it)  BY <1>6
<1> HIDE DEF it
<1>8. \A s \in SUBSET (1..n) :
         it[s] = IF s = {} THEN 0 ELSE it[s \ {Max(s)}] + t[Max(s)]
  BY <1>1, <1>7
<1> HIDE DEF Folds
<1>9. it[{}] = 0  BY <1>8
<1>10. ASSUME NEW k \in 1..n, it[1..(k - 1)] \in Int
       PROVE  it[1..k] = G[<<it[1..(k - 1)], k>>]
  <2>1. k \in Nat \ {0} /\ 1..k \in SUBSET (1..n)  BY <1>1
  <2>2. it[1..k] = it[1..(k - 1)] + t[k]  BY <1>8, <2>1, MaxOfRange
  <2> QED  BY <1>3, <1>10, <2>2
<1>11. PICK F : Steps(F, it, n, Int, 0, G)
  <2>1. SolvesPrefixes(it, n, Int, 0, G)  BY <1>9, <1>10 DEF SolvesPrefixes
  <2> HIDE DEF n
  <2>2. 0 \in Int  OBVIOUS
  <2> QED  BY <1>1, <1>3, <2>1, <2>2, PrefixSteps
<1>12. ASSUME NEW k \in 1..n PROVE F[k] = F[k - 1] + t[k]
  <2>1. k - 1 \in 0..n /\ F[k] = G[<<F[k - 1], k>>]  BY <1>1, <1>11 DEF Steps
  <2>2. F[k - 1] \in Int  BY <2>1, <1>11 DEF Steps
  <2> QED  BY <1>3, <2>1, <2>2
<1> QED  BY <1>1, <1>2, <1>11, <1>12 DEF Sums, Steps

\* F[k] is what a filter keeps of the first k elements of s.
Keeps(F, S, s, A) ==
    /\ F \in [0..Len(s) -> Seq(S)]
    /\ F[0] = <<>>
    /\ \A k \in 1..Len(s) : F[k] = (IF s[k] \in A THEN Append(F[k - 1], s[k]) ELSE F[k - 1])
    /\ F[Len(s)] = Keep(s, A)

LEMMA KeepSteps ==
    ASSUME NEW S, NEW s \in Seq(S), NEW A
    PROVE  \E F : Keeps(F, S, s, A)
<1> DEFINE n == Len(s)
           G == [p \in Seq(S) \X (1..n) |-> (IF s[p[2]] \in A THEN Append(p[1], s[p[2]]) ELSE p[1])]
           Folds(iter) == iter = [d \in SUBSET DOMAIN s |->
                             IF d = {} THEN <<>>
                             ELSE (IF s[Max(d)] \in A THEN Append(iter[d \ {Max(d)}], s[Max(d)]) ELSE iter[d \ {Max(d)}])]
           it == CHOOSE iter : Folds(iter)
<1>1. n \in Nat /\ DOMAIN s = 1..n  OBVIOUS
<1>2. Keep(s, A) = it[DOMAIN s]
  BY DEF Keep, FoldLeft, MapThenFoldSet
<1>3. /\ <<>> \in Seq(S)
      /\ G \in [Seq(S) \X (1..n) -> Seq(S)]
      /\ \A v \in Seq(S), i \in 1..n : G[<<v, i>>] = (IF s[i] \in A THEN Append(v, s[i]) ELSE v)
  OBVIOUS
<1> HIDE DEF G
<1>4. PICK iter \in [SUBSET (1..n) -> Seq(S)] : Solves(iter, n, <<>>, G)
  <2> HIDE DEF n
  <2> QED  BY <1>1, <1>3, FoldExists
<1>5. ASSUME NEW d \in SUBSET (1..n), d # {}
      PROVE  iter[d \ {Max(d)}] \in Seq(S) /\ Max(d) \in 1..n
  BY <1>1, <1>5, MaxIsGreatest
<1>6. Folds(iter)
  <2>1. ASSUME NEW d \in SUBSET (1..n)
        PROVE  iter[d] = IF d = {} THEN <<>>
                         ELSE (IF s[Max(d)] \in A THEN Append(iter[d \ {Max(d)}], s[Max(d)]) ELSE iter[d \ {Max(d)}])
    BY <1>3, <1>4, <1>5 DEF Solves
  <2> QED  BY <1>1, <2>1
<1>7. Folds(it)  BY <1>6
<1> HIDE DEF it
<1>8. \A d \in SUBSET (1..n) :
         it[d] = IF d = {} THEN <<>>
                 ELSE (IF s[Max(d)] \in A THEN Append(it[d \ {Max(d)}], s[Max(d)]) ELSE it[d \ {Max(d)}])
  BY <1>1, <1>7
<1> HIDE DEF Folds
<1>9. it[{}] = <<>>  BY <1>8
<1>10. ASSUME NEW k \in 1..n, it[1..(k - 1)] \in Seq(S)
       PROVE  it[1..k] = G[<<it[1..(k - 1)], k>>]
  <2>1. k \in Nat \ {0} /\ 1..k \in SUBSET (1..n)  BY <1>1
  <2>2. it[1..k] = (IF s[k] \in A THEN Append(it[1..(k - 1)], s[k]) ELSE it[1..(k - 1)])  BY <1>8, <2>1, MaxOfRange
  <2> QED  BY <1>3, <1>10, <2>2
<1>11. PICK F : Steps(F, it, n, Seq(S), <<>>, G)
  <2>1. SolvesPrefixes(it, n, Seq(S), <<>>, G)  BY <1>9, <1>10 DEF SolvesPrefixes
  <2> HIDE DEF n
  <2> QED  BY <1>1, <1>3, <2>1, PrefixSteps
<1>12. ASSUME NEW k \in 1..n PROVE F[k] = (IF s[k] \in A THEN Append(F[k - 1], s[k]) ELSE F[k - 1])
  <2>1. k - 1 \in 0..n /\ F[k] = G[<<F[k - 1], k>>]  BY <1>1, <1>11 DEF Steps
  <2>2. F[k - 1] \in Seq(S)  BY <2>1, <1>11 DEF Steps
  <2> QED  BY <1>3, <2>1, <2>2
<1> QED  BY <1>1, <1>2, <1>11, <1>12 DEF Keeps, Steps

\* F[k] is the highest of the first k figures.
Highs(F, S, figures) ==
    /\ F \in [0..Len(figures) -> S]
    /\ F[0] = None
    /\ \A k \in 1..Len(figures) : F[k] = (IF Less(F[k - 1].pct, figures[k].pct) THEN figures[k] ELSE F[k - 1])
    /\ F[Len(figures)] = Highest(figures)

LEMMA HighSteps ==
    ASSUME NEW S, NEW figures \in Seq(S), None \in S
    PROVE  \E F : Highs(F, S, figures)
<1> DEFINE n == Len(figures)
           G == [p \in S \X (1..n) |-> (IF Less(p[1].pct, figures[p[2]].pct) THEN figures[p[2]] ELSE p[1])]
           Folds(iter) == iter = [d \in SUBSET DOMAIN figures |->
                             IF d = {} THEN None
                             ELSE (IF Less(iter[d \ {Max(d)}].pct, figures[Max(d)].pct) THEN figures[Max(d)] ELSE iter[d \ {Max(d)}])]
           it == CHOOSE iter : Folds(iter)
<1>1. n \in Nat /\ DOMAIN figures = 1..n  OBVIOUS
<1>2. Highest(figures) = it[DOMAIN figures]
  BY DEF Highest, FoldLeft, MapThenFoldSet
<1>3. /\ None \in S
      /\ G \in [S \X (1..n) -> S]
      /\ \A v \in S, i \in 1..n : G[<<v, i>>] = (IF Less(v.pct, figures[i].pct) THEN figures[i] ELSE v)
  OBVIOUS
<1> HIDE DEF G
<1>4. PICK iter \in [SUBSET (1..n) -> S] : Solves(iter, n, None, G)
  <2> HIDE DEF n
  <2> QED  BY <1>1, <1>3, FoldExists
<1>5. ASSUME NEW d \in SUBSET (1..n), d # {}
      PROVE  iter[d \ {Max(d)}] \in S /\ Max(d) \in 1..n
  BY <1>1, <1>5, MaxIsGreatest
<1>6. Folds(iter)
  <2>1. ASSUME NEW d \in SUBSET (1..n)
        PROVE  iter[d] = IF d = {} THEN None
                         ELSE (IF Less(iter[d \ {Max(d)}].pct, figures[Max(d)].pct) THEN figures[Max(d)] ELSE iter[d \ {Max(d)}])
    BY <1>3, <1>4, <1>5 DEF Solves
  <2> QED  BY <1>1, <2>1
<1>7. Folds(it)  BY <1>6
<1> HIDE DEF it
<1>8. \A d \in SUBSET (1..n) :
         it[d] = IF d = {} THEN None
                 ELSE (IF Less(it[d \ {Max(d)}].pct, figures[Max(d)].pct) THEN figures[Max(d)] ELSE it[d \ {Max(d)}])
  BY <1>1, <1>7
<1> HIDE DEF Folds
<1>9. it[{}] = None  BY <1>8
<1>10. ASSUME NEW k \in 1..n, it[1..(k - 1)] \in S
       PROVE  it[1..k] = G[<<it[1..(k - 1)], k>>]
  <2>1. k \in Nat \ {0} /\ 1..k \in SUBSET (1..n)  BY <1>1
  <2>2. it[1..k] = (IF Less(it[1..(k - 1)].pct, figures[k].pct) THEN figures[k] ELSE it[1..(k - 1)])  BY <1>8, <2>1, MaxOfRange
  <2> QED  BY <1>3, <1>10, <2>2
<1>11. PICK F : Steps(F, it, n, S, None, G)
  <2>1. SolvesPrefixes(it, n, S, None, G)  BY <1>9, <1>10 DEF SolvesPrefixes
  <2> HIDE DEF n
  <2> QED  BY <1>1, <1>3, <2>1, PrefixSteps
<1>12. ASSUME NEW k \in 1..n PROVE F[k] = (IF Less(F[k - 1].pct, figures[k].pct) THEN figures[k] ELSE F[k - 1])
  <2>1. k - 1 \in 0..n /\ F[k] = G[<<F[k - 1], k>>]  BY <1>1, <1>11 DEF Steps
  <2>2. F[k - 1] \in S  BY <2>1, <1>11 DEF Steps
  <2> QED  BY <1>3, <2>1, <2>2
<1> QED  BY <1>1, <1>2, <1>11, <1>12 DEF Highs, Steps

-----------------------------------------------------------------------------
(* What sums are worth.                                                    *)

LEMMA SumStep ==
    ASSUME NEW t \in Seq(Int), NEW F, Sums(F, t), NEW k \in 1..Len(t)
    PROVE  F[k - 1] \in Int /\ F[k] \in Int /\ t[k] \in Int /\ F[k] = F[k - 1] + t[k]
<1>1. Len(t) \in Nat /\ t[k] \in Int  OBVIOUS
<1>2. k - 1 \in 0..Len(t) /\ k \in 0..Len(t)  BY <1>1
<1> QED  BY <1>1, <1>2 DEF Sums

LEMMA SumIsInt ==
    ASSUME NEW t \in Seq(Int)
    PROVE  SumOf(t) \in Int
<1>1. PICK F : Sums(F, t)  BY SumSteps
<1> QED  BY <1>1 DEF Sums

\* Terms that are at most c times as large have a sum that is.
LEMMA SumLeq ==
    ASSUME NEW t \in Seq(Int), NEW u \in Seq(Int), Len(t) = Len(u), NEW c \in Int,
           \A i \in 1..Len(t) : t[i] <= c * u[i]
    PROVE  SumOf(t) <= c * SumOf(u)
<1>1. PICK F : Sums(F, t)  BY SumSteps
<1>2. PICK G : Sums(G, u)  BY SumSteps
<1> DEFINE n == Len(t)
           T == {k \in 0..n : F[k] <= c * G[k]}
<1>3. n \in Nat  OBVIOUS
<1>4. 0 \in T  BY <1>1, <1>2 DEF Sums
<1>5. ASSUME NEW k \in 1..n, k - 1 \in T PROVE k \in T
  <2>1. F[k - 1] \in Int /\ G[k - 1] \in Int /\ t[k] \in Int /\ u[k] \in Int
    BY <1>1, <1>2, SumStep
  <2>2. F[k] = F[k - 1] + t[k] /\ G[k] = G[k - 1] + u[k]  BY <1>1, <1>2, SumStep
  <2>3. F[k - 1] <= c * G[k - 1] /\ t[k] <= c * u[k]  BY <1>5
  <2>4. c * (G[k - 1] + u[k]) = c * G[k - 1] + c * u[k]  BY <2>1
  <2>5. c * G[k - 1] \in Int /\ c * u[k] \in Int  BY <2>1
  <2>6. F[k] <= c * G[k]
    <3> DEFINE p == c * G[k - 1]
               q == c * u[k]
    <3>1. F[k - 1] <= p /\ t[k] <= q /\ p \in Int /\ q \in Int  BY <2>3, <2>5
    <3>2. c * G[k] = p + q  BY <2>2, <2>4
    <3> HIDE DEF p, q
    <3> QED  BY <2>1, <2>2, <3>1, <3>2
  <2> QED  BY <2>6
<1>6. n \in T
  <2> HIDE DEF T, n
  <2> QED  BY <1>3, <1>4, <1>5, RangeInduction
<1> QED  BY <1>1, <1>2, <1>6 DEF Sums

\* The mean lies between bounds of the terms.
LEMMA SumBounds ==
    ASSUME NEW t \in Seq(Int), NEW c \in Int
    PROVE  /\ (\A i \in 1..Len(t) : t[i] <= c) => SumOf(t) <= c * Len(t)
           /\ (\A i \in 1..Len(t) : c <= t[i]) => c * Len(t) <= SumOf(t)
<1>1. PICK F : Sums(F, t)  BY SumSteps
<1> DEFINE n == Len(t)
<1>2. n \in Nat  OBVIOUS
<1>3. ASSUME NEW k \in 1..n
      PROVE  /\ F[k - 1] \in Int /\ t[k] \in Int /\ F[k] = F[k - 1] + t[k]
             /\ c * k = c * (k - 1) + c
  <2>1. k \in Int /\ c * k = c * (k - 1) + c  OBVIOUS
  <2> QED  BY <1>1, <2>1, SumStep
<1>4. F[0] = 0 /\ F[n] = SumOf(t)  BY <1>1 DEF Sums
<1>5. ASSUME \A i \in 1..n : t[i] <= c PROVE SumOf(t) <= c * n
  <2> DEFINE T == {k \in 0..n : F[k] <= c * k}
  <2>1. 0 \in T  BY <1>2, <1>4
  <2>2. \A k \in 1..n : k - 1 \in T => k \in T
    <3> SUFFICES ASSUME NEW k \in 1..n, F[k - 1] <= c * (k - 1) PROVE F[k] <= c * k
      OBVIOUS
    <3>1. c * (k - 1) \in Int /\ t[k] <= c  BY <1>5
    <3> QED  BY <1>3, <3>1
  <2>3. n \in T
    <3> HIDE DEF T, n
    <3> QED  BY <1>2, <2>1, <2>2, RangeInduction
  <2> QED  BY <1>4, <2>3
<1>6. ASSUME \A i \in 1..n : c <= t[i] PROVE c * n <= SumOf(t)
  <2> DEFINE T == {k \in 0..n : c * k <= F[k]}
  <2>1. 0 \in T  BY <1>2, <1>4
  <2>2. \A k \in 1..n : k - 1 \in T => k \in T
    <3> SUFFICES ASSUME NEW k \in 1..n, c * (k - 1) <= F[k - 1] PROVE c * k <= F[k]
      OBVIOUS
    <3>1. c * (k - 1) \in Int /\ c <= t[k]  BY <1>6
    <3> QED  BY <1>3, <3>1
  <2>3. n \in T
    <3> HIDE DEF T, n
    <3> QED  BY <1>2, <2>1, <2>2, RangeInduction
  <2> QED  BY <1>4, <2>3
<1> QED  BY <1>5, <1>6

\* No term of a sum of natural numbers is more than the sum.
LEMMA SumOfNats ==
    ASSUME NEW t \in Seq(Int), \A i \in 1..Len(t) : t[i] >= 0
    PROVE  SumOf(t) >= 0 /\ \A i \in 1..Len(t) : t[i] <= SumOf(t)
<1>1. PICK F : Sums(F, t)  BY SumSteps
<1> DEFINE n == Len(t)
           T == {k \in 0..n : F[k] >= 0 /\ \A i \in 1..k : t[i] <= F[k]}
<1>2. n \in Nat  OBVIOUS
<1>3. 0 \in T  BY <1>1, <1>2 DEF Sums
<1>4. \A k \in 1..n : k - 1 \in T => k \in T
  <2> SUFFICES ASSUME NEW k \in 1..n, k - 1 \in T PROVE k \in T  OBVIOUS
  <2>1. F[k - 1] \in Int /\ t[k] \in Int /\ F[k] = F[k - 1] + t[k]
    BY <1>1, SumStep
  <2>2. F[k] >= 0  BY <2>1
  <2>3. ASSUME NEW i \in 1..k PROVE t[i] <= F[k]
    <3>1. CASE i = k  BY <2>1, <3>1
    <3>2. CASE i # k
      <4>1. i \in 1..(k - 1) /\ t[i] \in Int  BY <1>2, <3>2
      <4> QED  BY <2>1, <4>1
    <3> QED  BY <3>1, <3>2
  <2> QED  BY <2>2, <2>3
<1>5. n \in T
  <2> HIDE DEF T, n
  <2> QED  BY <1>2, <1>3, <1>4, RangeInduction
<1> QED  BY <1>1, <1>5 DEF Sums

\* A sum with one term that is not 0.
LEMMA SumOfOne ==
    ASSUME NEW t \in Seq(Int), NEW m \in 1..Len(t), \A i \in 1..Len(t) : i # m => t[i] = 0
    PROVE  SumOf(t) = t[m]
<1> DEFINE n == Len(t)
<1>1. PICK F : Sums(F, t)  BY SumSteps
<1> DEFINE T == {k \in 0..n : F[k] = IF k < m THEN 0 ELSE t[m]}
<1>2. n \in Nat /\ m \in 1..n  OBVIOUS
<1>3. F[0] = 0 /\ F[n] = SumOf(t)  BY <1>1 DEF Sums
<1>4. 0 \in T  BY <1>2, <1>3
<1>5. ASSUME NEW k \in 1..n, k - 1 \in T PROVE k \in T
  <2>1. F[k - 1] \in Int /\ t[k] \in Int /\ F[k] = F[k - 1] + t[k]  BY <1>1, SumStep
  <2>2. F[k - 1] = (IF k - 1 < m THEN 0 ELSE t[m])  BY <1>5
  <2>3. k # m => t[k] = 0  OBVIOUS
  <2>4. t[m] \in Int  BY <1>2
  <2> HIDE DEF n
  <2>5. CASE k < m  BY <2>1, <2>2, <2>3, <2>4, <2>5, <1>2
  <2>6. CASE k = m  BY <2>1, <2>2, <2>3, <2>4, <2>6, <1>2
  <2>7. CASE k > m  BY <2>1, <2>2, <2>3, <2>4, <2>7, <1>2
  <2> QED  BY <2>5, <2>6, <2>7, <1>2
<1>6. n \in T
  <2> HIDE DEF T, n
  <2> QED  BY <1>2, <1>4, <1>5, RangeInduction
<1> QED  BY <1>2, <1>3, <1>6

LEMMA SumOfZeros ==
    ASSUME NEW t \in Seq(Int), \A i \in 1..Len(t) : t[i] = 0
    PROVE  SumOf(t) = 0
<1> DEFINE n == Len(t)
<1>1. n \in Nat /\ SumOf(t) \in Int  BY SumIsInt
<1>2. (\A i \in 1..Len(t) : t[i] <= 0) /\ (\A i \in 1..Len(t) : 0 <= t[i])  OBVIOUS
<1>3. 0 \in Int  OBVIOUS
<1>4. SumOf(t) <= 0 * n /\ 0 * n <= SumOf(t)  BY <1>2, <1>3, SumBounds, Zenon
<1> HIDE DEF n
<1> QED  BY <1>1, <1>4

\* Sums are added term by term.
LEMMA SumsAdd ==
    ASSUME NEW t \in Seq(Int), NEW u \in Seq(Int), NEW v \in Seq(Int),
           Len(u) = Len(t), Len(v) = Len(t), \A i \in 1..Len(t) : t[i] = u[i] + v[i]
    PROVE  SumOf(t) = SumOf(u) + SumOf(v)
<1>1. PICK F : Sums(F, t)  BY SumSteps
<1>2. PICK G : Sums(G, u)  BY SumSteps
<1>3. PICK H : Sums(H, v)  BY SumSteps
<1> DEFINE n == Len(t)
           T == {k \in 0..n : F[k] = G[k] + H[k]}
<1>4. n \in Nat  OBVIOUS
<1>5. 0 \in T  BY <1>1, <1>2, <1>3 DEF Sums
<1>6. ASSUME NEW k \in 1..n, k - 1 \in T PROVE k \in T
  <2>1. F[k - 1] \in Int /\ t[k] \in Int /\ F[k] = F[k - 1] + t[k]  BY <1>1, SumStep
  <2>2. G[k - 1] \in Int /\ u[k] \in Int /\ G[k] = G[k - 1] + u[k]  BY <1>2, SumStep
  <2>3. H[k - 1] \in Int /\ v[k] \in Int /\ H[k] = H[k - 1] + v[k]  BY <1>3, SumStep
  <2>4. F[k - 1] = G[k - 1] + H[k - 1] /\ t[k] = u[k] + v[k]  BY <1>6
  <2>5. F[k] = G[k] + H[k]
    <3> DEFINE f == F[k - 1]
               g == G[k - 1]
               h == H[k - 1]
               a == t[k]
               b == u[k]
               c == v[k]
    <3>1. /\ f \in Int /\ g \in Int /\ h \in Int /\ a \in Int /\ b \in Int /\ c \in Int
          /\ f = g + h /\ a = b + c
          /\ F[k] = f + a /\ G[k] = g + b /\ H[k] = h + c
      BY <2>1, <2>2, <2>3, <2>4
    <3> HIDE DEF f, g, h, a, b, c
    <3>2. f + a = (g + b) + (h + c)  BY <3>1
    <3> QED  BY <3>1, <3>2
  <2> QED  BY <2>5
<1>7. n \in T
  <2> HIDE DEF T, n
  <2> QED  BY <1>4, <1>5, <1>6, RangeInduction
<1> QED  BY <1>1, <1>2, <1>3, <1>7 DEF Sums

\* The size of a set of indices is a sum of ones.
LEMMA SizeAsSum ==
    ASSUME NEW n \in Nat, NEW A \in SUBSET (1..n)
    PROVE  /\ [i \in 1..n |-> IF i \in A THEN 1 ELSE 0] \in Seq(Int)
           /\ SumOf([i \in 1..n |-> IF i \in A THEN 1 ELSE 0]) = Cardinality(A)
<1> DEFINE t == [i \in 1..n |-> IF i \in A THEN 1 ELSE 0]
           upto(k) == A \intersect 1..k
<1>1. t \in Seq(Int) /\ Len(t) = n  OBVIOUS
<1>2. \A i \in 1..n : t[i] = IF i \in A THEN 1 ELSE 0  OBVIOUS
<1> HIDE DEF t
<1>3. PICK F : Sums(F, t)  BY <1>1, SumSteps
<1> DEFINE T == {k \in 0..n : F[k] = Cardinality(upto(k))}
<1>4. ASSUME NEW k \in 0..n
      PROVE  IsFiniteSet(upto(k)) /\ Cardinality(upto(k)) \in Nat
  <2>1. IsFiniteSet(1..k)  BY FS_Interval
  <2>2. IsFiniteSet(upto(k))  BY <2>1, FS_Subset
  <2> QED  BY <2>2, FS_CardinalityType
<1>5. 0 \in T
  <2>1. upto(0) = {}  OBVIOUS
  <2> QED  BY <2>1, <1>3, FS_EmptySet DEF Sums
<1>6. ASSUME NEW k \in 1..n, k - 1 \in T PROVE k \in T
  <2>1. F[k - 1] \in Int /\ F[k] = F[k - 1] + t[k]  BY <1>1, <1>3, SumStep
  <2>2. F[k - 1] = Cardinality(upto(k - 1)) /\ k - 1 \in 0..n  BY <1>6
  <2>3. k \notin upto(k - 1) /\ IsFiniteSet(upto(k - 1)) /\ Cardinality(upto(k - 1)) \in Nat
    BY <1>4, <2>2
  <2>4. CASE k \in A
    <3>1. upto(k) = upto(k - 1) \union {k}  BY <2>4
    <3> HIDE DEF upto
    <3>2. Cardinality(upto(k)) = Cardinality(upto(k - 1)) + 1  BY <2>3, <3>1, FS_AddElement
    <3>3. t[k] = 1  BY <1>2, <2>4
    <3> QED  BY <2>1, <2>2, <3>2, <3>3
  <2>5. CASE k \notin A
    <3>1. upto(k) = upto(k - 1)  BY <2>5
    <3>2. t[k] = 0  BY <1>2, <2>5
    <3> HIDE DEF upto
    <3> QED  BY <2>1, <2>2, <2>3, <3>1, <3>2
  <2> QED  BY <2>4, <2>5
<1>7. n \in T
  <2> HIDE DEF T
  <2> QED  BY <1>5, <1>6, RangeInduction
<1>8. upto(n) = A  OBVIOUS
<1>9. SumOf(t) = Cardinality(A)  BY <1>1, <1>3, <1>7, <1>8 DEF Sums
<1> QED  BY <1>1, <1>9 DEF t

\* A sum depends on its terms only.
SameFirst(t, u, n) == n <= Len(t) /\ n <= Len(u) /\ \A i \in 1..n : t[i] = u[i]

LEMMA SumsAgree ==
    ASSUME NEW t \in Seq(Int), NEW u \in Seq(Int), NEW F, NEW G, Sums(F, t), Sums(G, u),
           NEW n \in Nat, SameFirst(t, u, n)
    PROVE  F[n] = G[n]
<1> USE DEF SameFirst
<1> DEFINE T == {k \in 0..n : F[k] = G[k]}
<1>1. 0 \in T  BY DEF Sums
<1>2. \A k \in 1..n : k - 1 \in T => k \in T
  <2> SUFFICES ASSUME NEW k \in 1..n, F[k - 1] = G[k - 1] PROVE F[k] = G[k]  OBVIOUS
  <2> QED  BY DEF Sums
<1>3. n \in T
  <2> HIDE DEF T
  <2> QED  BY <1>1, <1>2, RangeInduction
<1> QED  BY <1>3

LEMMA SumOfAppend ==
    ASSUME NEW t \in Seq(Int), NEW x \in Int
    PROVE  SumOf(Append(t, x)) = SumOf(t) + x
<1> DEFINE u == Append(t, x)
           n == Len(t)
<1>1. u \in Seq(Int) /\ Len(u) = n + 1 /\ n \in Nat /\ u[n + 1] = x  OBVIOUS
<1>2. \A i \in 1..n : t[i] = u[i]  OBVIOUS
<1> HIDE DEF u
<1>3. PICK F : Sums(F, t)  BY SumSteps
<1>4. PICK G : Sums(G, u)  BY <1>1, SumSteps
<1>5. F[n] = G[n]
  <2> HIDE DEF n
  <2>1. SameFirst(t, u, n)  BY <1>1, <1>2 DEF n, SameFirst
  <2> QED  BY <1>1, <1>3, <1>4, <2>1, SumsAgree
<1>6. G[n + 1] = G[n] + u[n + 1]
  <2>1. n + 1 \in 1..Len(u) /\ (n + 1) - 1 = n  BY <1>1
  <2> QED  BY <1>4, <2>1 DEF Sums
<1>7. SumOf(t) = F[n] /\ SumOf(u) = G[n + 1]  BY <1>1, <1>3, <1>4 DEF Sums
<1> QED  BY <1>1, <1>5, <1>6, <1>7 DEF u

\* A sum does not depend on the direction.
LEMMA SumOfReverse ==
    ASSUME NEW t \in Seq(Int)
    PROVE  SumOf(Reverse(t)) = SumOf(t)
<1> DEFINE r == Reverse(t)
           n == Len(t)
<1>1. n \in Nat /\ r \in Seq(Int) /\ Len(r) = n  BY DEF Reverse
<1>2. \A i \in 1..n : r[i] = t[(n - i) + 1]  BY DEF Reverse
<1> HIDE DEF r
<1>3. PICK F : Sums(F, t)  BY SumSteps
<1>4. PICK R : Sums(R, r)  BY <1>1, SumSteps
<1> DEFINE T == {k \in 0..n : R[k] = F[n] - F[n - k]}
<1>5. 0 \in T
  <2>1. F[n] \in Int /\ R[0] = 0 /\ n - 0 = n  BY <1>1, <1>3, <1>4 DEF Sums
  <2> QED  BY <1>1, <2>1
<1>6. \A k \in 1..n : k - 1 \in T => k \in T
  <2> SUFFICES ASSUME NEW k \in 1..n, R[k - 1] = F[n] - F[n - (k - 1)]
               PROVE  R[k] = F[n] - F[n - k]
    OBVIOUS
  <2> DEFINE m == (n - k) + 1
  <2>1. m \in 1..n /\ m - 1 = n - k /\ n - (k - 1) = m /\ m - 1 \in 0..n /\ m \in 0..n
    BY <1>1
  <2>2. F[m] = F[m - 1] + t[m]  BY <1>3, <2>1 DEF Sums
  <2>3. R[k] = R[k - 1] + r[k]  BY <1>1, <1>4 DEF Sums
  <2>4. F[m] \in Int /\ F[m - 1] \in Int /\ F[n] \in Int /\ t[m] \in Int
    <3>1. F[n] \in Int  BY <1>1, <1>3 DEF Sums
    <3> HIDE DEF m
    <3> QED  BY <1>3, <2>1, <3>1, SumStep
  <2>5. r[k] = t[m]  BY <1>2
  <2> HIDE DEF m
  <2>6. R[k] = F[n] - F[m - 1]
    <3> DEFINE a == F[m]
               b == F[m - 1]
               c == F[n]
               x == t[m]
               y == R[k - 1]
    <3>1. /\ a \in Int /\ b \in Int /\ c \in Int /\ x \in Int
          /\ a = b + x /\ y = c - a
      BY <2>1, <2>2, <2>4
    <3>2. R[k] = y + x  BY <2>3, <2>5
    <3> HIDE DEF a, b, c, x, y
    <3>3. y + x = c - b  BY <3>1
    <3> QED  BY <3>2, <3>3 DEF b, c
  <2> QED  BY <2>1, <2>6
<1>7. n \in T
  <2> HIDE DEF T, n
  <2> QED  BY <1>1, <1>5, <1>6, RangeInduction
<1>8. F[0] = 0 /\ SumOf(t) = F[n] /\ SumOf(r) = R[n] /\ F[n] \in Int /\ n - n = 0
  BY <1>1, <1>3, <1>4 DEF Sums
<1> QED  BY <1>7, <1>8 DEF r

-----------------------------------------------------------------------------
(* Filters.                                                                *)

LEMMA KeepStep ==
    ASSUME NEW S, NEW s \in Seq(S), NEW A, NEW F, Keeps(F, S, s, A), NEW k \in 1..Len(s)
    PROVE  /\ F[k - 1] \in Seq(S) /\ s[k] \in S
           /\ F[k] = IF s[k] \in A THEN Append(F[k - 1], s[k]) ELSE F[k - 1]
<1>1. Len(s) \in Nat /\ s[k] \in S  OBVIOUS
<1>2. k - 1 \in 0..Len(s)  BY <1>1
<1> QED  BY <1>1, <1>2 DEF Keeps

\* q has the elements of s that are in A, all of them and no others.
KeptOnly(q, S, s, A) ==
    /\ q \in Seq(S)
    /\ \A j \in 1..Len(q) : q[j] \in A /\ \E i \in 1..Len(s) : s[i] = q[j]
    /\ \A i \in 1..Len(s) : s[i] \in A => \E j \in 1..Len(q) : q[j] = s[i]

\* Those are what a filter keeps.
LEMMA KeepOnly ==
    ASSUME NEW S, NEW s \in Seq(S), NEW A
    PROVE  KeptOnly(Keep(s, A), S, s, A)
<1>1. PICK F : Keeps(F, S, s, A)  BY KeepSteps
<1> DEFINE n == Len(s)
           Right(q, k) == /\ \A j \in 1..Len(q) : q[j] \in A /\ \E i \in 1..k : s[i] = q[j]
                          /\ \A i \in 1..k : s[i] \in A => \E j \in 1..Len(q) : q[j] = s[i]
           T == {k \in 0..n : Right(F[k], k)}
<1>2. n \in Nat  OBVIOUS
<1>3. 0 \in T
  <2>1. F[0] = <<>>  BY <1>1 DEF Keeps
  <2>2. Right(<<>>, 0)  OBVIOUS
  <2> HIDE DEF Right
  <2> QED  BY <1>2, <2>1, <2>2
<1>4. ASSUME NEW k \in 1..n, Right(F[k - 1], k - 1) PROVE Right(F[k], k)
  <2> DEFINE q == F[k - 1]
  <2>1. q \in Seq(S) /\ F[k] = IF s[k] \in A THEN Append(q, s[k]) ELSE q
    BY <1>1, <1>2 DEF Keeps
  <2>2. Right(q, k - 1)  BY <1>4
  <2>3. \A i \in 1..k : i = k \/ i \in 1..(k - 1)  BY <1>2
  <2>4. \A i \in 1..(k - 1) : i \in 1..k  BY <1>2
  <2>5. k \in 1..k  BY <1>2
  <2> HIDE DEF q
  <2>6. CASE s[k] \in A
    <3> DEFINE r == Append(q, s[k])
    <3>1. Len(r) = Len(q) + 1 /\ r[Len(q) + 1] = s[k] /\ Len(q) \in Nat  BY <2>1
    <3>2. \A j \in 1..Len(q) : r[j] = q[j] /\ j \in 1..Len(r)  BY <2>1
    <3>3. \A j \in 1..Len(r) : j = Len(q) + 1 \/ j \in 1..Len(q)  BY <3>1
    <3>4. Len(q) + 1 \in 1..Len(r)  BY <3>1
    <3> HIDE DEF r
    <3>5. Right(r, k)  BY <2>2, <2>3, <2>4, <2>5, <2>6, <3>1, <3>2, <3>3, <3>4
    <3> QED  BY <2>1, <2>6, <3>5 DEF r
  <2>7. CASE s[k] \notin A
    <3>1. Right(q, k)  BY <2>2, <2>3, <2>4, <2>7
    <3> QED  BY <2>1, <2>7, <3>1
  <2> QED  BY <2>6, <2>7
<1>5. Right(F[n], n)
  <2>1. \A k \in 1..n : k - 1 \in T => k \in T
    <3> HIDE DEF Right
    <3> QED  BY <1>2, <1>4
  <2>2. n \in T
    <3> HIDE DEF T, n
    <3> QED  BY <1>2, <1>3, <2>1, RangeInduction
  <2> HIDE DEF Right
  <2> QED  BY <2>2
<1>6. F[n] = Keep(s, A) /\ F[n] \in Seq(S)  BY <1>1, <1>2 DEF Keeps
<1>7. KeptOnly(F[n], S, s, A)  BY <1>5, <1>6 DEF KeptOnly
<1> QED  BY <1>6, <1>7

\* The same, spelled out.
LEMMA KeepElements ==
    ASSUME NEW S, NEW s \in Seq(S), NEW A
    PROVE  /\ Keep(s, A) \in Seq(S)
           /\ \A j \in 1..Len(Keep(s, A)) :
                Keep(s, A)[j] \in A /\ \E i \in 1..Len(s) : s[i] = Keep(s, A)[j]
           /\ \A i \in 1..Len(s) :
                s[i] \in A => \E j \in 1..Len(Keep(s, A)) : Keep(s, A)[j] = s[i]
<1>1. KeptOnly(Keep(s, A), S, s, A)  BY KeepOnly
<1> QED  BY <1>1 DEF KeptOnly

\* What is kept first is the first that is kept.
LEMMA KeepFirst ==
    ASSUME NEW S, NEW s \in Seq(S), NEW A, NEW m \in 1..Len(s), s[m] \in A,
           \A i \in 1..Len(s) : i < m => s[i] \notin A
    PROVE  Len(Keep(s, A)) > 0 /\ Keep(s, A)[1] = s[m]
<1> DEFINE n == Len(s)
<1>1. PICK F : Keeps(F, S, s, A)  BY KeepSteps
<1> DEFINE Right(q, k) == IF k < m THEN q = <<>> ELSE Len(q) > 0 /\ q[1] = s[m]
           T == {k \in 0..n : Right(F[k], k)}
<1>2. n \in Nat /\ m \in 1..n /\ F[0] = <<>> /\ F[n] = Keep(s, A)  BY <1>1 DEF Keeps
<1>3. 0 \in T  BY <1>2
<1>4. ASSUME NEW k \in 1..n, k - 1 \in T PROVE k \in T
  <2> DEFINE q == F[k - 1]
             x == s[k]
  <2>1. q \in Seq(S) /\ x \in S /\ F[k] = IF x \in A THEN Append(q, x) ELSE q
    BY <1>1, KeepStep
  <2>2. Right(q, k - 1)  BY <1>4
  <2>3. k < m => x \notin A  OBVIOUS
  <2>4. k = m => x \in A /\ x = s[m]  OBVIOUS
  <2> HIDE DEF n, q, x
  <2>5. CASE k < m
    <3>1. k - 1 < m  BY <2>5, <1>2
    <3> QED  BY <3>1, <2>1, <2>2, <2>3, <2>5
  <2>6. CASE k = m
    <3>1. k - 1 < m /\ ~(k < m)  BY <2>6, <1>2
    <3>2. q = <<>> /\ F[k] = Append(q, x)  BY <3>1, <2>1, <2>2, <2>4, <2>6
    <3>3. Len(F[k]) > 0 /\ F[k][1] = x  BY <3>2, <2>1
    <3> QED  BY <3>1, <3>3, <2>4, <2>6
  <2>7. CASE k > m
    <3>1. ~(k - 1 < m) /\ ~(k < m)  BY <2>7, <1>2
    <3>2. Len(q) > 0 /\ q[1] = s[m]  BY <3>1, <2>2
    <3>3. Len(Append(q, x)) > 0 /\ Append(q, x)[1] = q[1]  BY <3>2, <2>1
    <3>4. CASE x \in A
      <4>1. F[k] = Append(q, x)  BY <3>4, <2>1
      <4>2. Len(F[k]) > 0 /\ F[k][1] = s[m]  BY <4>1, <3>2, <3>3
      <4> QED  BY <4>2, <3>1
    <3>5. CASE x \notin A
      <4>1. F[k] = q  BY <3>5, <2>1
      <4> QED  BY <4>1, <3>1, <3>2
    <3> QED  BY <3>4, <3>5
  <2> QED  BY <2>5, <2>6, <2>7, <1>2
<1>5. n \in T
  <2> HIDE DEF T, n
  <2> QED  BY <1>2, <1>3, <1>4, RangeInduction
<1> QED  BY <1>2, <1>5

\* The value of f for each element of s, and 0 for those that are not in A.
Values(f, s) == [i \in 1..Len(s) |-> f[s[i]]]
Masked(f, s, A) == [i \in 1..Len(s) |-> IF s[i] \in A THEN f[s[i]] ELSE 0]

LEMMA ValuesOfAppend ==
    ASSUME NEW S, NEW s \in Seq(S), NEW x \in S, NEW f \in [S -> Int]
    PROVE  /\ Values(f, s) \in Seq(Int)
           /\ Values(f, Append(s, x)) = Append(Values(f, s), f[x])
<1>1. Values(f, s) \in Seq(Int) /\ Len(Values(f, s)) = Len(s)  BY DEF Values
<1>2. Append(s, x) \in Seq(S) /\ Len(Append(s, x)) = Len(s) + 1 /\ Len(s) \in Nat  OBVIOUS
<1> DEFINE a == Values(f, Append(s, x))
           b == Append(Values(f, s), f[x])
<1>3. a \in Seq(Int) /\ Len(a) = Len(s) + 1  BY <1>2 DEF Values
<1>4. b \in Seq(Int) /\ Len(b) = Len(s) + 1  BY <1>1
<1>5. ASSUME NEW i \in 1..(Len(s) + 1) PROVE a[i] = b[i]
  <2>1. CASE i = Len(s) + 1
    <3>1. a[i] = f[x]  BY <1>2, <2>1 DEF Values
    <3>2. b[i] = f[x]  BY <1>1, <2>1
    <3> QED  BY <3>1, <3>2
  <2>2. CASE i # Len(s) + 1
    <3>1. i \in 1..Len(s)  BY <1>2, <2>2
    <3>2. a[i] = f[s[i]]  BY <1>2, <3>1 DEF Values
    <3>3. b[i] = f[s[i]]  BY <1>1, <3>1 DEF Values
    <3> QED  BY <3>2, <3>3
  <2> QED  BY <2>1, <2>2
<1>6. a = b
  <2> HIDE DEF a, b
  <2> QED  BY <1>3, <1>4, <1>5
<1> QED  BY <1>1, <1>6

\* A sum over what a filter keeps is a sum over the whole, with nothing for the rest.
LEMMA SumOfKept ==
    ASSUME NEW S, NEW s \in Seq(S), NEW A, NEW f \in [S -> Int]
    PROVE  /\ Masked(f, s, A) \in Seq(Int)
           /\ Values(f, Keep(s, A)) \in Seq(Int)
           /\ SumOf(Values(f, Keep(s, A))) = SumOf(Masked(f, s, A))
<1> DEFINE n == Len(s)
           m == Masked(f, s, A)
<1>1. n \in Nat /\ m \in Seq(Int) /\ Len(m) = n  BY DEF Masked
<1>2. \A i \in 1..n : m[i] = IF s[i] \in A THEN f[s[i]] ELSE 0  BY DEF Masked
<1> HIDE DEF m
<1>3. PICK F : Keeps(F, S, s, A)  BY KeepSteps
<1>4. PICK M : Sums(M, m)  BY <1>1, SumSteps
<1>5. Keep(s, A) = F[n] /\ F[n] \in Seq(S) /\ F[0] = <<>>  BY <1>1, <1>3 DEF Keeps
<1> DEFINE T == {k \in 0..n : SumOf(Values(f, F[k])) = M[k]}
<1>6. 0 \in T
  <2>1. Values(f, <<>>) = <<>> /\ <<>> \in Seq(Int)  BY DEF Values
  <2>2. SumOf(<<>>) = 0
    <3>1. PICK G : Sums(G, <<>>)  BY <2>1, SumSteps
    <3> QED  BY <3>1 DEF Sums
  <2>3. M[0] = 0  BY <1>4 DEF Sums
  <2> QED  BY <1>1, <1>5, <2>1, <2>2, <2>3
<1>7. \A k \in 1..n : k - 1 \in T => k \in T
  <2> SUFFICES ASSUME NEW k \in 1..n, SumOf(Values(f, F[k - 1])) = M[k - 1]
               PROVE  SumOf(Values(f, F[k])) = M[k]
    OBVIOUS
  <2>1. /\ F[k - 1] \in Seq(S) /\ s[k] \in S
        /\ F[k] = IF s[k] \in A THEN Append(F[k - 1], s[k]) ELSE F[k - 1]
    BY <1>3, KeepStep
  <2>2. M[k] = M[k - 1] + m[k] /\ M[k - 1] \in Int /\ m[k] \in Int
    BY <1>1, <1>4, SumStep
  <2>3. CASE s[k] \in A
    <3>1. f[s[k]] \in Int /\ F[k] = Append(F[k - 1], s[k])  BY <2>1, <2>3
    <3>2. /\ Values(f, F[k - 1]) \in Seq(Int)
          /\ Values(f, F[k]) = Append(Values(f, F[k - 1]), f[s[k]])
      <4> DEFINE q == F[k - 1]
                 x == s[k]
      <4>1. q \in Seq(S) /\ x \in S /\ f \in [S -> Int]  BY <2>1
      <4>2. F[k] = Append(q, x) /\ f[s[k]] = f[x]  BY <3>1
      <4> HIDE DEF q, x
      <4>3. Values(f, q) \in Seq(Int) /\ Values(f, Append(q, x)) = Append(Values(f, q), f[x])
        BY <4>1, ValuesOfAppend, Zenon
      <4> QED  BY <4>2, <4>3 DEF q
    <3>3. SumOf(Values(f, F[k])) = SumOf(Values(f, F[k - 1])) + f[s[k]]
      BY <3>1, <3>2, SumOfAppend
    <3> QED  BY <1>2, <2>2, <2>3, <3>3
  <2>4. CASE s[k] \notin A
    <3>1. m[k] = 0 /\ F[k] = F[k - 1]  BY <1>2, <2>1, <2>4
    <3> QED  BY <2>2, <3>1
  <2> QED  BY <2>3, <2>4
<1>8. n \in T
  <2> HIDE DEF T, n
  <2> QED  BY <1>1, <1>6, <1>7, RangeInduction
<1>9. SumOf(Values(f, F[n])) = M[n] /\ SumOf(m) = M[n]  BY <1>1, <1>4, <1>8 DEF Sums
<1>10. Values(f, F[n]) \in Seq(Int)  BY <1>5 DEF Values
<1> QED  BY <1>1, <1>5, <1>9, <1>10 DEF m

-----------------------------------------------------------------------------
(* The first, and the highest.                                             *)

LEMMA ValuesOf ==
    ASSUME NEW S, NEW s \in Seq(S), NEW f \in [S -> Int]
    PROVE  /\ Values(f, s) \in Seq(Int)
           /\ Len(Values(f, s)) = Len(s)
           /\ \A i \in 1..Len(s) : Values(f, s)[i] = f[s[i]]
<1>1. Len(s) \in Nat /\ \A i \in 1..Len(s) : f[s[i]] \in Int  OBVIOUS
<1> QED  BY <1>1 DEF Values

\* The sum of f over the elements that are kept, as one over all of them.
Restricts(g, f, s, A) == \A i \in 1..Len(s) : g[s[i]] = IF s[i] \in A THEN f[s[i]] ELSE 0

LEMMA SelectSum ==
    ASSUME NEW S, NEW s \in Seq(S), NEW A, NEW f \in [S -> Int], NEW g \in [S -> Int],
           Restricts(g, f, s, A)
    PROVE  SumOf(Values(f, Keep(s, A))) = SumOf(Values(g, s))
<1>1. Masked(f, s, A) = Values(g, s)  BY DEF Masked, Values, Restricts
<1> QED  BY <1>1, SumOfKept

\* f for the elements of A, and 0 for the others.
Only(f, S, A) == [x \in S |-> IF x \in A THEN f[x] ELSE 0]

LEMMA OnlySum ==
    ASSUME NEW S, NEW s \in Seq(S), NEW A, NEW f \in [S -> Int]
    PROVE  /\ Only(f, S, A) \in [S -> Int]
           /\ SumOf(Values(f, Keep(s, A))) = SumOf(Values(Only(f, S, A), s))
<1>1. Only(f, S, A) \in [S -> Int]  BY DEF Only
<1>2. \A i \in 1..Len(s) : s[i] \in S  OBVIOUS
<1>3. Restricts(Only(f, S, A), f, s, A)  BY <1>2 DEF Restricts, Only
<1> QED  BY <1>1, <1>3, SelectSum

LEMMA ReverseSum ==
    ASSUME NEW S, NEW s \in Seq(S), NEW g \in [S -> Int]
    PROVE  /\ Reverse(s) \in Seq(S)
           /\ SumOf(Values(g, Reverse(s))) = SumOf(Values(g, s))
<1> DEFINE n == Len(s)
           v == Values(g, s)
<1>1. n \in Nat /\ \A i \in 1..n : s[i] \in S  OBVIOUS
<1>2. Reverse(s) = [i \in 1..n |-> s[(n - i) + 1]]  BY DEF Reverse
<1>3. Reverse(s) \in Seq(S) /\ Len(Reverse(s)) = n
  <2>1. \A i \in 1..n : (n - i) + 1 \in 1..n  BY <1>1
  <2> HIDE DEF n
  <2> QED  BY <1>1, <1>2, <2>1
<1>4. v \in Seq(Int) /\ Len(v) = n /\ \A i \in 1..n : v[i] = g[s[i]]
  BY <1>1 DEF Values
<1>5. Values(g, Reverse(s)) = [i \in 1..n |-> v[(n - i) + 1]]
  <2>1. \A i \in 1..n : (n - i) + 1 \in 1..n /\ Reverse(s)[i] = s[(n - i) + 1]
    BY <1>1, <1>2
  <2> HIDE DEF n, v
  <2> QED  BY <2>1, <1>3, <1>4 DEF Values
<1>6. Reverse(v) = [i \in 1..n |-> v[(n - i) + 1]]  BY <1>4 DEF Reverse
<1> HIDE DEF n, v
<1>7. SumOf(Reverse(v)) = SumOf(v)  BY <1>4, SumOfReverse
<1> QED  BY <1>3, <1>5, <1>6, <1>7 DEF v

LEMMA LengthAsSum ==
    ASSUME NEW S, NEW s \in Seq(S), NEW f \in [S -> Int], \A x \in S : f[x] = 1
    PROVE  SumOf(Values(f, s)) = Len(s)
<1> DEFINE v == Values(f, s)
<1>1. v \in Seq(Int) /\ Len(v) = Len(s) /\ Len(s) \in Nat /\ \A i \in 1..Len(v) : v[i] = 1
  BY DEF Values
<1> HIDE DEF v
<1>2. SumOf(v) <= 1 * Len(v) /\ 1 * Len(v) <= SumOf(v) /\ SumOf(v) \in Int
  <2>1. (\A i \in 1..Len(v) : v[i] <= 1) /\ (\A i \in 1..Len(v) : 1 <= v[i])  BY <1>1
  <2>2. v \in Seq(Int) /\ 1 \in Int  BY <1>1
  <2>3. SumOf(v) <= 1 * Len(v) /\ 1 * Len(v) <= SumOf(v)  BY <2>1, <2>2, SumBounds, Zenon
  <2> QED  BY <2>2, <2>3, SumIsInt
<1> QED  BY <1>1, <1>2 DEF v

\* Min finds the least index.
LEMMA MinIsLeast ==
    ASSUME NEW n \in Nat, NEW s \in SUBSET (1..n), s # {}
    PROVE  Min(s) \in s /\ \A y \in s : Min(s) <= y
<1> DEFINE r == {(n + 1) - y : y \in s}
<1>1. r \in SUBSET (1..n) /\ r # {}
  <2>1. ASSUME NEW y \in s PROVE (n + 1) - y \in 1..n
    <3>1. y \in 1..n  OBVIOUS
    <3> QED  BY <3>1
  <2>2. PICK y \in s : TRUE  OBVIOUS
  <2>3. (n + 1) - y \in r  OBVIOUS
  <2> QED  BY <2>1, <2>3
<1>2. Max(r) \in r /\ \A y \in r : Max(r) >= y
  <2> HIDE DEF r
  <2> QED  BY <1>1, MaxIsGreatest
<1>3. PICK x \in s : Max(r) = (n + 1) - x  BY <1>2
<1>4. ASSUME NEW y \in s PROVE x <= y
  <2>1. (n + 1) - y \in r  OBVIOUS
  <2>2. (n + 1) - x >= (n + 1) - y  BY <1>2, <1>3, <2>1
  <2> QED  BY <2>2
<1>5. \E m \in s : \A y \in s : m <= y  BY <1>4
<1> QED  BY <1>5, Zenon DEF Min

\* A function on 1..n has a greatest value.
LEMMA GreatestExists ==
    ASSUME NEW n \in Nat, n > 0, NEW f \in [1..n -> Int]
    PROVE  \E i \in 1..n : \A j \in 1..n : f[j] <= f[i]
<1> DEFINE T == {k \in 0..n : k > 0 => \E i \in 1..k : \A j \in 1..k : f[j] <= f[i]}
<1>1. 0 \in T  OBVIOUS
<1>2. \A k \in 1..n : k - 1 \in T => k \in T
  <2> SUFFICES ASSUME NEW k \in 1..n, k - 1 \in T
               PROVE  \E i \in 1..k : \A j \in 1..k : f[j] <= f[i]
    <3> DEFINE Has(k) == \E i \in 1..k : \A j \in 1..k : f[j] <= f[i]
    <3> HIDE DEF Has
    <3>1. ASSUME NEW k \in 1..n, Has(k) PROVE k > 0 /\ k \in 0..n  OBVIOUS
    <3> QED  BY <3>1 DEF Has
  <2>1. CASE k = 1
    <3>1. f[1] \in Int /\ \A j \in 1..1 : j = 1  BY <2>1
    <3>2. \A j \in 1..1 : f[j] <= f[1]  BY <3>1
    <3> QED  BY <2>1, <3>2
  <2>2. CASE k # 1
    <3>1. PICK i \in 1..(k - 1) : \A j \in 1..(k - 1) : f[j] <= f[i]  BY <2>2
    <3>2. f[i] \in Int /\ f[k] \in Int /\ i \in 1..k /\ k \in 1..k  OBVIOUS
    <3>3. \A j \in 1..k : j = k \/ j \in 1..(k - 1)  OBVIOUS
    <3>4. CASE f[k] <= f[i]  BY <3>1, <3>2, <3>3, <3>4
    <3>5. CASE ~(f[k] <= f[i])
      <4>1. ASSUME NEW j \in 1..k PROVE f[j] <= f[k]
        <5>1. CASE j = k  BY <3>2, <5>1
        <5>2. CASE j \in 1..(k - 1)
          <6>1. f[j] <= f[i] /\ f[j] \in Int  BY <3>1, <5>2
          <6> QED  BY <3>2, <3>5, <6>1
        <5> QED  BY <3>3, <5>1, <5>2
      <4> QED  BY <3>2, <4>1
    <3> QED  BY <3>4, <3>5
  <2> QED  BY <2>1, <2>2
<1>3. n \in T
  <2> HIDE DEF T
  <2> QED  BY <1>1, <1>2, RangeInduction
<1> QED  BY <1>3

Fraction == [num : Int, den : Nat \ {0}]
Figure == [name : STRING \union {NoName}, pct : Fraction]

\* The order of fractions, as far as a search for the highest needs it.
LEMMA LessIsTransitive ==
    ASSUME NEW p \in Fraction, NEW q \in Fraction, NEW r \in Fraction,
           ~Less(q, p), Less(q, r)
    PROVE  ~Less(r, p)
<1> DEFINE a == p.num
           b == p.den
           c == q.num
           d == q.den
           e == r.num
           f == r.den
<1>1. /\ a \in Int /\ c \in Int /\ e \in Int
      /\ b \in Nat \ {0} /\ d \in Nat \ {0} /\ f \in Nat \ {0}
  BY DEF Fraction
<1>2. c * b >= a * d /\ c * f < e * d
  <2>1. ~(c * b < a * d) /\ c * f < e * d  BY DEF Less
  <2>2. c * b \in Int /\ a * d \in Int  BY <1>1
  <2> QED  BY <2>1, <2>2
<1> HIDE DEF a, b, c, d, e, f
<1>3. (c * b) * f >= (a * d) * f
  <2>1. c * b \in Int /\ a * d \in Int  BY <1>1
  <2> QED  BY <1>1, <1>2, <2>1
<1>4. (c * f) * b < (e * d) * b
  <2>1. c * f \in Int /\ e * d \in Int  BY <1>1
  <2> QED  BY <1>1, <1>2, <2>1
<1>5. (a * f) * d < (e * b) * d
  <2>1. (c * b) * f = (c * f) * b  BY <1>1
  <2>2. (a * d) * f = (a * f) * d  BY <1>1
  <2>3. (e * d) * b = (e * b) * d  BY <1>1
  <2>4. (c * b) * f \in Int /\ (a * d) * f \in Int /\ (e * d) * b \in Int  BY <1>1
  <2> QED  BY <1>3, <1>4, <2>1, <2>2, <2>3, <2>4
<1>6. a * f < e * b
  <2>1. a * f \in Int /\ e * b \in Int  BY <1>1
  <2>2. ASSUME e * b <= a * f PROVE (e * b) * d <= (a * f) * d  BY <1>1, <2>1, <2>2
  <2>3. (e * b) * d \in Int /\ (a * f) * d \in Int  BY <1>1, <2>1
  <2> QED  BY <1>5, <2>1, <2>2, <2>3
<1>7. ~(e * b < a * f)
  <2>1. a * f \in Int /\ e * b \in Int  BY <1>1
  <2> QED  BY <1>6, <2>1
<1> QED  BY <1>7 DEF Less, a, b, e, f

\* The search ends with one of the figures, above zero, or with none of them, and
\* no figure is higher.
LEMMA HighestIsHighest ==
    ASSUME NEW figures \in Seq(Figure)
    PROVE  /\ Highest(figures) \in Figure
           /\ \A i \in 1..Len(figures) : ~Less(Highest(figures).pct, figures[i].pct)
           /\ \/ Highest(figures) = None
              \/ /\ Highest(figures).pct.num > 0
                 /\ \E i \in 1..Len(figures) : Highest(figures) = figures[i]
<1>1. None \in Figure /\ None.pct.num = 0 /\ None.pct.den = 1
  <2>1. None.pct = [num |-> 0, den |-> 1] /\ None = [name |-> NoName, pct |-> None.pct]
    BY DEF None
  <2>2. None.pct \in Fraction  BY <2>1 DEF Fraction
  <2>3. NoName \in STRING \union {NoName}  OBVIOUS
  <2>4. None \in Figure  BY <2>1, <2>2, <2>3 DEF Figure
  <2> QED  BY <2>1, <2>4
<1>2. PICK F : Highs(F, Figure, figures)  BY <1>1, HighSteps
<1> DEFINE n == Len(figures)
           Right(h, k) ==
              /\ h \in Figure /\ ~Less(h.pct, None.pct)
              /\ \A i \in 1..k : ~Less(h.pct, figures[i].pct)
              /\ h = None \/ (Less(None.pct, h.pct) /\ \E i \in 1..k : h = figures[i])
           T == {k \in 0..n : Right(F[k], k)}
<1>3. n \in Nat  OBVIOUS
<1>4. Right(F[0], 0)
  <2>1. ~Less(None.pct, None.pct)  BY <1>1 DEF Less
  <2>2. F[0] = None  BY <1>2 DEF Highs
  <2>3. Right(None, 0)  BY <1>1, <2>1
  <2> HIDE DEF Right
  <2> QED  BY <2>2, <2>3
<1>5. ASSUME NEW k \in 1..n, Right(F[k - 1], k - 1) PROVE Right(F[k], k)
  <2> DEFINE h == F[k - 1]
             x == figures[k]
  <2>1. F[k] = IF Less(h.pct, x.pct) THEN x ELSE h  BY <1>2 DEF Highs
  <2>2. x \in Figure /\ h \in Figure /\ None \in Figure  BY <1>1, <1>5
  <2>3. x.pct \in Fraction /\ h.pct \in Fraction /\ None.pct \in Fraction
    BY <2>2 DEF Figure
  <2>4. \A i \in 1..k : i = k \/ i \in 1..(k - 1)  BY <1>3
  <2>5. \A i \in 1..(k - 1) : i \in 1..k  BY <1>3
  <2>6. k \in 1..k  BY <1>3
  <2>7. Right(h, k - 1)  BY <1>5
  <2> HIDE DEF h
  <2>8. CASE Less(h.pct, x.pct)
    <3>1. ~Less(x.pct, None.pct)  BY <2>3, <2>7, <2>8, LessIsTransitive
    <3>2. ASSUME NEW i \in 1..k PROVE ~Less(x.pct, figures[i].pct)
      <4>1. CASE i = k
        <5>1. ~(x.pct.num * x.pct.den < x.pct.num * x.pct.den)
          BY <2>3 DEF Fraction
        <5> QED  BY <4>1, <5>1 DEF Less
      <4>2. CASE i \in 1..(k - 1)
        <5>1. figures[i] \in Figure /\ ~Less(h.pct, figures[i].pct)  BY <2>7, <4>2
        <5>2. figures[i].pct \in Fraction  BY <5>1 DEF Figure
        <5> QED  BY <2>3, <2>8, <5>1, <5>2, LessIsTransitive
      <4> QED  BY <2>4, <4>1, <4>2
    <3>3. Less(None.pct, x.pct)
      <4>1. CASE h = None  BY <2>8, <4>1
      <4>2. CASE h # None
        <5>1. Less(None.pct, h.pct)  BY <2>7, <4>2
        <5> DEFINE a == h.pct.num
                   b == h.pct.den
                   c == x.pct.num
                   d == x.pct.den
        <5>2. a \in Int /\ b \in Nat \ {0} /\ c \in Int /\ d \in Nat \ {0}
          BY <2>3 DEF Fraction
        <5>3. a > 0 /\ a * d < c * b  BY <1>1, <2>8, <5>1, <5>2 DEF Less
        <5> HIDE DEF a, b, c, d
        <5>4. a * d > 0  BY <5>2, <5>3
        <5>5. c > 0
          <6>1. ASSUME c <= 0 PROVE c * b <= 0  BY <5>2, <6>1
          <6>2. c * b \in Int /\ a * d \in Int  BY <5>2
          <6> QED  BY <5>2, <5>3, <5>4, <6>1, <6>2
        <5> QED  BY <1>1, <5>2, <5>5 DEF Less, c, d
      <4> QED  BY <4>1, <4>2
    <3>4. Right(x, k)  BY <2>2, <2>6, <3>1, <3>2, <3>3
    <3> QED  BY <2>1, <2>8, <3>4
  <2>9. CASE ~Less(h.pct, x.pct)
    <3>1. Right(h, k)  BY <2>4, <2>5, <2>7, <2>9
    <3> HIDE DEF Right
    <3> QED  BY <2>1, <2>9, <3>1
  <2> QED  BY <2>8, <2>9
<1>6. Right(F[n], n)
  <2> HIDE DEF Right
  <2>1. \A k \in 1..n : k - 1 \in T => k \in T  BY <1>3, <1>5
  <2>2. 0 \in T  BY <1>3, <1>4
  <2>3. n \in T
    <3> HIDE DEF T, n
    <3> QED  BY <1>3, <2>1, <2>2, RangeInduction
  <2> QED  BY <2>3
<1>7. F[n] = Highest(figures)  BY <1>2 DEF Highs
<1>8. ASSUME NEW h \in Figure, Less(None.pct, h.pct) PROVE h.pct.num > 0
  BY <1>1, <1>8 DEF Less, Figure, Fraction
<1>9. Right(Highest(figures), n)
  <2> HIDE DEF Right
  <2> QED  BY <1>6, <1>7
<1> QED  BY <1>8, <1>9

-----------------------------------------------------------------------------
(* Concatenation.                                                          *)

\* F[k] is the concatenation of the first k sequences of ss.
Flats(F, V, ss) ==
    /\ F \in [0..Len(ss) -> Seq(V)]
    /\ F[0] = <<>>
    /\ \A k \in 1..Len(ss) : F[k] = F[k - 1] \o ss[k]
    /\ F[Len(ss)] = FlattenSeq(ss)

LEMMA FlatSteps ==
    ASSUME NEW V, NEW ss \in Seq(Seq(V))
    PROVE  \E F : Flats(F, V, ss)
<1> DEFINE n == Len(ss)
           W == Seq(V)
           G == [p \in W \X (1..n) |-> p[1] \o ss[p[2]]]
           Flat(h) == h = [i \in 1..n |-> IF i = 1 THEN ss[i] ELSE h[i - 1] \o ss[i]]
           flat == CHOOSE h : Flat(h)
<1>1. n \in Nat  OBVIOUS
<1>2. FlattenSeq(ss) = IF n = 0 THEN ss ELSE flat[n]  BY DEF FlattenSeq
<1>3. /\ <<>> \in W
      /\ G \in [W \X (1..n) -> W]
      /\ \A v \in W, i \in 1..n : G[<<v, i>>] = v \o ss[i]
  <2>1. ASSUME NEW v \in W, NEW i \in 1..n PROVE v \o ss[i] \in W
    <3>1. ss[i] \in Seq(V)  OBVIOUS
    <3> QED  BY <3>1
  <2>2. <<>> \in W  OBVIOUS
  <2> HIDE DEF W, n
  <2> QED  BY <2>1, <2>2
<1> HIDE DEF G, W
<1>4. PICK it \in [SUBSET (1..n) -> W] : Solves(it, n, <<>>, G)
  <2> HIDE DEF n
  <2> QED  BY <1>1, <1>3, FoldExists
<1>5. PICK F : Steps(F, it, n, W, <<>>, G)
  <2>1. it[{}] = <<>>  BY <1>4 DEF Solves
  <2>2. ASSUME NEW k \in 1..n PROVE it[1..k] = G[<<it[1..(k - 1)], k>>]
    <3>1. k \in Nat \ {0} /\ 1..k \in SUBSET (1..n)  BY <1>1
    <3> HIDE DEF n
    <3> QED  BY <1>4, <3>1, MaxOfRange DEF Solves
  <2>3. SolvesPrefixes(it, n, W, <<>>, G)  BY <2>1, <2>2 DEF SolvesPrefixes
  <2> HIDE DEF n
  <2> QED  BY <1>1, <1>3, <2>3, PrefixSteps
<1>6. F \in [0..n -> W] /\ F[0] = <<>>  BY <1>5 DEF Steps
<1>7. ASSUME NEW k \in 1..n PROVE F[k] = F[k - 1] \o ss[k] /\ F[k - 1] \in W /\ F[k] \in W
  <2>1. k - 1 \in 0..n /\ k \in 0..n  BY <1>1
  <2>2. F[k - 1] \in W /\ F[k] \in W  BY <1>6, <2>1
  <2>3. F[k] = G[<<F[k - 1], k>>]  BY <1>5 DEF Steps
  <2> QED  BY <1>3, <2>2, <2>3
<1> DEFINE h == [i \in 1..n |-> F[i]]
<1>8. Flat(h)
  <2>1. ASSUME NEW i \in 1..n
        PROVE  F[i] = IF i = 1 THEN ss[i] ELSE h[i - 1] \o ss[i]
    <3>1. CASE i = 1
      <4>1. F[i] = <<>> \o ss[1]
        <5>1. F[i] = F[i - 1] \o ss[i]  BY <1>7
        <5>2. i - 1 = 0  BY <3>1
        <5>3. F[i] = <<>> \o ss[i]  BY <1>6, <5>1, <5>2
        <5> QED  BY <3>1, <5>3
      <4>2. ss[1] \in Seq(V)  BY <3>1
      <4> QED  BY <3>1, <4>1, <4>2
    <3>2. CASE i # 1
      <4>1. i - 1 \in 1..n  BY <1>1, <3>2
      <4> QED  BY <1>7, <3>2, <4>1
    <3> QED  BY <3>1, <3>2
  <2> QED  BY <2>1
<1>9. Flat(flat)
  <2> HIDE DEF Flat, h
  <2> QED  BY <1>8
<1> HIDE DEF flat
<1>10. ASSUME NEW i \in 1..n PROVE flat[i] = F[i]
  <2> DEFINE T == {k \in 0..n : k > 0 => flat[k] = F[k]}
  <2>0. ASSUME NEW k \in 1..n
        PROVE  flat[k] = IF k = 1 THEN ss[k] ELSE flat[k - 1] \o ss[k]
    BY <1>9
  <2>1. 0 \in T  BY <1>1
  <2>2. \A k \in 1..n : k - 1 \in T => k \in T
    <3> SUFFICES ASSUME NEW k \in 1..n, k - 1 \in T PROVE flat[k] = F[k]  OBVIOUS
    <3>1. CASE k = 1
      <4>1. F[k] = <<>> \o ss[1]
        <5>1. F[k] = F[k - 1] \o ss[k]  BY <1>7
        <5>2. k - 1 = 0  BY <3>1
        <5>3. F[k] = <<>> \o ss[k]  BY <1>6, <5>1, <5>2
        <5> QED  BY <3>1, <5>3
      <4>2. ss[1] \in Seq(V)  BY <3>1
      <4> QED  BY <2>0, <3>1, <4>1, <4>2
    <3>2. CASE k # 1
      <4>1. flat[k - 1] = F[k - 1]  BY <1>1, <3>2
      <4> QED  BY <1>7, <2>0, <3>2, <4>1
    <3> QED  BY <3>1, <3>2
  <2>3. i \in Nat /\ \A k \in 1..i : k - 1 \in T => k \in T
    <3> HIDE DEF T
    <3> QED  BY <1>1, <2>2
  <2> HIDE DEF T
  <2>4. i \in T  BY <2>1, <2>3, RangeInduction
  <2> QED  BY <2>4 DEF T
<1>11. F[n] = FlattenSeq(ss)
  <2>1. CASE n = 0
    <3>1. ss = <<>>  BY <2>1
    <3> QED  BY <1>2, <1>6, <2>1, <3>1
  <2>2. CASE n # 0  BY <1>1, <1>2, <1>10, <2>2
  <2> QED  BY <2>1, <2>2
<1>12. Flats(F, V, ss)  BY <1>6, <1>7, <1>11 DEF Flats, W
<1> QED  BY <1>12

\* A concatenation has elements of the sequences only, and starts with the first
\* element of the first if it has one.
LEMMA FlatElements ==
    ASSUME NEW V, NEW ss \in Seq(Seq(V))
    PROVE  /\ FlattenSeq(ss) \in Seq(V)
           /\ \A j \in 1..Len(FlattenSeq(ss)) :
                \E i \in 1..Len(ss) : \E m \in 1..Len(ss[i]) : FlattenSeq(ss)[j] = ss[i][m]
           /\ Len(ss) > 0 /\ Len(ss[1]) > 0 =>
                Len(FlattenSeq(ss)) > 0 /\ FlattenSeq(ss)[1] = ss[1][1]
<1>1. PICK F : Flats(F, V, ss)  BY FlatSteps
<1> DEFINE n == Len(ss)
           From(q, k) == \A j \in 1..Len(q) :
                            \E i \in 1..k : \E m \in 1..Len(ss[i]) : q[j] = ss[i][m]
           Starts(q) == Len(ss[1]) > 0 => Len(q) > 0 /\ q[1] = ss[1][1]
           T == {k \in 0..n : From(F[k], k) /\ (k > 0 => Starts(F[k]))}
<1>2. n \in Nat  OBVIOUS
<1>3. F \in [0..n -> Seq(V)] /\ F[0] = <<>>  BY <1>1 DEF Flats
<1>4. 0 \in T  BY <1>2, <1>3
<1>5. ASSUME NEW k \in 1..n, From(F[k - 1], k - 1), k - 1 > 0 => Starts(F[k - 1])
      PROVE  From(F[k], k) /\ Starts(F[k])
  <2> DEFINE q == F[k - 1]
             s == ss[k]
             r == q \o s
  <2>1. k - 1 \in 0..n /\ k \in 1..k /\ \A i \in 1..(k - 1) : i \in 1..k  BY <1>2
  <2>2. q \in Seq(V) /\ s \in Seq(V) /\ F[k] = r
    <3>1. q \in Seq(V)  BY <1>3, <2>1
    <3>2. s \in Seq(V)  OBVIOUS
    <3>3. F[k] = r  BY <1>1 DEF Flats
    <3> QED  BY <3>1, <3>2, <3>3
  <2>3. k = 1 => q = <<>>  BY <1>3
  <2> HIDE DEF q
  <2>4. /\ r \in Seq(V) /\ Len(r) = Len(q) + Len(s) /\ Len(q) \in Nat /\ Len(s) \in Nat
        /\ \A j \in 1..Len(q) : r[j] = q[j]
        /\ \A j \in (Len(q) + 1)..Len(r) : r[j] = s[j - Len(q)]
    BY <2>2
  <2> HIDE DEF r
  <2>5. ASSUME NEW j \in 1..Len(r)
        PROVE  \E i \in 1..k : \E m \in 1..Len(ss[i]) : r[j] = ss[i][m]
    <3>1. CASE j \in 1..Len(q)
      <4>1. PICK i \in 1..(k - 1) : \E m \in 1..Len(ss[i]) : q[j] = ss[i][m]
        BY <1>5, <3>1 DEF q
      <4> QED  BY <2>1, <2>4, <3>1, <4>1
    <3>2. CASE j \notin 1..Len(q)
      <4>1. j \in (Len(q) + 1)..Len(r) /\ j - Len(q) \in 1..Len(s)  BY <2>4, <3>2
      <4> QED  BY <2>1, <2>4, <4>1
    <3> QED  BY <3>1, <3>2
  <2>6. ASSUME Len(ss[1]) > 0 PROVE Len(r) > 0 /\ r[1] = ss[1][1]
    <3>1. CASE k = 1
      <4>1. Len(q) = 0 /\ s = ss[1]  BY <2>3, <3>1
      <4>2. 1 \in (Len(q) + 1)..Len(r) /\ 1 - Len(q) = 1  BY <2>4, <2>6, <4>1
      <4> QED  BY <2>4, <2>6, <4>1, <4>2
    <3>2. CASE k # 1
      <4>1. k - 1 > 0  BY <1>2, <3>2
      <4>2. Len(q) > 0 /\ q[1] = ss[1][1]  BY <1>5, <2>6, <4>1 DEF q
      <4>3. 1 \in 1..Len(q)  BY <2>4, <4>2
      <4> QED  BY <2>4, <4>2, <4>3
    <3> QED  BY <3>1, <3>2
  <2>7. From(r, k) /\ Starts(r)  BY <2>5, <2>6
  <2> HIDE DEF From, Starts
  <2> QED  BY <2>2, <2>7
<1>6. n \in T
  <2> HIDE DEF From, Starts
  <2>1. \A k \in 1..n : k - 1 \in T => k \in T
    <3> SUFFICES ASSUME NEW k \in 1..n, k - 1 \in T PROVE k \in T  OBVIOUS
    <3>1. From(F[k], k) /\ Starts(F[k])  BY <1>5
    <3> QED  BY <1>2, <3>1
  <2> HIDE DEF T, n
  <2> QED  BY <1>2, <1>4, <2>1, RangeInduction
<1>7. F[n] = FlattenSeq(ss) /\ F[n] \in Seq(V)  BY <1>1, <1>2, <1>3 DEF Flats
<1>8. From(F[n], n) /\ (n > 0 => Starts(F[n]))
  <2> HIDE DEF From, Starts
  <2> QED  BY <1>6
<1> QED  BY <1>7, <1>8

-----------------------------------------------------------------------------
(* Sums over a finite set.                                                 *)

\* Induction on the subsets of a finite set, which takes away the element that the
\* folds of the library take.
Some(s) == CHOOSE x \in s : TRUE

LEMMA SubsetInduction ==
    ASSUME NEW D, IsFiniteSet(D), NEW T, {} \in T,
           \A s \in SUBSET D : s # {} /\ s \ {Some(s)} \in T => s \in T
    PROVE  D \in T
<1> SUFFICES ASSUME D \notin T PROVE FALSE  OBVIOUS
<1> DEFINE Bad == {s \in SUBSET D : s \notin T}
<1>1. Bad \in SUBSET FiniteSubsetsOf(D)  BY FS_FiniteSubsetsOfFinite
<1>2. PICK m \in Bad : \A U \in Bad : ~(U \subseteq m /\ U # m)
  <2>1. Bad # {}  OBVIOUS
  <2> HIDE DEF Bad
  <2> QED  BY <1>1, <2>1, SmallestSet
<1>3. m \in SUBSET D /\ m # {} /\ m \notin T  OBVIOUS
<1>4. Some(m) \in m  BY <1>3 DEF Some
<1>5. m \ {Some(m)} \in T  BY <1>2, <1>3, <1>4
<1> QED  BY <1>3, <1>5

\* F[s] is the sum of f over s.
SetSums(F, D, f) ==
    \A s \in SUBSET D : F[s] = IF s = {} THEN 0 ELSE f[Some(s)] + F[s \ {Some(s)}]

LEMMA SumsExist ==
    ASSUME NEW D, IsFiniteSet(D), NEW f \in [D -> Int]
    PROVE  \E F \in [SUBSET D -> Int] : SetSums(F, D, f)
<1> DEFINE Good(F, k) == \A s \in SUBSET D : Cardinality(s) <= k =>
                           F[s] = IF s = {} THEN 0 ELSE f[Some(s)] + F[s \ {Some(s)}]
           Solvable(k) == \E F \in [SUBSET D -> Int] : Good(F, k)
           n == Cardinality(D)
           T == {k \in 0..n : Solvable(k)}
<1>1. /\ n \in Nat
      /\ \A s \in SUBSET D : IsFiniteSet(s) /\ Cardinality(s) \in Nat /\ Cardinality(s) <= n
  BY FS_CardinalityType, FS_Subset
<1>2. \A s \in SUBSET D : s # {} => /\ Some(s) \in s /\ s \ {Some(s)} \in SUBSET D
                                    /\ Cardinality(s \ {Some(s)}) = Cardinality(s) - 1
  <2> SUFFICES ASSUME NEW s \in SUBSET D, s # {}
               PROVE  Some(s) \in s /\ Cardinality(s \ {Some(s)}) = Cardinality(s) - 1
    OBVIOUS
  <2>1. Some(s) \in s  BY DEF Some
  <2> QED  BY <1>1, <2>1, FS_RemoveElement
<1>3. Solvable(0)
  <2> DEFINE F == [s \in SUBSET D |-> 0]
  <2>1. \A s \in SUBSET D : Cardinality(s) <= 0 => s = {}  BY <1>1, FS_EmptySet
  <2>2. F \in [SUBSET D -> Int] /\ Good(F, 0)  BY <2>1
  <2> HIDE DEF F, Good
  <2> QED  BY <2>2
<1>4. ASSUME NEW k \in 1..n, Solvable(k - 1) PROVE Solvable(k)
  <2> PICK old \in [SUBSET D -> Int] : Good(old, k - 1)  BY <1>4
  <2> DEFINE new == [s \in SUBSET D |-> IF s = {} THEN 0 ELSE f[Some(s)] + old[s \ {Some(s)}]]
  <2>1. new \in [SUBSET D -> Int]
    <3> SUFFICES ASSUME NEW s \in SUBSET D, s # {} PROVE f[Some(s)] + old[s \ {Some(s)}] \in Int
      OBVIOUS
    <3>1. f[Some(s)] \in Int /\ old[s \ {Some(s)}] \in Int  BY <1>2
    <3> QED  BY <3>1
  <2>2. ASSUME NEW s \in SUBSET D, Cardinality(s) <= k, s # {}
        PROVE  new[s] = f[Some(s)] + new[s \ {Some(s)}]
    <3> DEFINE t == s \ {Some(s)}
    <3>1. t \in SUBSET D /\ Cardinality(t) <= k - 1  BY <1>1, <1>2, <2>2
    <3>2. old[t] = new[t]  BY <3>1
    <3>3. new[s] = f[Some(s)] + old[t]  BY <2>2
    <3> HIDE DEF new
    <3> QED  BY <3>2, <3>3
  <2>3. new[{}] = 0  OBVIOUS
  <2> HIDE DEF new
  <2>4. Good(new, k)  BY <2>2, <2>3
  <2> HIDE DEF Good
  <2> QED  BY <2>1, <2>4
<1>5. n \in T
  <2>1. 0 \in T /\ \A k \in 1..n : k - 1 \in T => k \in T
    <3> HIDE DEF Solvable
    <3> QED  BY <1>1, <1>3, <1>4
  <2> HIDE DEF T, n
  <2> QED  BY <1>1, <2>1, RangeInduction
<1>6. PICK F \in [SUBSET D -> Int] : Good(F, n)
  <2> HIDE DEF Good
  <2> QED  BY <1>5
<1> HIDE DEF n
<1>7. SetSums(F, D, f)  BY <1>1, <1>6 DEF SetSums
<1> QED  BY <1>7

\* SumFunction of the library is such a sum.
LEMMA SumFunctionSums ==
    ASSUME NEW D, IsFiniteSet(D), NEW f \in [D -> Int]
    PROVE  \E F : SetSums(F, D, f) /\ F[D] = SumFunction(f)
<1> DEFINE Solution(F) == F = [s \in SUBSET D |->
                             IF s = {} THEN 0 ELSE f[Some(s)] + F[s \ {Some(s)}]]
           it == CHOOSE F : Solution(F)
<1>1. SumFunction(f) = it[D]
  BY DEF SumFunction, SumFunctionOnSet, FoldFunctionOnSet, MapThenFoldSet, Some
<1>2. PICK F \in [SUBSET D -> Int] : SetSums(F, D, f)  BY SumsExist
<1>3. Solution(F)  BY <1>2 DEF SetSums
<1>4. Solution(it)  BY <1>3
<1> HIDE DEF it
<1>5. SetSums(it, D, f)  BY <1>4 DEF SetSums
<1> QED  BY <1>1, <1>5

\* The sum of integers is one, and a greater one if they are greater.
LEMMA SumsInOrder ==
    ASSUME NEW D, IsFiniteSet(D), NEW f \in [D -> Int], NEW g \in [D -> Int],
           \A x \in D : f[x] <= g[x]
    PROVE  SumFunction(f) \in Int /\ SumFunction(g) \in Int /\ SumFunction(f) <= SumFunction(g)
<1>1. PICK F : SetSums(F, D, f) /\ F[D] = SumFunction(f)  BY SumFunctionSums
<1>2. PICK G : SetSums(G, D, g) /\ G[D] = SumFunction(g)  BY SumFunctionSums
<1> DEFINE T == {s \in SUBSET D : F[s] \in Int /\ G[s] \in Int /\ F[s] <= G[s]}
<1>3. {} \in T
  <2>1. F[{}] = 0 /\ G[{}] = 0  BY <1>1, <1>2 DEF SetSums
  <2> QED  BY <2>1
<1>4. ASSUME NEW s \in SUBSET D, s # {}, s \ {Some(s)} \in T PROVE s \in T
  <2>1. Some(s) \in D  BY <1>4 DEF Some
  <2>2. f[Some(s)] \in Int /\ g[Some(s)] \in Int /\ f[Some(s)] <= g[Some(s)]  BY <2>1
  <2>3. /\ F[s] = f[Some(s)] + F[s \ {Some(s)}]
        /\ G[s] = g[Some(s)] + G[s \ {Some(s)}]
    BY <1>1, <1>2, <1>4 DEF SetSums
  <2> QED  BY <1>4, <2>2, <2>3
<1>5. D \in T
  <2> HIDE DEF T
  <2> QED  BY <1>3, <1>4, SubsetInduction
<1> QED  BY <1>1, <1>2, <1>5

LEMMA SumOfNaturals ==
    ASSUME NEW D, IsFiniteSet(D), NEW f \in [D -> Nat]
    PROVE  SumFunction(f) \in Nat
<1> DEFINE zero == [x \in D |-> 0]
<1>0. f \in [D -> Int] /\ zero \in [D -> Int] /\ \A x \in D : zero[x] = 0 /\ zero[x] <= f[x]
  OBVIOUS
<1> HIDE DEF zero
<1>1. PICK F : SetSums(F, D, zero) /\ F[D] = SumFunction(zero)  BY <1>0, SumFunctionSums
<1> DEFINE T == {s \in SUBSET D : F[s] = 0}
<1>2. {} \in T  BY <1>1 DEF SetSums
<1>3. ASSUME NEW s \in SUBSET D, s # {}, s \ {Some(s)} \in T PROVE s \in T
  <2>1. Some(s) \in D  BY <1>3 DEF Some
  <2>2. F[s] = zero[Some(s)] + F[s \ {Some(s)}]  BY <1>1, <1>3 DEF SetSums
  <2> QED  BY <1>0, <1>3, <2>1, <2>2
<1>4. D \in T
  <2> HIDE DEF T
  <2> QED  BY <1>2, <1>3, SubsetInduction
<1>5. SumFunction(f) \in Int /\ SumFunction(zero) <= SumFunction(f)  BY <1>0, SumsInOrder
<1> QED  BY <1>1, <1>4, <1>5

-----------------------------------------------------------------------------
(* A loop that takes one element more.                                     *)

\* A loop over elements of S starts with base and goes on by the steps of G.
Loop(S, V, base, G) == base \in V /\ G \in [V \X S -> V]

\* F goes through s by the steps of G.
Follows(F, s, V, base, G) ==
    /\ F \in [0..Len(s) -> V]
    /\ F[0] = base
    /\ \A k \in 1..Len(s) : F[k] = G[<<F[k - 1], s[k]>>]

\* iter satisfies the equation of a fold over s.
SolvesOver(iter, s, V, base, G) ==
    \A d \in SUBSET (1..Len(s)) :
       /\ iter[d] = IF d = {} THEN base ELSE G[<<iter[d \ {Max(d)}], s[Max(d)]>>]
       /\ d # {} => Max(d) \in d /\ iter[d \ {Max(d)}] \in V

\* it satisfies the equation as far as it stays in V.
SolvesInside(it, s, V, base, G) ==
    /\ it[{}] = base
    /\ \A d \in SUBSET (1..Len(s)) :
          (d # {} /\ it[d \ {Max(d)}] \in V) => it[d] = G[<<it[d \ {Max(d)}], s[Max(d)]>>]

\* There is one that does.
LEMMA SolutionExists ==
    ASSUME NEW S, NEW s \in Seq(S), NEW V, NEW base, NEW G, Loop(S, V, base, G)
    PROVE  \E iter \in [SUBSET (1..Len(s)) -> V] : SolvesOver(iter, s, V, base, G)
<1> DEFINE n == Len(s)
           H == [p \in V \X (1..n) |-> G[<<p[1], s[p[2]]>>]]
<1>0. base \in V /\ G \in [V \X S -> V]  BY DEF Loop
<1>1. n \in Nat /\ \A i \in 1..n : s[i] \in S  OBVIOUS
<1>2. /\ H \in [V \X (1..n) -> V]
      /\ \A v \in V, i \in 1..n : H[<<v, i>>] = G[<<v, s[i]>>]
  BY <1>0, <1>1
<1> HIDE DEF H, n
<1>3. PICK iter \in [SUBSET (1..n) -> V] : Solves(iter, n, base, H)
  BY <1>0, <1>1, <1>2, FoldExists
<1>4. ASSUME NEW d \in SUBSET (1..n)
      PROVE  /\ iter[d] = IF d = {} THEN base ELSE G[<<iter[d \ {Max(d)}], s[Max(d)]>>]
             /\ d # {} => Max(d) \in d /\ iter[d \ {Max(d)}] \in V
  <2>1. d # {} => Max(d) \in d  BY <1>1, MaxIsGreatest
  <2>2. d \ {Max(d)} \in SUBSET (1..n)  OBVIOUS
  <2>3. iter[d \ {Max(d)}] \in V  BY <1>3, <2>2
  <2>4. iter[d] = IF d = {} THEN base ELSE H[<<iter[d \ {Max(d)}], Max(d)>>]
    BY <1>3 DEF Solves
  <2> QED  BY <1>2, <2>1, <2>3, <2>4
<1> QED  BY <1>3, <1>4 DEF n, SolvesOver

\* Whatever satisfies the equation goes through s.
LEMMA SolutionFollows ==
    ASSUME NEW S, NEW s \in Seq(S), NEW V, NEW base, NEW G, Loop(S, V, base, G),
           NEW it, SolvesInside(it, s, V, base, G)
    PROVE  \E F : Follows(F, s, V, base, G) /\ F[Len(s)] = it[1..Len(s)]
<1> DEFINE n == Len(s)
           H == [p \in V \X (1..n) |-> G[<<p[1], s[p[2]]>>]]
<1>0. base \in V /\ G \in [V \X S -> V]  BY DEF Loop
<1>1. n \in Nat /\ \A i \in 1..n : s[i] \in S  OBVIOUS
<1>2. /\ H \in [V \X (1..n) -> V]
      /\ \A v \in V, i \in 1..n : H[<<v, i>>] = G[<<v, s[i]>>]
  BY <1>0, <1>1
<1> HIDE DEF H
<1>3. ASSUME NEW k \in 1..n, it[1..(k - 1)] \in V PROVE it[1..k] = H[<<it[1..(k - 1)], k>>]
  <2>1. k \in Nat \ {0} /\ 1..k \in SUBSET (1..n)  BY <1>1
  <2>2. Max(1..k) = k /\ (1..k) \ {Max(1..k)} = 1..(k - 1) /\ 1..k # {}  BY <2>1, MaxOfRange
  <2>3. it[1..k] = G[<<it[1..(k - 1)], s[k]>>]  BY <1>3, <2>1, <2>2 DEF SolvesInside
  <2> QED  BY <1>2, <1>3, <2>3
<1> HIDE DEF n
<1>4. SolvesPrefixes(it, n, V, base, H)  BY <1>3 DEF SolvesPrefixes, SolvesInside
<1>5. PICK F : Steps(F, it, n, V, base, H)  BY <1>0, <1>1, <1>2, <1>4, PrefixSteps
<1>6. ASSUME NEW k \in 1..n PROVE F[k] = G[<<F[k - 1], s[k]>>]
  <2>1. k - 1 \in 0..n /\ F[k] = H[<<F[k - 1], k>>]  BY <1>1, <1>5 DEF Steps
  <2>2. F[k - 1] \in V  BY <2>1, <1>5 DEF Steps
  <2> QED  BY <1>2, <2>1, <2>2
<1> QED  BY <1>5, <1>6 DEF Steps, Follows, n

\* A loop over a name with one character more takes one step more.
LEMMA FollowsAppend ==
    ASSUME NEW S, NEW s \in Seq(S), NEW c \in S, NEW V, NEW base, NEW G,
           Loop(S, V, base, G),
           NEW F, Follows(F, s, V, base, G),
           NEW H, Follows(H, Append(s, c), V, base, G)
    PROVE  F[Len(s)] \in V /\ H[Len(s) + 1] = G[<<F[Len(s)], c>>]
<1> DEFINE n == Len(s)
           u == Append(s, c)
           T == {k \in 0..n : H[k] = F[k]}
<1>1. n \in Nat /\ Len(u) = n + 1 /\ u[n + 1] = c /\ \A k \in 1..n : u[k] = s[k]  OBVIOUS
<1> HIDE DEF u
<1>2. Follows(H, u, V, base, G)  BY DEF u
<1> HIDE DEF n
<1>3. 0 \in T  BY <1>1, <1>2 DEF Follows
<1>4. ASSUME NEW k \in 1..n, k - 1 \in T PROVE k \in T
  <2>1. k \in 1..(n + 1) /\ k \in 0..n  BY <1>1
  <2>2. H[k] = G[<<H[k - 1], u[k]>>]  BY <1>1, <1>2, <2>1 DEF Follows
  <2>3. F[k] = G[<<F[k - 1], s[k]>>]  BY DEF Follows, n
  <2> QED  BY <1>1, <1>4, <2>1, <2>2, <2>3
<1>5. n \in T
  <2> HIDE DEF T
  <2> QED  BY <1>1, <1>3, <1>4, RangeInduction
<1>6. n + 1 \in 1..(n + 1) /\ (n + 1) - 1 = n /\ n \in 0..n  BY <1>1
<1>7. H[n + 1] = G[<<H[n], c>>]  BY <1>1, <1>2, <1>6 DEF Follows
<1> QED  BY <1>5, <1>6, <1>7 DEF Follows, n

\* An element more is kept or not.
LEMMA KeepAppend ==
    ASSUME NEW S, NEW s \in Seq(S), NEW c \in S, NEW A
    PROVE  /\ Keep(s, A) \in Seq(S)
           /\ Keep(Append(s, c), A) = IF c \in A THEN Append(Keep(s, A), c) ELSE Keep(s, A)
<1> DEFINE u == Append(s, c)
           G == [p \in Seq(S) \X S |-> (IF p[2] \in A THEN Append(p[1], p[2]) ELSE p[1])]
<1>1. /\ Loop(S, Seq(S), <<>>, G)
      /\ \A v \in Seq(S), x \in S : G[<<v, x>>] = (IF x \in A THEN Append(v, x) ELSE v)
  BY DEF Loop
<1> HIDE DEF G
<1>2. ASSUME NEW t \in Seq(S), NEW F, Keeps(F, S, t, A)
      PROVE  Follows(F, t, Seq(S), <<>>, G) /\ F[Len(t)] = Keep(t, A)
  <2>1. ASSUME NEW k \in 1..Len(t) PROVE F[k] = G[<<F[k - 1], t[k]>>]
    <3>1. /\ F[k - 1] \in Seq(S) /\ t[k] \in S
          /\ F[k] = IF t[k] \in A THEN Append(F[k - 1], t[k]) ELSE F[k - 1]
      BY <1>2, KeepStep
    <3> QED  BY <1>1, <3>1
  <2> QED  BY <1>2, <2>1 DEF Keeps, Follows
<1>3. u \in Seq(S) /\ Len(u) = Len(s) + 1  OBVIOUS
<1>4. PICK F : Keeps(F, S, s, A)  BY KeepSteps
<1> HIDE DEF u
<1>5. PICK H : Keeps(H, S, u, A)  BY <1>3, KeepSteps
<1>6. Follows(F, s, Seq(S), <<>>, G) /\ F[Len(s)] = Keep(s, A)  BY <1>2, <1>4
<1>7. Follows(H, u, Seq(S), <<>>, G) /\ H[Len(u)] = Keep(u, A)  BY <1>2, <1>3, <1>5
<1>8. Follows(H, Append(s, c), Seq(S), <<>>, G)  BY <1>7 DEF u
<1>9. F[Len(s)] \in Seq(S) /\ H[Len(s) + 1] = G[<<F[Len(s)], c>>]
  BY <1>1, <1>6, <1>8, FollowsAppend
<1> QED  BY <1>1, <1>3, <1>6, <1>7, <1>9 DEF u

\* Nothing is kept of nothing.
LEMMA KeepEmpty == ASSUME NEW A PROVE Keep(<<>>, A) = <<>>
<1>1. <<>> \in Seq({}) /\ Len(<<>>) = 0  OBVIOUS
<1>2. PICK F : Keeps(F, {}, <<>>, A)  BY <1>1, KeepSteps
<1> QED  BY <1>1, <1>2 DEF Keeps

\* What is kept is made of what may be kept.
LEMMA KeptIn ==
    ASSUME NEW S, NEW s \in Seq(S), NEW A
    PROVE  Keep(s, A) \in Seq(A)
<1>1. Keep(s, A) \in Seq(S) /\ \A j \in 1..Len(Keep(s, A)) : Keep(s, A)[j] \in A
  BY KeepElements
<1> QED  BY <1>1
=============================================================================
