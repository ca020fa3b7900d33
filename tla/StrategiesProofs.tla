--------------------------- MODULE StrategiesProofs ---------------------------
(***************************************************************************)
(* Theorems about Strategies, for any settings, markets, miners, grids and *)
(* any number of failures, stops and kills: each of the three loops        *)
(* implements a Tuner, and a Whatsminer measures the cell it says.         *)
(***************************************************************************)
EXTENDS Strategies, VoltageApplyProofs, FiniteSetTheorems, SequenceTheorems, TLAPS

(* Total orders on finite sets, as sets of pairs                           *)

Orders(R, S) ==
  /\ \A x \in S : <<x, x>> \notin R
  /\ \A x, y \in S : x = y \/ <<x, y>> \in R \/ <<y, x>> \in R
  /\ \A x, y, z \in S : <<x, y>> \in R /\ <<y, z>> \in R => <<x, z>> \in R

IsLast(m, R, S) == m \in S /\ \A x \in S : x = m \/ <<x, m>> \in R

(* A finite set that is not empty has a last element.                      *)
LEMMA LastExists ==
  ASSUME NEW R, NEW S, IsFiniteSet(S), Orders(R, S), S # {}
  PROVE  \E m \in S : IsLast(m, R, S)
<1> DEFINE Bad == {U \in SUBSET S : U # {} /\ \A m \in U : ~IsLast(m, R, U)}
<1> SUFFICES ASSUME Bad # {} PROVE FALSE
  <2>1. S \notin Bad => \E m \in S : IsLast(m, R, S)
    OBVIOUS
  <2> QED
    BY <2>1
<1>1. IsWellFoundedOn(StrictSubsetOrdering(S), FiniteSubsetsOf(S))
  BY FS_StrictSubsetOrderingWellFounded
<1>2. Bad \subseteq FiniteSubsetsOf(S)
  BY FS_Subset DEF FiniteSubsetsOf
<1>3. PICK U \in Bad : \A V \in Bad : <<V, U>> \notin StrictSubsetOrdering(S)
  <2> HIDE DEF Bad
  <2> QED
    BY <1>1, <1>2, WFMin
<1>4. PICK x \in U : TRUE
  OBVIOUS
<1>5. CASE U = {x}
  BY <1>3, <1>5 DEF IsLast
<1>6. CASE U # {x}
  <2>1. U \ {x} # {} /\ U \ {x} \in SUBSET S
    BY <1>4, <1>6
  <2>2. <<U \ {x}, U>> \in StrictSubsetOrdering(S)
    BY <1>4 DEF StrictSubsetOrdering
  <2>3. PICK m \in U \ {x} : IsLast(m, R, U \ {x})
    BY <1>3, <2>1, <2>2
  <2>4. CASE <<x, m>> \in R
    BY <1>3, <2>3, <2>4 DEF IsLast
  <2>5. CASE <<m, x>> \in R
    <3>1. IsLast(x, R, U)
      BY <1>4, <2>3, <2>5 DEF IsLast, Orders
    <3> QED
      BY <1>3, <1>4, <3>1
  <2> QED
    BY <1>4, <2>3, <2>4, <2>5 DEF Orders
<1> QED
  BY <1>5, <1>6

Below(i, R, S) == {j \in S : <<j, i>> \in R}

HasRank(R, S, r) == \E i \in S : Cardinality(Below(i, R, S)) = r

(* Every rank below the number of elements is taken.                       *)
LEMMA RankExists ==
  ASSUME NEW R, NEW S, IsFiniteSet(S), Orders(R, S), NEW r \in Nat, r < Cardinality(S)
  PROVE  HasRank(R, S, r)
<1> DEFINE Open(U, q) == q < Cardinality(U) /\ \A i \in U : Cardinality(Below(i, R, U)) # q
           Bad == {U \in SUBSET S : \E q \in Nat : Open(U, q)}
<1> SUFFICES ASSUME Bad # {} PROVE FALSE
  <2>1. S \notin Bad => HasRank(R, S, r)
    BY DEF HasRank
  <2> QED
    BY <2>1
<1>1. IsWellFoundedOn(StrictSubsetOrdering(S), FiniteSubsetsOf(S))
  BY FS_StrictSubsetOrderingWellFounded
<1>2. Bad \subseteq FiniteSubsetsOf(S)
  BY FS_Subset DEF FiniteSubsetsOf
<1>3. PICK U \in Bad : \A V \in Bad : <<V, U>> \notin StrictSubsetOrdering(S)
  <2> HIDE DEF Bad
  <2> QED
    BY <1>1, <1>2, WFMin
<1>4. PICK q \in Nat : Open(U, q)
  BY <1>3
<1>5. IsFiniteSet(U) /\ U # {} /\ Orders(R, U)
  BY <1>3, <1>4, FS_Subset, FS_EmptySet DEF Orders
<1>6. PICK m \in U : IsLast(m, R, U)
  BY <1>5, LastExists
<1> DEFINE V == U \ {m}
<1>7. IsFiniteSet(V) /\ Cardinality(V) = Cardinality(U) - 1 /\ Cardinality(U) \in Nat
  BY <1>5, <1>6, FS_RemoveElement, FS_CardinalityType
<1>8. V \in SUBSET S /\ V \notin Bad
  BY <1>3, <1>6 DEF StrictSubsetOrdering
<1>9. CASE q = Cardinality(V)
  <2>1. Below(m, R, U) = V
    BY <1>3, <1>5, <1>6 DEF Below, IsLast, Orders
  <2> QED
    BY <1>4, <1>6, <1>9, <2>1
<1>10. CASE q < Cardinality(V)
  <2>1. PICK i \in V : Cardinality(Below(i, R, V)) = q
    BY <1>4, <1>8, <1>10
  <2>2. Below(i, R, U) = Below(i, R, V)
    BY <1>5, <1>6, <2>1 DEF Below, IsLast, Orders
  <2> QED
    BY <1>4, <2>1, <2>2
<1> QED
  BY <1>4, <1>7, <1>9, <1>10
-----------------------------------------------------------------------------
(* A step of a Tuner, from one mode, what is known and what is chosen to   *)
(* another.                                                                *)
AsTuner(m, k, c, n, l, d) ==
  \/ m = n /\ k = l /\ c = d
  \/ m = "off" /\ n = "search" /\ k = l /\ c = d
  \/ m = "search" /\ n = "search" /\ c = d /\ \E p \in l : l = k \cup {p}
  \/ m = "search" /\ n \in {"search", "hold", "off"} /\ k = l /\ d \subseteq k
  \/ m = "hold" /\ n \in {"search", "hold", "off"} /\ k = l /\ c = d
  \/ m # "off" /\ n = "off" /\ l \subseteq k /\ d \subseteq l

LEMMA Abstractly ==
  ASSUME AsTuner(Mode, Known, Choice, Mode', Known', Choice')
  PROVE  [T!Next]_(T!tuner)
BY DEF AsTuner, T!Next, T!tuner, T!Begin, T!Learn, T!Choose, T!Hold, T!Crash

\* What the place of the worker stands for, in the first two loops.
Phase(p) ==
  IF p = "off" THEN "off"
  ELSE IF p \in {"monitor", "hold", "resampling", "recheck"} THEN "hold" ELSE "search"
-----------------------------------------------------------------------------
(* Finite sets and sequences                                               *)

(* The image of a finite set.                                              *)
LEMMA FiniteImage ==
  ASSUME NEW S, IsFiniteSet(S), NEW f, DOMAIN f = S, f = [x \in S |-> f[x]]
  PROVE  IsFiniteSet({f[x] : x \in S})
<1>1. f \in Surjection(S, {f[x] : x \in S})
  BY DEF Surjection
<1> QED
  BY <1>1, FS_Surjection

(* A set of indices is finite and has a least one.                         *)
LEMMA FiniteIndices ==
  ASSUME NEW n \in Nat, NEW S, S \subseteq 1..n
  PROVE  IsFiniteSet(S)
<1>1. 1 \in Int /\ n \in Int
  OBVIOUS
<1>2. IsFiniteSet(1..n)
  BY <1>1, FS_Interval
<1> QED
  BY <1>2, FS_Subset

LEMMA LeastChosen ==
  ASSUME NEW n \in Nat, NEW S, S \subseteq 1..n, S # {}
  PROVE  LET m == CHOOSE r \in S : \A q \in S : r <= q
         IN m \in S /\ \A q \in S : m <= q
<1> DEFINE R == {p \in S \X S : p[1] > p[2]}
<1>1. IsFiniteSet(S)
  BY FiniteIndices
<1>2. Orders(R, S)
  BY DEF Orders
<1>3. PICK m \in S : IsLast(m, R, S)
  <2> HIDE DEF R
  <2> QED
    BY <1>1, <1>2, LastExists
<1>4. ASSUME NEW q \in S
      PROVE  m <= q
  <2>1. q = m \/ <<q, m>> \in R
    BY <1>3 DEF IsLast
  <2>2. <<q, m>> \in R => q > m
    OBVIOUS
  <2> QED
    BY <2>1, <2>2
<1> QED
  BY <1>4

LEMMA LeastIndex ==
  ASSUME NEW n \in Nat, NEW S, S \subseteq 1..n, S # {}
  PROVE  (CHOOSE r \in S : \A q \in S : r <= q) \in S
BY LeastChosen

(* A function on 1..n is a sequence of length n.                           *)
LEMMA AsSequence ==
  ASSUME NEW n \in Nat, NEW S, NEW f \in [1..n -> S]
  PROVE  f \in Seq(S) /\ Len(f) = n
<1>1. f \in Seq(S)
  BY SeqDef
<1> QED
  BY <1>1, LenProperties
-----------------------------------------------------------------------------
(* Exploration: what is tuned has been measured.                           *)

Spots == Int \X Int

\* Wherever a scene's rankings are asked for a score, it is a number if there is one.
Scores ==
  \A s \in Scenes : \A i \in 1..Len(s.eras) : \A at \in Spots :
    Score(s.eras[i].rank, at) \in Int \cup {None}

\* The settings are those of one of the scene's eras.
InEra == scene \in Scenes /\ eraNo \in 1..Len(scene.eras)

(* What the settings of an era are.                                        *)
LEMMA EraSettings ==
  ASSUME InEra
  PROVE  /\ \A a \in {Era.v, Era.f} :
              /\ a.lo \in Nat /\ a.hi \in Nat /\ a.n \in Nat
              /\ a.n >= 2 /\ a.hi - a.lo >= a.n - 1
         /\ Era.fine \in Nat /\ Era.fineK \in Nat /\ Era.rays \in Nat
         /\ Era.topK \in Nat /\ Era.trend \in Nat
BY ExplorationAssumption DEF InEra, Era, Axes

\* An entry of the surface.
Entries == [at : Spots, fine : BOOLEAN, anchor : Spots \cup {None}, ok : BOOLEAN]

\* A surface: no position is in it twice, and what has an anchor is a fine cell.
Surface(s) ==
  /\ s \in Seq(Entries)
  /\ \A i, j \in 1..Len(s) : s[i].at = s[j].at => i = j
  /\ \A i \in 1..Len(s) : s[i].anchor # None => s[i].fine

LEMMA SurfaceEntries ==
  ASSUME NEW s, Surface(s)
  PROVE  /\ Len(s) \in Nat /\ DOMAIN s = 1..Len(s) /\ s \in [1..Len(s) -> Entries]
         /\ Positions(s) \subseteq Spots
<1>1. Len(s) \in Nat /\ DOMAIN s = 1..Len(s) /\ s \in [1..Len(s) -> Entries]
  BY LenProperties DEF Surface
<1>2. ASSUME NEW i \in 1..Len(s) PROVE s[i].at \in Spots
  BY <1>1 DEF Entries
<1> QED
  BY <1>1, <1>2 DEF Positions

(* What has a score has a number for one.                                  *)
LEMMA ScoredWorth ==
  ASSUME Scores, InEra, NEW s, Surface(s), NEW i \in Scored(s)
  PROVE  Worth(s, i) \in Int /\ i \in 1..Len(s)
<1>1. i \in 1..Len(s) /\ Worth(s, i) # None
  BY DEF Scored
<1>2. s[i].at \in Spots
  BY <1>1, SurfaceEntries DEF Entries
<1>3. Score(Era.rank, s[i].at) \in Int \cup {None}
  BY <1>2 DEF Scores, InEra, Era
<1> QED
  BY <1>1, <1>3 DEF Worth, WorthOf

(* The best of some indices are among them.                                *)
LEMMA BestAmong ==
  ASSUME Scores, InEra, NEW s, Surface(s), NEW S, S \subseteq Scored(s), NEW k \in Nat
  PROVE  /\ BestOf(s, S, k) \in Seq(S) /\ Len(BestOf(s, S, k)) \in Nat
         /\ \A r \in 1..Len(BestOf(s, S, k)) : BestOf(s, S, k)[r] \in S
<1> DEFINE better(i, j) == Worth(s, i) < Worth(s, j) \/ (Worth(s, i) = Worth(s, j) /\ i < j)
           R == {p \in S \X S : better(p[1], p[2])}
           n == IF k < Cardinality(S) THEN k ELSE Cardinality(S)
<1>0. IsFiniteSet(S) /\ S \subseteq Int
  <2>1. S \subseteq 1..Len(s) /\ Len(s) \in Nat
    BY SurfaceEntries DEF Scored
  <2>2. IsFiniteSet(S)
    BY <2>1, FiniteIndices
  <2> QED
    BY <2>1, <2>2
<1>1. \A i \in S : Worth(s, i) \in Int
  BY ScoredWorth
<1>2. Orders(R, S)
  BY <1>0, <1>1 DEF Orders
<1>3. Cardinality(S) \in Nat /\ n \in Nat
  BY <1>0, FS_CardinalityType
<1>4. ASSUME NEW r \in 1..n
      PROVE  (CHOOSE i \in S : Cardinality({j \in S : better(j, i)}) = r - 1) \in S
  <2> DEFINE q == r - 1
  <2>1. q \in Nat /\ q < Cardinality(S)
    BY <1>3
  <2>2. HasRank(R, S, q)
    <3> HIDE DEF R, q
    <3> QED
      BY <1>0, <1>2, <2>1, RankExists
  <2> PICK i \in S : Cardinality(Below(i, R, S)) = r - 1
    BY <2>2 DEF HasRank
  <2>3. Below(i, R, S) = {j \in S : better(j, i)}
    BY DEF Below
  <2> QED
    BY <2>2, <2>3
<1>5. BestOf(s, S, k) \in [1..n -> S]
  BY <1>3, <1>4 DEF BestOf
<1> HIDE DEF n
<1>6. BestOf(s, S, k) \in Seq(S) /\ Len(BestOf(s, S, k)) = n
  BY <1>3, <1>5, AsSequence
<1> QED
  BY <1>3, <1>5, <1>6

(* Indices in their order.                                                 *)
LEMMA Ordered ==
  ASSUME NEW n \in Nat, NEW S, S \subseteq 1..n
  PROVE  /\ InOrder(S) \in Seq(S) /\ Len(InOrder(S)) \in Nat
         /\ \A r \in 1..Len(InOrder(S)) : InOrder(S)[r] \in S
<1> DEFINE R == {p \in S \X S : p[1] < p[2]}
           c == Cardinality(S)
<1>1. IsFiniteSet(S) /\ c \in Nat
  BY FiniteIndices, FS_CardinalityType
<1>2. Orders(R, S)
  <2>1. \A x, y : <<x, y>> \in R <=> x \in S /\ y \in S /\ x < y
    OBVIOUS
  <2>2. \A x \in S : x \in Int
    OBVIOUS
  <2> HIDE DEF R
  <2>3. \A x \in S : <<x, x>> \notin R
    BY <2>1, <2>2
  <2>4. \A x, y \in S : x = y \/ <<x, y>> \in R \/ <<y, x>> \in R
    <3> SUFFICES ASSUME NEW x \in S, NEW y \in S PROVE x = y \/ x < y \/ y < x
      BY <2>1
    <3> QED
      BY <2>2
  <2>5. \A x, y, z \in S : <<x, y>> \in R /\ <<y, z>> \in R => <<x, z>> \in R
    <3> SUFFICES ASSUME NEW x \in S, NEW y \in S, NEW z \in S, x < y, y < z PROVE x < z
      BY <2>1
    <3> QED
      BY <2>2
  <2> QED
    BY <2>3, <2>4, <2>5 DEF Orders
<1>3. ASSUME NEW r \in 1..c
      PROVE  (CHOOSE i \in S : Cardinality({j \in S : j < i}) = r - 1) \in S
  <2> DEFINE q == r - 1
  <2>1. q \in Nat /\ q < Cardinality(S)
    BY <1>1
  <2>2. HasRank(R, S, q)
    <3> HIDE DEF R, q
    <3> QED
      BY <1>1, <1>2, <2>1, RankExists
  <2> PICK i \in S : Cardinality(Below(i, R, S)) = r - 1
    BY <2>2 DEF HasRank
  <2>3. Below(i, R, S) = {j \in S : j < i}
    BY DEF Below
  <2> QED
    BY <2>2, <2>3
<1>4. InOrder(S) \in [1..c -> S]
  BY <1>1, <1>3 DEF InOrder
<1> HIDE DEF c
<1> QED
  BY <1>1, <1>4, AsSequence

LEMMA InSequence ==
  ASSUME NEW S, NEW t \in Seq(S)
  PROVE  Len(t) \in Nat /\ \A r \in 1..Len(t) : t[r] \in S
BY LenProperties

(* The first k of a sequence.                                              *)
LEMMA FirstOf ==
  ASSUME NEW S, NEW q \in Seq(S), NEW k \in Nat
  PROVE  /\ FirstK(q, k) \in Seq(S) /\ Len(FirstK(q, k)) \in Nat
         /\ \A r \in 1..Len(FirstK(q, k)) : FirstK(q, k)[r] \in S
<1> DEFINE m == IF k < Len(q) THEN k ELSE Len(q)
<1>1. Len(q) \in Nat /\ q \in [1..Len(q) -> S]
  BY LenProperties
<1>2. 1 \in Int /\ m \in Int /\ \A i \in 1..m : q[i] \in S
  BY <1>1
<1> HIDE DEF m
<1>3. SubSeq(q, 1, m) \in Seq(S)
  BY <1>2, SubSeqProperties
<1>4. FirstK(q, k) = SubSeq(q, 1, m)
  BY DEF FirstK, m
<1>5. FirstK(q, k) \in Seq(S)
  BY <1>3, <1>4
<1> QED
  BY <1>5, InSequence

(* Rounding gives an integer.                                              *)
LEMMA Rounded ==
  ASSUME NEW a \in Int, NEW b \in Nat, b > 0
  PROVE  RoundDiv(a, b) \in Int
<1> DEFINE q == a \div b
           r == a % b
<1>1. q \in Int
  OBVIOUS
<1>2. RoundDiv(a, b) = IF 2 * r < b \/ (2 * r = b /\ q % 2 = 0) THEN q ELSE q + 1
  BY DEF RoundDiv
<1> HIDE DEF q, r
<1> QED
  BY <1>1, <1>2

LEMMA PointInt ==
  ASSUME InEra, NEW axis \in {Era.v, Era.f}, NEW i \in Int
  PROVE  Point(axis, i) \in Int
<1>1. axis.lo \in Int /\ axis.hi \in Int /\ axis.n \in Int /\ axis.n - 1 \in Nat /\ axis.n - 1 > 0
  BY EraSettings
<1> DEFINE a == axis.hi * (axis.n - 1) - (axis.n - 1 - i) * (axis.hi - axis.lo)
<1>2. a \in Int
  <2>1. axis.hi * (axis.n - 1) \in Int
    BY <1>1
  <2>2. (axis.n - 1 - i) * (axis.hi - axis.lo) \in Int
    BY <1>1
  <2> QED
    BY <2>1, <2>2
<1> HIDE DEF a
<1>3. RoundDiv(a, axis.n - 1) \in Int
  BY <1>1, <1>2, Rounded
<1> QED
  BY <1>3 DEF Point, a

(* The coarse grid is finite.                                              *)
LEMMA CoarseGrid ==
  ASSUME InEra
  PROVE  IsFiniteSet(Grid) /\ Grid \subseteq Spots
<1> DEFINE f == [ij \in Indices |-> Cell(ij[1], ij[2])]
           vs == 0..Era.v.n - 1
           fs == 0..Era.f.n - 1
<1>1. IsFiniteSet(Indices)
  <2>1. 0 \in Int /\ Era.v.n - 1 \in Int /\ Era.f.n - 1 \in Int
    BY EraSettings
  <2>2. IsFiniteSet(vs) /\ IsFiniteSet(fs)
    BY <2>1, FS_Interval
  <2> QED
    BY <2>2, FS_Product DEF Indices
<1>2. IsFiniteSet({f[ij] : ij \in Indices})
  <2>1. DOMAIN f = Indices /\ f = [x \in Indices |-> f[x]]
    OBVIOUS
  <2> HIDE DEF f
  <2> QED
    BY <1>1, <2>1, FiniteImage
<1>3. Grid \subseteq {f[ij] : ij \in Indices}
  <2>1. ASSUME NEW i \in vs, NEW j \in fs
        PROVE  Cell(i, j) \in {f[ij] : ij \in Indices}
    <3>1. <<i, j>> \in Indices /\ f[<<i, j>>] = Cell(i, j)
      BY DEF Indices
    <3> HIDE DEF f
    <3> QED
      BY <3>1
  <2> QED
    BY <2>1 DEF Grid
<1>4. Grid \subseteq Spots
  <2>1. ASSUME NEW i \in Int, NEW j \in Int PROVE Cell(i, j) \in Spots
    BY PointInt DEF Cell, Spots
  <2> QED
    BY <2>1 DEF Grid
<1> QED
  BY <1>2, <1>3, <1>4, FS_Subset

(* The top corner of some positions is one of them.                        *)
LEMMA TopCornerIn ==
  ASSUME NEW S, IsFiniteSet(S), S \subseteq Spots, S # {}
  PROVE  TopCorner(S) \in S
<1> DEFINE below(x, c) == x[1] < c[1] \/ (x[1] = c[1] /\ x[2] < c[2])
           R == {p \in S \X S : below(p[1], p[2])}
<1>1. \A x \in S : x[1] \in Int /\ x[2] \in Int /\ x = <<x[1], x[2]>>
  BY DEF Spots
<1>2. Orders(R, S)
  <2>1. \A x \in S : <<x, x>> \notin R
    BY <1>1
  <2>2. \A x, y \in S : <<x, y>> \in R <=> below(x, y)
    OBVIOUS
  <2>3. ASSUME NEW x \in S, NEW y \in S
        PROVE  x = y \/ below(x, y) \/ below(y, x)
    <3>1. (x[1] = y[1] /\ x[2] = y[2]) \/ below(x, y) \/ below(y, x)
      BY <1>1
    <3> QED
      BY <1>1, <3>1
  <2>4. \A x, y, z \in S : below(x, y) /\ below(y, z) => below(x, z)
    BY <1>1
  <2> HIDE DEF R, below
  <2> QED
    BY <2>1, <2>2, <2>3, <2>4 DEF Orders
<1>3. PICK m \in S : IsLast(m, R, S)
  <2> HIDE DEF R
  <2> QED
    BY <1>2, LastExists
<1>4. ASSUME NEW x \in S
      PROVE  x[1] < m[1] \/ (x[1] = m[1] /\ x[2] <= m[2])
  <2>1. x = m \/ <<x, m>> \in R
    BY <1>3 DEF IsLast
  <2>2. <<x, m>> \in R => below(x, m)
    OBVIOUS
  <2>3. x[1] \in Int /\ x[2] \in Int /\ m[1] \in Int /\ m[2] \in Int
    BY <1>1, <1>3 DEF IsLast
  <2>4. x = m => x[1] = m[1] /\ x[2] <= m[2]
    BY <2>3
  <2>5. below(x, m) => x[1] < m[1] \/ (x[1] = m[1] /\ x[2] <= m[2])
    BY <2>3
  <2> QED
    BY <2>1, <2>2, <2>4, <2>5
<1> QED
  BY <1>4 DEF TopCorner

LEMMA Bootstrapped ==
  ASSUME InEra, NEW s, Bootstrap(s) # None
  PROVE  Bootstrap(s) \in Grid \ Positions(s)
<1> DEFINE new == Grid \ Positions(s)
<1>1. new # {} => TopCorner(new) \in new
  <2>1. IsFiniteSet(new) /\ new \subseteq Spots
    BY CoarseGrid, FS_Subset
  <2> QED
    BY <2>1, TopCornerIn
<1> QED
  BY <1>1 DEF Bootstrap

(* A ray leads to a cell of the grid that is not measured.                 *)
LEMMA RayLeadsOn ==
  ASSUME InEra, NEW measured, NEW scored, NEW from, NEW d, NEW better,
         NextOnRay(measured, scored, better, from, d) # None
  PROVE  NextOnRay(measured, scored, better, from, d) \in Grid \ measured
<1> DEFINE steps == {k \in 1..Era.v.n + Era.f.n : <<from[1] + k * d[1], from[2] + k * d[2]>> \in Indices}
           Ray(k) == Cell(from[1] + k * d[1], from[2] + k * d[2])
           new == {k \in steps : Ray(k) \notin measured}
           first == CHOOSE k \in new : \A l \in new : k <= l
<1>1. NextOnRay(measured, scored, better, from, d) = Ray(first) /\ new # {}
  BY DEF NextOnRay
<1>2. first \in new
  <2>1. Era.v.n + Era.f.n \in Nat
    BY EraSettings
  <2>2. new \subseteq 1..Era.v.n + Era.f.n
    BY Zenon
  <2> HIDE DEF new
  <2> QED
    BY <1>1, <2>1, <2>2, LeastIndex
<1>3. Ray(first) \notin measured /\ <<from[1] + first * d[1], from[2] + first * d[2]>> \in Indices
  BY <1>2
<1> HIDE DEF first
<1>4. Ray(first) \in Grid
  BY <1>3 DEF Grid, Indices
<1> QED
  BY <1>1, <1>3, <1>4

LEMMA RayOrigin ==
  ASSUME Scores, InEra, NEW s, Surface(s)
  PROVE  Len(RayOrigins(s)) \in Nat
<1> DEFINE flying == {i \in Scored(s) : s[i].fine /\ s[i].anchor = s[i].at}
           a == InOrder(flying)
           b == BestOf(s, ScoredCoarse(s), Era.rays)
<1>1. flying \subseteq 1..Len(s) /\ ScoredCoarse(s) \subseteq Scored(s) /\ Len(s) \in Nat
  BY SurfaceEntries DEF Scored, ScoredCoarse
<1>2. Era.rays \in Nat
  BY EraSettings
<1>3. a \in Seq(flying) /\ b \in Seq(ScoredCoarse(s))
  <2> HIDE DEF flying
  <2> QED
    BY <1>1, <1>2, Ordered, BestAmong
<1>4. a \in Seq(Scored(s)) /\ b \in Seq(Scored(s))
  <2>1. flying \subseteq Scored(s)
    OBVIOUS
  <2> HIDE DEF flying, a, b
  <2> QED
    BY <1>1, <1>3, <2>1, SeqMonotonic
<1>5. a \o b \in Seq(Scored(s))
  <2> HIDE DEF a, b
  <2> QED
    BY <1>4, ConcatProperties
<1>6. Len(FirstK(a \o b, Era.rays)) \in Nat
  <2> HIDE DEF a, b
  <2> QED
    BY <1>2, <1>5, FirstOf
<1> QED
  BY <1>6 DEF RayOrigins

(* The next coarse cell is one of the grid that is not measured.           *)
LEMMA CoarseIsNew ==
  ASSUME Scores, InEra, NEW s, Surface(s), NextCoarse(s) # None
  PROVE  NextCoarse(s) \in Spots \ Positions(s)
<1> DEFINE origins == RayOrigins(s)
           scored == {s[i].at : i \in Scored(s)}
           top == {s[i].at : i \in Best(s)}
           Walk(r, d) == NextOnRay(Positions(s), scored, top,
                                   CHOOSE ij \in Indices : Cell(ij[1], ij[2]) = s[origins[r]].at,
                                   RAY_DIRECTIONS[d])
           rows == {q \in 1..Len(origins) : s[origins[q]].at \in Grid}
           ways == 1..Len(RAY_DIRECTIONS)
           walks == {<<r, d, Walk(r, d)>> : r \in rows, d \in ways}
           open == {w \in walks : w[3] # None}
           w0 == CHOOSE w \in open : \A x \in open : w[1] < x[1] \/ (w[1] = x[1] /\ w[2] <= x[2])
<1>1. CASE ScoredCoarse(s) = {}
  <2>1. NextCoarse(s) = Bootstrap(s)
    BY <1>1 DEF NextCoarse
  <2>2. Bootstrap(s) \in Grid \ Positions(s)
    BY <2>1, Bootstrapped
  <2>3. Grid \subseteq Spots
    BY CoarseGrid
  <2> QED
    BY <2>1, <2>2, <2>3
<1>2. CASE ScoredCoarse(s) # {}
  <2>0. NextCoarse(s) = IF ScoredCoarse(s) = {} THEN Bootstrap(s)
                        ELSE IF open = {} THEN None ELSE w0[3]
    BY DEF NextCoarse
  <2>1. NextCoarse(s) = w0[3] /\ open # {}
    <3> HIDE DEF w0, open
    <3> QED
      BY <1>2, <2>0
  <2>2. \A w \in open : w[1] \in rows /\ w[2] \in ways /\ w[3] = Walk(w[1], w[2]) /\ w[3] # None
    <3> HIDE DEF Walk, rows, ways
    <3> QED
      OBVIOUS
  <2>3. w0 \in open
    <3> DEFINE firsts == {w[1] : w \in open}
               r == CHOOSE q \in firsts : \A p \in firsts : q <= p
               row == {w \in open : w[1] = r}
               seconds == {w[2] : w \in row}
               d == CHOOSE q \in seconds : \A p \in seconds : q <= p
    <3> HIDE DEF open
    <3>1. firsts \subseteq 1..Len(origins) /\ firsts # {} /\ Len(origins) \in Nat
      BY <2>1, <2>2, RayOrigin
    <3>2. r \in firsts /\ \A p \in firsts : r <= p
      <4> HIDE DEF firsts
      <4> QED
        BY <3>1, LeastChosen
    <3>3. row # {}
      BY <3>2
    <3>4. seconds \subseteq 1..8 /\ seconds # {} /\ 8 \in Nat
      <4> HIDE DEF r
      <4>1. Len(RAY_DIRECTIONS) = 8
        BY DEF RAY_DIRECTIONS
      <4> QED
        BY <2>2, <3>3, <4>1
    <3>5. d \in seconds /\ \A p \in seconds : d <= p
      <4> HIDE DEF seconds
      <4> QED
        BY <3>4, LeastChosen
    <3>6. PICK w \in row : w[2] = d
      BY <3>5
    <3>7. ASSUME NEW x \in open
          PROVE  w[1] < x[1] \/ (w[1] = x[1] /\ w[2] <= x[2])
      <4>1. x[1] \in firsts /\ w[1] = r
        BY <3>6
      <4>2. x[1] = r => x[2] \in seconds
        OBVIOUS
      <4>3. r \in Int /\ x[1] \in Int
        <5>1. \A q \in firsts : q \in Int
          <6> HIDE DEF firsts, origins
          <6> QED
            BY <3>1
        <5> HIDE DEF r, firsts
        <5> QED
          BY <3>2, <4>1, <5>1
      <4>4. x[1] = r => d <= x[2]
        <5> HIDE DEF d, seconds
        <5> QED
          BY <3>5, <4>2
      <4> HIDE DEF firsts, r, seconds, d
      <4> QED
        BY <3>2, <3>6, <4>1, <4>3, <4>4
    <3>8. w \in open
      BY <3>6
    <3> QED
      BY <3>7, <3>8
  <2>4. Walk(w0[1], w0[2]) # None /\ w0[3] = Walk(w0[1], w0[2])
    <3> HIDE DEF w0, open, Walk
    <3> QED
      BY <2>2, <2>3
  <2>5. Walk(w0[1], w0[2]) \in Grid \ Positions(s)
    <3> HIDE DEF w0, scored, top
    <3> QED
      BY <2>4, RayLeadsOn
  <2>6. Grid \subseteq Spots
    BY CoarseGrid
  <2> HIDE DEF w0, Walk
  <2> QED
    BY <2>1, <2>4, <2>5, <2>6
<1> QED
  BY <1>1, <1>2

LEMMA Product ==
  ASSUME NEW a \in Int, NEW b \in Int, a > 0, b > 0
  PROVE  a * b \in Int /\ a * b > 0
OBVIOUS

(* A fine axis: rounded points, as many as it is given at most.            *)
LEMMA FineAxisInt ==
  ASSUME InEra, ~(Era.fine < 2), NEW axis \in {Era.v, Era.f}, NEW x \in Int
  PROVE  FineAxis(x, axis) \subseteq Int /\ IsFiniteSet(FineAxis(x, axis))
<1> DEFINE n      == Era.fine
           unit   == 2 * n * (axis.n - 1)
           reach  == (n - 1) * (axis.hi - axis.lo)
           Room(to) == IF reach < unit * to THEN reach ELSE unit * to
           below  == Room(x - axis.lo)
           above  == Room(axis.hi - x)
           part   == IF below + above > 0 THEN RoundDiv((n - 1) * below, below + above)
                                          ELSE RoundDiv(n - 1, 2)
           nBelow == IF part < 0 THEN 0 ELSE IF part > n - 1 THEN n - 1 ELSE part
           nAbove == n - 1 - nBelow
           spacing == IF nAbove = 0 \/ (nBelow > 0 /\ below * nAbove <= above * nBelow)
                      THEN <<below, nBelow>> ELSE <<above, nAbove>>
           at(i)  == RoundDiv(x * unit * spacing[2] + (i - nBelow) * spacing[1], unit * spacing[2])
           points == {at(i) : i \in 0..n - 1}
<1>1. /\ axis.lo \in Int /\ axis.hi \in Int /\ axis.n \in Int /\ axis.n >= 2
      /\ n \in Int /\ n >= 2
  BY EraSettings
<1>2. unit \in Nat /\ unit > 0 /\ reach \in Int
  <2>1. n * (axis.n - 1) \in Int /\ n * (axis.n - 1) > 0
    BY <1>1, Product
  <2>2. unit = 2 * (n * (axis.n - 1))
    BY <1>1
  <2>3. reach \in Int
    BY <1>1
  <2> HIDE DEF unit, reach
  <2> QED
    BY <2>1, <2>2, <2>3
<1> HIDE DEF n, unit, reach
<1>3. below \in Int /\ above \in Int
  <2>1. unit * (x - axis.lo) \in Int /\ unit * (axis.hi - x) \in Int
    BY <1>1, <1>2
  <2> QED
    BY <1>2, <2>1
<1> HIDE DEF below, above
<1>4. part \in Int
  <2>1. (n - 1) * below \in Int /\ below + above \in Int /\ n - 1 \in Int /\ 2 \in Nat
    BY <1>1, <1>3
  <2>2. below + above > 0 => RoundDiv((n - 1) * below, below + above) \in Int
    BY <2>1, Rounded
  <2>3. RoundDiv(n - 1, 2) \in Int
    BY <2>1, Rounded
  <2> QED
    BY <2>2, <2>3
<1> HIDE DEF part
<1>5. nBelow \in 0..n - 1 /\ nAbove \in 0..n - 1 /\ nAbove + nBelow = n - 1
  BY <1>1, <1>4
<1> HIDE DEF nBelow, nAbove
<1>6. spacing[1] \in Int /\ spacing[2] \in Int /\ spacing[2] > 0
  BY <1>1, <1>3, <1>5
<1> HIDE DEF spacing
<1>7. unit * spacing[2] \in Nat /\ unit * spacing[2] > 0
  BY <1>2, <1>6, Product
<1>8. ASSUME NEW i \in 0..n - 1 PROVE at(i) \in Int
  <2>1. x * unit \in Int
    BY <1>2
  <2>2. x * unit * spacing[2] \in Int
    BY <1>6, <2>1
  <2>3. (i - nBelow) * spacing[1] \in Int
    BY <1>1, <1>5, <1>6
  <2>4. x * unit * spacing[2] + (i - nBelow) * spacing[1] \in Int
    BY <2>2, <2>3
  <2> QED
    BY <1>7, <2>4, Rounded
<1> HIDE DEF at
<1>9. points \subseteq Int
  BY <1>8
<1>10. IsFiniteSet(points)
  <2> DEFINE f == [i \in 0..n - 1 |-> at(i)]
  <2>0. 0 \in Int /\ n - 1 \in Int
    BY <1>1
  <2>1. IsFiniteSet(0..n - 1)
    BY <2>0, FS_Interval
  <2>2. DOMAIN f = 0..n - 1 /\ f = [i \in 0..n - 1 |-> f[i]]
    BY Zenon
  <2>3. points = {f[i] : i \in 0..n - 1}
    BY Zenon
  <2> HIDE DEF f, points
  <2> QED
    BY <2>1, <2>2, <2>3, FiniteImage, Zenon
<1>11. FineAxis(x, axis) = IF below <= 0 /\ above <= 0 THEN {x} ELSE points
  BY Zenon DEF FineAxis, n, unit, reach, below, above, part, nBelow, nAbove, spacing, at
<1> HIDE DEF points
<1> QED
  BY <1>9, <1>10, <1>11, FS_Singleton

LEMMA FineGridSpots ==
  ASSUME InEra, ~(Era.fine < 2), NEW a \in Spots
  PROVE  IsFiniteSet(FineGrid(a)) /\ FineGrid(a) \subseteq Spots
<1>1. a[1] \in Int /\ a[2] \in Int
  BY DEF Spots
<1>2. /\ FineAxis(a[1], Era.v) \subseteq Int /\ IsFiniteSet(FineAxis(a[1], Era.v))
      /\ FineAxis(a[2], Era.f) \subseteq Int /\ IsFiniteSet(FineAxis(a[2], Era.f))
  BY <1>1, FineAxisInt
<1> QED
  BY <1>2, FS_Product DEF FineGrid, Spots

(* The anchors of the fine grids are positions.                            *)
LEMMA AnchorSpots ==
  ASSUME Scores, InEra, NEW s, Surface(s)
  PROVE  LET anchors == FineAnchors(s)
         IN Len(anchors) \in Nat /\ \A r \in 1..Len(anchors) : anchors[r] \in Spots
<1> DEFINE oldest == {i \in 1..Len(s) :
                        /\ s[i].fine /\ s[i].anchor # None
                        /\ \A j \in 1..i - 1 : ~(s[j].fine /\ s[j].anchor = s[i].anchor)}
           fresh == {i \in ScoredCoarse(s) : \A j \in oldest : s[j].anchor # s[i].at}
           order == InOrder(oldest)
           new == BestOf(s, fresh, Era.fineK)
           a == [r \in 1..Len(order) |-> s[order[r]].anchor]
           b == [r \in 1..Len(new) |-> s[new[r]].at]
<1>1. Len(s) \in Nat /\ \A i \in 1..Len(s) : s[i] \in Entries
  BY SurfaceEntries
<1>2. oldest \subseteq 1..Len(s) /\ fresh \subseteq Scored(s) /\ fresh \subseteq 1..Len(s)
  BY DEF Scored, ScoredCoarse
<1>3. \A i \in oldest : s[i].anchor # None
  OBVIOUS
<1> HIDE DEF oldest, fresh
<1>4. Era.fineK \in Nat
  BY EraSettings
<1>5. /\ Len(order) \in Nat /\ \A r \in 1..Len(order) : order[r] \in oldest
      /\ Len(new) \in Nat /\ \A r \in 1..Len(new) : new[r] \in fresh
  BY <1>1, <1>2, <1>4, Ordered, BestAmong
<1> HIDE DEF order, new
<1>6. a \in Seq(Spots) /\ b \in Seq(Spots)
  <2>1. ASSUME NEW r \in 1..Len(order) PROVE s[order[r]].anchor \in Spots
    <3>1. order[r] \in oldest /\ order[r] \in 1..Len(s)
      BY <1>2, <1>5
    <3> QED
      BY <1>1, <1>3, <3>1 DEF Entries
  <2>2. ASSUME NEW r \in 1..Len(new) PROVE s[new[r]].at \in Spots
    <3>1. new[r] \in 1..Len(s)
      BY <1>2, <1>5
    <3> QED
      BY <1>1, <3>1 DEF Entries
  <2>3. a \in [1..Len(order) -> Spots] /\ b \in [1..Len(new) -> Spots]
    BY <2>1, <2>2
  <2> QED
    BY <1>5, <2>3, AsSequence
<1> HIDE DEF a, b
<1>7. a \o b \in Seq(Spots)
  BY <1>6, ConcatProperties
<1>8. FineAnchors(s) = FirstK(a \o b, Era.fineK)
  BY DEF FineAnchors, a, b, order, new, oldest, fresh
<1> QED
  BY <1>4, <1>7, <1>8, FirstOf

(* The next fine cell is not measured, and has an anchor.                  *)
LEMMA FineIsNew ==
  ASSUME Scores, InEra, NEW s, Surface(s), NEW f \in NextFine(s)
  PROVE  f[1] \in Spots \ Positions(s) /\ f[2] \in Spots
<1>1. ~(Era.fine < 2)
  BY DEF NextFine
<1>2. PICK a \in Visited(s) \cap OpenAnchors(s) : f = <<TopCorner(FineGrid(a) \ Positions(s)), a>>
  BY <1>1 DEF NextFine
<1>3. a \in Spots
  BY AnchorSpots DEF OpenAnchors
<1> DEFINE left == FineGrid(a) \ Positions(s)
<1>4. IsFiniteSet(left) /\ left \subseteq Spots
  BY <1>1, <1>3, FineGridSpots, FS_Subset
<1>5. left # {}
  BY DEF OpenAnchors
<1>6. TopCorner(left) \in left
  BY <1>4, <1>5, TopCornerIn
<1> QED
  BY <1>2, <1>3, <1>4, <1>6

(* A tune begins at a cell that has been measured.                         *)
LEMMA ChipMeasured ==
  ASSUME Scores, InEra, NEW s, Surface(s), NextChip(s) # None
  PROVE  NextChip(s) \in Positions(s)
<1> DEFINE anchors == FineAnchors(s)
           pool == {i \in Scored(s) : s[i].fine /\ \E r \in 1..Len(anchors) : s[i].anchor = anchors[r]}
           S == IF Era.fine < 2 THEN ScoredCoarse(s) ELSE pool
           c == Candidates(s)
           open == {r \in 1..Len(c) : ~TuneDone(s[c[r]].at)}
           pick == CHOOSE r \in open : \A q \in open : r <= q
<1>1. ChipTopK \in Nat
  BY EraSettings DEF ChipTopK
<1>2. S \subseteq Scored(s) /\ c = BestOf(s, S, ChipTopK)
  BY DEF ScoredCoarse, Candidates
<1> HIDE DEF S
<1>3. Len(c) \in Nat /\ \A r \in 1..Len(c) : c[r] \in Scored(s)
  BY <1>1, <1>2, BestAmong
<1>4. NextChip(s) = s[c[pick]].at /\ open # {}
  BY Zenon DEF NextChip
<1>5. pick \in open
  <2> HIDE DEF c
  <2> QED
    BY <1>3, <1>4, LeastIndex
<1>6. c[pick] \in 1..Len(s)
  BY <1>3, <1>5 DEF Scored
<1> HIDE DEF c, pick
<1> QED
  BY <1>4, <1>6 DEF Positions

(* Appending measures one position more.                                   *)
LEMMA Appending ==
  ASSUME NEW s, Surface(s), NEW e \in Entries, e.at \notin Positions(s), e.anchor # None => e.fine
  PROVE  Surface(Append(s, e)) /\ Positions(Append(s, e)) = Positions(s) \cup {e.at}
<1> DEFINE t == Append(s, e)
           n == Len(s)
<1>1. n \in Nat /\ s \in Seq(Entries)
  BY SurfaceEntries DEF Surface
<1>2. t \in Seq(Entries) /\ Len(t) = n + 1 /\ (\A i \in 1..n : t[i] = s[i]) /\ t[n + 1] = e
  BY <1>1, AppendProperties
<1> HIDE DEF t
<1>3. \A i \in 1..Len(t) : i \in 1..n \/ i = n + 1
  BY <1>1, <1>2
<1>4. \A i \in 1..n : s[i].at # e.at
  BY DEF Positions
<1>5. \A i, j \in 1..Len(t) : t[i].at = t[j].at => i = j
  <2> HIDE DEF n
  <2> QED
    BY <1>2, <1>3, <1>4 DEF Surface, n
<1>6. Surface(t)
  BY <1>2, <1>3, <1>5 DEF Surface
<1>7. Positions(t) = Positions(s) \cup {e.at}
  <2>1. 1..Len(t) = 1..n \cup {n + 1}
    BY <1>1, <1>2
  <2> QED
    BY <1>2, <2>1 DEF Positions
<1> QED
  BY <1>6, <1>7 DEF t

(* Changing how an entry is marked leaves the positions as they are.       *)
LEMMA Marking ==
  ASSUME NEW s, Surface(s), NEW t, DOMAIN t = 1..Len(s), t = [i \in 1..Len(s) |-> t[i]],
         \A i \in 1..Len(s) : /\ t[i] \in Entries /\ t[i].at = s[i].at
                              /\ t[i].anchor # None => t[i].fine
  PROVE  Surface(t) /\ Positions(t) = Positions(s)
<1>1. Len(s) \in Nat
  BY SurfaceEntries
<1>2. t \in [1..Len(s) -> Entries]
  OBVIOUS
<1>3. t \in Seq(Entries) /\ Len(t) = Len(s)
  BY <1>1, <1>2, AsSequence
<1>4. Surface(t)
  <2>1. \A i, j \in 1..Len(s) : s[i].at = s[j].at => i = j
    BY DEF Surface
  <2>2. \A i, j \in 1..Len(t) : t[i].at = t[j].at => i = j
    BY <1>3, <2>1
  <2> QED
    BY <1>3, <2>2 DEF Surface
<1>5. Positions(t) = Positions(s)
  BY <1>3 DEF Positions
<1> QED
  BY <1>4, <1>5

LEMMA Converting ==
  ASSUME NEW s, Surface(s)
  PROVE  Surface(Converted(s)) /\ Positions(Converted(s)) = Positions(s)
<1> DEFINE turned == {a \in Visited(s) : Spreads(a)}
           t == [i \in 1..Len(s) |-> IF ~s[i].fine /\ s[i].at \in turned
                                     THEN [s[i] EXCEPT !.fine = TRUE, !.anchor = s[i].at] ELSE s[i]]
<1>1. CASE Era.fine < 2
  BY <1>1 DEF Converted
<1>2. CASE ~(Era.fine < 2)
  <2>1. Converted(s) = t
    BY <1>2 DEF Converted
  <2>2. DOMAIN t = 1..Len(s) /\ t = [i \in 1..Len(s) |-> t[i]]
    OBVIOUS
  <2>3. ASSUME NEW i \in 1..Len(s)
        PROVE  t[i] \in Entries /\ t[i].at = s[i].at /\ (t[i].anchor # None => t[i].fine)
    <3>1. s[i] \in Entries /\ (s[i].anchor # None => s[i].fine)
      BY SurfaceEntries DEF Surface
    <3>2. t[i] = s[i] \/ t[i] = [s[i] EXCEPT !.fine = TRUE, !.anchor = s[i].at]
      OBVIOUS
    <3> HIDE DEF t
    <3> QED
      BY <3>1, <3>2 DEF Entries
  <2> HIDE DEF t
  <2>4. Surface(t) /\ Positions(t) = Positions(s)
    BY <2>2, <2>3, Marking
  <2> QED
    BY <2>1, <2>4
<1> QED
  BY <1>1, <1>2

\* No voltage has two tunes, and what is tuned has been measured, as has what
\* is being tuned.
Sound(s, tuned, flying) ==
  /\ Surface(s)
  /\ \A t, u \in tuned : t[1] = u[1] => t = u
  /\ tuned \subseteq Positions(s) /\ flying \in Positions(s) \cup {None}

\* The cell that is being measured is a new one.
NewCell(c, s) ==
  /\ c.at \in Spots \ Positions(s) /\ c.fine \in BOOLEAN /\ c.anchor \in Spots \cup {None}
  /\ c.anchor # None => c.fine

ExploredInv ==
  /\ InEra /\ pc \in {"off", "entry", "loop", "measure", "tune", "monitor"}
  /\ mishaps \in 0..scene.faults /\ complete \in BOOLEAN /\ vfProfile \in BOOLEAN
  /\ Sound(surface, tunedCells, inFlight)
  /\ Sound(vfDisk.surface, vfDisk.tuned, vfDisk.inFlight)
  /\ Positions(vfDisk.surface) \subseteq Positions(surface)
  /\ pc = "tune" => inFlight # None
  /\ pc = "measure" => NewCell(picked, surface)

(* A checkpoint and a profile keep what is in memory, or what was kept.    *)
LEMMA Saving ==
  ASSUME ExploredInv, Sound(surface', tunedCells', inFlight'),
         Positions(surface) \subseteq Positions(surface'),
         GridCheckpoint \/ GridProfile \/ UNCHANGED vfFiles
  PROVE  /\ Sound(vfDisk'.surface, vfDisk'.tuned, vfDisk'.inFlight)
         /\ Positions(vfDisk'.surface) \subseteq Positions(surface')
         /\ vfProfile' \in BOOLEAN
<1> DEFINE now == [surface |-> surface', tuned |-> tunedCells', inFlight |-> inFlight']
<1>1. vfDisk' = vfDisk \/ vfDisk' = now
  BY DEF GridCheckpoint, GridProfile, GridNow, vfFiles
<1>2. vfProfile' \in BOOLEAN
  BY DEF GridCheckpoint, GridProfile, vfFiles, ExploredInv
<1>3. CASE vfDisk' = vfDisk
  BY <1>2, <1>3 DEF ExploredInv
<1>4. CASE vfDisk' = now
  BY <1>2, <1>4
<1> QED
  BY <1>1, <1>3, <1>4

LEMMA ExploredMode ==
  ASSUME Runs("voltage_chip_tune"), ExploredInv
  PROVE  Mode = Phase(pc) /\ Known = Positions(surface) /\ Choice = tunedCells
BY DEF Runs, ExploredInv, Mode, Known, Choice, Holds, Knobs, Phase

(* A turn of the loop: a new cell, a measured one to tune, or the monitor. *)
LEMMA Explored_Turn ==
  ASSUME Scores, ExploredInv, Turn
  PROVE  /\ ExploredInv' /\ UNCHANGED strategy
         /\ Positions(surface') = Positions(surface) /\ tunedCells' = tunedCells
         /\ pc = "loop" /\ pc' \in {"measure", "tune", "monitor"}
<1>1. Surface(surface) /\ Surface(Converted(surface))
      /\ Positions(Converted(surface)) = Positions(surface)
  BY Converting DEF ExploredInv, Sound
<1>2. /\ Surface(surface') /\ Positions(surface') = Positions(surface)
      /\ tunedCells' = tunedCells /\ pc = "loop" /\ UNCHANGED strategy
      /\ pc' \in {"measure", "tune", "monitor"} /\ UNCHANGED plans /\ complete' \in BOOLEAN
      /\ GridCheckpoint \/ GridProfile \/ UNCHANGED vfFiles
      /\ pc' = "measure" => NewCell(picked', surface')
      /\ \/ inFlight' = inFlight /\ pc' # "tune"
         \/ inFlight' # None /\ inFlight' = NextChip(surface')
  <2>1. CASE \E coarse \in {NextCoarse(surface)} : PickCoarse(coarse)
    <3>1. NextCoarse(surface) \in Spots \ Positions(surface)
      BY <1>1, <2>1, CoarseIsNew DEF PickCoarse, ExploredInv
    <3>2. /\ picked' = [at |-> NextCoarse(surface), fine |-> FALSE, anchor |-> None]
          /\ complete' = FALSE /\ pc' = "measure" /\ pc = "loop" /\ UNCHANGED strategy
          /\ UNCHANGED <<surface, tunedCells, inFlight, vfFiles, plans>>
      BY <2>1 DEF Turn, PickCoarse, Pick, Looping, At, Goto
    <3>3. NewCell(picked', surface')
      BY <3>1, <3>2 DEF NewCell
    <3> QED
      BY <1>1, <3>2, <3>3
  <2>2. CASE \E f \in NextFine(surface) : PickFine(f)
    <3>1. PICK f \in NextFine(surface) : PickFine(f)
      BY <2>2
    <3>2. f[1] \in Spots \ Positions(surface) /\ f[2] \in Spots
      BY <1>1, FineIsNew DEF ExploredInv
    <3> QED
      BY <1>1, <3>1, <3>2 DEF Turn, PickFine, Pick, Looping, At, Goto, NewCell, SaveConverted
  <2>3. CASE surface' = Converted(surface) /\ PickTune(NextChip(surface'))
    BY <1>1, <2>3 DEF Turn, PickTune, Looping, At, Goto
  <2>4. CASE surface' = Converted(surface) /\ SettleGrid(NextChip(surface'))
    BY <1>1, <2>4 DEF Turn, SettleGrid, Looping, At, Goto, SaveConverted
  <2> QED
    BY <2>1, <2>2, <2>3, <2>4 DEF Turn
<1>3. Sound(surface', tunedCells', inFlight')
  <2>1. CASE inFlight' = inFlight
    BY <1>2, <2>1 DEF ExploredInv, Sound
  <2>2. CASE inFlight' # None /\ inFlight' = NextChip(surface')
    <3>2. inFlight' \in Positions(surface')
      BY <1>2, <2>2, ChipMeasured DEF ExploredInv
    <3> QED
      BY <1>2, <3>2 DEF ExploredInv, Sound
  <2> QED
    BY <1>2, <2>1, <2>2
<1>4. /\ Sound(vfDisk'.surface, vfDisk'.tuned, vfDisk'.inFlight)
      /\ Positions(vfDisk'.surface) \subseteq Positions(surface')
      /\ vfProfile' \in BOOLEAN
  BY <1>2, <1>3, Saving
<1>5. InEra' /\ mishaps' \in 0..scene'.faults
  BY <1>2 DEF ExploredInv, InEra, plans
<1> QED
  BY <1>2, <1>3, <1>4, <1>5 DEF ExploredInv

ExploredStep ==
  AsTuner(Phase(pc), Positions(surface), tunedCells,
          Phase(pc'), Positions(surface'), tunedCells')

(* A failure is one of those the scene allows.                             *)
LEMMA Failing ==
  ASSUME ExploredInv, Mishap \/ UNCHANGED mishaps, UNCHANGED <<scene, eraNo>>
  PROVE  InEra' /\ mishaps' \in 0..scene'.faults
<1>1. scene.faults \in Nat
  BY ExplorationAssumption DEF ExploredInv, InEra
<1> QED
  BY <1>1 DEF ExploredInv, InEra, Mishap

(* A cell is measured, with data or without.                               *)
LEMMA Explored_Measured ==
  ASSUME ExploredInv, CellMeasured \/ CellWithoutData \/ CellNotReady
  PROVE  ExploredInv' /\ UNCHANGED strategy /\ ExploredStep
<1>1. /\ pc = "measure" /\ pc' \in {"loop", "entry"} /\ UNCHANGED <<strategy, scene, eraNo>>
      /\ UNCHANGED <<tunedCells, inFlight, complete>> /\ GridCheckpoint
      /\ Mishap \/ UNCHANGED mishaps
      /\ \E ok \in BOOLEAN, anchor \in {picked.anchor, None} :
           surface' = Append(surface, Entry(ok, anchor))
  BY DEF CellMeasured, CellWithoutData, CellNotReady, Looping, At, Goto, plans
<1>2. PICK ok \in BOOLEAN, anchor \in {picked.anchor, None} :
        surface' = Append(surface, Entry(ok, anchor))
  BY <1>1
<1>3. Surface(surface') /\ Positions(surface') = Positions(surface) \cup {picked.at}
  <2> DEFINE e == Entry(ok, anchor)
  <2>1. e \in Entries /\ e.at = picked.at /\ e.at \notin Positions(surface) /\ (e.anchor # None => e.fine)
    BY <1>1 DEF ExploredInv, NewCell, Entry, Entries
  <2> HIDE DEF e
  <2>2. Surface(Append(surface, e)) /\ Positions(Append(surface, e)) = Positions(surface) \cup {e.at}
    BY <2>1, Appending DEF ExploredInv, Sound
  <2> QED
    BY <1>2, <2>1, <2>2 DEF e
<1>4. Sound(surface', tunedCells', inFlight')
  BY <1>1, <1>3 DEF ExploredInv, Sound
<1>5. /\ Sound(vfDisk'.surface, vfDisk'.tuned, vfDisk'.inFlight)
      /\ Positions(vfDisk'.surface) \subseteq Positions(surface')
      /\ vfProfile' \in BOOLEAN
  BY <1>1, <1>3, <1>4, Saving
<1>6. ExploredInv'
  BY <1>1, <1>4, <1>5, Failing DEF ExploredInv
<1>7. ExploredStep
  BY <1>1, <1>3 DEF ExploredStep, AsTuner, Phase
<1> QED
  BY <1>1, <1>6, <1>7

(* A tune ends, with a result, without one, or too hot.                    *)
LEMMA Explored_Tuned ==
  ASSUME ExploredInv, CellTuned \/ TuneTooHot \/ TuneWithoutResult
  PROVE  ExploredInv' /\ UNCHANGED strategy /\ ExploredStep
<1>1. /\ pc = "tune" /\ pc' = "loop" /\ UNCHANGED <<strategy, scene, eraNo, complete>>
      /\ Mishap \/ UNCHANGED mishaps
      /\ inFlight' = None /\ GridCheckpoint /\ inFlight \in Positions(surface)
  <2>1. inFlight \in Positions(surface) \/ pc # "tune"
    BY DEF ExploredInv, Sound
  <2>2. CASE CellTuned
    BY <2>1, <2>2 DEF CellTuned, Looping, At, Goto, EndsTune
  <2>3. CASE TuneTooHot
    BY <2>1, <2>3 DEF TuneTooHot, Looping, At, Goto, EndsTune
  <2>4. CASE TuneWithoutResult
    BY <2>1, <2>4 DEF TuneWithoutResult, Looping, At, Goto, EndsTune
  <2> QED
    BY <2>2, <2>3, <2>4
<1>2. Surface(surface') /\ Positions(surface') = Positions(surface)
  <2>1. CASE surface' = surface
    BY <2>1 DEF ExploredInv, Sound
  <2>2. CASE \E hit : surface' = [surface EXCEPT ![hit].ok = FALSE]
    <3>1. PICK hit : surface' = [surface EXCEPT ![hit].ok = FALSE]
      BY <2>2
    <3>2. Surface(surface) /\ DOMAIN surface = 1..Len(surface)
          /\ surface \in [1..Len(surface) -> Entries]
      BY SurfaceEntries DEF ExploredInv, Sound
    <3>3. DOMAIN surface' = 1..Len(surface) /\ surface' = [i \in 1..Len(surface) |-> surface'[i]]
      BY <3>1, <3>2
    <3>4. ASSUME NEW i \in 1..Len(surface)
          PROVE  /\ surface'[i] \in Entries /\ surface'[i].at = surface[i].at
                 /\ surface'[i].anchor # None => surface'[i].fine
      <4>1. surface[i] \in Entries /\ (surface[i].anchor # None => surface[i].fine)
        BY <3>2 DEF Surface
      <4>2. surface'[i] = surface[i] \/ surface'[i] = [surface[i] EXCEPT !.ok = FALSE]
        BY <3>1, <3>2
      <4> QED
        BY <4>1, <4>2 DEF Entries
    <3> QED
      BY <3>2, <3>3, <3>4, Marking
  <2> QED
    BY <2>1, <2>2 DEF CellTuned, TuneTooHot, TuneWithoutResult
<1>3. /\ tunedCells' \subseteq Positions(surface)
      /\ \A t, u \in tunedCells' : t[1] = u[1] => t = u
  BY <1>1 DEF CellTuned, TuneTooHot, TuneWithoutResult, ExploredInv, Sound
<1>4. Sound(surface', tunedCells', inFlight')
  BY <1>1, <1>2, <1>3 DEF Sound
<1>5. /\ Sound(vfDisk'.surface, vfDisk'.tuned, vfDisk'.inFlight)
      /\ Positions(vfDisk'.surface) \subseteq Positions(surface')
      /\ vfProfile' \in BOOLEAN
  BY <1>1, <1>2, <1>4, Saving
<1>6. ExploredInv'
  BY <1>1, <1>4, <1>5, Failing DEF ExploredInv
<1>7. ExploredStep
  BY <1>1, <1>2, <1>3 DEF ExploredStep, AsTuner, Phase
<1> QED
  BY <1>1, <1>6, <1>7, Zenon

(* Nothing is learned and nothing is chosen.                               *)
LEMMA Explored_Moves ==
  ASSUME ExploredInv,
         \/ EnterLoop \/ Monitored \/ LeaveLoop \/ CellFails \/ CellStopped \/ TuneCut \/ TuneRaises
         \/ ExplorationControl \/ NewEra
  PROVE  ExploredInv' /\ UNCHANGED strategy /\ ExploredStep
<1>1. /\ UNCHANGED <<strategy, surface, tunedCells, inFlight, complete, picked>>
      /\ GridCheckpoint \/ GridProfile \/ UNCHANGED vfFiles
      /\ pc' \in {"off", "entry", "loop", "measure", "tune", "monitor"}
      /\ pc' = "tune" => inFlight # None
      /\ pc' = "measure" => pc = "measure"
      /\ \/ pc = "off" /\ pc' = "entry"
         \/ pc' = "off" /\ pc \notin {"off", "monitor"}
         \/ pc = "monitor" /\ pc' = "loop"
         \/ pc' \notin {"off", "monitor"} /\ pc \notin {"off", "monitor"}
         \/ pc' = pc
  <2> USE DEF ExploredInv, exploration, grid, vfFiles
  <2>1. CASE EnterLoop
    BY <2>1 DEF EnterLoop, Looping, At, Goto
  <2>2. CASE Monitored
    BY <2>2 DEF Monitored, At, Goto
  <2>3. CASE LeaveLoop
    BY <2>3 DEF LeaveLoop, Leaves, At, Goto
  <2>4. CASE CellFails \/ CellStopped
    BY <2>4 DEF CellFails, CellStopped, At, Goto
  <2>5. CASE TuneCut \/ TuneRaises
    BY <2>5 DEF TuneCut, TuneRaises, At, Goto
  <2>6. CASE ExplorationControl
    BY <2>6 DEF ExplorationControl, StartWorker, StopWorker
  <2>7. CASE NewEra
    BY <2>7 DEF NewEra, worker
  <2> QED
    BY <2>1, <2>2, <2>3, <2>4, <2>5, <2>6, <2>7
<1>2. InEra' /\ mishaps' \in 0..scene'.faults
  <2>1. CASE NewEra
    <3>1. eraNo' \in 1..Len(scene'.eras)
      BY <2>1, ExplorationAssumption DEF NewEra, ExploredInv, InEra
    <3> QED
      BY <2>1, <3>1 DEF NewEra, ExploredInv, InEra
  <2>2. CASE ~NewEra
    <3>1. UNCHANGED <<scene, eraNo>> /\ (Mishap \/ UNCHANGED mishaps)
      BY <2>2 DEF EnterLoop, Monitored, LeaveLoop, CellFails, CellStopped, TuneCut, TuneRaises,
                  ExplorationControl, exploration, plans
    <3> QED
      BY <3>1, Failing
  <2> QED
    BY <2>1, <2>2
<1>3. Sound(surface', tunedCells', inFlight')
  BY <1>1 DEF ExploredInv
<1>4. /\ Sound(vfDisk'.surface, vfDisk'.tuned, vfDisk'.inFlight)
      /\ Positions(vfDisk'.surface) \subseteq Positions(surface')
      /\ vfProfile' \in BOOLEAN
  BY <1>1, <1>3, Saving
<1>5. ExploredInv'
  BY <1>1, <1>2, <1>3, <1>4 DEF ExploredInv
<1>6. ExploredStep
  BY <1>1 DEF ExploredStep, AsTuner, Phase, ExploredInv, Sound
<1> QED
  BY <1>1, <1>5, <1>6

(* A kill brings back what is kept.                                        *)
LEMMA Explored_Kill ==
  ASSUME ExploredInv, ExplorationKill
  PROVE  ExploredInv' /\ UNCHANGED strategy /\ ExploredStep
<1>1. /\ pc # "off" /\ pc' = "off" /\ UNCHANGED <<strategy, vfFiles, scene, eraNo, mishaps>>
      /\ surface' = vfDisk.surface /\ tunedCells' = vfDisk.tuned /\ inFlight' = vfDisk.inFlight
      /\ complete' = vfProfile
  BY DEF ExplorationKill, KillWorker, plans
<1>2. ExploredInv'
  BY <1>1 DEF ExploredInv, InEra, vfFiles
<1>3. ExploredStep
  BY <1>1 DEF ExploredStep, AsTuner, Phase, ExploredInv, Sound
<1> QED
  BY <1>1, <1>2, <1>3

(* What is tuned was measured, and a crash loses no cell whose tune it     *)
(* keeps: every step of the exploration is one of a Tuner.                 *)
LEMMA Explored_Next ==
  ASSUME Scores, ExploredInv, ExplorationNext
  PROVE  ExploredInv' /\ UNCHANGED strategy /\ ExploredStep
<1>1. CASE Turn
  <2>1. ExploredInv' /\ UNCHANGED strategy
    BY <1>1, Explored_Turn
  <2>2. /\ Positions(surface') = Positions(surface) /\ tunedCells' = tunedCells
        /\ pc = "loop" /\ pc' \in {"measure", "tune", "monitor"}
    BY <1>1, Explored_Turn
  <2>3. tunedCells \subseteq Positions(surface)
    BY DEF ExploredInv, Sound
  <2>4. ExploredStep
    BY <2>2, <2>3 DEF ExploredStep, AsTuner, Phase
  <2> QED
    BY <2>1, <2>4
<1> QED
  BY <1>1, Explored_Measured, Explored_Tuned, Explored_Moves, Explored_Kill
     DEF ExplorationNext, ExplorationStep

LEMMA Explored_Maps ==
  ASSUME Runs("voltage_chip_tune"), Runs("voltage_chip_tune")',
         ExploredInv, ExploredInv', ExploredStep
  PROVE  [T!Next]_(T!tuner)
<1>1. Mode = Phase(pc) /\ Known = Positions(surface) /\ Choice = tunedCells
  BY ExploredMode
<1>2. Mode' = Phase(pc') /\ Known' = Positions(surface') /\ Choice' = tunedCells'
  BY DEF Runs, ExploredInv, Mode, Known, Choice, Holds, Knobs, Phase
<1> QED
  BY <1>1, <1>2, Abstractly DEF ExploredStep
-----------------------------------------------------------------------------
(* Braiins: what is held has been sampled.                                 *)

\* The wattages the limits of a market allow, the watt of inverted ones included.
Allowed(m) ==
  {w \in Nat : \E a, b \in m.limits : a[1] <= w /\ (w <= b[2] \/ w <= a[1] + 1)}

Samples(m, s) == s \in Seq([watt : Allowed(m), profit : Nat])

Watts(s) == {s[i].watt : i \in 1..Len(s)}

(* The best of all samples is one of them, and none earns more.            *)
LEMMA BestSample ==
  ASSUME NEW m, NEW s, Samples(m, s)
  PROVE  /\ SelectBest(s) \in Watts(s) \cup {None}
         /\ s # <<>> => \E i \in 1..Len(s) :
                          SelectBest(s) = s[i].watt /\ \A j \in 1..Len(s) : s[j].profit <= s[i].profit
<1> DEFINE S == 1..Len(s)
           worse(i, j) == s[i].profit < s[j].profit \/ (s[i].profit = s[j].profit /\ i > j)
           R == {p \in S \X S : worse(p[1], p[2])}
<1>1. Len(s) \in Nat /\ \A i \in S : s[i] \in [watt : Allowed(m), profit : Nat]
  BY LenProperties DEF Samples
<1>2. CASE s = <<>>
  BY <1>2 DEF SelectBest
<1>3. CASE s # <<>>
  <2>1. S # {}
    BY <1>1, <1>3, EmptySeq DEF Samples
  <2>2. IsFiniteSet(S)
    BY <1>1, FiniteIndices
  <2>3. \A i \in S : s[i].profit \in Nat
    BY <1>1
  <2>4. Orders(R, S)
    <3>1. \A x, y : <<x, y>> \in R <=> x \in S /\ y \in S /\ worse(x, y)
      OBVIOUS
    <3>2. \A x \in S : x \in Int
      BY <1>1
    <3> DEFINE profit(i) == s[i].profit
    <3>3. \A x \in S : profit(x) \in Int
      BY <2>3
    <3>4. \A x, y : worse(x, y) <=> profit(x) < profit(y) \/ (profit(x) = profit(y) /\ x > y)
      OBVIOUS
    <3> HIDE DEF R, S, worse, profit
    <3>5. \A x \in S : <<x, x>> \notin R
      BY <3>1, <3>2, <3>3, <3>4
    <3>6. \A x, y \in S : x = y \/ <<x, y>> \in R \/ <<y, x>> \in R
      <4> SUFFICES ASSUME NEW x \in S, NEW y \in S PROVE x = y \/ worse(x, y) \/ worse(y, x)
        BY <3>1
      <4> QED
        BY <3>2, <3>3, <3>4
    <3>7. \A x, y, z \in S : <<x, y>> \in R /\ <<y, z>> \in R => <<x, z>> \in R
      <4> SUFFICES ASSUME NEW x \in S, NEW y \in S, NEW z \in S, worse(x, y), worse(y, z)
                   PROVE  worse(x, z)
        BY <3>1
      <4> QED
        BY <3>2, <3>3, <3>4
    <3> QED
      BY <3>5, <3>6, <3>7 DEF Orders
  <2>5. PICK last \in S : IsLast(last, R, S)
    <3> HIDE DEF R, S
    <3> QED
      BY <2>1, <2>2, <2>4, LastExists
  <2>6. ASSUME NEW j \in S
        PROVE  s[j].profit < s[last].profit \/ (s[j].profit = s[last].profit /\ last <= j)
    <3>1. j = last \/ <<j, last>> \in R
      BY <2>5 DEF IsLast
    <3>2. <<j, last>> \in R => worse(j, last)
      OBVIOUS
    <3> QED
      BY <2>3, <3>1, <3>2
  <2>7. SelectBest(s) = s[CHOOSE i \in S : \A j \in S :
                            \/ s[j].profit < s[i].profit
                            \/ s[j].profit = s[i].profit /\ i <= j].watt
    BY <1>3 DEF SelectBest
  <2> DEFINE i0 == CHOOSE i \in S : \A j \in S :
                     \/ s[j].profit < s[i].profit
                     \/ s[j].profit = s[i].profit /\ i <= j
  <2>8. /\ i0 \in S
        /\ \A j \in S : \/ s[j].profit < s[i0].profit
                        \/ s[j].profit = s[i0].profit /\ i0 <= j
    BY <2>6
  <2>9. SelectBest(s) = s[i0].watt
    BY <2>7
  <2> HIDE DEF i0
  <2>10. ASSUME NEW j \in S PROVE s[j].profit <= s[i0].profit
    <3>1. s[j].profit \in Nat /\ s[i0].profit \in Nat
      BY <2>3, <2>8
    <3>2. s[j].profit < s[i0].profit \/ s[j].profit = s[i0].profit
      BY <2>8
    <3> QED
      BY <3>1, <3>2
  <2> QED
    BY <2>8, <2>9, <2>10 DEF Watts
<1> QED
  BY <1>2, <1>3

LEMMA Dropping ==
  ASSUME NEW E, NEW r \in Seq(E), NEW k \in 1..Len(r)
  PROVE  /\ Without(r, k) \in Seq(E)
         /\ Watts(Without(r, k)) \cup {r[k].watt} = Watts(r)
<1> DEFINE n == Len(r) - 1
           t == Without(r, k)
<1>1. Len(r) \in Nat /\ r \in [1..Len(r) -> E]
  BY LenProperties
<1>2. n \in Nat /\ t = [i \in 1..n |-> IF i < k THEN r[i] ELSE r[i + 1]]
  BY <1>1 DEF Without
<1>3. t \in [1..n -> E]
  BY <1>1, <1>2
<1> HIDE DEF t
<1>4. t \in Seq(E) /\ Len(t) = n
  BY <1>2, <1>3, SeqDef, LenProperties
<1>5. \A i \in 1..n : \E j \in 1..Len(r) : t[i] = r[j]
  BY <1>1, <1>2
<1>6. ASSUME NEW j \in 1..Len(r), j # k
      PROVE  \E i \in 1..n : t[i] = r[j]
  <2>1. CASE j < k
    <3>1. j \in 1..n /\ t[j] = r[j]
      BY <1>1, <1>2, <2>1
    <3> QED
      BY <3>1
  <2>2. CASE j > k
    <3>1. j - 1 \in 1..n /\ t[j - 1] = r[j]
      BY <1>1, <1>2, <2>2
    <3> QED
      BY <3>1
  <2> QED
    BY <1>1, <1>6, <2>1, <2>2
<1>7. Watts(t) \cup {r[k].watt} = Watts(r)
  <2>1. Watts(t) \subseteq Watts(r) /\ r[k].watt \in Watts(r)
    BY <1>4, <1>5 DEF Watts
  <2>2. ASSUME NEW j \in 1..Len(r)
        PROVE  r[j].watt \in Watts(t) \cup {r[k].watt}
    <3>1. j = k \/ \E i \in 1..Len(t) : t[i] = r[j]
      BY <1>4, <1>6
    <3> QED
      BY <3>1 DEF Watts
  <2>3. Watts(r) \subseteq Watts(t) \cup {r[k].watt}
    BY <2>2 DEF Watts
  <2> QED
    BY <2>1, <2>3
<1> QED
  BY <1>4, <1>7 DEF t

(* A sample more is one wattage more at most, and none is lost.            *)
LEMMA Appendix ==
  ASSUME NEW E, wattageResults \in Seq(E), NEW e \in E
  PROVE  /\ Appended(e) \in Seq(E) /\ Len(Appended(e)) >= 1
         /\ Watts(Appended(e)) = Watts(wattageResults) \cup {e.watt}
<1> DEFINE r == wattageResults
           spare == {i \in 1..Len(r) : r[i] = e /\ \E j \in 1..i - 1 : r[j] = e}
           k == CHOOSE i \in spare : TRUE
           rest == IF spare = {} THEN r ELSE Without(r, k)
<1>1. Len(r) \in Nat /\ r \in Seq(E) /\ r \in [1..Len(r) -> E]
  BY LenProperties
<1>2. rest \in Seq(E) /\ Watts(rest) \cup {e.watt} = Watts(r) \cup {e.watt}
  <2>1. CASE spare = {}
    BY <1>1, <2>1
  <2>2. CASE spare # {}
    <3>1. k \in 1..Len(r) /\ r[k] = e
      BY <2>2
    <3> HIDE DEF k
    <3>2. Without(r, k) \in Seq(E) /\ Watts(Without(r, k)) \cup {e.watt} = Watts(r)
      BY <1>1, <3>1, Dropping
    <3>3. rest = Without(r, k)
      BY <2>2
    <3> QED
      BY <3>2, <3>3
  <2> QED
    BY <2>1, <2>2
<1>3. Appended(e) = Append(rest, e)
  BY DEF Appended
<1> HIDE DEF rest
<1>4. /\ Append(rest, e) \in Seq(E) /\ Len(Append(rest, e)) = Len(rest) + 1 /\ Len(rest) \in Nat
      /\ \A i \in 1..Len(rest) : Append(rest, e)[i] = rest[i]
      /\ Append(rest, e)[Len(rest) + 1] = e
  BY <1>2, AppendProperties, LenProperties
<1>5. Watts(Append(rest, e)) = Watts(rest) \cup {e.watt}
  <2>1. 1..Len(Append(rest, e)) = 1..Len(rest) \cup {Len(rest) + 1}
    BY <1>4
  <2> QED
    BY <1>4, <2>1 DEF Watts
<1> QED
  BY <1>2, <1>3, <1>4, <1>5

LEMMA Sampling ==
  ASSUME NEW m, Samples(m, wattageResults), NEW e \in [watt : Allowed(m), profit : Nat]
  PROVE  /\ Samples(m, Appended(e))
         /\ Watts(Appended(e)) = Watts(wattageResults) \cup {e.watt}
BY Appendix DEF Samples

\* The window is open and within the limits ever set.
Window ==
  /\ low \in Nat /\ high \in Nat /\ low < high
  /\ \E a, b \in market.limits : a[1] <= low /\ (high <= b[2] \/ high <= a[1] + 1)

\* What is held has been sampled, and no file is ahead of the engine.
SearchedInv ==
  /\ market \in Markets /\ limits \in market.limits /\ curve \in market.curves
  /\ pc \in {"off", "entry", "search", "settling", "hold", "resampling", "recheck"}
  /\ Samples(market, wattageResults) /\ Samples(market, wattDisk.results)
  /\ best \in Watts(wattageResults) \cup {None}
  /\ wattDisk.best \in Watts(wattDisk.results) \cup {None}
  /\ Watts(wattDisk.results) \subseteq Watts(wattageResults)
  /\ target \in Nat \cup {None} /\ wattProfile \in BOOLEAN
  /\ pc = "settling" => target \in Allowed(market)
  /\ pc = "resampling" => target = best /\ best # None
  /\ Window \/ (low = None /\ pc \in {"off", "entry"})

SearchedStep ==
  AsTuner(Phase(pc), Watts(wattageResults), {best} \ {None},
          Phase(pc'), Watts(wattageResults'), {best'} \ {None})

LEMMA WattsAllowed ==
  ASSUME NEW m, NEW s, Samples(m, s) PROVE Watts(s) \subseteq Allowed(m) /\ Allowed(m) \subseteq Nat
<1>1. \A i \in 1..Len(s) : s[i] \in [watt : Allowed(m), profit : Nat]
  BY LenProperties DEF Samples
<1> QED
  BY <1>1 DEF Watts, Allowed

LEMMA LimitPair ==
  ASSUME market \in Markets, NEW l \in market.limits PROVE l[1] \in Nat /\ l[2] \in Nat
<1>1. l \in Nat \X Nat
  BY BraiinsAssumption
<1> QED
  BY <1>1

(* What the operator may set opens a window.                               *)
LEMMA Opening ==
  ASSUME market \in Markets, limits \in market.limits, InitBounds, market' = market
  PROVE  Window'
<1>1. limits \in Nat \X Nat
  BY BraiinsAssumption
<1>2. limits[1] \in Nat /\ limits[2] \in Nat
  BY <1>1
<1>3. low' = limits[1] /\ high' \in Nat /\ low' < high' /\ (high' <= limits[2] \/ high' <= limits[1] + 1)
  BY <1>2 DEF InitBounds, Upper
<1> QED
  BY <1>2, <1>3 DEF Window

(* Every narrowing keeps the window open and within what it was.           *)
LEMMA Narrowed ==
  ASSUME market \in Markets, Window, Narrowing, NarrowBounds, market' = market
  PROVE  Window'
<1>1. /\ low' \in Nat /\ high' \in Nat /\ low' < high' /\ low <= low' /\ high' <= high
  <2> DEFINE quarter == (high - low) \div 4
             delta == IF quarter > 1 THEN quarter ELSE 1
  <2>1. Middle \in Nat /\ low < Middle /\ Middle < high
    BY BraiinsAssumption DEF Window, Narrowing, Middle
  <2>2. delta \in Nat /\ delta >= 1
    BY DEF Window
  <2> HIDE DEF delta
  <2>3. \/ /\ low'  = IF Middle - delta > low THEN Middle - delta ELSE low
           /\ high' = IF Middle + delta < high THEN Middle + delta ELSE high
        \/ low' = Middle /\ high' = high
        \/ low' = low /\ high' = Middle
    BY DEF NarrowBounds, delta
  <2> QED
    BY <2>1, <2>2, <2>3 DEF Window
<1>2. PICK a, b \in market.limits : a[1] <= low /\ (high <= b[2] \/ high <= a[1] + 1)
  BY DEF Window
<1>3. a[1] \in Nat /\ b[2] \in Nat
  BY LimitPair
<1>4. a[1] <= low' /\ (high' <= b[2] \/ high' <= a[1] + 1)
  BY <1>1, <1>2, <1>3 DEF Window
<1> QED
  BY <1>1, <1>4 DEF Window

(* A target of the window is one the limits allow.                         *)
LEMMA Targeting ==
  ASSUME market \in Markets, Window, Missing # {},
         NEW t, t = CHOOSE w \in Missing : \A v \in Missing : w <= v
  PROVE  t \in Missing /\ t \in Allowed(market)
<1>1. Middle \in Nat /\ low <= Middle /\ Middle <= high /\ low \in Nat /\ high \in Nat
  BY DEF Window, Middle
<1>2. Missing \subseteq {low, Middle, high}
  BY DEF Missing
<1>3. \E w \in Missing : \A v \in Missing : w <= v
  <2>1. CASE low \in Missing
    BY <1>1, <1>2, <2>1
  <2>2. CASE low \notin Missing /\ Middle \in Missing
    BY <1>1, <1>2, <2>2
  <2>3. CASE low \notin Missing /\ Middle \notin Missing
    <3>1. Missing = {high}
      BY <1>2, <2>3
    <3> QED
      BY <1>1, <3>1
  <2> QED
    BY <2>1, <2>2, <2>3
<1>4. t \in Missing /\ t \in {low, Middle, high}
  BY <1>2, <1>3
<1>5. PICK a, b \in market.limits : a[1] <= low /\ (high <= b[2] \/ high <= a[1] + 1)
  BY DEF Window
<1>6. a[1] \in Nat /\ b[2] \in Nat
  BY LimitPair
<1>7. t \in Nat /\ low <= t /\ t <= high
  <2>1. \A w \in {low, Middle, high} : w \in Nat /\ low <= w /\ w <= high
    BY <1>1 DEF Window
  <2> QED
    BY <1>4, <2>1, Zenon
<1>8. a[1] <= t /\ (t <= b[2] \/ t <= a[1] + 1)
  BY <1>1, <1>5, <1>6, <1>7
<1> QED
  BY <1>4, <1>7, <1>8 DEF Allowed

(* What a sample earns is a number.                                        *)
LEMMA Earning ==
  ASSUME market \in Markets, curve \in market.curves, NEW w \in Allowed(market)
  PROVE  [watt |-> w, profit |-> curve[w]] \in [watt : Allowed(market), profit : Nat]
<1>1. PICK a, b \in market.limits : a[1] <= w /\ (w <= b[2] \/ w <= a[1] + 1)
  BY DEF Allowed
<1>2. a[1] \in Nat /\ b[2] \in Nat /\ w \in Nat
  BY LimitPair DEF Allowed
<1>3. w \in a[1]..b[2] \cup a[1]..a[1] + 1
  BY <1>1, <1>2
<1>4. curve[w] \in Nat
  BY <1>3, BraiinsAssumption
<1> QED
  BY <1>4

(* A sample is taken, by the search or by the hold.                        *)
LEMMA Searched_Sample ==
  ASSUME SearchedInv, Sampled \/ Resampled
  PROVE  SearchedInv' /\ UNCHANGED strategy /\ SearchedStep
<1> DEFINE e == [watt |-> target, profit |-> curve[target]]
<1>1. /\ wattageResults' = Appended(e) /\ UNCHANGED <<strategy, low, high, best, target, outside>>
      /\ WattCheckpoint
      /\ \/ pc = "settling" /\ pc' = "search"
         \/ pc = "resampling" /\ pc' = "recheck"
  BY DEF Sampled, Resampled, Sample, Looping, At, Goto
<1>2. target \in Allowed(market) /\ (pc = "resampling" => target \in Watts(wattageResults))
  <2>1. CASE pc = "settling"
    BY <2>1 DEF SearchedInv
  <2>2. CASE pc = "resampling"
    BY <2>2, WattsAllowed DEF SearchedInv
  <2> QED
    BY <1>1, <2>1, <2>2
<1>3. e \in [watt : Allowed(market), profit : Nat]
  BY <1>2, Earning DEF SearchedInv
<1>4. /\ Samples(market, wattageResults')
      /\ Watts(wattageResults') = Watts(wattageResults) \cup {target}
  <2>1. e.watt = target
    OBVIOUS
  <2> HIDE DEF e
  <2> QED
    BY <1>1, <1>3, <2>1, Sampling DEF SearchedInv
<1>5. /\ Samples(market, wattDisk'.results)
      /\ wattDisk'.best \in Watts(wattDisk'.results) \cup {None}
      /\ Watts(wattDisk'.results) \subseteq Watts(wattageResults')
      /\ wattProfile' \in BOOLEAN
  <2>1. CASE wattProfile
    BY <1>1, <1>4, <2>1 DEF SearchedInv, WattCheckpoint
  <2>2. CASE ~wattProfile
    <3>1. wattDisk'.results = wattageResults' /\ wattDisk'.best = best
      BY <1>1, <2>2 DEF WattCheckpoint, Now
    <3> QED
      BY <1>1, <1>4, <3>1 DEF SearchedInv, WattCheckpoint
  <2> QED
    BY <2>1, <2>2
<1>6. SearchedInv'
  BY <1>1, <1>4, <1>5 DEF SearchedInv, Window, outside
<1>7. SearchedStep
  BY <1>1, <1>2, <1>4 DEF SearchedStep, AsTuner, Phase
<1> QED
  BY <1>1, <1>6, <1>7

(* A choice is made, among all samples.                                    *)
LEMMA Searched_Choice ==
  ASSUME SearchedInv, Narrow \/ Converge
  PROVE  SearchedInv' /\ UNCHANGED strategy /\ SearchedStep
<1>1. /\ UNCHANGED <<strategy, wattageResults, target, outside>> /\ pc = "search"
      /\ best' = SelectBest(wattageResults) /\ WattProfile /\ pc' \in {"search", "hold"}
  BY DEF Narrow, Converge, Looping, At, Goto
<1>2. best' \in Watts(wattageResults) \cup {None}
  BY <1>1, BestSample DEF SearchedInv
<1>3. Window'
  <2>1. Window /\ market' = market
    BY <1>1 DEF SearchedInv, outside
  <2>2. CASE Narrow
    BY <2>1, <2>2, Narrowed DEF Narrow, SearchedInv
  <2>3. CASE Converge
    BY <2>1, <2>3 DEF Converge, Window
  <2> QED
    BY <2>2, <2>3
<1>4. wattDisk'.results = wattageResults' /\ wattDisk'.best = best' /\ wattProfile' \in BOOLEAN
  BY <1>1 DEF WattProfile, Now
<1>5. SearchedInv'
  BY <1>1, <1>2, <1>3, <1>4 DEF SearchedInv, outside
<1>6. SearchedStep
  BY <1>1, <1>2 DEF SearchedStep, AsTuner, Phase
<1> QED
  BY <1>1, <1>5, <1>6

(* What is held is set again, or the limits open a new search.             *)
LEMMA Searched_Held ==
  ASSUME SearchedInv, Reenter \/ KeepHolding
  PROVE  SearchedInv' /\ UNCHANGED strategy /\ SearchedStep
<1>1. /\ UNCHANGED <<strategy, wattageResults, best, target, outside>> /\ SaveHeld
      /\ pc = "recheck" /\ pc' \in {"entry", "hold"}
  BY DEF Reenter, KeepHolding, At, Goto, search
<1>2. Window'
  <2>1. CASE Reenter
    BY <1>1, <2>1, Opening DEF Reenter, SearchedInv, outside
  <2>2. CASE KeepHolding
    BY <2>2 DEF KeepHolding, SearchedInv, search, outside, Window, At
  <2> QED
    BY <2>1, <2>2
<1>3. /\ Samples(market, wattDisk'.results)
      /\ wattDisk'.best \in Watts(wattDisk'.results) \cup {None}
      /\ Watts(wattDisk'.results) \subseteq Watts(wattageResults')
      /\ wattProfile' \in BOOLEAN
  <2>1. CASE UNCHANGED wattage
    BY <1>1, <2>1 DEF wattage, SearchedInv
  <2>2. CASE WattProfile
    <3>1. wattDisk'.results = wattageResults' /\ wattDisk'.best = best' /\ wattProfile' = TRUE
      BY <2>2 DEF WattProfile, Now
    <3> QED
      BY <1>1, <3>1 DEF SearchedInv
  <2> QED
    BY <1>1, <2>1, <2>2 DEF SaveHeld
<1>4. SearchedInv'
  BY <1>1, <1>2, <1>3 DEF SearchedInv, outside
<1>5. SearchedStep
  BY <1>1 DEF SearchedStep, AsTuner, Phase
<1> QED
  BY <1>1, <1>4, <1>5

(* The rest neither samples nor chooses.                                   *)
LEMMA Searched_Moves ==
  ASSUME SearchedInv,
         \/ Enter \/ EnterOffline \/ SampleMissing \/ Unsampled \/ Resample \/ NoResample
         \/ Unresampled \/ LeaveBraiins \/ BraiinsControl \/ MarketMoves \/ SetLimits
  PROVE  SearchedInv' /\ UNCHANGED strategy /\ SearchedStep
<1>1. /\ UNCHANGED <<strategy, wattageResults, best, wattage, market>>
      /\ limits' \in market.limits /\ curve' \in market.curves
      /\ pc' \in {"off", "entry", "search", "settling", "hold", "resampling", "recheck"}
      /\ \/ pc = "off" /\ pc' = "entry"
         \/ pc' = "off" /\ pc # "off"
         \/ Phase(pc) = Phase(pc')
  <2> USE DEF SearchedInv, braiins, outside, search, wattage, worker, Looping, At, Goto, Phase
  <2>1. CASE Enter \/ EnterOffline
    BY <2>1 DEF Enter, EnterOffline
  <2>2. CASE SampleMissing
    BY <2>2 DEF SampleMissing
  <2>3. CASE Unsampled \/ Unresampled
    BY <2>3 DEF Unsampled, Unresampled, NoSample
  <2>4. CASE Resample \/ NoResample
    BY <2>4 DEF Resample, NoResample
  <2>5. CASE LeaveBraiins
    BY <2>5 DEF LeaveBraiins, Leaves
  <2>6. CASE BraiinsControl
    BY <2>6 DEF BraiinsControl, StartWorker, StopWorker
  <2>7. CASE MarketMoves \/ SetLimits
    BY <2>7 DEF MarketMoves, SetLimits
  <2> QED
    BY <2>1, <2>2, <2>3, <2>4, <2>5, <2>6, <2>7
<1>2. /\ target' \in Nat \cup {None}
      /\ pc' = "settling" => target' \in Allowed(market)
      /\ pc' = "resampling" => target' = best /\ best # None
  <2>1. CASE SampleMissing
    <3>1. Window /\ Missing # {} /\ pc' = "settling"
          /\ target' = CHOOSE w \in Missing : \A v \in Missing : w <= v
      BY <2>1 DEF SampleMissing, SearchedInv, Looping, At, Goto
    <3>2. target' \in Allowed(market)
      BY <3>1, Targeting DEF SearchedInv
    <3> QED
      BY <3>1, <3>2 DEF Allowed
  <2>2. CASE Resample
    <3>1. best \in Nat
      BY <2>2, WattsAllowed DEF Resample, SearchedInv
    <3> QED
      BY <2>2, <3>1 DEF Resample, Looping, At, Goto
  <2>3. CASE \/ Enter \/ EnterOffline \/ Unsampled \/ NoResample
             \/ Unresampled \/ LeaveBraiins \/ BraiinsControl \/ MarketMoves \/ SetLimits
    <3>1. target' = target /\ (pc' \in {"settling", "resampling"} => pc' = pc)
      BY <2>3 DEF Enter, EnterOffline, Unsampled, NoResample, Unresampled, NoSample, LeaveBraiins,
         BraiinsControl, StartWorker, StopWorker, MarketMoves, SetLimits, Leaves, Looping, At, Goto,
         braiins, search, worker
    <3> QED
      BY <3>1 DEF SearchedInv
  <2> QED
    BY <2>1, <2>2, <2>3
<1>3. Window' \/ (low' = None /\ pc' \in {"off", "entry"})
  <2>1. CASE Enter \/ EnterOffline
    BY <1>1, <2>1, Opening DEF Enter, EnterOffline, SearchedInv
  <2>2. CASE \/ SampleMissing \/ Unsampled \/ Resample \/ NoResample
             \/ Unresampled \/ LeaveBraiins \/ BraiinsControl \/ MarketMoves \/ SetLimits
    <3>1. low' = low /\ high' = high /\ (pc \in {"off", "entry"} => pc' \in {"off", "entry"})
      BY <2>2 DEF SampleMissing, Unsampled, Resample, NoResample, Unresampled, NoSample,
         LeaveBraiins, BraiinsControl, StartWorker, StopWorker, MarketMoves, SetLimits, Leaves,
         Looping, At, Goto, braiins, search, worker
    <3> QED
      BY <1>1, <3>1 DEF SearchedInv, Window
  <2> QED
    BY <2>1, <2>2
<1>4. SearchedInv'
  BY <1>1, <1>2, <1>3 DEF SearchedInv, wattage
<1>5. SearchedStep
  <2>1. {best} \ {None} \subseteq Watts(wattageResults)
    BY DEF SearchedInv
  <2> QED
    BY <1>1, <2>1 DEF SearchedStep, AsTuner, Phase
<1> QED
  BY <1>1, <1>4, <1>5

LEMMA Searched_Kill ==
  ASSUME SearchedInv, BraiinsKill
  PROVE  SearchedInv' /\ UNCHANGED strategy /\ SearchedStep
<1>1. /\ pc # "off" /\ pc' = "off" /\ UNCHANGED <<strategy, wattage, outside>>
      /\ wattageResults' = wattDisk.results /\ best' = wattDisk.best
      /\ low' = None /\ target' = None
  BY DEF BraiinsKill, KillWorker
<1>2. SearchedInv'
  BY <1>1 DEF SearchedInv, wattage, outside
<1>3. SearchedStep
  BY <1>1 DEF SearchedStep, AsTuner, Phase, SearchedInv
<1> QED
  BY <1>1, <1>2, <1>3

(* The window stays open, what is held was sampled, and a crash loses no   *)
(* sample of a choice it keeps: every step of the search is one of a Tuner.*)
LEMMA Searched_Next ==
  ASSUME SearchedInv, BraiinsNext
  PROVE  SearchedInv' /\ UNCHANGED strategy /\ SearchedStep
BY Searched_Sample, Searched_Choice, Searched_Held, Searched_Moves, Searched_Kill
   DEF BraiinsNext, BraiinsWorker

LEMMA SearchedMode ==
  ASSUME Runs("wattage_search"), SearchedInv
  PROVE  Mode = Phase(pc) /\ Known = Watts(wattageResults) /\ Choice = {best} \ {None}
BY DEF Runs, SearchedInv, Mode, Known, Choice, Holds, Knobs, Phase, Watts

LEMMA Searched_Maps ==
  ASSUME Runs("wattage_search"), Runs("wattage_search")', SearchedInv, SearchedInv', SearchedStep
  PROVE  [T!Next]_(T!tuner)
<1>1. Mode = Phase(pc) /\ Known = Watts(wattageResults) /\ Choice = {best} \ {None}
  BY SearchedMode
<1>2. Mode' = Phase(pc') /\ Known' = Watts(wattageResults') /\ Choice' = {best'} \ {None}
  BY DEF Runs, SearchedInv, Mode, Known, Choice, Holds, Knobs, Phase, Watts
<1> QED
  BY <1>1, <1>2, Abstractly DEF SearchedStep
-----------------------------------------------------------------------------
(* The best of a steady market is near its peak.                           *)

\* Squares order distances.
LEMMA SquareLess == ASSUME NEW a \in Nat, NEW b \in Nat, a < b PROVE a * a < b * b
<1>1. b * b = a * a + (b - a) * (b + a)
  OBVIOUS
<1>2. b - a >= 1 /\ b + a >= 1
  OBVIOUS
<1>3. (b - a) * (b + a) >= 1
  BY <1>2
<1>4. a * a \in Int /\ b * b \in Int /\ (b - a) * (b + a) \in Int
  OBVIOUS
<1> QED
  BY <1>1, <1>3, <1>4

(* How far two targets are apart, squared.                                 *)
LEMMA GapSquared ==
  ASSUME NEW p \in Int, NEW v \in Int
  PROVE  Gap(v, p) \in Nat /\ (v - p) * (v - p) = Gap(v, p) * Gap(v, p)
<1>1. CASE v >= p
  BY <1>1 DEF Gap
<1>2. CASE ~(v >= p)
  <2> DEFINE a == p - v
  <2>1. v - p = -a /\ a \in Nat /\ Gap(v, p) = a
    BY <1>2 DEF Gap
  <2>2. (-a) * (-a) = a * a
    BY <2>1
  <2> HIDE DEF a
  <2> QED
    BY <2>1, <2>2
<1> QED
  BY <1>1, <1>2

LEMMA Distances ==
  ASSUME NEW p \in Int, NEW v \in Int, NEW w \in Int, Gap(v, p) < Gap(w, p)
  PROVE  (v - p) * (v - p) < (w - p) * (w - p)
<1> DEFINE a == Gap(v, p)
           b == Gap(w, p)
<1>1. a \in Nat /\ b \in Nat /\ (v - p) * (v - p) = a * a /\ (w - p) * (w - p) = b * b
  BY GapSquared
<1>2. a < b
  OBVIOUS
<1> HIDE DEF a, b
<1>3. a * a < b * b
  BY <1>1, <1>2, SquareLess
<1> QED
  BY <1>1, <1>3

\* How far the best can be off, and the samples that show where the peak is.
Reach == Tolerance + 1

Spotted(W, p) == \E w \in W : w - p \in -Reach..Reach

Apart(W) == \A v, w \in W : v - w \in -Tolerance..Tolerance => v = w

\* A window has three targets to sample, and is wide if a quarter of it is more
\* than the tolerance.
Windows == {w \in Nat \X Nat : w[1] < w[2]}

Centre(w) == (w[1] + w[2]) \div 2

Ends(w) == {w[1], Centre(w), w[2]}

Wide(w) == w[2] - w[1] >= 4 * Tolerance + 4

\* Nothing was sampled in a window, or so near that it counts, but its targets.
Clear(W, w) ==
  \A v \in W : w[1] - Tolerance <= v /\ v <= w[2] + Tolerance => v \in Ends(w)

Frames(w, p) == w[1] <= p /\ p <= w[2] + 1

\* What a wide window all of whose targets were sampled narrows to.
Narrower(c, w) ==
  LET m == Centre(w)
      quarter == (w[2] - w[1]) \div 4
  IN IF c[m] >= c[w[1]] /\ c[m] >= c[w[2]] THEN <<m - quarter, m + quarter>>
     ELSE IF c[w[2]] > c[w[1]] THEN <<m, w[2]>> ELSE <<w[1], m>>

(* The searches there have been, each from the full window, all went the   *)
(* same way: V are the windows they came to and f is the furthest, the only*)
(* one whose targets may not all have been sampled.                        *)
Course(c, full, W, p, V, f) ==
  /\ V \subseteq Windows /\ full \in V /\ f \in V /\ Clear(W, f)
  /\ \A w \in V : Frames(w, p) /\ (full[2] - full[1] > Tolerance => w[2] - w[1] > Tolerance)
  /\ \A w \in V \ {f} : Wide(w) /\ Ends(w) \subseteq W /\ Narrower(c, w) \in V

OnCourse(c, full, W, p, w) ==
  \/ Spotted(W, p)
  \/ \E V \in SUBSET Windows : \E f \in V : w \in V /\ Course(c, full, W, p, V, f)

\* The targets of a window without a sample near the peak were not sampled as
\* such unless it is wide.
LEMMA UnspottedWide ==
  ASSUME NEW W \in SUBSET Nat, NEW p \in Nat, NEW w \in Windows, Clear(W, w), Frames(w, p),
         w[2] - w[1] > Tolerance, ~Spotted(W, p),
         \A e \in Ends(w) : \E v \in W : v - e \in -Tolerance..Tolerance
  PROVE  Wide(w) /\ Ends(w) \subseteq W
<1> DEFINE l == w[1]
           h == w[2]
           m == Centre(w)
<1>1. /\ l \in Nat /\ h \in Nat /\ m \in Nat /\ l < h /\ 2 * m <= l + h /\ l + h <= 2 * m + 1
      /\ Tolerance \in Nat /\ Tolerance >= 2 /\ p \in Nat
  BY BraiinsAssumption DEF Windows, Centre
<1>2. Ends(w) = {l, m, h} /\ l <= p /\ p <= h + 1 /\ h - l > Tolerance
  BY DEF Ends, Frames
<1>3. ASSUME NEW v \in W, l - Tolerance <= v, v <= h + Tolerance
      PROVE  v \in {l, m, h} /\ ~(v - p <= Tolerance + 1 /\ p - v <= Tolerance + 1)
  <2>1. v \in {l, m, h}
    BY <1>2, <1>3 DEF Clear
  <2>2. v - p \notin -Reach..Reach /\ v \in Nat
    BY DEF Spotted
  <2>3. ~(v - p <= Tolerance + 1 /\ p - v <= Tolerance + 1)
    BY <1>1, <2>2 DEF Reach
  <2> QED
    BY <2>1, <2>3
<1> HIDE DEF l, m, h
<1>4. ASSUME NEW e \in {l, m, h}
      PROVE  \E v \in W : v \in Nat /\ v - e <= Tolerance /\ e - v <= Tolerance
  <2>1. PICK v \in W : v - e \in -Tolerance..Tolerance
    BY <1>2
  <2>2. v \in Nat /\ e \in Nat
    BY <1>1
  <2> QED
    BY <1>1, <2>1, <2>2
<1>5. PICK a \in W : a \in Nat /\ a - l <= Tolerance /\ l - a <= Tolerance
  BY <1>4
<1>6. PICK b \in W : b \in Nat /\ b - m <= Tolerance /\ m - b <= Tolerance
  BY <1>4
<1>7. PICK d \in W : d \in Nat /\ d - h <= Tolerance /\ h - d <= Tolerance
  BY <1>4
<1>8. a \in {l, m, h} /\ ~(a - p <= Tolerance + 1 /\ p - a <= Tolerance + 1)
  BY <1>1, <1>3, <1>5
<1>9. b \in {l, m, h} /\ ~(b - p <= Tolerance + 1 /\ p - b <= Tolerance + 1)
  BY <1>1, <1>3, <1>6
<1>10. d \in {l, m, h} /\ ~(d - p <= Tolerance + 1 /\ p - d <= Tolerance + 1)
  BY <1>1, <1>3, <1>7
<1>11. h - l >= 4 * Tolerance + 4
  BY <1>1, <1>2, <1>5, <1>6, <1>7, <1>8, <1>9, <1>10
<1>12. a = l /\ b = m /\ d = h
  BY <1>1, <1>5, <1>6, <1>7, <1>8, <1>9, <1>10, <1>11
<1> QED
  BY <1>2, <1>11, <1>12 DEF Wide, l, h

\* The narrower window is clear and not within the tolerance either.
LEMMA NarrowerClear ==
  ASSUME NEW W \in SUBSET Nat, NEW c, NEW w \in Windows, Clear(W, w), Wide(w)
  PROVE  /\ Narrower(c, w) \in Windows /\ Clear(W, Narrower(c, w)) /\ Narrower(c, w) # w
         /\ Narrower(c, w)[2] - Narrower(c, w)[1] > Tolerance
<1> DEFINE l == w[1]
           h == w[2]
           m == Centre(w)
           quarter == (h - l) \div 4
           n == Narrower(c, w)
<1>1. /\ l \in Nat /\ h \in Nat /\ m \in Nat /\ l < h /\ 2 * m <= l + h /\ l + h <= 2 * m + 1
      /\ Tolerance \in Nat /\ Tolerance >= 2 /\ h - l >= 4 * Tolerance + 4
  BY BraiinsAssumption DEF Windows, Centre, Wide
<1>2. quarter \in Nat /\ 4 * quarter <= h - l /\ h - l <= 4 * quarter + 3
  BY <1>1
<1>3. \/ n = <<m - quarter, m + quarter>>
      \/ n = <<m, h>>
      \/ n = <<l, m>>
  BY DEF Narrower
<1>4. ASSUME NEW v \in W, l - Tolerance <= v, v <= h + Tolerance
      PROVE  v \in {l, m, h}
  BY <1>4 DEF Clear, Ends
<1> HIDE DEF l, m, h, quarter, n
<1>5. n[1] \in Nat /\ n[2] \in Nat /\ n[2] - n[1] > Tolerance /\ n = <<n[1], n[2]>>
  <2>1. m - quarter \in Nat /\ m + quarter \in Nat
    BY <1>1, <1>2
  <2> QED
    BY <1>1, <1>2, <1>3, <2>1
<1>6. n \in Windows
  BY <1>1, <1>5 DEF Windows
<1>7. ASSUME NEW v \in W, n[1] - Tolerance <= v, v <= n[2] + Tolerance
      PROVE  v \in Ends(n)
  <2>1. v \in Nat
    OBVIOUS
  <2>2. l - Tolerance <= v /\ v <= h + Tolerance
    BY <1>1, <1>2, <1>3, <1>7, <2>1
  <2>3. v \in {l, m, h}
    BY <1>4, <2>2
  <2>4. CASE n = <<m - quarter, m + quarter>>
    <3>1. v = m
      BY <1>1, <1>2, <1>7, <2>1, <2>3, <2>4
    <3>2. Centre(n) = m
      BY <1>1, <1>2, <2>4 DEF Centre
    <3> QED
      BY <3>1, <3>2 DEF Ends
  <2>5. CASE n = <<m, h>>
    BY <1>1, <1>7, <2>1, <2>3, <2>5 DEF Ends
  <2>6. CASE n = <<l, m>>
    BY <1>1, <1>7, <2>1, <2>3, <2>6 DEF Ends
  <2> QED
    BY <1>3, <2>4, <2>5, <2>6
<1>8. Clear(W, n)
  BY <1>7 DEF Clear
<1>9. n # w
  BY <1>1, <1>2, <1>3 DEF l, h
<1> QED
  BY <1>5, <1>6, <1>8, <1>9 DEF n

\* Narrowing towards the best of its targets, a window keeps the peak.
LEMMA NarrowerFrames ==
  ASSUME NEW c, NEW p \in Nat, NEW w \in Windows, Wide(w), Frames(w, p),
         \A v \in Ends(w) : c[v] \in Nat,
         \A v, x \in Ends(w) : Gap(v, p) < Gap(x, p) => c[x] < c[v]
  PROVE  Frames(Narrower(c, w), p)
<1> DEFINE l == w[1]
           h == w[2]
           m == Centre(w)
           quarter == (h - l) \div 4
           n == Narrower(c, w)
<1>1. /\ l \in Nat /\ h \in Nat /\ m \in Nat /\ l < m /\ m < h
      /\ 2 * m <= l + h /\ l + h <= 2 * m + 1 /\ l <= p /\ p <= h + 1
  BY BraiinsAssumption DEF Windows, Centre, Wide, Frames
<1>2. quarter \in Nat /\ 4 * quarter <= h - l /\ h - l <= 4 * quarter + 3
  BY <1>1
<1>3. n = IF c[m] >= c[l] /\ c[m] >= c[h] THEN <<m - quarter, m + quarter>>
          ELSE IF c[h] > c[l] THEN <<m, h>> ELSE <<l, m>>
  BY DEF Narrower
<1> DEFINE Beside(v, x) == Gap(v, p) < Gap(x, p) => c[x] < c[v]
<1>4. /\ c[l] \in Nat /\ c[m] \in Nat /\ c[h] \in Nat
      /\ Beside(l, m) /\ Beside(m, l) /\ Beside(m, h) /\ Beside(h, m)
  BY DEF Ends
<1> HIDE DEF l, m, h, quarter, n
<1>5. /\ p - m > m - l => c[l] < c[m]
      /\ h - p < p - m /\ p <= h => c[m] < c[h]
      /\ p > h => c[m] < c[h]
      /\ p - l < m - p => c[m] < c[l]
      /\ m - p < p - l /\ p <= m => c[l] < c[m]
      /\ p >= m => c[l] < c[m]
      /\ p <= m => c[h] < c[m]
      /\ p >= m /\ p - m < h - p => c[h] < c[m]
  BY <1>1, <1>4 DEF Gap
<1> HIDE DEF Beside
<1>6. CASE c[m] >= c[l] /\ c[m] >= c[h]
  <2>1. ~(c[m] < c[l]) /\ ~(c[m] < c[h])
    BY <1>4, <1>6
  <2>2. m - p <= p - l \/ p >= m
    BY <1>1, <1>5, <2>1
  <2>3. p <= h /\ (p - m <= h - p \/ p <= m)
    BY <1>1, <1>5, <2>1
  <2>4. m - quarter <= p /\ p <= m + quarter + 1
    BY <1>1, <1>2, <2>2, <2>3
  <2>5. n = <<m - quarter, m + quarter>>
    BY <1>3, <1>6
  <2> QED
    BY <2>4, <2>5 DEF Frames, n
<1>7. CASE ~(c[m] >= c[l] /\ c[m] >= c[h]) /\ c[h] > c[l]
  <2>1. c[m] < c[h]
    BY <1>4, <1>7
  <2>2. m <= p
    BY <1>1, <1>4, <1>5, <2>1
  <2>3. n = <<m, h>>
    BY <1>3, <1>7
  <2> QED
    BY <1>1, <2>2, <2>3 DEF Frames, n
<1>8. CASE ~(c[m] >= c[l] /\ c[m] >= c[h]) /\ ~(c[h] > c[l])
  <2>1. c[m] < c[l]
    BY <1>4, <1>8
  <2>2. p <= m
    BY <1>1, <1>4, <1>5, <2>1
  <2>3. n = <<l, m>>
    BY <1>3, <1>8
  <2> QED
    BY <1>1, <2>2, <2>3 DEF Frames, n
<1> QED
  BY <1>6, <1>7, <1>8

\* A window whose targets have near samples has a sample near the peak, or was
\* sampled at its targets and narrows on course.
LEMMA CourseNarrows ==
  ASSUME NEW W \in SUBSET Nat, NEW c, NEW full, NEW p \in Nat, NEW w,
         OnCourse(c, full, W, p, w), ~Spotted(W, p), full[2] - full[1] > Tolerance,
         \A e \in Ends(w) : \E v \in W : v - e \in -Tolerance..Tolerance,
         \A v \in W : c[v] \in Nat,
         \A v, x \in W : Gap(v, p) < Gap(x, p) => c[x] < c[v]
  PROVE  /\ w \in Windows /\ Wide(w) /\ Ends(w) \subseteq W
         /\ OnCourse(c, full, W, p, Narrower(c, w))
<1>0. PICK V \in SUBSET Windows : \E f \in V : w \in V /\ Course(c, full, W, p, V, f)
  BY DEF OnCourse
<1>1. PICK f \in V : w \in V /\ Course(c, full, W, p, V, f)
  BY <1>0
<1>2. /\ full \in V /\ Clear(W, f)
      /\ \A x \in V : x \in Windows /\ Frames(x, p) /\ x[2] - x[1] > Tolerance
      /\ \A x \in V \ {f} : Wide(x) /\ Ends(x) \subseteq W /\ Narrower(c, x) \in V
  BY <1>1 DEF Course
<1>3. Wide(w) /\ Ends(w) \subseteq W
  <2>1. CASE w = f
    BY <1>1, <1>2, <2>1, UnspottedWide
  <2>2. CASE w # f
    BY <1>1, <1>2, <2>2
  <2> QED
    BY <2>1, <2>2
<1> DEFINE n == Narrower(c, w)
<1>4. OnCourse(c, full, W, p, n)
  <2>1. CASE w # f
    <3>1. n \in V
      BY <1>1, <1>2, <2>1
    <3> QED
      BY <1>1, <3>1 DEF OnCourse
  <2>2. CASE w = f
    <3>1. n \in Windows /\ Clear(W, n) /\ n[2] - n[1] > Tolerance
      BY <1>1, <1>2, <1>3, <2>2, NarrowerClear
    <3>2. Frames(n, p)
      BY <1>1, <1>2, <1>3, NarrowerFrames
    <3> HIDE DEF n
    <3> DEFINE U == V \cup {n}
    <3>3. U \in SUBSET Windows /\ n \in U /\ full \in U
      BY <1>2, <3>1
    <3>4. ASSUME NEW x \in U
          PROVE  Frames(x, p) /\ x[2] - x[1] > Tolerance
      BY <1>2, <3>1, <3>2
    <3>5. ASSUME NEW x \in U \ {n}
          PROVE  Wide(x) /\ Ends(x) \subseteq W /\ Narrower(c, x) \in U
      <4>1. CASE x = f
        BY <1>3, <2>2, <4>1 DEF n
      <4>2. CASE x # f
        BY <1>2, <3>5, <4>2
      <4> QED
        BY <4>1, <4>2
    <3> HIDE DEF U
    <3>6. Course(c, full, W, p, U, n)
      BY <3>1, <3>3, <3>4, <3>5 DEF Course
    <3> QED
      BY <3>3, <3>6 DEF OnCourse
  <2> QED
    BY <2>1, <2>2
<1> QED
  BY <1>1, <1>2, <1>3, <1>4

\* A target without a near sample is one of the furthest window's.
LEMMA CourseSampled ==
  ASSUME NEW W \in SUBSET Nat, NEW c, NEW full, NEW p \in Nat, NEW w, OnCourse(c, full, W, p, w),
         NEW t \in Ends(w), t \in Nat, \A v \in W : v - t \notin -Tolerance..Tolerance
  PROVE  OnCourse(c, full, W \cup {t}, p, w)
<1> DEFINE X == W \cup {t}
<1>1. CASE Spotted(W, p)
  BY <1>1 DEF OnCourse, Spotted
<1>2. CASE ~Spotted(W, p)
  <2>0. PICK V \in SUBSET Windows : \E f \in V : w \in V /\ Course(c, full, W, p, V, f)
    BY <1>2 DEF OnCourse
  <2>1. PICK f \in V : w \in V /\ Course(c, full, W, p, V, f)
    BY <2>0
  <2>2. t \notin W
    <3>1. t - t \in -Tolerance..Tolerance
      BY BraiinsAssumption
    <3> QED
      BY <3>1
  <2>3. w = f
    BY <2>1, <2>2 DEF Course
  <2>4. Clear(X, f)
    BY <2>1, <2>3 DEF Course, Clear
  <2>5. Course(c, full, X, p, V, f)
    BY <2>1, <2>4 DEF Course
  <2> QED
    BY <2>1, <2>5 DEF OnCourse
<1> QED
  BY <1>1, <1>2

\* Before the first sample, the full window is the furthest.
LEMMA CourseBegins ==
  ASSUME NEW c, NEW full \in Windows, NEW p \in Nat, Frames(full, p)
  PROVE  OnCourse(c, full, {}, p, full)
<1>1. Course(c, full, {}, p, {full}, full)
  BY DEF Course, Clear
<1> QED
  BY <1>1 DEF OnCourse

\* Whatever window a search has come to, the next begins on course.
LEMMA CourseReturns ==
  ASSUME NEW W, NEW c, NEW full, NEW p, NEW w, OnCourse(c, full, W, p, w)
  PROVE  OnCourse(c, full, W, p, full)
BY DEF OnCourse, Course

\* On course there is no window within the tolerance before the peak is spotted.
LEMMA CourseEnds ==
  ASSUME NEW W, NEW c, NEW full, NEW p, NEW w, OnCourse(c, full, W, p, w),
         full[2] - full[1] > Tolerance, ~(w[2] - w[1] > Tolerance)
  PROVE  Spotted(W, p)
BY DEF OnCourse, Course

\* What the market pays for its targets, and where every search of it begins.
Offers == {[watt |-> w, profit |-> curve[w]] : w \in Allowed(market)}
Full   == <<limits[1], Upper>>
Bounds == <<low, high>>
Room   == Upper - limits[1] > Tolerance

\* Samples that a search may go on with.
Charted(s) ==
  /\ s \in Seq(Offers) /\ (s # <<>> => Room) /\ Apart(Watts(s))
  /\ \A p \in limits[1]..Upper : Peak(p) => OnCourse(curve, Full, Watts(s), p, Full)

Aimed(p) ==
  /\ pc \in {"search", "settling"} => OnCourse(curve, Full, Watts(wattageResults), p, Bounds)
  /\ pc \in {"hold", "resampling", "recheck"} /\ best # None => best - p \in -Reach..Reach

\* What is sampled next is a target of the window that has no sample near it.
Aiming ==
  high - low > Tolerance /\ target \in Ends(Bounds) /\ Near(target) = {}

PeakInv ==
  Steady =>
    /\ Charted(wattageResults) /\ Charted(wattDisk.results)
    /\ pc = "settling" => Aiming
    /\ \A p \in limits[1]..Upper : Peak(p) => Aimed(p)

\* Steady limits bound all that is allowed and every window.
LEMMA OneLimit ==
  ASSUME SearchedInv, Steady
  PROVE  /\ limits[1] \in Nat /\ Upper \in Nat /\ limits[1] < Upper
         /\ \A w \in Allowed(market) : w \in Nat /\ limits[1] <= w /\ w <= Upper
         /\ Window => limits[1] <= low /\ high <= Upper
<1>1. limits[1] \in Nat /\ limits[2] \in Nat /\ \A a \in market.limits : a = limits
  BY LimitPair DEF SearchedInv, Steady
<1>2. Upper \in Nat /\ limits[1] < Upper /\ limits[2] <= Upper /\ limits[1] + 1 <= Upper
  BY <1>1 DEF Upper
<1>3. ASSUME NEW w \in Allowed(market) PROVE w \in Nat /\ limits[1] <= w /\ w <= Upper
  BY <1>1, <1>2 DEF Allowed
<1>4. ASSUME Window PROVE limits[1] <= low /\ high <= Upper
  BY <1>1, <1>2, <1>4 DEF Window
<1> QED
  BY <1>1, <1>2, <1>3, <1>4

\* Of two targets the one nearer to the peak pays more.
LEMMA NearerPays ==
  ASSUME SearchedInv, Steady, NEW p \in limits[1]..Upper, Peak(p),
         NEW v \in Allowed(market), NEW w \in Allowed(market), Gap(v, p) < Gap(w, p)
  PROVE  curve[w] < curve[v]
<1>1. /\ v \in limits[1]..Upper /\ w \in limits[1]..Upper
      /\ v \in Int /\ w \in Int /\ p \in Int
  BY OneLimit
<1>2. (v - p) * (v - p) < (w - p) * (w - p)
  BY <1>1, Distances
<1> QED
  BY <1>1, <1>2 DEF Peak

LEMMA LastChosen ==
  ASSUME NEW n \in Nat, NEW S, S \subseteq 1..n, S # {}
  PROVE  (CHOOSE r \in S : \A q \in S : q <= r) \in S
<1> DEFINE R == {p \in S \X S : p[1] < p[2]}
<1>1. IsFiniteSet(S)
  BY FiniteIndices
<1>2. Orders(R, S)
  BY DEF Orders
<1>3. PICK m \in S : IsLast(m, R, S)
  <2> HIDE DEF R
  <2> QED
    BY <1>1, <1>2, LastExists
<1>4. ASSUME NEW q \in S
      PROVE  q <= m
  <2>1. q = m \/ <<q, m>> \in R
    BY <1>3 DEF IsLast
  <2>2. <<q, m>> \in R => q < m
    OBVIOUS
  <2> QED
    BY <2>1, <2>2
<1> QED
  BY <1>4

\* The recent profit of a target is that of a target near it.
LEMMA RecentPays ==
  ASSUME wattageResults \in Seq(Offers), NEW w, Near(w) # {}
  PROVE  \E x \in Watts(wattageResults) \cap Allowed(market) :
           x - w \in -Tolerance..Tolerance /\ RecentProfit(w) = curve[x]
<1> DEFINE r == wattageResults
           i == CHOOSE k \in Near(w) : \A j \in Near(w) : j <= k
<1>1. Len(r) \in Nat /\ \A k \in 1..Len(r) : r[k] \in Offers
  BY LenProperties
<1>2. i \in Near(w)
  <2>1. Near(w) \subseteq 1..Len(r)
    BY DEF Near
  <2> QED
    BY <1>1, <2>1, LastChosen
<1>3. RecentProfit(w) = r[i].profit
  BY DEF RecentProfit
<1> HIDE DEF i
<1>4. i \in 1..Len(r) /\ r[i].watt - w \in -Tolerance..Tolerance
  BY <1>2 DEF Near
<1>5. PICK x \in Allowed(market) : r[i] = [watt |-> x, profit |-> curve[x]]
  BY <1>1, <1>4 DEF Offers
<1>6. r[i].watt = x /\ r[i].profit = curve[x]
  BY <1>5
<1>7. x \in Watts(r)
  BY <1>4, <1>6 DEF Watts
<1> QED
  BY <1>3, <1>4, <1>6, <1>7

\* The market pays for what was sampled.
LEMMA SampledWatts ==
  ASSUME SearchedInv, Steady, wattageResults \in Seq(Offers)
  PROVE  /\ Watts(wattageResults) \in SUBSET Nat
         /\ Watts(wattageResults) \subseteq Allowed(market)
         /\ \A v \in Watts(wattageResults) : curve[v] \in Nat
<1>1. Len(wattageResults) \in Nat /\ \A k \in 1..Len(wattageResults) : wattageResults[k] \in Offers
  BY LenProperties
<1>2. ASSUME NEW k \in 1..Len(wattageResults) PROVE wattageResults[k].watt \in Allowed(market)
  BY <1>1, <1>2 DEF Offers
<1>3. Watts(wattageResults) \subseteq Allowed(market)
  BY <1>2 DEF Watts
<1>4. ASSUME NEW w \in Allowed(market) PROVE w \in Nat /\ curve[w] \in Nat
  <2>1. [watt |-> w, profit |-> curve[w]] \in [watt : Allowed(market), profit : Nat]
    BY Earning DEF SearchedInv
  <2> QED
    BY <2>1, OneLimit
<1> QED
  BY <1>3, <1>4

\* Samples further apart than the tolerance are not taken for one another.
LEMMA ExactPays ==
  ASSUME wattageResults \in Seq(Offers), Apart(Watts(wattageResults)),
         NEW w \in Watts(wattageResults), Near(w) # {}
  PROVE  RecentProfit(w) = curve[w]
<1>1. PICK x \in Watts(wattageResults) : x - w \in -Tolerance..Tolerance /\ RecentProfit(w) = curve[x]
  BY RecentPays
<1>2. x = w
  BY <1>1 DEF Apart
<1> QED
  BY <1>1, <1>2

\* Sampled at its targets, a wide window narrows as these samples say.
LEMMA NarrowsTo ==
  ASSUME wattageResults \in Seq(Offers), Apart(Watts(wattageResults)), Window, Missing = {},
         Wide(Bounds), Ends(Bounds) \subseteq Watts(wattageResults), NarrowBounds
  PROVE  Bounds' = Narrower(curve, Bounds)
<1>1. /\ low \in Nat /\ high \in Nat /\ low < high /\ Middle \in Nat
      /\ 2 * Middle <= low + high /\ low + high <= 2 * Middle + 1
      /\ Tolerance \in Nat /\ Tolerance >= 2 /\ high - low >= 4 * Tolerance + 4
  BY BraiinsAssumption DEF Window, Middle, Wide, Bounds
<1>2. Bounds[1] = low /\ Bounds[2] = high /\ Centre(Bounds) = Middle
  BY DEF Bounds, Centre, Middle
<1>3. /\ low \in Watts(wattageResults) /\ Middle \in Watts(wattageResults)
      /\ high \in Watts(wattageResults)
  BY <1>2 DEF Ends
<1>4. Near(low) # {} /\ Near(Middle) # {} /\ Near(high) # {}
  BY DEF Missing
<1>5. /\ RecentProfit(low) = curve[low] /\ RecentProfit(Middle) = curve[Middle]
      /\ RecentProfit(high) = curve[high]
  BY <1>3, <1>4, ExactPays
<1> DEFINE quarter == (high - low) \div 4
           delta == IF quarter > 1 THEN quarter ELSE 1
<1>6. /\ delta = quarter /\ Middle - delta > low /\ Middle + delta < high
  BY <1>1
<1>7. IF curve[Middle] >= curve[low] /\ curve[Middle] >= curve[high]
      THEN /\ low'  = IF Middle - delta > low THEN Middle - delta ELSE low
           /\ high' = IF Middle + delta < high THEN Middle + delta ELSE high
      ELSE IF curve[high] > curve[low] THEN low' = Middle /\ high' = high
                                       ELSE low' = low /\ high' = Middle
  BY <1>5 DEF NarrowBounds
<1>8. Narrower(curve, Bounds) =
        IF curve[Middle] >= curve[low] /\ curve[Middle] >= curve[high]
        THEN <<Middle - quarter, Middle + quarter>>
        ELSE IF curve[high] > curve[low] THEN <<Middle, high>> ELSE <<low, Middle>>
  BY <1>2 DEF Narrower
<1>9. Bounds' = <<low', high'>>
  BY DEF Bounds
<1> HIDE DEF quarter, delta
<1> QED
  BY <1>6, <1>7, <1>8, <1>9

(* A narrowing stays on course.                                            *)
LEMMA PeakStays ==
  ASSUME SearchedInv, Steady, Charted(wattageResults), Window, Narrowing, Missing = {}, NarrowBounds,
         NEW p \in limits[1]..Upper, Peak(p),
         OnCourse(curve, Full, Watts(wattageResults), p, Bounds)
  PROVE  OnCourse(curve, Full, Watts(wattageResults), p, Bounds')
<1> DEFINE W == Watts(wattageResults)
<1>1. wattageResults \in Seq(Offers) /\ (wattageResults # <<>> => Room) /\ Apart(W)
  BY DEF Charted
<1>2. /\ W \in SUBSET Nat /\ W \subseteq Allowed(market)
      /\ \A v \in W : curve[v] \in Nat
  BY <1>1, SampledWatts
<1>3. \A e \in Ends(Bounds) : \E v \in W : v - e \in -Tolerance..Tolerance
  <2>1. Ends(Bounds) = {low, Middle, high}
    BY DEF Ends, Bounds, Centre, Middle
  <2>2. ASSUME NEW e \in {low, Middle, high} PROVE \E v \in W : v - e \in -Tolerance..Tolerance
    <3>1. Near(e) # {}
      BY DEF Missing
    <3> QED
      BY <3>1 DEF Near, Watts
  <2> QED
    BY <2>1, <2>2
<1>4. Full[2] - Full[1] > Tolerance
  <2>1. wattageResults # <<>>
    <3>1. low \in Ends(Bounds)
      BY DEF Ends, Bounds
    <3> QED
      BY <1>3, <3>1 DEF Watts
  <2> QED
    BY <1>1, <2>1 DEF Full, Room
<1>5. \A v, x \in W : Gap(v, p) < Gap(x, p) => curve[x] < curve[v]
  BY <1>2, NearerPays
<1>6. p \in Nat
  BY OneLimit
<1>7. CASE Spotted(W, p)
  BY <1>7 DEF OnCourse
<1>8. CASE ~Spotted(W, p)
  <2> HIDE DEF W
  <2>1. Wide(Bounds) /\ Ends(Bounds) \subseteq W
        /\ OnCourse(curve, Full, W, p, Narrower(curve, Bounds))
    BY <1>2, <1>3, <1>4, <1>5, <1>6, <1>8, CourseNarrows DEF W
  <2> USE DEF W
  <2>2. Bounds' = Narrower(curve, Bounds)
    BY <1>1, <2>1, NarrowsTo
  <2> QED
    BY <2>1, <2>2
<1> QED
  BY <1>7, <1>8

(* The best sample is as near to the peak as any.                          *)
LEMMA PeakChosen ==
  ASSUME SearchedInv, Steady, wattageResults \in Seq(Offers), wattageResults # <<>>,
         NEW p \in limits[1]..Upper, Peak(p), Spotted(Watts(wattageResults), p)
  PROVE  SelectBest(wattageResults) - p \in -Reach..Reach
<1> DEFINE r == wattageResults
<1>1. Len(r) \in Nat /\ \A k \in 1..Len(r) : r[k] \in Offers
  BY LenProperties
<1>2. ASSUME NEW k \in 1..Len(r)
      PROVE  r[k].watt \in Allowed(market) /\ r[k].profit = curve[r[k].watt]
  BY <1>1, <1>2 DEF Offers
<1>3. PICK i \in 1..Len(r) : SelectBest(r) = r[i].watt /\ \A j \in 1..Len(r) : r[j].profit <= r[i].profit
  BY BestSample DEF SearchedInv
<1>4. PICK k \in 1..Len(r) : r[k].watt - p \in -Reach..Reach
  BY DEF Spotted, Watts
<1> DEFINE b == r[i].watt
           w == r[k].watt
<1>5. b \in Allowed(market) /\ w \in Allowed(market) /\ curve[w] <= curve[b]
  BY <1>2, <1>3
<1>6. w - p \in -Reach..Reach /\ SelectBest(r) = b
  BY <1>3, <1>4
<1> HIDE DEF b, w
<1>7. b \in Nat /\ w \in Nat /\ p \in Nat /\ Reach \in Nat
  BY <1>5, OneLimit, BraiinsAssumption DEF Reach
<1>8. curve[b] \in Nat /\ curve[w] \in Nat
  <2>1. /\ [watt |-> b, profit |-> curve[b]] \in [watt : Allowed(market), profit : Nat]
        /\ [watt |-> w, profit |-> curve[w]] \in [watt : Allowed(market), profit : Nat]
    BY <1>5, Earning DEF SearchedInv
  <2> QED
    BY <2>1
<1>9. ~(b - p \notin -Reach..Reach)
  <2> SUFFICES ASSUME b - p \notin -Reach..Reach PROVE FALSE
    OBVIOUS
  <2>1. Gap(w, p) <= Reach
    BY <1>6, <1>7 DEF Gap
  <2>2. Gap(b, p) > Reach
    BY <1>7 DEF Gap
  <2>3. Gap(w, p) \in Nat /\ Gap(b, p) \in Nat
    BY <1>7 DEF Gap
  <2>4. curve[b] < curve[w]
    BY <1>5, <1>7, <2>1, <2>2, <2>3, NearerPays
  <2> QED
    BY <1>5, <1>8, <2>4
<1> QED
  BY <1>6, <1>9

LEMMA SteadyKept ==
  ASSUME SearchedInv, BraiinsNext, Steady'
  PROVE  Steady /\ UNCHANGED outside
<1>1. UNCHANGED outside \/ MarketMoves \/ SetLimits
  BY DEF BraiinsNext, BraiinsWorker, BraiinsControl, BraiinsKill, braiins, Enter, EnterOffline,
     SampleMissing, Sampled, Unsampled, Sample, NoSample, Narrow, Converge, Resample, NoResample,
     Resampled, Unresampled, Reenter, KeepHolding, LeaveBraiins
<1>2. ~MarketMoves /\ ~SetLimits
  BY DEF MarketMoves, SetLimits, SearchedInv, Steady
<1> QED
  BY <1>1, <1>2 DEF outside, Steady
\* Where the samples and the limits stay, so does what they chart.
LEMMA ChartedStill ==
  ASSUME UNCHANGED outside
  PROVE  /\ (Charted(wattageResults') <=> Charted(wattageResults)')
         /\ (Charted(wattDisk'.results) <=> Charted(wattDisk.results)')
         /\ \A p : Peak(p)' = Peak(p)
         /\ Full' = Full /\ Upper' = Upper /\ limits' = limits /\ curve' = curve
<1>1. /\ Offers' = Offers /\ Upper' = Upper /\ Room' = Room /\ Full' = Full
      /\ limits' = limits /\ curve' = curve
  BY DEF outside, Offers, Allowed, Upper, Room, Full
<1>2. \A p : Peak(p)' = Peak(p)
  BY <1>1 DEF Peak
<1>3. Charted(wattageResults') <=> Charted(wattageResults)'
  BY <1>1, <1>2 DEF Charted
<1>4. Charted(wattDisk'.results) <=> Charted(wattDisk.results)'
  BY <1>1, <1>2 DEF Charted
<1> QED
  BY <1>1, <1>2, <1>3, <1>4

\* A sample of the search is the market's own, and on course.
LEMMA PeakSampled ==
  ASSUME SearchedInv, Steady, PeakInv, Sampled, UNCHANGED outside
  PROVE  /\ Charted(wattageResults') /\ Charted(wattDisk'.results)
         /\ \A p \in limits[1]..Upper : Peak(p) => Aimed(p)'
<1> DEFINE e == [watt |-> target, profit |-> curve[target]]
           W == Watts(wattageResults)
<1>1. /\ wattageResults' = Appended(e) /\ UNCHANGED <<low, high>> /\ WattCheckpoint
      /\ pc = "settling" /\ pc' = "search"
  BY DEF Sampled, Sample, Looping, At, Goto
<1>2. Charted(wattageResults) /\ Charted(wattDisk.results) /\ Aiming
  BY <1>1 DEF PeakInv
<1>3. wattageResults \in Seq(Offers) /\ Apart(W)
  BY <1>2 DEF Charted
<1>4. target \in Allowed(market) /\ target \in Nat /\ Window
  BY <1>1 DEF SearchedInv, Allowed
<1>5. e \in Offers /\ e.watt = target
  BY <1>4 DEF Offers
<1>6. wattageResults' \in Seq(Offers) /\ Watts(wattageResults') = W \cup {target}
  <2> HIDE DEF e
  <2> QED
    BY <1>1, <1>3, <1>5, Appendix
<1>7. W \in SUBSET Nat
  BY <1>3, SampledWatts
<1>8. \A v \in W : v - target \notin -Tolerance..Tolerance
  BY <1>2 DEF Aiming, Near, Watts
<1>9. Room
  BY <1>2, <1>4, OneLimit, BraiinsAssumption DEF Aiming, Room, Window
<1>10. Apart(W \cup {target})
  <2>1. ASSUME NEW v \in W PROVE target - v \notin -Tolerance..Tolerance
    <3>1. v \in Nat /\ v - target \notin -Tolerance..Tolerance
      BY <1>7, <1>8
    <3> QED
      BY <1>4, <3>1, BraiinsAssumption
  <2> HIDE DEF W
  <2> QED
    BY <1>3, <1>8, <2>1 DEF Apart
<1>11. ASSUME NEW p \in limits[1]..Upper, Peak(p)
       PROVE  OnCourse(curve, Full, W \cup {target}, p, Bounds)
  <2>1. OnCourse(curve, Full, W, p, Bounds)
    BY <1>1, <1>11 DEF PeakInv, Aimed
  <2>2. target \in Ends(Bounds) /\ p \in Nat
    BY <1>2, OneLimit DEF Aiming
  <2> HIDE DEF W
  <2> QED
    BY <1>4, <1>7, <1>8, <2>1, <2>2, CourseSampled
<1>12. Charted(wattageResults')
  <2>1. ASSUME NEW p \in limits[1]..Upper, Peak(p)
        PROVE  OnCourse(curve, Full, Watts(wattageResults'), p, Full)
    BY <1>6, <1>11, <2>1, CourseReturns
  <2> QED
    BY <1>6, <1>9, <1>10, <2>1 DEF Charted
<1>13. Charted(wattDisk'.results)
  BY <1>1, <1>2, <1>12 DEF WattCheckpoint, Now
<1>14. ASSUME NEW p \in limits[1]..Upper, Peak(p) PROVE Aimed(p)'
  <2>1. Bounds' = Bounds /\ curve' = curve /\ Full' = Full
    BY <1>1, ChartedStill DEF Bounds
  <2>2. OnCourse(curve', Full', Watts(wattageResults'), p, Bounds')
    BY <1>6, <1>11, <1>14, <2>1
  <2> QED
    BY <1>1, <2>2 DEF Aimed
<1> QED
  BY <1>12, <1>13, <1>14

\* What is held is sampled already: sampling it again shows nothing new.
LEMMA PeakResampled ==
  ASSUME SearchedInv, Steady, PeakInv, Resampled, UNCHANGED outside
  PROVE  /\ Charted(wattageResults') /\ Charted(wattDisk'.results)
         /\ \A p \in limits[1]..Upper : Peak(p) => Aimed(p)'
<1> DEFINE e == [watt |-> target, profit |-> curve[target]]
<1>1. /\ wattageResults' = Appended(e) /\ UNCHANGED best /\ WattCheckpoint
      /\ pc = "resampling" /\ pc' = "recheck"
  BY DEF Resampled, Sample, Looping, At, Goto
<1>2. Charted(wattageResults) /\ Charted(wattDisk.results)
  BY DEF PeakInv
<1>3. target \in Watts(wattageResults) /\ target \in Allowed(market)
  BY <1>1, WattsAllowed DEF SearchedInv
<1>4. e \in Offers /\ e.watt = target
  BY <1>3 DEF Offers
<1>5. wattageResults \in Seq(Offers) /\ wattageResults # <<>>
  BY <1>2, <1>3 DEF Charted, Watts
<1>6. wattageResults' \in Seq(Offers) /\ Watts(wattageResults') = Watts(wattageResults)
  <2> HIDE DEF e
  <2>1. wattageResults' \in Seq(Offers)
        /\ Watts(wattageResults') = Watts(wattageResults) \cup {target}
    BY <1>1, <1>4, <1>5, Appendix
  <2> QED
    BY <1>3, <2>1
<1>7. Charted(wattageResults')
  BY <1>2, <1>5, <1>6 DEF Charted
<1>8. Charted(wattDisk'.results)
  BY <1>1, <1>2, <1>7 DEF WattCheckpoint, Now
<1>9. ASSUME NEW p \in limits[1]..Upper, Peak(p) PROVE Aimed(p)'
  <2>1. Aimed(p)
    BY <1>9 DEF PeakInv
  <2> QED
    BY <1>1, <2>1 DEF Aimed, Reach
<1> QED
  BY <1>7, <1>8, <1>9

\* The window shrinks on the peak; once it is within the tolerance, the best
\* of the samples is held.
LEMMA PeakFollowed ==
  ASSUME SearchedInv, Steady, PeakInv, Narrow \/ Converge, UNCHANGED outside
  PROVE  /\ Charted(wattageResults') /\ Charted(wattDisk'.results)
         /\ \A p \in limits[1]..Upper : Peak(p) => Aimed(p)'
<1>1. /\ wattageResults' = wattageResults /\ pc = "search" /\ WattProfile
      /\ best' = SelectBest(wattageResults)
  BY DEF Narrow, Converge, Looping, At
<1>2. Charted(wattageResults)
  BY DEF PeakInv
<1>3. wattDisk'.results = wattageResults
  BY <1>1 DEF WattProfile, Now
<1>4. Window
  BY <1>1 DEF SearchedInv
<1>5. curve' = curve /\ Full' = Full
  BY ChartedStill
<1>6. ASSUME NEW p \in limits[1]..Upper, Peak(p) PROVE Aimed(p)'
  <2>1. OnCourse(curve, Full, Watts(wattageResults), p, Bounds)
    BY <1>1, <1>6 DEF PeakInv, Aimed
  <2>2. CASE Narrow
    <3>1. Narrowing /\ Missing = {} /\ NarrowBounds /\ pc' = "search"
      BY <2>2 DEF Narrow, Goto
    <3>2. OnCourse(curve, Full, Watts(wattageResults), p, Bounds')
      BY <1>2, <1>4, <1>6, <2>1, <3>1, PeakStays
    <3>3. OnCourse(curve', Full', Watts(wattageResults'), p, Bounds')
      BY <1>1, <1>5, <3>2
    <3> QED
      BY <3>1, <3>3 DEF Aimed
  <2>3. CASE Converge
    <3>1. ~(high - low > Tolerance) /\ pc' = "hold"
      BY <2>3 DEF Converge, Goto, Narrowing
    <3>2. CASE wattageResults = <<>>
      BY <1>1, <3>1, <3>2 DEF Aimed, SelectBest
    <3>3. CASE wattageResults # <<>>
      <4>1. wattageResults \in Seq(Offers) /\ Room
        BY <1>2, <3>3 DEF Charted
      <4>2. Spotted(Watts(wattageResults), p)
        <5>1. Full[2] - Full[1] > Tolerance /\ ~(Bounds[2] - Bounds[1] > Tolerance)
          BY <3>1, <4>1 DEF Full, Room, Bounds
        <5> QED
          BY <2>1, <5>1, CourseEnds
      <4>3. best' - p \in -Reach..Reach
        BY <1>1, <1>6, <3>3, <4>1, <4>2, PeakChosen
      <4> QED
        BY <3>1, <4>3 DEF Aimed, Reach
    <3> QED
      BY <3>2, <3>3
  <2> QED
    BY <2>2, <2>3
<1> QED
  BY <1>1, <1>2, <1>3, <1>6

\* A search begins with all the limits allow.
LEMMA PeakEntered ==
  ASSUME SearchedInv, Steady, PeakInv, Enter, UNCHANGED outside
  PROVE  /\ wattageResults' = wattageResults /\ wattDisk' = wattDisk /\ pc' = "search"
         /\ \A p \in limits[1]..Upper : Peak(p) => Aimed(p)'
<1>1. /\ wattageResults' = wattageResults /\ wattDisk' = wattDisk /\ pc' = "search"
      /\ low' = limits[1] /\ high' = Upper
  BY DEF Enter, InitBounds, Goto, wattage
<1>2. Bounds' = Full /\ curve' = curve /\ Full' = Full
  BY <1>1, ChartedStill DEF Bounds, Full
<1>3. ASSUME NEW p \in limits[1]..Upper, Peak(p) PROVE Aimed(p)'
  <2>1. OnCourse(curve, Full, Watts(wattageResults), p, Full)
    BY <1>3 DEF PeakInv, Charted
  <2>2. OnCourse(curve', Full', Watts(wattageResults'), p, Bounds')
    BY <1>1, <1>2, <2>1
  <2> QED
    BY <1>1, <2>2 DEF Aimed
<1> QED
  BY <1>1, <1>3

\* The other steps sample nothing and leave a window that is searched.
LEMMA PeakElsewhere ==
  ASSUME SearchedInv, Steady, PeakInv, UNCHANGED outside,
         \/ EnterOffline \/ SampleMissing \/ Unsampled \/ Resample \/ NoResample
         \/ Unresampled \/ Reenter \/ KeepHolding \/ LeaveBraiins \/ BraiinsControl
  PROVE  /\ wattageResults' = wattageResults
         /\ wattDisk'.results \in {wattDisk.results, wattageResults}
         /\ pc' = "settling" => Aiming'
         /\ \A p \in limits[1]..Upper : Peak(p) => Aimed(p)'
<1>1. wattageResults' = wattageResults /\ best' = best
  BY DEF EnterOffline, SampleMissing, Unsampled, Resample, NoResample, Unresampled, NoSample,
     Reenter, KeepHolding, LeaveBraiins, BraiinsControl, braiins, search
<1>2. wattDisk'.results \in {wattDisk.results, wattageResults}
  <2>1. wattDisk' = wattDisk \/ WattProfile
    BY DEF EnterOffline, SampleMissing, Unsampled, Resample, NoResample, Unresampled, NoSample,
       Reenter, KeepHolding, LeaveBraiins, BraiinsControl, braiins, wattage, SaveHeld
  <2> QED
    BY <1>1, <2>1 DEF WattProfile, Now
<1>3. CASE EnterOffline \/ Reenter \/ LeaveBraiins \/ (BraiinsControl /\ pc = "off")
  <2>1. pc' \in {"entry", "off"}
    BY <1>3 DEF EnterOffline, Reenter, LeaveBraiins, Leaves, BraiinsControl, StartWorker, StopWorker, Goto
  <2> QED
    BY <1>1, <1>2, <2>1 DEF Aimed
<1>4. CASE \/ SampleMissing \/ Unsampled \/ Resample \/ NoResample
           \/ Unresampled \/ KeepHolding \/ (BraiinsControl /\ pc # "off")
  <2>1. /\ low' = low /\ high' = high
        /\ \/ pc' = pc /\ (pc = "settling" => target' = target)
           \/ pc = "search" /\ pc' = "settling" /\ SampleMissing
           \/ pc = "settling" /\ pc' = "search"
           \/ pc \in {"hold", "resampling", "recheck"} /\ pc' \in {"hold", "resampling", "recheck"}
    BY <1>4 DEF SampleMissing, Unsampled, Resample, NoResample, Unresampled, NoSample, KeepHolding,
       BraiinsControl, StartWorker, StopWorker, Looping, At, Goto, braiins, search, worker
  <2>2. Bounds' = Bounds /\ curve' = curve /\ Full' = Full
    BY <2>1, ChartedStill DEF Bounds
  <2>3. ASSUME pc' = "settling" PROVE Aiming'
    <3>1. CASE pc = "settling"
      <4>1. target' = target /\ Aiming
        BY <2>1, <2>3, <3>1 DEF PeakInv, SampleMissing, Looping, At
      <4> QED
        BY <1>1, <2>1, <2>2, <4>1 DEF Aiming, Near
    <3>2. CASE pc # "settling"
      <4>1. /\ SampleMissing /\ Narrowing /\ Missing # {} /\ Window /\ market \in Markets
            /\ target' = CHOOSE w \in Missing : \A v \in Missing : w <= v
        BY <2>1, <2>3, <3>2 DEF SampleMissing, SearchedInv, Looping, At
      <4>2. target' \in Missing
        BY <4>1, Targeting
      <4>3. target' \in Ends(Bounds) /\ Near(target') = {}
        BY <4>2 DEF Missing, Ends, Bounds, Centre, Middle
      <4>4. Near(target)' = {}
        BY <1>1, <4>3 DEF Near
      <4> QED
        BY <2>1, <2>2, <4>1, <4>3, <4>4 DEF Aiming, Narrowing
    <3> QED
      BY <3>1, <3>2
  <2>4. ASSUME NEW p \in limits[1]..Upper, Peak(p) PROVE Aimed(p)'
    <3>1. Aimed(p)
      BY <2>4 DEF PeakInv
    <3>2. pc' \in {"search", "settling"} => pc \in {"search", "settling"}
      BY <2>1
    <3>3. pc' \in {"hold", "resampling", "recheck"} => pc \in {"hold", "resampling", "recheck"}
      BY <2>1
    <3>4. OnCourse(curve, Full, Watts(wattageResults), p, Bounds)
          => OnCourse(curve', Full', Watts(wattageResults'), p, Bounds')
      BY <1>1, <2>2
    <3> QED
      BY <1>1, <3>1, <3>2, <3>3, <3>4 DEF Aimed, Reach
  <2> QED
    BY <1>1, <1>2, <2>3, <2>4
<1> QED
  BY <1>3, <1>4

(* PeakInv is inductive.                                                   *)
LEMMA PeakKept ==
  ASSUME SearchedInv, PeakInv, BraiinsNext
  PROVE  PeakInv'
<1> SUFFICES ASSUME Steady'
             PROVE  /\ Charted(wattageResults)' /\ Charted(wattDisk.results)'
                    /\ pc' = "settling" => Aiming'
                    /\ (\A p \in limits[1]..Upper : Peak(p) => Aimed(p))'
  BY DEF PeakInv
<1>1. Steady /\ UNCHANGED outside
  BY SteadyKept
<1> SUFFICES /\ Charted(wattageResults') /\ Charted(wattDisk'.results)
             /\ pc' = "settling" => Aiming'
             /\ \A p \in limits[1]..Upper : Peak(p) => Aimed(p)'
  BY <1>1, ChartedStill
<1>2. Charted(wattageResults) /\ Charted(wattDisk.results)
  BY <1>1 DEF PeakInv
<1>3. CASE Sampled
  <2>1. pc' # "settling"
    BY <1>3 DEF Sampled, Sample, Goto
  <2> QED
    BY <1>1, <1>3, <2>1, PeakSampled
<1>4. CASE Resampled
  <2>1. pc' # "settling"
    BY <1>4 DEF Resampled, Sample, Goto
  <2> QED
    BY <1>1, <1>4, <2>1, PeakResampled
<1>5. CASE Narrow \/ Converge
  <2>1. pc' # "settling"
    BY <1>5 DEF Narrow, Converge, Goto
  <2> QED
    BY <1>1, <1>5, <2>1, PeakFollowed
<1>6. CASE Enter
  <2>1. /\ wattageResults' = wattageResults /\ wattDisk' = wattDisk /\ pc' = "search"
        /\ \A p \in limits[1]..Upper : Peak(p) => Aimed(p)'
    BY <1>1, <1>6, PeakEntered
  <2> QED
    BY <1>2, <2>1
<1>7. CASE \/ EnterOffline \/ SampleMissing \/ Unsampled \/ Resample \/ NoResample
           \/ Unresampled \/ Reenter \/ KeepHolding \/ LeaveBraiins \/ BraiinsControl
  <2>1. /\ wattageResults' = wattageResults
        /\ wattDisk'.results \in {wattDisk.results, wattageResults}
        /\ pc' = "settling" => Aiming'
        /\ \A p \in limits[1]..Upper : Peak(p) => Aimed(p)'
    BY <1>1, <1>7, PeakElsewhere
  <2>2. wattDisk'.results = wattDisk.results \/ wattDisk'.results = wattageResults
    BY <2>1
  <2>3. Charted(wattDisk'.results)
    BY <1>2, <2>2
  <2> QED
    BY <1>2, <2>1, <2>3
<1>8. CASE BraiinsKill
  <2>1. wattageResults' = wattDisk.results /\ wattDisk' = wattDisk /\ pc' = "off"
    BY <1>8 DEF BraiinsKill, KillWorker, wattage
  <2> QED
    BY <1>2, <2>1 DEF Aimed
<1>9. ~MarketMoves /\ ~SetLimits
  BY <1>1 DEF MarketMoves, SetLimits, outside
<1> QED
  BY <1>3, <1>4, <1>5, <1>6, <1>7, <1>8, <1>9 DEF BraiinsNext, BraiinsWorker

\* Before the first search nothing is sampled.
LEMMA PeakBegins ==
  ASSUME SearchedInv, BraiinsInit, pc = "off"
  PROVE  PeakInv
<1> SUFFICES ASSUME Steady PROVE PeakInv
  BY DEF PeakInv
<1>1. /\ wattageResults = <<>> /\ wattDisk.results = <<>> /\ pc = "off" /\ best = None
  BY DEF BraiinsInit
<1>2. Watts(<<>>) = {}
  BY DEF Watts
<1>3. ASSUME NEW p \in limits[1]..Upper
      PROVE  OnCourse(curve, Full, Watts(<<>>), p, Full)
  <2>1. limits[1] \in Nat /\ Upper \in Nat /\ limits[1] < Upper /\ p \in Nat
    BY OneLimit
  <2>2. Full \in Windows /\ Frames(Full, p)
    BY <2>1 DEF Full, Windows, Frames
  <2> QED
    BY <1>2, <2>1, <2>2, CourseBegins
<1>4. Charted(<<>>)
  BY <1>2, <1>3 DEF Charted, Apart
<1> QED
  BY <1>1, <1>4 DEF PeakInv, Aimed
-----------------------------------------------------------------------------
(* Whatsminer: what is held has been measured, as its label says.          *)

Pls == PlMin..PlMax
Fs  == FMin..FMax

Triples == {k \in Int \X Int \X Int : k # <<0, 0, 0>>}

\* A plan can be gone through in the order of its keys, and none is the holder's.
Planned(p) ==
  /\ IsFiniteSet(p)
  /\ \A c \in p : c.key \in Triples /\ c.pl \in Pls /\ c.f \in Fs /\ c.fine \in BOOLEAN
  /\ \A c, d \in p : c.key = d.key => c = d

LEMMA FirstPlanned ==
  ASSUME NEW p, Planned(p), p # {}
  PROVE  First(p) \in p
<1> DEFINE R == {q \in p \X p : Before(q[2].key, q[1].key)}
<1>1. \A c \in p : c.key[1] \in Int /\ c.key[2] \in Int /\ c.key[3] \in Int
  BY DEF Planned, Triples
<1>2. \A c, d \in p : c = d \/ Before(c.key, d.key) \/ Before(d.key, c.key)
  <2> SUFFICES ASSUME NEW c \in p, NEW d \in p, ~Before(c.key, d.key), ~Before(d.key, c.key)
               PROVE  c = d
    OBVIOUS
  <2>1. c.key[1] = d.key[1] /\ c.key[2] = d.key[2] /\ c.key[3] = d.key[3]
    BY <1>1 DEF Before
  <2>2. c.key \in Int \X Int \X Int /\ d.key \in Int \X Int \X Int
    BY DEF Planned, Triples
  <2>3. c.key = <<c.key[1], c.key[2], c.key[3]>> /\ d.key = <<d.key[1], d.key[2], d.key[3]>>
    BY <2>2
  <2>4. c.key = d.key
    BY <2>1, <2>3
  <2> QED
    BY <2>4 DEF Planned
<1>3. \A c \in p : ~Before(c.key, c.key)
  BY <1>1 DEF Before
<1>4. \A c, d, e \in p : Before(c.key, d.key) /\ Before(d.key, e.key) => Before(c.key, e.key)
  BY <1>1 DEF Before
<1>5. \A c, d \in p : <<c, d>> \in R <=> Before(d.key, c.key)
  OBVIOUS
<1>6. Orders(R, p)
  <2> HIDE DEF R
  <2> QED
    BY <1>2, <1>3, <1>4, <1>5 DEF Orders
<1>7. PICK m \in p : IsLast(m, R, p)
  <2> HIDE DEF R
  <2> QED
    BY <1>6, LastExists DEF Planned
<1>8. \A d \in p : m = d \/ Before(m.key, d.key)
  <2> HIDE DEF R
  <2> QED
    BY <1>5, <1>7 DEF IsLast
<1> QED
  BY <1>8 DEF First

(* A share k / m of a distance is within it.                               *)
LEMMA Share ==
  ASSUME NEW k \in Nat, NEW m \in Nat, NEW d \in Nat, m > 0, k <= m
  PROVE  (k * d) \div m \in 0..d
<1> DEFINE q == (k * d) \div m
<1>1. k * d \in Nat /\ k * d <= m * d
  OBVIOUS
<1>2. q \in Nat /\ q * m <= k * d
  BY <1>1
<1>3. ASSUME q > d
      PROVE  FALSE
  <2> HIDE DEF q
  <2>1. q * m >= (d + 1) * m
    BY <1>2, <1>3
  <2>2. (d + 1) * m = d * m + m /\ m * d = d * m
    OBVIOUS
  <2> QED
    BY <1>1, <1>2, <2>1, <2>2
<1> QED
  BY <1>2, <1>3

LEMMA AxesWithin ==
  /\ \A j \in 1..PlCount : PlAxis[j] \in Pls
  /\ \A i \in 1..FCount : FAxis[i] \in Fs
<1>1. ASSUME NEW j \in 1..PlCount
      PROVE  PlAxis[j] \in Pls
  <2>1. /\ j - 1 \in Nat /\ PlCount - 1 \in Nat /\ PlMax - PlMin \in Nat /\ PlCount - 1 > 0
        /\ j - 1 <= PlCount - 1 /\ PlMax \in Nat /\ PlMin \in Nat
    BY WhatsminerAssumption
  <2>2. ((j - 1) * (PlMax - PlMin)) \div (PlCount - 1) \in 0..PlMax - PlMin
    BY <2>1, Share
  <2>3. PlAxis[j] = PlMax - ((j - 1) * (PlMax - PlMin)) \div (PlCount - 1)
    BY DEF PlAxis
  <2> QED
    BY <2>1, <2>2, <2>3 DEF Pls
<1>2. ASSUME NEW i \in 1..FCount
      PROVE  FAxis[i] \in Fs
  <2>1. /\ i - 1 \in Nat /\ FCount - 1 \in Nat /\ FMax - FMin \in Nat /\ FCount - 1 > 0
        /\ i - 1 <= FCount - 1 /\ FMax \in Nat /\ FMin \in Nat
    BY WhatsminerAssumption
  <2>2. ((i - 1) * (FMax - FMin)) \div (FCount - 1) \in 0..FMax - FMin
    BY <2>1, Share
  <2>3. FAxis[i] = FMax - ((i - 1) * (FMax - FMin)) \div (FCount - 1)
    BY DEF FAxis
  <2> QED
    BY <2>1, <2>2, <2>3 DEF Fs
<1> QED
  BY <1>1, <1>2

(* A division cuts off less than one.                                      *)
LEMMA Cut ==
  ASSUME NEW n \in Nat, NEW b \in Nat \ {0}
  PROVE  (100 * n) \div b \in Nat /\ ((100 * n) \div b) * b <= 100 * n /\ 100 * n < ((100 * n) \div b) * b + b
<1> DEFINE x == 100 * n
<1>1. x \in Nat
  OBVIOUS
<1> HIDE DEF x
<1>2. x = (x \div b) * b + (x % b) /\ x % b \in 0..b - 1 /\ x \div b \in Nat
  BY <1>1
<1> QED
  BY <1>1, <1>2 DEF x

(* What is sent of a percentage lies within a hundred, and within one of   *)
(* what it is.                                                             *)
LEMMA WholePercent ==
  ASSUME NEW f \in Nat, NEW b \in Nat \ {0}, f <= 2 * b
  PROVE  /\ Whole(<<f, b>>) \in -100..100
         /\ b * (100 + Whole(<<f, b>>)) < 100 * f + b
         /\ 100 * f - b < b * (100 + Whole(<<f, b>>))
<1>1. CASE f >= b
  <2> DEFINE q == (100 * (f - b)) \div b
  <2>1. q \in Nat /\ q * b <= 100 * (f - b) /\ 100 * (f - b) < q * b + b
    <3> DEFINE n == f - b
    <3>1. n \in Nat
      BY <1>1
    <3> HIDE DEF n
    <3>2. (100 * n) \div b \in Nat /\ ((100 * n) \div b) * b <= 100 * n /\ 100 * n < ((100 * n) \div b) * b + b
      BY <3>1, Cut
    <3> QED
      BY <3>2 DEF n
  <2>2. Whole(<<f, b>>) = q
    BY <1>1 DEF Whole
  <2> HIDE DEF q
  <2>3. b * (100 + q) = 100 * b + q * b
    BY <2>1
  <2>4. q <= 100
    <3>1. q > 100 => q * b >= 101 * b
      BY <2>1
    <3> QED
      BY <2>1, <3>1
  <2> QED
    BY <2>1, <2>2, <2>3, <2>4
<1>2. CASE f < b
  <2> DEFINE q == (100 * (b - f)) \div b
  <2>1. q \in Nat /\ q * b <= 100 * (b - f) /\ 100 * (b - f) < q * b + b
    <3> DEFINE n == b - f
    <3>1. n \in Nat
      BY <1>2
    <3> HIDE DEF n
    <3>2. (100 * n) \div b \in Nat /\ ((100 * n) \div b) * b <= 100 * n /\ 100 * n < ((100 * n) \div b) * b + b
      BY <3>1, Cut
    <3> QED
      BY <3>2 DEF n
  <2>2. Whole(<<f, b>>) = -q
    BY <1>2 DEF Whole
  <2> HIDE DEF q
  <2>3. b * (100 + (-q)) = 100 * b - q * b
    BY <2>1
  <2>4. q <= 100
    <3>1. q > 100 => q * b >= 101 * b
      BY <2>1
    <3> QED
      BY <2>1, <3>1
  <2> QED
    BY <2>1, <2>2, <2>3, <2>4
<1> QED
  BY <1>1, <1>2

(* A factor on both sides can go.                                          *)
LEMMA Shorter ==
  ASSUME NEW b \in Nat \ {0}, NEW x \in Int, NEW y \in Int, x * b < y * b
  PROVE  x < y
<1>1. x >= y => x * b >= y * b
  OBVIOUS
<1> QED
  BY <1>1

(* Percentages that count as the same are sent as frequencies that differ  *)
(* by little more than a percent of the baseline.                          *)
LEMMA NearEnough ==
  ASSUME NEW g \in Nat, NEW c \in Nat \ {0}, NEW f \in Nat, NEW b \in Nat \ {0},
         g <= 2 * c, SamePercent(<<g, c>>, <<f, b>>)
  PROVE  100 * Gap(100 * f, b * (100 + Whole(<<g, c>>))) < 101 * b
<1> DEFINE w == 100 + Whole(<<g, c>>)
           u == g * b
           v == f * c
           z == c * b
<1>1. w \in Int /\ c * w < 100 * g + c /\ 100 * g - c < c * w
  <2>1. /\ Whole(<<g, c>>) \in -100..100
        /\ c * (100 + Whole(<<g, c>>)) < 100 * g + c
        /\ 100 * g - c < c * (100 + Whole(<<g, c>>))
    BY WholePercent
  <2> DEFINE x == Whole(<<g, c>>)
  <2>2. x \in -100..100 => 100 + x \in Int
    OBVIOUS
  <2> HIDE DEF x
  <2> QED
    BY <2>1, <2>2 DEF x
<1>2. 10000 * Gap(u, v) <= z
  BY DEF SamePercent
<1>3. u \in Int /\ v \in Int /\ z \in Int
  OBVIOUS
<1> DEFINE t == (b * w) * c
<1>4. t < 100 * u + z /\ 100 * u - z < t /\ t \in Int
  <2> HIDE DEF w
  <2>1. t = b * (c * w)
    BY <1>1
  <2> DEFINE k == c * w
  <2>2. k \in Int /\ k < 100 * g + c /\ 100 * g - c < k
    BY <1>1
  <2> HIDE DEF k
  <2>3. b * k < b * (100 * g + c) /\ b * (100 * g - c) < b * k
    BY <2>2
  <2>4. b * (100 * g + c) = 100 * u + z /\ b * (100 * g - c) = 100 * u - z
    OBVIOUS
  <2> QED
    BY <2>1, <2>2, <2>3, <2>4 DEF k
<1>5. 10000 * u - 10000 * v <= z /\ 10000 * v - 10000 * u <= z
  <2> HIDE DEF u, v, z
  <2> QED
    BY <1>2, <1>3 DEF Gap
<1>6. 10000 * v - 100 * t < 101 * z /\ 100 * t - 10000 * v < 101 * z
  <2> HIDE DEF t, u, v, z
  <2> QED
    BY <1>3, <1>4, <1>5
<1>7. /\ (100 * (100 * f - b * w)) * c = 10000 * v - 100 * t
      /\ (100 * (b * w - 100 * f)) * c = 100 * t - 10000 * v
      /\ (101 * b) * c = 101 * z
  <2> HIDE DEF w
  <2> DEFINE bw == b * w
  <2>1. bw \in Int
    BY <1>1
  <2> HIDE DEF bw
  <2>2. /\ (100 * (100 * f - bw)) * c = 10000 * (f * c) - 100 * (bw * c)
        /\ (100 * (bw - 100 * f)) * c = 100 * (bw * c) - 10000 * (f * c)
        /\ (101 * b) * c = 101 * (c * b)
    BY <2>1
  <2> QED
    BY <2>2 DEF bw
<1>8. 100 * (100 * f - b * w) < 101 * b /\ 100 * (b * w - 100 * f) < 101 * b
  <2>1. b * w \in Int
    BY <1>1
  <2>2. 100 * (100 * f - b * w) \in Int /\ 100 * (b * w - 100 * f) \in Int /\ 101 * b \in Int
    BY <2>1
  <2> HIDE DEF w, t, v, z
  <2> QED
    BY <1>6, <1>7, <2>2, Shorter
<1>9. b * w \in Int
  BY <1>1
<1> QED
  BY <1>8, <1>9 DEF Gap

\* Percentages between nothing and twice a baseline.
Percents == {p \in Nat \X (Nat \ {0}) : p[1] <= 2 * p[2]}

\* The frequencies that discovery has read, of modes the hardware has.
Read(m, base) == \E s \in SUBSET m.supports : base \in [s -> Nat \ {0}]

LEMMA ModesRead ==
  ASSUME miner \in Miners, Read(miner, baselines)
  PROVE  /\ baselines # None /\ Found = DOMAIN baselines
         /\ Found \subseteq miner.supports /\ Found \subseteq ModeNames
         /\ \A m \in Found : baselines[m] \in Nat \ {0}
<1>1. PICK s \in SUBSET miner.supports : baselines \in [s -> Nat \ {0}]
  BY DEF Read
<1>2. miner.supports \subseteq ModeNames
  BY WhatsminerAssumption
<1>3. None \notin [s -> Nat]
  BY <1>1, <1>2, NoneAssumption
<1>4. baselines \in [s -> Nat]
  BY <1>1
<1>5. baselines # None
  BY <1>3, <1>4
<1> QED
  BY <1>1, <1>2, <1>5 DEF Found

LEMMA PlacesInOrder ==
  /\ \A m \in ModeNames : Place(m) \in 1..3 /\ Modes[Place(m)] = m
  /\ \A i \in 1..3 : Modes[i] \in ModeNames /\ Place(Modes[i]) = i
<1>1. Modes[1] = "low" /\ Modes[2] = "normal" /\ Modes[3] = "high"
  BY DEF Modes
<1>2. Place("low") = 1 /\ Place("normal") = 2 /\ Place("high") = 3
  BY <1>1 DEF Place
<1> QED
  BY <1>1, <1>2 DEF ModeNames

(* Some modes are all but three names.                                     *)
LEMMA ThreeModes ==
  ASSUME NEW S, S \subseteq ModeNames, S # {}
  PROVE  \E a, b, c \in ModeNames : S = {a, b, c}
<1>1. PICK some \in S : TRUE
  OBVIOUS
<1> DEFINE Or(m) == IF m \in S THEN m ELSE some
<1>2. S = {Or("low"), Or("normal"), Or("high")}
  BY <1>1 DEF ModeNames
<1>3. Or("low") \in ModeNames /\ Or("normal") \in ModeNames /\ Or("high") \in ModeNames
  BY <1>1
<1> HIDE DEF Or
<1> QED
  BY <1>2, <1>3

(* Of some modes one is the nearest to a frequency.                        *)
LEMMA Nearest ==
  ASSUME miner \in Miners, Read(miner, baselines), NEW f \in Int, NEW S, S \subseteq Found, S # {}
  PROVE  (CHOOSE m \in S : \A n \in S : Nearer(f, m, n)) \in S
<1>1. \A m \in S : Gap(f, baselines[m]) \in Int /\ Place(m) \in Int
  BY ModesRead, PlacesInOrder DEF Gap
<1>2. \A m, n, o \in S : /\ Nearer(f, m, n) \/ Nearer(f, n, m)
                         /\ Nearer(f, m, n) /\ Nearer(f, n, o) => Nearer(f, m, o)
  BY <1>1 DEF Nearer
<1>3. PICK a, b, c \in ModeNames : S = {a, b, c}
  BY ModesRead, ThreeModes
<1>4. \E m \in S : \A n \in S : Nearer(f, m, n)
  BY <1>2, <1>3
<1> QED
  BY <1>4

(* A mode that is set is one that was found, and one in reach if any is.   *)
LEMMA ModeFound ==
  ASSUME miner \in Miners, Read(miner, baselines), NEW f \in Int, ModeAndPercent(f) # None
  PROVE  \E m \in Found :
           /\ InReach(f) # {} => m \in InReach(f)
           /\ ModeAndPercent(f) = <<m, Percent(f, Base(m))>>
<1> DEFINE choice == IF InReach(f) = {} THEN Found ELSE InReach(f)
<1>1. ~NoMode /\ Found # {}
  BY DEF ModeAndPercent, NoMode
<1>2. choice # {} /\ choice \subseteq Found
  BY <1>1 DEF InReach
<1>3. NearestMode(f) \in choice
  <2>1. NearestMode(f) = CHOOSE m \in choice : \A n \in choice : Nearer(f, m, n)
    BY DEF NearestMode
  <2> HIDE DEF choice
  <2> QED
    BY <1>2, <2>1, Nearest
<1>4. ModeAndPercent(f) = <<NearestMode(f), Percent(f, Base(NearestMode(f)))>>
  BY <1>1 DEF ModeAndPercent
<1> QED
  BY <1>2, <1>3, <1>4

(* What a percentage is taken to refer to is a frequency that was read.    *)
LEMMA BaseRead ==
  ASSUME miner \in Miners, Read(miner, baselines), NEW f \in Int, ModeAndPercent(f) # None,
         pctAnchor \in {"current_mode", "normal_only", None}, NEW m \in Found
  PROVE  Base(m) \in Nat \ {0}
<1>1. Anchor = "current_mode" \/ "normal" \in Found
  BY DEF ModeAndPercent, NoMode, Anchor
<1> QED
  BY <1>1, ModesRead DEF Base

LEMMA Ranked ==
  ASSUME miner \in Miners, Read(miner, baselines), NEW f \in Int
  PROVE  Rank(f) \in 1..3
<1> DEFINE mp == ModeAndPercent(f)
           mode == IF mp = None THEN "normal" ELSE mp[1]
<1>1. mode \in ModeNames
  <2>1. CASE mp = None
    BY <2>1 DEF ModeNames
  <2>2. CASE mp # None
    <3>1. mp[1] \in Found
      BY <2>2, ModeFound
    <3> QED
      BY <2>2, <3>1, ModesRead
  <2> QED
    BY <2>1, <2>2
<1>2. Rank(f) = Place(mode)
  BY DEF Rank
<1> HIDE DEF mode
<1> QED
  BY <1>1, <1>2, PlacesInOrder

LEMMA CoarsePlanned ==
  ASSUME miner \in Miners, Read(miner, baselines)
  PROVE  Planned(CoarsePlan)
<1> DEFINE D == (1..FCount) \X (1..PlCount)
           C(i, j) == [key |-> <<Rank(FAxis[i]), i, j>>, pl |-> PlAxis[j],
                       f |-> FAxis[i], fine |-> FALSE]
           f == [p \in D |-> C(p[1], p[2])]
<1>1. IsFiniteSet(D)
  <2>1. FCount \in Nat /\ PlCount \in Nat
    BY WhatsminerAssumption
  <2>2. IsFiniteSet(1..FCount) /\ IsFiniteSet(1..PlCount)
    BY <2>1, FiniteIndices
  <2> QED
    BY <2>2, FS_Product
<1>2. CoarsePlan = {f[p] : p \in D}
  <2>1. CoarsePlan = {C(i, j) : i \in 1..FCount, j \in 1..PlCount}
    BY DEF CoarsePlan
  <2> HIDE DEF C
  <2>2. \A i \in 1..FCount, j \in 1..PlCount : <<i, j>> \in D /\ f[<<i, j>>] = C(i, j)
    OBVIOUS
  <2>3. \A p \in D : p[1] \in 1..FCount /\ p[2] \in 1..PlCount /\ f[p] = C(p[1], p[2])
    OBVIOUS
  <2> HIDE DEF f, D
  <2>4. ASSUME NEW c \in CoarsePlan
        PROVE  \E p \in D : c = f[p]
    <3>1. PICK i \in 1..FCount, j \in 1..PlCount : c = C(i, j)
      BY <2>1
    <3> QED
      BY <2>2, <3>1
  <2>5. \A p \in D : f[p] \in CoarsePlan
    BY <2>1, <2>3
  <2> QED
    BY <2>4, <2>5
<1>3. IsFiniteSet(CoarsePlan)
  <2>1. DOMAIN f = D /\ f = [p \in D |-> f[p]]
    OBVIOUS
  <2> HIDE DEF f, D
  <2> QED
    BY <1>1, <1>2, <2>1, FiniteImage
<1>4. \A i \in 1..FCount : Rank(FAxis[i]) \in 1..3
  <2>1. \A i \in 1..FCount : FAxis[i] \in Int
    BY AxesWithin, WhatsminerAssumption DEF Fs
  <2> QED
    BY <2>1, Ranked
<1>5. \A c \in CoarsePlan : c.key \in Triples /\ c.pl \in Pls /\ c.f \in Fs /\ c.fine \in BOOLEAN
  <2> SUFFICES ASSUME NEW p \in D
               PROVE  f[p].key \in Triples /\ f[p].pl \in Pls /\ f[p].f \in Fs /\ f[p].fine \in BOOLEAN
    <3> HIDE DEF f, D
    <3> QED
      BY <1>2
  <2>1. p[1] \in 1..FCount /\ p[2] \in 1..PlCount
    OBVIOUS
  <2>2. <<Rank(FAxis[p[1]]), p[1], p[2]>> \in Triples
    <3>1. Rank(FAxis[p[1]]) \in Int /\ p[1] \in Int /\ p[2] \in Int /\ p[1] # 0
      BY <1>4, <2>1
    <3> QED
      BY <3>1 DEF Triples
  <2> QED
    BY <2>1, <2>2, AxesWithin
<1>6. \A c, d \in CoarsePlan : c.key = d.key => c = d
  <2> SUFFICES ASSUME NEW p \in D, NEW q \in D, f[p].key = f[q].key PROVE f[p] = f[q]
    <3> HIDE DEF f, D
    <3> QED
      BY <1>2
  <2>1. p[1] = q[1] /\ p[2] = q[2]
    OBVIOUS
  <2> QED
    BY <2>1
<1> QED
  BY <1>3, <1>5, <1>6 DEF Planned

LEMMA FinePlanned ==
  ASSUME miner \in Miners, NEW n \in Nat, NEW anchors,
         DOMAIN anchors = 1..n, \A r \in 1..n : anchors[r].pl \in Pls /\ anchors[r].f \in Fs
  PROVE  Planned(FinePlan(anchors))
<1> DEFINE half == miner.fine[1] \div 2
           B == -half..half
           D == ((1..n) \X B) \X B
           hp == HalfStep(PlMin, PlMax, PlCount)
           hf == HalfStep(FMin, FMax, FCount)
           C(r, i, j) == [key |-> <<r, i, j>>, fine |-> TRUE,
                          pl |-> Clamp(PlMin, anchors[r].pl + i * hp, PlMax),
                          f  |-> Clamp(FMin, anchors[r].f + j * hf, FMax)]
           f == [p \in D |-> C(p[1][1], p[1][2], p[2])]
<1>1. half \in Nat
  <2>1. miner.fine[1] \in Nat
    BY WhatsminerAssumption
  <2> QED
    BY <2>1
<1>2. IsFiniteSet(D)
  <2>1. IsFiniteSet(1..n)
    BY FiniteIndices
  <2>2. IsFiniteSet(B)
    <3>1. -half \in Int /\ half \in Int
      BY <1>1
    <3> HIDE DEF half
    <3> QED
      BY <3>1, FS_Interval
  <2> QED
    BY <2>1, <2>2, FS_Product
<1>3. hp \in Int /\ hf \in Int
  BY WhatsminerAssumption DEF HalfStep
<1> HIDE DEF half, hp, hf
<1>4. FinePlan(anchors) = {f[p] : p \in D}
  <2>1. FinePlan(anchors) = {C(r, i, j) : r \in 1..n, i \in B, j \in B}
    BY DEF FinePlan, half, hp, hf
  <2> HIDE DEF C
  <2>2. \A r \in 1..n, i \in B, j \in B :
          <<<<r, i>>, j>> \in D /\ f[<<<<r, i>>, j>>] = C(r, i, j)
    OBVIOUS
  <2>3. \A p \in D : /\ p[1][1] \in 1..n /\ p[1][2] \in B /\ p[2] \in B
                     /\ f[p] = C(p[1][1], p[1][2], p[2])
    OBVIOUS
  <2> HIDE DEF f, D, B
  <2>4. ASSUME NEW c \in FinePlan(anchors)
        PROVE  \E p \in D : c = f[p]
    <3>1. PICK r \in 1..n, i \in B, j \in B : c = C(r, i, j)
      BY <2>1
    <3> QED
      BY <2>2, <3>1
  <2>5. \A p \in D : f[p] \in FinePlan(anchors)
    BY <2>1, <2>3
  <2> QED
    BY <2>4, <2>5
<1>5. IsFiniteSet(FinePlan(anchors))
  <2>1. DOMAIN f = D /\ f = [p \in D |-> f[p]]
    OBVIOUS
  <2> HIDE DEF f, D
  <2> QED
    BY <1>2, <1>4, <2>1, FiniteImage
<1>6. ASSUME NEW p \in D
      PROVE  f[p].key \in Triples /\ f[p].pl \in Pls /\ f[p].f \in Fs /\ f[p].fine \in BOOLEAN
  <2>1. p[1][1] \in 1..n /\ p[1][2] \in Int /\ p[2] \in Int /\ p[1][1] # 0 /\ p[1][1] \in Int
    BY <1>1
  <2>2. anchors[p[1][1]].pl \in Int /\ anchors[p[1][1]].f \in Int
    BY <2>1, WhatsminerAssumption DEF Pls, Fs
  <2>3. anchors[p[1][1]].pl + p[1][2] * hp \in Int /\ anchors[p[1][1]].f + p[2] * hf \in Int
    <3>1. \A i, j \in Int : i * j \in Int
      OBVIOUS
    <3>2. p[1][2] * hp \in Int /\ p[2] * hf \in Int
      BY <1>3, <2>1, <3>1, Zenon
    <3> QED
      BY <2>2, <3>2
  <2>4. \A x \in Int : Clamp(PlMin, x, PlMax) \in Pls /\ Clamp(FMin, x, FMax) \in Fs
    BY WhatsminerAssumption DEF Clamp, Pls, Fs
  <2>5. <<p[1][1], p[1][2], p[2]>> \in Triples
    BY <2>1 DEF Triples
  <2> QED
    BY <2>3, <2>4, <2>5
<1>7. ASSUME NEW p \in D, NEW q \in D, f[p].key = f[q].key
      PROVE  f[p] = f[q]
  <2>1. p[1][1] = q[1][1] /\ p[1][2] = q[1][2] /\ p[2] = q[2]
    BY <1>7
  <2> QED
    BY <2>1
<1> HIDE DEF f, D
<1> QED
  BY <1>4, <1>5, <1>6, <1>7 DEF Planned

\* What the engine knows, or a file keeps of it.
Engine(m, base, anchor, set, row, known, top) ==
  /\ base = None \/ Read(m, base)
  /\ anchor \in {"current_mode", "normal_only", None}
  /\ DOMAIN set = Knobs /\ set.mode \in m.supports \cup {None}
  /\ set.percent \in Percents \cup {None}
  /\ row \in 0..1
  /\ IsFiniteSet(known)
  /\ \A c \in known : c.pl \in Pls /\ c.f \in Fs /\ c.fine \in BOOLEAN /\ c.eff \in Nat
  /\ top = None \/ \E c \in known : SameCell(c, top)

CellsOf(known) == {<<c.pl, c.f>> : c \in known}

Chosen(top) == IF top = None THEN {} ELSE {<<top.pl, top.f>>}

\* The discovery has found nothing the hardware does not have.
Listed(m, list) ==
  /\ list \in Seq((Nat \ {0}) \cup {None}) /\ Len(list) \in 0..3
  /\ \A i \in 1..Len(list) : list[i] # None => Modes[i] \in m.supports

\* A cell being measured is one of the plan's, or the one that is held.
Labelled(c, known) ==
  /\ c.pl \in Pls /\ c.f \in Fs /\ c.fine \in BOOLEAN
  /\ c.key = <<0, 0, 0>> => <<c.pl, c.f>> \in CellsOf(known)

EngineNow  == Engine(miner, baselines, pctAnchor, cache, streak, cells, bestCell)
EngineKept == Engine(miner, cellDisk.baselines, cellDisk.pctAnchor, cellDisk.cache,
                     cellDisk.streak, cellDisk.cells, cellDisk.bestCell)

World ==
  /\ miner \in Miners /\ land \in miner.lands /\ faults \in 0..miner.faults
  /\ DOMAIN liveWm = Knobs /\ liveWm.mode \in miner.supports \cup {"normal"}
  /\ liveWm.percent \in -100..100 \cup {None}
  /\ doubt \subseteq Knobs

Measuring == pc \in Knobs \cup {"sample"}

CellPlaces == {"off", "entry", "discover", "start", "coarse", "fine", "hold", "sample"} \cup Knobs

\* What is held has been measured, and no file is ahead of the engine.
GriddedInv ==
  /\ World /\ EngineNow /\ EngineKept
  /\ CellsOf(cellDisk.cells) \subseteq CellsOf(cells)
  /\ Listed(miner, found) /\ Planned(plan)
  /\ pc \in CellPlaces
  /\ pc \notin {"off", "entry", "discover"} => baselines # None
  /\ Measuring => Labelled(cell, cells)

GridPhase(p, c) ==
  IF p = "off" THEN "off"
  ELSE IF p = "hold" \/ (p \in Knobs \cup {"sample"} /\ c.key = <<0, 0, 0>>) THEN "hold" ELSE "search"

GriddedStep ==
  AsTuner(GridPhase(pc, cell), CellsOf(cells), Chosen(bestCell),
          GridPhase(pc', cell'), CellsOf(cells'), Chosen(bestCell'))

(* What is chosen is among the points measured.                            *)
LEMMA ChosenMeasured ==
  ASSUME EngineNow PROVE Chosen(bestCell) \subseteq CellsOf(cells)
BY DEF EngineNow, Engine, Chosen, CellsOf, SameCell

LEMMA KeptMeasured ==
  ASSUME EngineKept PROVE Chosen(cellDisk.bestCell) \subseteq CellsOf(cellDisk.cells)
BY DEF EngineKept, Engine, Chosen, CellsOf, SameCell

(* A checkpoint and a profile keep what the engine knows; the streak that  *)
(* is kept may be the one before.                                          *)
LEMMA CellSaving ==
  ASSUME GriddedInv, EngineNow', miner' = miner, CellsOf(cells) \subseteq CellsOf(cells'),
         \/ CellCheckpoint \/ CellProfile \/ UNCHANGED wmFiles
         \/ cellDisk' = IF cellProfile THEN cellDisk ELSE [CellNow EXCEPT !.streak = streak]
  PROVE  EngineKept' /\ CellsOf(cellDisk'.cells) \subseteq CellsOf(cells')
<1> DEFINE now(s) == [baselines |-> baselines', pctAnchor |-> pctAnchor', cache |-> cache',
                      cells |-> cells', bestCell |-> bestCell', streak |-> s]
<1>1. cellDisk' = cellDisk \/ cellDisk' = now(streak') \/ cellDisk' = now(streak)
  BY DEF CellCheckpoint, CellProfile, CellNow, wmFiles
<1>2. CASE cellDisk' = cellDisk
  BY <1>2 DEF GriddedInv, EngineKept
<1>3. ASSUME NEW s, s \in 0..1, cellDisk' = now(s)
      PROVE  EngineKept' /\ CellsOf(cellDisk'.cells) \subseteq CellsOf(cells')
  BY <1>3 DEF EngineNow, EngineKept, Engine
<1>4. streak \in 0..1 /\ streak' \in 0..1
  BY DEF GriddedInv, EngineNow, Engine
<1> QED
  BY <1>1, <1>2, <1>3, <1>4

(* A number among a finite set's is the lowest, and one the highest.       *)
LEMMA Extremes ==
  ASSUME NEW S, IsFiniteSet(S), S \subseteq Int, S # {}
  PROVE  (\E e \in S : \A x \in S : e <= x) /\ (\E e \in S : \A x \in S : x <= e)
<1> DEFINE Down == {p \in S \X S : p[1] > p[2]}
           Up   == {p \in S \X S : p[1] < p[2]}
<1>1. Orders(Down, S) /\ Orders(Up, S)
  BY DEF Orders
<1>2. \A x, y \in S : (<<x, y>> \in Down => x > y) /\ (<<x, y>> \in Up => x < y)
  OBVIOUS
<1> HIDE DEF Down, Up
<1>3. PICK m \in S : IsLast(m, Down, S)
  BY <1>1, LastExists
<1>4. PICK n \in S : IsLast(n, Up, S)
  BY <1>1, LastExists
<1>5. ASSUME NEW x \in S
      PROVE  m <= x /\ x <= n
  <2>1. x = m \/ x > m
    BY <1>2, <1>3 DEF IsLast
  <2>2. x = n \/ x < n
    BY <1>2, <1>4 DEF IsLast
  <2>3. x \in Int /\ m \in Int /\ n \in Int
    OBVIOUS
  <2> QED
    BY <2>1, <2>2, <2>3
<1> QED
  BY <1>5

LEMMA Efficient ==
  ASSUME World, cell.pl \in Pls, cell.f \in Fs
  PROVE  Efficiencies \subseteq Nat
<1> DEFINE S == {land[p] : p \in DOMAIN land}
<1>1. land \in [Pls \X Fs -> Nat]
  BY WhatsminerAssumption DEF World, Pls, Fs
<1>2. IsFiniteSet(S) /\ S \subseteq Nat /\ S \subseteq Int /\ S # {}
  <2>1. IsFiniteSet(Pls) /\ IsFiniteSet(Fs)
    <3>1. PlMin \in Int /\ PlMax \in Int /\ FMin \in Int /\ FMax \in Int
      BY WhatsminerAssumption
    <3> QED
      BY <3>1, FS_Interval DEF Pls, Fs
  <2>2. IsFiniteSet(Pls \X Fs)
    BY <2>1, FS_Product
  <2>3. DOMAIN land = Pls \X Fs /\ land = [p \in Pls \X Fs |-> land[p]]
    BY <1>1
  <2>4. IsFiniteSet(S)
    <3>1. IsFiniteSet({land[p] : p \in Pls \X Fs})
      BY <2>2, <2>3, FiniteImage
    <3> QED
      BY <2>3, <3>1
  <2>5. <<cell.pl, cell.f>> \in Pls \X Fs
    OBVIOUS
  <2> QED
    BY <1>1, <2>3, <2>4, <2>5
<1>3. (\E e \in S : \A x \in S : e <= x) /\ (\E e \in S : \A x \in S : x <= e)
  <2> HIDE DEF S
  <2> QED
    BY <1>2, Extremes
<1>4. BestIn(land) \in S
  <2>1. \E e \in S : \A p \in DOMAIN land : e <= land[p]
    BY <1>3
  <2> QED
    BY <2>1 DEF BestIn
<1>5. WorstIn(land) \in S
  <2>1. \E e \in S : \A p \in DOMAIN land : land[p] <= e
    BY <1>3
  <2> QED
    BY <2>1 DEF WorstIn
<1>6. land[<<cell.pl, cell.f>>] \in Nat
  BY <1>1
<1> HIDE DEF S
<1> QED
  BY <1>2, <1>4, <1>5, <1>6 DEF Efficiencies

(* A measurement is one point more at most, and no point is lost.          *)
LEMMA Noting ==
  ASSUME EngineNow, Labelled(cell, cells), NEW eff \in Nat \cup {None}
  PROVE  /\ Engine(miner, baselines, pctAnchor, cache, streak, Noted(eff), bestCell)
         /\ \/ CellsOf(Noted(eff)) = CellsOf(cells)
            \/ CellsOf(Noted(eff)) = CellsOf(cells) \cup {<<cell.pl, cell.f>>}
<1> DEFINE new == [pl |-> cell.pl, f |-> cell.f, fine |-> cell.fine, eff |-> eff]
           old == {c \in cells : SameCell(c, new)}
           next == (cells \ old) \cup {new}
<1>1. CASE Noted(eff) = cells
  BY <1>1 DEF EngineNow
<1>2. CASE eff \in Nat /\ Noted(eff) = next
  <2>1. new.pl \in Pls /\ new.f \in Fs /\ new.fine \in BOOLEAN /\ new.eff \in Nat
    BY <1>2 DEF Labelled
  <2>2. new.pl = cell.pl /\ new.f = cell.f
    OBVIOUS
  <2>3. IsFiniteSet(next)
    <3>1. IsFiniteSet(cells \ old)
      <4>1. IsFiniteSet(cells)
        BY DEF EngineNow, Engine
      <4> HIDE DEF old
      <4> QED
        BY <4>1, FS_Difference
    <3> HIDE DEF old, new
    <3> QED
      BY <3>1, FS_AddElement
  <2> HIDE DEF new
  <2>4. \A c \in old : c.pl = new.pl /\ c.f = new.f
    BY DEF SameCell
  <2>5. CellsOf(next) = CellsOf(cells) \cup {<<cell.pl, cell.f>>}
    <3>1. \A c \in cells : <<c.pl, c.f>> \in CellsOf(next)
      BY <2>4 DEF CellsOf
    <3>2. <<new.pl, new.f>> \in CellsOf(next)
      BY DEF CellsOf
    <3>3. \A c \in next : c \in cells \/ c = new
      OBVIOUS
    <3> HIDE DEF next
    <3> QED
      BY <2>2, <3>1, <3>2, <3>3 DEF CellsOf
  <2>6. bestCell = None \/ \E c \in next : SameCell(c, bestCell)
    BY DEF EngineNow, Engine, SameCell
  <2>7. Engine(miner, baselines, pctAnchor, cache, streak, next, bestCell)
    BY <2>1, <2>3, <2>6 DEF EngineNow, Engine
  <2> QED
    BY <1>2, <2>5, <2>7
<1> QED
  BY <1>1, <1>2 DEF Noted

(* A mode more has been tried.                                             *)
LEMMA Trying ==
  ASSUME NEW m, NEW list, Listed(m, list), Len(list) < 3, NEW b \in (Nat \ {0}) \cup {None},
         b # None => Modes[Len(list) + 1] \in m.supports
  PROVE  Listed(m, Append(list, b))
<1>1. /\ Append(list, b) \in Seq((Nat \ {0}) \cup {None}) /\ Len(Append(list, b)) = Len(list) + 1
      /\ \A i \in 1..Len(list) : Append(list, b)[i] = list[i]
      /\ Append(list, b)[Len(list) + 1] = b
      /\ Len(list) \in Nat
  BY AppendProperties, LenProperties DEF Listed
<1>2. \A i \in 1..Len(list) + 1 : i \in 1..Len(list) \/ i = Len(list) + 1
  BY <1>1
<1> DEFINE t == Append(list, b)
<1>3. \A i \in 1..Len(t) : t[i] # None => Modes[i] \in m.supports
  <2> HIDE DEF t
  <2> QED
    BY <1>1, <1>2 DEF Listed, t
<1> QED
  BY <1>1, <1>3 DEF Listed

(* What a miner tells of its frequency is one.                             *)
LEMMA Clocked ==
  ASSUME World, NEW m \in ModeNames
  PROVE  Clock(m, liveWm.percent) \in Nat
<1>1. miner.native[m] \in Nat /\ TrueBase(m) \in Nat
  BY WhatsminerAssumption DEF World, TrueBase, ModeNames
<1>2. ASSUME liveWm.percent # None
      PROVE  (TrueBase(m) * (100 + liveWm.percent)) \div 100 \in Nat
  <2>1. 100 + liveWm.percent \in Nat
    BY <1>2 DEF World
  <2> DEFINE b == TrueBase(m)
             q == 100 + liveWm.percent
  <2>2. b \in Nat /\ q \in Nat
    BY <1>1, <2>1
  <2> HIDE DEF b, q
  <2>3. (b * q) \div 100 \in Nat
    <3>1. b * q \in Nat
      BY <2>2
    <3> QED
      BY <3>1
  <2> QED
    BY <2>3 DEF b, q
<1> QED
  BY <1>1, <1>2 DEF Clock

(* The modes of the hardware are being found.                              *)
LEMMA Gridded_Modes ==
  ASSUME GriddedInv, FindMode \/ MissMode \/ DiscoveryRaises \/ RetryRefused \/ GiveUpRefused
  PROVE  GriddedInv' /\ UNCHANGED strategy /\ GriddedStep
<1>1. /\ pc = "discover" /\ pc' \in {"discover", "entry", "off"} /\ Len(found) < 3
      /\ UNCHANGED <<strategy, miner, land, baselines, pctAnchor, cells, bestCell, streak,
                     plan, cell, wmFiles>>
  BY DEF FindMode, MissMode, DiscoveryRaises, RetryRefused, GiveUpRefused, Refused, Raises,
         Looping, At, Goto, wmEngine, GriddedInv, Listed
<1>2. /\ faults' = faults \/ Fault
      /\ \/ liveWm' = liveWm
         \/ NextMode \in miner.supports /\ liveWm' = [liveWm EXCEPT !.mode = NextMode]
      /\ doubt' \subseteq doubt \cup {"mode"}
      /\ \/ cache' = cache
         \/ NextMode \in miner.supports /\ cache' = [cache EXCEPT !.mode = NextMode]
  BY DEF FindMode, MissMode, DiscoveryRaises, RetryRefused, GiveUpRefused, Refused, Raises, wmEngine
<1>3. World'
  <2>1. faults' \in 0..miner.faults
    BY <1>2, WhatsminerAssumption DEF Fault, GriddedInv, World
  <2>2. /\ DOMAIN liveWm' = Knobs /\ liveWm'.mode \in miner.supports \cup {"normal"}
        /\ liveWm'.percent \in -100..100 \cup {None}
    BY <1>2 DEF GriddedInv, World, Knobs
  <2> QED
    BY <1>1, <1>2, <2>1, <2>2 DEF GriddedInv, World, Knobs
<1>4. /\ DOMAIN cache' = Knobs /\ cache'.mode \in miner.supports \cup {None}
      /\ cache'.percent \in Percents \cup {None}
  BY <1>2 DEF GriddedInv, EngineNow, Engine, Knobs
<1>5. EngineNow' /\ EngineKept'
  BY <1>1, <1>4 DEF GriddedInv, EngineNow, EngineKept, Engine, wmFiles
<1>6. Listed(miner, found')
  <2>1. CASE FindMode
    <3>1. NextMode \in ModeNames
      BY <2>1, WhatsminerAssumption DEF FindMode, GriddedInv, World
    <3>2. Clock(NextMode, liveWm.percent) \in Nat
      BY <3>1, Clocked DEF GriddedInv
    <3> DEFINE told == IF miner.tells THEN Clock(NextMode, liveWm.percent) ELSE 0
               b == IF told = 0 THEN Fallback ELSE told
    <3>3. b \in Nat \ {0}
      BY <3>2, WhatsminerAssumption
    <3>4. found' = Append(found, b) /\ NextMode \in miner.supports
      BY <2>1 DEF FindMode
    <3> HIDE DEF b
    <3> QED
      BY <1>1, <3>3, <3>4, Trying DEF GriddedInv, NextMode
  <2>2. CASE MissMode
    BY <1>1, <2>2, Trying DEF MissMode, GriddedInv
  <2>3. CASE DiscoveryRaises \/ RetryRefused \/ GiveUpRefused
    <3>1. found' = <<>>
      BY <2>3 DEF DiscoveryRaises, RetryRefused, GiveUpRefused, Refused, Raises
    <3> QED
      BY <3>1, EmptySeq DEF Listed
  <2> QED
    BY <2>1, <2>2, <2>3
<1>7. GriddedInv'
  BY <1>1, <1>3, <1>5, <1>6 DEF GriddedInv, wmFiles, Measuring, CellPlaces, Knobs
<1>8. GriddedStep
  <2>1. Chosen(bestCell) \subseteq CellsOf(cells)
    BY ChosenMeasured DEF GriddedInv
  <2> QED
    BY <1>1, <2>1 DEF GriddedStep, AsTuner, GridPhase, Knobs
<1> QED
  BY <1>1, <1>7, <1>8

(* What a probe leaves, and what is found.                                 *)
LEMMA Probing ==
  ASSUME miner \in Miners, Listed(miner, found), Len(found) = 3
  PROVE  /\ Read(miner, [m \in Supported |-> found[Place(m)]])
         /\ Supported # {} => Probe \in miner.supports
<1>1. \A i \in 1..3 : found[i] # None => Modes[i] \in miner.supports /\ found[i] \in Nat \ {0}
  <2>1. \A i \in 1..3 : found[i] \in (Nat \ {0}) \cup {None}
    BY DEF Listed
  <2> QED
    BY <2>1 DEF Listed
<1>2. Supported \subseteq miner.supports /\ Supported \subseteq ModeNames
  BY <1>1, WhatsminerAssumption DEF Supported
<1>3. \A m \in Supported : found[Place(m)] \in Nat \ {0}
  BY <1>1, PlacesInOrder DEF Supported
<1>4. [m \in Supported |-> found[Place(m)]] \in [Supported -> Nat \ {0}]
  BY <1>3
<1>5. ASSUME Supported # {}
      PROVE  Probe \in Supported
  <2>1. \A m \in Supported : Place(m) \in Int
    BY <1>2, PlacesInOrder
  <2>2. PICK a, b, c \in ModeNames : Supported = {a, b, c}
    BY <1>2, <1>5, ThreeModes
  <2>3. \E m \in Supported : \A n \in Supported : Place(m) <= Place(n)
    BY <2>1, <2>2
  <2> QED
    BY <2>3 DEF Probe
<1> QED
  BY <1>2, <1>4, <1>5 DEF Read

LEMMA Gridded_Probe ==
  ASSUME GriddedInv, ProbeAnchor
  PROVE  GriddedInv' /\ UNCHANGED strategy /\ GriddedStep
<1>1. /\ pc = "discover" /\ pc' = "start" /\ Len(found) = 3 /\ found' = <<>>
      /\ baselines' = [m \in Supported |-> found[Place(m)]]
      /\ UNCHANGED <<strategy, cache, cells, bestCell, streak, plan, cell, miner, land>>
  BY DEF ProbeAnchor, At, Goto
<1>2. /\ Read(miner, baselines') /\ baselines' # None
      /\ Supported # {} => Probe \in miner.supports
  <2>1. Read(miner, baselines') /\ (Supported # {} => Probe \in miner.supports)
    BY <1>1, Probing DEF GriddedInv, World
  <2>2. PICK s \in SUBSET miner.supports : baselines' \in [s -> Nat \ {0}]
    BY <2>1 DEF Read
  <2>3. None \notin [s -> Nat] /\ baselines' \in [s -> Nat]
    BY <2>2, WhatsminerAssumption, NoneAssumption DEF GriddedInv, World
  <2> QED
    BY <2>1, <2>3
<1>3. /\ pctAnchor' \in {"current_mode", "normal_only", None}
      /\ \/ liveWm' = liveWm
         \/ Supported # {} /\ liveWm' = [liveWm EXCEPT !.mode = Probe]
         \/ Supported # {} /\ liveWm' = [liveWm EXCEPT !.mode = Probe, !.percent = 10]
      /\ doubt' \subseteq doubt \cup {"mode", "percent"}
      /\ faults' = faults \/ Fault
      /\ CellCheckpoint \/ UNCHANGED wmFiles
  <2>1. pctAnchor \in {"current_mode", "normal_only", None}
    BY DEF GriddedInv, EngineNow, Engine
  <2>2. Told(Clock(Probe, 10)) \in {"current_mode", "normal_only"}
    BY DEF Told
  <2> QED
    BY <2>1, <2>2 DEF ProbeAnchor
<1>4. World'
  <2>1. faults' \in 0..miner.faults
    BY <1>3, WhatsminerAssumption DEF Fault, GriddedInv, World
  <2>2. /\ DOMAIN liveWm' = Knobs /\ liveWm'.mode \in miner.supports \cup {"normal"}
        /\ liveWm'.percent \in -100..100 \cup {None}
    <3>1. /\ DOMAIN liveWm = Knobs /\ liveWm.mode \in miner.supports \cup {"normal"}
          /\ liveWm.percent \in -100..100 \cup {None}
      BY DEF GriddedInv, World
    <3>2. CASE liveWm' = liveWm
      BY <3>1, <3>2
    <3>3. CASE Supported # {} /\ liveWm' = [liveWm EXCEPT !.mode = Probe]
      BY <1>2, <3>1, <3>3 DEF Knobs
    <3>4. CASE Supported # {} /\ liveWm' = [liveWm EXCEPT !.mode = Probe, !.percent = 10]
      <4> DEFINE probed == Probe
      <4>1. probed \in miner.supports
        BY <1>2, <3>4
      <4>2. liveWm' = [liveWm EXCEPT !.mode = probed, !.percent = 10]
        BY <3>4
      <4>3. 10 \in -100..100
        OBVIOUS
      <4> HIDE DEF probed
      <4> QED
        BY <3>1, <4>1, <4>2, <4>3 DEF Knobs
    <3> QED
      BY <1>3, <3>2, <3>3, <3>4
  <2> QED
    BY <1>1, <1>3, <2>1, <2>2 DEF GriddedInv, World, Knobs
<1>5. EngineNow'
  BY <1>1, <1>2, <1>3 DEF GriddedInv, EngineNow, Engine
<1>6. EngineKept' /\ CellsOf(cellDisk'.cells) \subseteq CellsOf(cells')
  BY <1>1, <1>3, <1>5, CellSaving
<1>7. Listed(miner, found')
  BY <1>1, EmptySeq DEF Listed
<1>8. GriddedInv'
  BY <1>1, <1>2, <1>4, <1>5, <1>6, <1>7 DEF GriddedInv, Measuring, CellPlaces, Knobs
<1>9. GriddedStep
  BY <1>1 DEF GriddedStep, AsTuner, GridPhase, Knobs
<1> QED
  BY <1>1, <1>8, <1>9

(* A pass begins, with the modes to find or with the grid to measure.      *)
LEMMA Gridded_Begin ==
  ASSUME GriddedInv, BeginPass \/ StartGrid
  PROVE  GriddedInv' /\ UNCHANGED strategy /\ GriddedStep
<1>1. /\ pc \in {"entry", "start"} /\ UNCHANGED <<strategy, wmEngine, cell, wmFiles, wmWorld>>
      /\ found' = <<>> \/ found' = found
      /\ \/ pc' = "discover" /\ plan' = {}
         \/ pc' = "coarse" /\ plan' = CoarsePlan /\ baselines # None
  BY DEF BeginPass, StartGrid, Looping, At, Goto, GriddedInv
<1>2. Planned(plan')
  <2>1. CASE plan' = {}
    BY <2>1, FS_EmptySet DEF Planned
  <2>2. CASE plan' = CoarsePlan /\ baselines # None
    <3>1. miner \in Miners /\ Read(miner, baselines)
      BY <2>2 DEF GriddedInv, World, EngineNow, Engine
    <3> QED
      BY <2>2, <3>1, CoarsePlanned
  <2> QED
    BY <1>1, <2>1, <2>2
<1>3. Listed(miner, found')
  <2>1. Listed(miner, <<>>)
    BY EmptySeq DEF Listed
  <2> QED
    BY <1>1, <2>1 DEF GriddedInv
<1>4. World' /\ EngineNow' /\ EngineKept'
  BY <1>1 DEF GriddedInv, World, EngineNow, EngineKept, wmEngine, wmFiles, wmWorld
<1>5. GriddedInv'
  BY <1>1, <1>2, <1>3, <1>4 DEF GriddedInv, wmEngine, wmFiles, wmWorld, Measuring, CellPlaces, Knobs
<1>6. GriddedStep
  BY <1>1 DEF GriddedStep, AsTuner, GridPhase, Knobs, wmEngine
<1> QED
  BY <1>1, <1>5, <1>6

(* A cell is taken from the plan, or the best one again.                   *)
LEMMA Gridded_Take ==
  ASSUME GriddedInv, TakeCoarse \/ TakeFine \/ Remeasure
  PROVE  GriddedInv' /\ UNCHANGED strategy /\ GriddedStep
<1>1. /\ UNCHANGED <<strategy, wmEngine, found, wmFiles, wmWorld>> /\ pc' = "mode"
      /\ \/ pc \in {"coarse", "fine"} /\ plan # {} /\ cell' = First(plan) /\ plan' = plan \ {First(plan)}
         \/ /\ pc = "hold" /\ bestCell # None /\ plan' = plan
            /\ cell' = [key |-> <<0, 0, 0>>, pl |-> bestCell.pl, f |-> bestCell.f, fine |-> FALSE]
  BY DEF TakeCoarse, TakeFine, Take, Remeasure, Looping, At, Goto
<1>2. Planned(plan') /\ Labelled(cell', cells)
      /\ (cell'.key = <<0, 0, 0>> <=> pc = "hold")
  <2>1. CASE pc \in {"coarse", "fine"} /\ plan # {} /\ cell' = First(plan) /\ plan' = plan \ {First(plan)}
    <3>1. First(plan) \in plan
      BY <2>1, FirstPlanned DEF GriddedInv
    <3>2. cell'.key \in Triples /\ cell'.pl \in Pls /\ cell'.f \in Fs /\ cell'.fine \in BOOLEAN
      BY <2>1, <3>1 DEF GriddedInv, Planned
    <3>3. IsFiniteSet(plan')
      BY <2>1, FS_Subset DEF GriddedInv, Planned
    <3>4. Planned(plan')
      BY <2>1, <3>3 DEF GriddedInv, Planned
    <3> QED
      BY <2>1, <3>2, <3>4 DEF Labelled, Triples
  <2>2. CASE /\ pc = "hold" /\ bestCell # None /\ plan' = plan
             /\ cell' = [key |-> <<0, 0, 0>>, pl |-> bestCell.pl, f |-> bestCell.f, fine |-> FALSE]
    <3>1. PICK c \in cells : SameCell(c, bestCell)
      BY <2>2 DEF GriddedInv, EngineNow, Engine
    <3>2. c.pl \in Pls /\ c.f \in Fs /\ c.pl = bestCell.pl /\ c.f = bestCell.f
      BY <3>1 DEF GriddedInv, EngineNow, Engine, SameCell
    <3>3. cell'.pl = c.pl /\ cell'.f = c.f /\ cell'.fine = FALSE /\ cell'.key = <<0, 0, 0>>
      BY <2>2, <3>2
    <3> QED
      BY <2>2, <3>2, <3>3 DEF GriddedInv, Labelled, CellsOf
  <2> QED
    BY <1>1, <2>1, <2>2
<1>3. World' /\ EngineNow' /\ EngineKept'
  BY <1>1 DEF GriddedInv, World, EngineNow, EngineKept, wmEngine, wmFiles, wmWorld
<1>4. GriddedInv'
  BY <1>1, <1>2, <1>3 DEF GriddedInv, wmEngine, wmFiles, wmWorld, Measuring, CellPlaces, Knobs
<1>5. GriddedStep
  BY <1>1, <1>2 DEF GriddedStep, AsTuner, GridPhase, Knobs, wmEngine
<1> QED
  BY <1>1, <1>4, <1>5

(* What a cell needs is a mode of the hardware and a percentage of what    *)
(* was read.                                                               *)
LEMMA Needed ==
  ASSUME World, EngineNow, Labelled(cell, cells), baselines # None, ModeAndPercent(cell.f) # None
  PROVE  \E m \in Found :
           /\ InReach(cell.f) # {} => m \in InReach(cell.f)
           /\ Wanted("mode") = m /\ Wanted("percent") = Percent(cell.f, Base(m))
           /\ Base(m) \in Nat \ {0} /\ m \in miner.supports /\ Wanted("percent") \in Percents
<1>1. miner \in Miners /\ Read(miner, baselines) /\ cell.f \in Nat
      /\ pctAnchor \in {"current_mode", "normal_only", None}
  BY WhatsminerAssumption DEF World, EngineNow, Engine, Labelled, Fs
<1>2. PICK m \in Found : /\ InReach(cell.f) # {} => m \in InReach(cell.f)
                         /\ ModeAndPercent(cell.f) = <<m, Percent(cell.f, Base(m))>>
  BY <1>1, ModeFound
<1>3. Base(m) \in Nat \ {0} /\ m \in miner.supports
  BY <1>1, BaseRead, ModesRead
<1>4. Wanted("mode") = m /\ Wanted("percent") = Percent(cell.f, Base(m))
  BY <1>2 DEF Wanted
<1>5. Percent(cell.f, Base(m)) \in Percents
  <2> DEFINE b == Base(m)
  <2>1. b \in Nat \ {0}
    BY <1>3
  <2> HIDE DEF b
  <2>2. Percent(cell.f, b) \in Percents
    BY <1>1, <2>1 DEF Percent, Percents
  <2> QED
    BY <2>2 DEF b
<1> QED
  BY <1>2, <1>3, <1>4, <1>5

(* A knob is turned, or the miner refuses, or nothing differs.             *)
LEMMA Gridded_Knob ==
  ASSUME GriddedInv, NEW k \in Knobs, SetKnob(k) \/ SetFails(k) \/ KeepKnob(k)
  PROVE  GriddedInv' /\ UNCHANGED strategy /\ GriddedStep
<1>1. /\ pc = k /\ pc' = After[k]
      /\ UNCHANGED <<strategy, baselines, pctAnchor, cells, bestCell, streak, wmTask, wmFiles,
                     miner, land>>
      /\ doubt' \subseteq doubt \cup {k}
      /\ faults' = faults \/ Fault
      /\ liveWm' = liveWm \/ (Differs(k) /\ liveWm' = [liveWm EXCEPT ![k] = Wire(k, Wanted(k))])
      /\ cache' = cache \/ (Differs(k) /\ cache' = [cache EXCEPT ![k] = Wanted(k)])
  BY DEF SetKnob, SetFails, KeepKnob, At, Goto, whatsminer, wmEngine, wmTask, wmWorld
<1>2. /\ Differs("mode") => Wanted("mode") \in miner.supports
      /\ Differs("percent") => Wanted("percent") \in Percents
  <2>1. Labelled(cell, cells)
    BY <1>1 DEF GriddedInv, Measuring
  <2>2. baselines # None
    BY <1>1 DEF GriddedInv, Knobs
  <2> QED
    BY <2>1, <2>2, Needed DEF GriddedInv, Differs, Wanted
<1>3. World'
  <2>1. faults' \in 0..miner.faults
    BY <1>1, WhatsminerAssumption DEF Fault, GriddedInv, World
  <2>2. \A p \in Percents : Whole(p) \in -100..100
    BY WholePercent DEF Percents
  <2>3. /\ DOMAIN liveWm' = Knobs /\ liveWm'.mode \in miner.supports \cup {"normal"}
        /\ liveWm'.percent \in -100..100 \cup {None}
    BY <1>1, <1>2, <2>2 DEF GriddedInv, World, Knobs, Wire
  <2> QED
    BY <1>1, <2>1, <2>3 DEF GriddedInv, World
<1>4. /\ DOMAIN cache' = Knobs /\ cache'.mode \in miner.supports \cup {None}
      /\ cache'.percent \in Percents \cup {None}
  BY <1>1, <1>2 DEF GriddedInv, EngineNow, Engine, Knobs
<1>5. EngineNow' /\ EngineKept'
  BY <1>1, <1>4 DEF GriddedInv, EngineNow, EngineKept, Engine, wmFiles
<1>6. pc' \in {"percent", "limit", "sample"}
  BY <1>1 DEF After, Knobs
<1>7. GriddedInv'
  BY <1>1, <1>3, <1>5, <1>6 DEF GriddedInv, wmTask, wmFiles, Measuring, CellPlaces, Knobs
<1>8. GriddedStep
  BY <1>1, <1>6 DEF GriddedStep, AsTuner, GridPhase, Knobs, wmTask
<1> QED
  BY <1>1, <1>7, <1>8

(* A cell is measured, or nothing could be read.                           *)
LEMMA Gridded_Measured ==
  ASSUME GriddedInv, Measured \/ Unmeasured
  PROVE  GriddedInv' /\ UNCHANGED strategy /\ GriddedStep
<1>1. pc = "sample" /\ UNCHANGED strategy /\ Labelled(cell, cells)
  BY DEF Measured, Unmeasured, At, GriddedInv, Measuring
<1>2. PICK eff \in Nat \cup {None} : Measure(eff)
  <2>1. CASE Measured
    <3>1. Efficiencies \subseteq Nat
      BY <1>1, Efficient DEF GriddedInv, Labelled
    <3> QED
      BY <2>1, <3>1 DEF Measured
  <2>2. CASE Unmeasured
    BY <2>2 DEF Unmeasured
  <2> QED
    BY <2>1, <2>2
<1>3. /\ cells' = Noted(eff)
      /\ UNCHANGED <<baselines, pctAnchor, cache, bestCell, wmTask, miner, liveWm, land, doubt>>
      /\ \/ /\ cell.key # <<0, 0, 0>> /\ pc' \in {"coarse", "fine"} /\ streak' = streak /\ CellCheckpoint
         \/ /\ cell.key = <<0, 0, 0>> /\ pc' \in {"entry", "hold"} /\ streak' \in {streak, streak + 1, 0}
            /\ streak' < 2
            /\ cellDisk' = IF cellProfile THEN cellDisk ELSE [CellNow EXCEPT !.streak = streak]
  <2>1. streak \in 0..1
    BY DEF GriddedInv, EngineNow, Engine
  <2> QED
    BY <1>2, <2>1 DEF Measure, Holding, Goto
<1>4. /\ Engine(miner, baselines, pctAnchor, cache, streak, cells', bestCell)
      /\ \/ CellsOf(cells') = CellsOf(cells)
         \/ CellsOf(cells') = CellsOf(cells) \cup {<<cell.pl, cell.f>>}
  BY <1>1, <1>3, Noting DEF GriddedInv
<1>5. streak' \in 0..1
  <2>1. streak \in 0..1
    BY DEF GriddedInv, EngineNow, Engine
  <2> QED
    BY <1>3, <2>1
<1>6. EngineNow'
  BY <1>3, <1>4, <1>5 DEF EngineNow, Engine
<1>7. CellsOf(cells) \subseteq CellsOf(cells') /\ <<cell.pl, cell.f>> \in CellsOf(cells) => CellsOf(cells') = CellsOf(cells)
  BY <1>4
<1>8. EngineKept' /\ CellsOf(cellDisk'.cells) \subseteq CellsOf(cells')
  BY <1>3, <1>4, <1>6, CellSaving
<1>9. World'
  <2>1. faults' \in 0..miner.faults
    BY WhatsminerAssumption DEF Measured, Unmeasured, Fault, GriddedInv, World
  <2> QED
    BY <1>3, <2>1 DEF GriddedInv, World
<1>10. GriddedInv'
  BY <1>1, <1>3, <1>6, <1>8, <1>9 DEF GriddedInv, wmTask, Measuring, CellPlaces, Knobs
<1>11. GriddedStep
  <2>1. CASE cell.key = <<0, 0, 0>>
    <3>1. CellsOf(cells') = CellsOf(cells)
      BY <1>1, <1>4, <2>1 DEF Labelled
    <3> QED
      BY <1>1, <1>3, <2>1, <3>1 DEF GriddedStep, AsTuner, GridPhase, Knobs, wmTask
  <2>2. CASE cell.key # <<0, 0, 0>>
    BY <1>1, <1>3, <1>4, <2>2 DEF GriddedStep, AsTuner, GridPhase, Knobs, wmTask
  <2> QED
    BY <2>1, <2>2
<1> QED
  BY <1>1, <1>10, <1>11

LEMMA Gridded_Fine ==
  ASSUME GriddedInv, GoFine
  PROVE  GriddedInv' /\ UNCHANGED strategy /\ GriddedStep
<1> DEFINE n == IF Cardinality(Coarse) < miner.fine[2] THEN Cardinality(Coarse) ELSE miner.fine[2]
<1>1. /\ pc = "coarse" /\ pc' = "fine" /\ UNCHANGED <<strategy, wmEngine, found, cell, wmFiles, wmWorld>>
      /\ \E anchors \in [1..n -> Coarse] : plan' = FinePlan(anchors)
  BY DEF GoFine, At, Goto
<1>2. n \in Nat
  <2>1. Coarse \subseteq cells /\ IsFiniteSet(cells)
    BY DEF Coarse, GriddedInv, EngineNow, Engine
  <2>2. Cardinality(Coarse) \in Nat
    BY <2>1, FS_Subset, FS_CardinalityType
  <2>3. miner.fine[2] \in Nat
    BY WhatsminerAssumption DEF GriddedInv, World
  <2> QED
    BY <2>2, <2>3
<1> HIDE DEF n
<1>3. Planned(plan')
  <2>1. PICK anchors \in [1..n -> Coarse] : plan' = FinePlan(anchors)
    BY <1>1
  <2>2. \A r \in 1..n : anchors[r].pl \in Pls /\ anchors[r].f \in Fs
    BY <2>1 DEF Coarse, GriddedInv, EngineNow, Engine
  <2> QED
    BY <1>2, <2>1, <2>2, FinePlanned DEF GriddedInv, World
<1>4. World' /\ EngineNow' /\ EngineKept'
  BY <1>1 DEF GriddedInv, World, EngineNow, EngineKept, wmEngine, wmFiles, wmWorld
<1>5. GriddedInv'
  BY <1>1, <1>3, <1>4 DEF GriddedInv, wmEngine, wmFiles, wmWorld, Measuring, CellPlaces, Knobs
<1>6. GriddedStep
  BY <1>1 DEF GriddedStep, AsTuner, GridPhase, Knobs, wmEngine
<1> QED
  BY <1>1, <1>5, <1>6

LEMMA Gridded_Pick ==
  ASSUME GriddedInv, PickBest
  PROVE  GriddedInv' /\ UNCHANGED strategy /\ GriddedStep
<1>1. /\ pc \in {"fine", "coarse"} /\ pc' \in {"hold", "off"}
      /\ UNCHANGED <<strategy, baselines, pctAnchor, cache, cells, streak, wmTask, wmWorld>>
      /\ bestCell' \in cells \cup {None} /\ CellProfile
  BY DEF PickBest, At, Goto, Lowest
<1>2. EngineNow'
  <2>1. bestCell' = None \/ \E c \in cells : SameCell(c, bestCell')
    BY <1>1 DEF SameCell
  <2> QED
    BY <1>1, <2>1 DEF GriddedInv, EngineNow, Engine, wmWorld
<1>3. EngineKept' /\ CellsOf(cellDisk'.cells) \subseteq CellsOf(cells')
  BY <1>1, <1>2, CellSaving DEF wmWorld
<1>4. GriddedInv'
  BY <1>1, <1>2, <1>3 DEF GriddedInv, World, wmTask, wmWorld, Measuring, CellPlaces, Knobs
<1>5. GriddedStep
  <2>1. Chosen(bestCell') \subseteq CellsOf(cells)
    BY <1>1 DEF Chosen, CellsOf
  <2> QED
    BY <1>1, <2>1 DEF GriddedStep, AsTuner, GridPhase, Knobs
<1> QED
  BY <1>1, <1>4, <1>5

(* The rest measures nothing and chooses nothing.                          *)
LEMMA Gridded_Moves ==
  ASSUME GriddedInv, NothingToHold \/ LeaveWhatsminer \/ WhatsminerControl \/ WeatherTurns
  PROVE  GriddedInv' /\ UNCHANGED strategy /\ GriddedStep
<1>1. /\ UNCHANGED <<strategy, wmEngine, wmTask, wmFiles, miner, liveWm, faults, doubt>>
      /\ land' \in miner.lands
      /\ \/ pc' \in {"off", "entry"} /\ pc \in {"entry", "start", "hold", "discover", "coarse", "fine"}
         \/ pc = "off" /\ pc' = "entry"
         \/ pc' = pc
      /\ pc' = "entry" => pc \in {"hold", "off", "entry"}
  BY DEF NothingToHold, LeaveWhatsminer, WhatsminerControl, WeatherTurns, Leaves, Looping, At, Goto,
     StartWorker, StopWorker, whatsminer, wmWorld, worker, GriddedInv, World
<1>2. World' /\ EngineNow' /\ EngineKept'
  BY <1>1 DEF GriddedInv, World, EngineNow, EngineKept, wmEngine, wmFiles
<1>3. GriddedInv'
  BY <1>1, <1>2 DEF GriddedInv, wmEngine, wmTask, wmFiles, Measuring, CellPlaces, Knobs
<1>4. GriddedStep
  <2>1. Chosen(bestCell) \subseteq CellsOf(cells)
    BY ChosenMeasured DEF GriddedInv
  <2> QED
    BY <1>1, <2>1 DEF GriddedStep, AsTuner, GridPhase, Knobs, wmEngine, wmTask
<1> QED
  BY <1>1, <1>3, <1>4

LEMMA Gridded_Kill ==
  ASSUME GriddedInv, WhatsminerKill
  PROVE  GriddedInv' /\ UNCHANGED strategy /\ GriddedStep
<1>1. /\ pc # "off" /\ pc' = "off" /\ UNCHANGED <<strategy, wmFiles, miner, liveWm, land>> /\ Fault
      /\ baselines' = cellDisk.baselines /\ pctAnchor' = cellDisk.pctAnchor
      /\ cache' = cellDisk.cache /\ cells' = cellDisk.cells
      /\ bestCell' = cellDisk.bestCell /\ streak' = cellDisk.streak
      /\ doubt' \subseteq doubt \cup Knobs /\ found' = <<>> /\ plan' = {}
  BY DEF WhatsminerKill, KillWorker
<1>2. World'
  <2>1. faults' \in 0..miner.faults
    BY <1>1, WhatsminerAssumption DEF Fault, GriddedInv, World
  <2> QED
    BY <1>1, <2>1 DEF GriddedInv, World
<1>3. EngineNow' /\ EngineKept'
  BY <1>1 DEF GriddedInv, EngineNow, EngineKept, wmFiles
<1>4. Listed(miner, found') /\ Planned(plan')
  BY <1>1, EmptySeq, FS_EmptySet DEF Listed, Planned
<1>5. GriddedInv'
  BY <1>1, <1>2, <1>3, <1>4 DEF GriddedInv, wmFiles, Measuring, CellPlaces, Knobs
<1>6. GriddedStep
  <2>1. Chosen(cellDisk.bestCell) \subseteq CellsOf(cellDisk.cells)
    BY KeptMeasured DEF GriddedInv
  <2>2. GridPhase(pc, cell) # "off" /\ GridPhase(pc', cell') = "off"
    BY <1>1 DEF GridPhase
  <2> QED
    BY <1>1, <2>1, <2>2 DEF GriddedStep, AsTuner, GriddedInv
<1> QED
  BY <1>1, <1>5, <1>6

(* What is held was measured, and a crash loses no cell of a choice it     *)
(* keeps: every step of the grid search is one of a Tuner.                 *)
LEMMA Gridded_Next ==
  ASSUME GriddedInv, WhatsminerNext
  PROVE  GriddedInv' /\ UNCHANGED strategy /\ GriddedStep
BY Gridded_Modes, Gridded_Probe, Gridded_Begin, Gridded_Take, Gridded_Knob, Gridded_Measured,
   Gridded_Fine, Gridded_Pick, Gridded_Moves, Gridded_Kill
   DEF WhatsminerNext, WhatsminerWorker

LEMMA GriddedMode ==
  ASSUME Runs("power_limit_freq_search"), GriddedInv
  PROVE  Mode = GridPhase(pc, cell) /\ Known = CellsOf(cells) /\ Choice = Chosen(bestCell)
BY DEF Runs, GriddedInv, CellPlaces, Mode, Known, Choice, Holds, Holding, Knobs, GridPhase, CellsOf, Chosen

LEMMA Gridded_Maps ==
  ASSUME Runs("power_limit_freq_search"), Runs("power_limit_freq_search")',
         GriddedInv, GriddedInv', GriddedStep
  PROVE  [T!Next]_(T!tuner)
<1>1. Mode = GridPhase(pc, cell) /\ Known = CellsOf(cells) /\ Choice = Chosen(bestCell)
  BY GriddedMode
<1>2. Mode' = GridPhase(pc', cell') /\ Known' = CellsOf(cells') /\ Choice' = Chosen(bestCell')
  BY DEF Runs, GriddedInv, CellPlaces, Mode, Known, Choice, Holds, Holding, Knobs, GridPhase, CellsOf, Chosen
<1> QED
  BY <1>1, <1>2, Abstractly DEF GriddedStep
-----------------------------------------------------------------------------
(* Whatsminer: a cell is measured as its label says.                       *)

\* What the cache holds of a knob is what has been sent to the miner.
CacheTold == \A k \in Knobs : k \notin doubt /\ cache[k] # None => liveWm[k] = Wire(k, cache[k])

Sent(k) == k \in doubt \/ ~Differs(k)

\* Which knobs the cell being measured has set by now.
KnobsSent ==
  /\ pc \in {"percent", "limit", "sample"} => Sent("mode")
  /\ pc \in {"limit", "sample"} => Sent("percent")
  /\ pc = "sample" => Sent("limit")

LabelledInv == CacheTold /\ KnobsSent

(* What a cell needs depends on the cell and on what discovery found.      *)
LEMMA WantedKept ==
  ASSUME UNCHANGED <<baselines, pctAnchor, cell, miner>>, NEW k
  PROVE  Wanted(k)' = Wanted(k)
BY DEF Wanted, ModeAndPercent, NoMode, NearestMode, Percent, Found, Anchor, Base, InReach, Nearer, Place

(* A step that sends nothing and is not about to sample.                   *)
LEMMA Labelled_Elsewhere ==
  ASSUME LabelledInv, UNCHANGED <<cache, liveWm, doubt>>, pc' \notin {"percent", "limit", "sample"}
  PROVE  LabelledInv'
BY DEF LabelledInv, CacheTold, KnobsSent, Wire, Whole

(* A step that leaves the cell and the knobs as they are.                  *)
LEMMA Labelled_Still ==
  ASSUME LabelledInv, UNCHANGED <<wmEngine, wmTask, miner, liveWm, doubt>>,
         pc' = pc \/ pc' \notin {"percent", "limit", "sample"}
  PROVE  LabelledInv'
<1>1. UNCHANGED <<baselines, pctAnchor, cache, cell>>
  BY DEF wmEngine, wmTask
<1>2. CacheTold'
  BY <1>1 DEF LabelledInv, CacheTold, Wire, Whole
<1>3. \A k \in Knobs : Sent(k)' = Sent(k)
  BY <1>1, WantedKept DEF Sent, Differs, SamePercent, Gap
<1>4. KnobsSent'
  BY <1>3 DEF LabelledInv, KnobsSent, Knobs
<1> QED
  BY <1>2, <1>4 DEF LabelledInv

(* Discovery switches the mode, and the cache with it if it knows.         *)
LEMMA Labelled_Modes ==
  ASSUME GriddedInv, LabelledInv, FindMode \/ MissMode \/ DiscoveryRaises
  PROVE  LabelledInv'
<1>1. /\ pc' \in {"discover", "entry"}
      /\ \A k \in Knobs \ {"mode"} : cache'[k] = cache[k] /\ liveWm'[k] = liveWm[k]
      /\ \A x \in Knobs : x # "mode" => (x \in doubt' <=> x \in doubt)
      /\ "mode" \in doubt' \/ cache'["mode"] = liveWm'["mode"]
           \/ (UNCHANGED <<cache, liveWm>> /\ doubt' = doubt)
  <2>1. DOMAIN cache = Knobs /\ DOMAIN liveWm = Knobs
    BY DEF GriddedInv, World, EngineNow, Engine
  <2>2. CASE FindMode
    BY <2>1, <2>2 DEF FindMode, Goto, Knobs
  <2>3. CASE MissMode
    BY <2>1, <2>3 DEF MissMode, Goto, wmEngine, Knobs
  <2>4. CASE DiscoveryRaises
    BY <2>1, <2>4 DEF DiscoveryRaises, Raises, Goto, wmEngine, Knobs
  <2> QED
    BY <2>2, <2>3, <2>4
<1>2. CacheTold'
  BY <1>1 DEF LabelledInv, CacheTold, Wire, Whole
<1> QED
  BY <1>1, <1>2 DEF LabelledInv, KnobsSent

(* The probe leaves a mode and a percentage that the cache does not know.  *)
LEMMA Labelled_Probe ==
  ASSUME GriddedInv, LabelledInv, ProbeAnchor
  PROVE  LabelledInv'
<1>1. pc' = "start" /\ UNCHANGED cache
  BY DEF ProbeAnchor, Goto
<1>2. \/ UNCHANGED <<liveWm, doubt>>
      \/ doubt' = doubt \cup {"mode", "percent"} /\ liveWm'["limit"] = liveWm["limit"]
  BY DEF ProbeAnchor, GriddedInv, World, Knobs
<1>3. CacheTold'
  BY <1>1, <1>2 DEF LabelledInv, CacheTold, Knobs, Wire, Whole
<1> QED
  BY <1>1, <1>3 DEF LabelledInv, KnobsSent

(* A knob is set, may have been set, or is right.                          *)
LEMMA Labelled_Knob ==
  ASSUME GriddedInv, LabelledInv, NEW k \in Knobs, SetKnob(k) \/ SetFails(k) \/ KeepKnob(k)
  PROVE  LabelledInv'
<1>1. /\ pc = k /\ pc' = After[k]
      /\ UNCHANGED <<baselines, pctAnchor, cell, miner>>
  BY DEF SetKnob, SetFails, KeepKnob, At, Goto, wmEngine, wmTask, whatsminer, wmWorld
<1>2. \A j : Wanted(j)' = Wanted(j)
  BY <1>1, WantedKept
<1>3. DOMAIN cache = Knobs /\ DOMAIN liveWm = Knobs
  BY DEF GriddedInv, World, EngineNow, Engine
<1>4. /\ \A j \in Knobs \ {k} : cache'[j] = cache[j] /\ liveWm'[j] = liveWm[j]
      /\ \A x \in Knobs : x # k => (x \in doubt' <=> x \in doubt)
      /\ \/ cache'[k] = Wanted(k) /\ liveWm'[k] = Wire(k, Wanted(k)) /\ Differs(k)
         \/ k \in doubt'
         \/ UNCHANGED <<cache, liveWm, doubt>> /\ ~Differs(k)
  <2>1. CASE SetKnob(k)
    BY <1>3, <2>1 DEF SetKnob
  <2>2. CASE SetFails(k)
    BY <1>3, <2>2 DEF SetFails, wmEngine
  <2>3. CASE KeepKnob(k)
    BY <2>3 DEF KeepKnob, whatsminer, wmEngine, wmWorld
  <2> QED
    BY <2>1, <2>2, <2>3
<1>5. CacheTold'
  BY <1>4 DEF LabelledInv, CacheTold, Wire, Whole
<1>6. Sent(k)'
  <2>1. CASE cache'[k] = Wanted(k) /\ Differs(k)
    <3>1. k = "percent" => SamePercent(Wanted(k), Wanted(k))
      <4> SUFFICES ASSUME k = "percent" PROVE SamePercent(Wanted(k), Wanted(k))
        OBVIOUS
      <4>1. Wanted(k) # None /\ Wanted(k) \in Percents
        <5>1. ModeAndPercent(cell.f) # None
          BY <2>1 DEF Differs, Wanted
        <5>2. Labelled(cell, cells) /\ baselines # None
          BY <1>1 DEF GriddedInv, Measuring, Knobs
        <5> QED
          BY <2>1, <5>1, <5>2, Needed DEF GriddedInv, Differs
      <4> DEFINE a == Wanted(k)[1]
                 b == Wanted(k)[2]
      <4>2. a \in Nat /\ b \in Nat
        BY <4>1 DEF Percents
      <4>3. a * b \in Nat /\ b * b \in Nat
        BY <4>2
      <4>4. 10000 * Gap(a * b, a * b) = 0
        BY <4>3 DEF Gap
      <4> QED
        BY <4>1, <4>3, <4>4 DEF SamePercent
    <3>2. cache'[k] = Wanted(k)'
      BY <1>2, <2>1
    <3>3. k = "percent" => SamePercent(cache'[k], Wanted(k)')
      BY <1>2, <2>1, <3>1
    <3>4. Sent(k)' <=> k \in doubt' \/ ~Differs(k)'
      BY DEF Sent
    <3>5. Differs(k)' <=> /\ Wanted(k)' # None
                          /\ IF k = "percent" THEN ~SamePercent(cache'[k], Wanted(k)') ELSE cache'[k] # Wanted(k)'
      BY DEF Differs, SamePercent, Gap
    <3> QED
      BY <3>2, <3>3, <3>4, <3>5
  <2>2. CASE UNCHANGED <<cache, liveWm, doubt>> /\ ~Differs(k)
    BY <1>2, <2>2 DEF Sent, Differs, SamePercent, Gap
  <2> QED
    BY <1>4, <2>1, <2>2 DEF Sent
<1>7. \A j \in Knobs \ {k} : Sent(j) => Sent(j)'
  BY <1>2, <1>4 DEF Sent, Differs, SamePercent, Gap
<1>8. KnobsSent'
  BY <1>1, <1>6, <1>7 DEF LabelledInv, KnobsSent, Knobs, After
<1> QED
  BY <1>5, <1>8 DEF LabelledInv

(* A kill leaves a doubt about what the restored cache does not know.      *)
LEMMA Labelled_Kill ==
  ASSUME GriddedInv, LabelledInv, WhatsminerKill
  PROVE  LabelledInv'
<1>1. /\ pc' = "off" /\ UNCHANGED liveWm
      /\ cache' = cellDisk.cache
      /\ doubt' = doubt \cup {k \in Knobs : cache[k] # cellDisk.cache[k]}
  BY DEF WhatsminerKill, KillWorker
<1>2. CacheTold'
  BY <1>1 DEF LabelledInv, CacheTold, Wire, Whole
<1> QED
  BY <1>1, <1>2 DEF LabelledInv, KnobsSent

LEMMA Labelled_Next ==
  ASSUME GriddedInv, LabelledInv, WhatsminerNext
  PROVE  LabelledInv'
<1> USE DEF Looping, Leaves, At, Goto
<1>1. CASE FindMode \/ MissMode \/ DiscoveryRaises
  BY <1>1, Labelled_Modes
<1>2. CASE ProbeAnchor
  BY <1>2, Labelled_Probe
<1>3. CASE \E k \in Knobs : SetKnob(k) \/ SetFails(k) \/ KeepKnob(k)
  BY <1>3, Labelled_Knob
<1>4. CASE WhatsminerKill
  BY <1>4, Labelled_Kill
<1>5. CASE BeginPass \/ RetryRefused \/ GiveUpRefused \/ StartGrid \/ TakeCoarse \/ TakeFine \/ GoFine \/ Remeasure
  <2>1. /\ UNCHANGED <<cache, liveWm, doubt>>
        /\ pc' \in {"discover", "coarse", "entry", "off", "mode", "fine"}
    BY <1>5 DEF BeginPass, RetryRefused, GiveUpRefused, Refused, Raises, StartGrid, TakeCoarse, TakeFine,
                Take, GoFine, Remeasure, wmEngine, wmWorld
  <2> QED
    BY <2>1, Labelled_Elsewhere
<1>6. CASE PickBest \/ Measured \/ Unmeasured
  <2>1. /\ UNCHANGED <<cache, liveWm, doubt>>
        /\ pc' \in {"coarse", "entry", "fine", "hold", "off"}
    BY <1>6 DEF PickBest, Measured, Unmeasured, Measure, wmWorld
  <2> QED
    BY <2>1, Labelled_Elsewhere
<1>7. CASE NothingToHold \/ LeaveWhatsminer \/ WhatsminerControl \/ WeatherTurns
  <2>1. UNCHANGED <<wmEngine, wmTask, miner, liveWm, doubt>>
    BY <1>7 DEF NothingToHold, LeaveWhatsminer, WhatsminerControl, WeatherTurns, whatsminer, wmWorld
  <2>2. pc' = pc \/ pc' \in {"entry", "off"}
    BY <1>7 DEF NothingToHold, LeaveWhatsminer, WhatsminerControl, StartWorker, StopWorker,
                WeatherTurns, worker
  <2> QED
    BY <2>1, <2>2, Labelled_Still
<1> QED
  BY <1>1, <1>2, <1>3, <1>4, <1>5, <1>6, <1>7 DEF WhatsminerNext, WhatsminerWorker

(* The miner runs a cell as its label says.                                *)
LEMMA Labelled_Shows ==
  ASSUME GriddedInv, LabelledInv
  PROVE  MeasuredAsLabelled
<1> SUFFICES ASSUME pc = "sample", doubt = {}, ModeAndPercent(cell.f) # None, InReach(cell.f) # {}
             PROVE  /\ liveWm.mode \in InReach(cell.f) /\ liveWm.limit = cell.pl
                    /\ liveWm.percent # None /\ Gives(Base(liveWm.mode), cell.f)
                    /\ Base(liveWm.mode) = TrueBase(liveWm.mode) => AsLabelled
  BY DEF MeasuredAsLabelled
<1>1. World /\ EngineNow /\ Labelled(cell, cells) /\ baselines # None
  BY DEF GriddedInv, Measuring
<1>2. cell.f \in Nat /\ cell.pl \in Nat
  BY <1>1, WhatsminerAssumption DEF Labelled, Pls, Fs
<1>3. PICK m \in Found :
        /\ m \in InReach(cell.f)
        /\ Wanted("mode") = m /\ Wanted("percent") = Percent(cell.f, Base(m))
        /\ Base(m) \in Nat \ {0} /\ m \in miner.supports /\ Wanted("percent") \in Percents
  BY <1>1, Needed
<1>4. Wanted("percent") = <<cell.f, Base(m)>> /\ Wanted("limit") = cell.pl
  BY <1>3 DEF InReach, Percent, Wanted
<1>5. m # None /\ <<cell.f, Base(m)>> # None /\ cell.pl # None
  <2>1. <<cell.f, Base(m)>> \in Nat \X Nat
    BY <1>2, <1>3
  <2>2. m \in ModeNames
    BY <1>1, <1>3, WhatsminerAssumption DEF World
  <2> QED
    BY <1>2, <2>1, <2>2, NoneAssumption
<1>6. ~Differs("mode") /\ ~Differs("percent") /\ ~Differs("limit")
  BY DEF LabelledInv, KnobsSent, Sent
<1>7. /\ cache["mode"] = m /\ cache["limit"] = cell.pl
      /\ SamePercent(cache["percent"], <<cell.f, Base(m)>>)
  BY <1>3, <1>4, <1>5, <1>6 DEF Differs
<1>8. cache["percent"] # None /\ cache["percent"] \in Percents
  BY <1>1, <1>7 DEF SamePercent, EngineNow, Engine
<1>9. liveWm["mode"] = m /\ liveWm["limit"] = cell.pl /\ liveWm["percent"] = Whole(cache["percent"])
  BY <1>5, <1>7, <1>8 DEF LabelledInv, CacheTold, Knobs, Wire
<1>10. PICK g \in Nat, c \in Nat \ {0} : cache["percent"] = <<g, c>> /\ g <= 2 * c
  BY <1>8 DEF Percents
<1>11. Gives(Base(m), cell.f)
  <2>1. 100 * Gap(100 * cell.f, Base(m) * (100 + Whole(<<g, c>>))) < 101 * Base(m)
    BY <1>2, <1>3, <1>7, <1>10, NearEnough
  <2> QED
    BY <1>9, <1>10, <2>1 DEF Gives
<1>12. liveWm.percent # None
  <2>1. Whole(<<g, c>>) \in -100..100
    BY <1>10, WholePercent
  <2> QED
    BY <1>9, <1>10, <2>1, NoneAssumption
<1> QED
  BY <1>3, <1>9, <1>11, <1>12 DEF AsLabelled, RunsAt
-----------------------------------------------------------------------------
(* The strategies together: one runs, the others are as they began.        *)

StrategyInv ==
  /\ strategy \in TuningStrategies \cup {None} /\ running \in BOOLEAN
  /\ strategy \notin TuningStrategies => pc = "off"
  /\ IF Runs("voltage_chip_tune") THEN ExploredInv ELSE ExplorationInit
  /\ IF Runs("wattage_search") THEN SearchedInv /\ PeakInv ELSE BraiinsInit
  /\ IF Runs("power_limit_freq_search") THEN GriddedInv /\ LabelledInv ELSE WhatsminerInit
  /\ IInv

LEMMA EmptySurface == Surface(<<>>) /\ Positions(<<>>) = {}
BY DEF Surface, Positions

LEMMA ExplorationBegins ==
  ASSUME ExplorationInit, pc = "off" PROVE ExploredInv
<1>1. scene.faults \in Nat /\ 1 \in 1..Len(scene.eras)
  BY ExplorationAssumption DEF ExplorationInit
<1>2. /\ surface = <<>> /\ tunedCells = {} /\ inFlight = None
      /\ vfDisk.surface = <<>> /\ vfDisk.tuned = {} /\ vfDisk.inFlight = None
  BY DEF ExplorationInit
<1>3. Sound(<<>>, {}, None)
  BY EmptySurface DEF Sound
<1>4. mishaps \in 0..scene.faults
  BY <1>1 DEF ExplorationInit
<1> QED
  BY <1>1, <1>2, <1>3, <1>4, EmptySurface DEF ExplorationInit, ExploredInv, InEra

LEMMA BraiinsBegins ==
  ASSUME BraiinsInit, pc = "off" PROVE SearchedInv /\ PeakInv
<1>1. Watts(<<>>) = {} /\ Samples(market, <<>>)
  BY DEF Watts, Samples
<1>2. SearchedInv
  BY <1>1 DEF BraiinsInit, SearchedInv
<1> QED
  BY <1>2, PeakBegins

LEMMA WhatsminerBegins ==
  ASSUME WhatsminerInit, pc = "off" PROVE GriddedInv /\ LabelledInv
<1>1. miner.faults \in Nat
  BY WhatsminerAssumption DEF WhatsminerInit
<1>2. World /\ EngineNow /\ EngineKept
  BY <1>1, FS_EmptySet DEF WhatsminerInit, World, EngineNow, EngineKept, Engine, NothingSet, Knobs
<1>3. CellsOf(cellDisk.cells) \subseteq CellsOf(cells) /\ Listed(miner, found) /\ Planned(plan)
  BY FS_EmptySet DEF WhatsminerInit, CellsOf, Listed, Planned
<1>4. LabelledInv
  BY DEF WhatsminerInit, NothingSet, LabelledInv, CacheTold, KnobsSent, Knobs
<1> QED
  BY <1>2, <1>3, <1>4 DEF GriddedInv, CellPlaces, Measuring, Knobs

(* Every initial state has the invariant.                                  *)
LEMMA StrategiesBegin ==
  ASSUME Init PROVE StrategyInv
<1>1. strategy \in TuningStrategies \cup {None} /\ running \in BOOLEAN /\ pc = "off"
  BY DEF Init, WorkerInit
<1>2. ExplorationInit /\ BraiinsInit /\ WhatsminerInit /\ IInv
  BY Begins DEF Init
<1> QED
  BY <1>1, <1>2, ExplorationBegins, BraiinsBegins, WhatsminerBegins DEF StrategyInv

(* What stands still keeps its part.                                       *)
LEMMA Standing ==
  /\ ExplorationInit /\ UNCHANGED exploration => ExplorationInit'
  /\ BraiinsInit /\ UNCHANGED braiins => BraiinsInit'
  /\ WhatsminerInit /\ UNCHANGED whatsminer => WhatsminerInit'
  /\ IInv /\ UNCHANGED applyVars => IInv'
<1>1. ExplorationInit /\ UNCHANGED exploration => ExplorationInit'
  BY DEF exploration, grid, vfFiles, plans, ExplorationInit
<1>2. BraiinsInit /\ UNCHANGED braiins => BraiinsInit'
  BY DEF braiins, search, wattage, outside, BraiinsInit
<1>3. WhatsminerInit /\ UNCHANGED whatsminer => WhatsminerInit'
  BY DEF whatsminer, wmEngine, wmTask, wmFiles, wmWorld, WhatsminerInit
<1>4. IInv /\ UNCHANGED applyVars => IInv'
  BY DEF applyVars, psu, chain, applyJob, IInv, ApplyTypeOK, AimOK, SeenOK, WayOK, Rises,
         WrittenOK, OutputOK, RoomOK, Covers, CoversNearly, VoltageSettled, Stable
<1> QED
  BY <1>1, <1>2, <1>3, <1>4

(* The running flag is one.                                                *)
LEMMA Flagged ==
  /\ running \in BOOLEAN /\ ExplorationNext => running' \in BOOLEAN
  /\ running \in BOOLEAN /\ BraiinsNext => running' \in BOOLEAN
  /\ running \in BOOLEAN /\ WhatsminerNext => running' \in BOOLEAN
<1> USE DEF Looping, Leaves, At, StartWorker, StopWorker, KillWorker
<1>1. ASSUME running \in BOOLEAN, ExplorationNext PROVE running' \in BOOLEAN
  BY <1>1 DEF ExplorationNext, Turn, ExplorationStep, ExplorationControl, ExplorationKill, NewEra, worker,
     EnterLoop, Monitored, LeaveLoop, CellMeasured, CellWithoutData, CellNotReady, CellFails, CellStopped,
     CellTuned, TuneTooHot, TuneWithoutResult, TuneCut, TuneRaises
<1>2. ASSUME running \in BOOLEAN, BraiinsNext PROVE running' \in BOOLEAN
  BY <1>2 DEF BraiinsNext, BraiinsWorker, BraiinsControl, BraiinsKill, MarketMoves, SetLimits, worker,
     Enter, EnterOffline, SampleMissing, Sample, NoSample, Sampled, Unsampled, Narrow, Converge, Resample,
     NoResample, Resampled, Unresampled, Reenter, KeepHolding, LeaveBraiins
<1>3. ASSUME running \in BOOLEAN, WhatsminerNext PROVE running' \in BOOLEAN
  BY <1>3 DEF WhatsminerNext, WhatsminerWorker, WhatsminerControl, WhatsminerKill, WeatherTurns, worker,
     BeginPass, FindMode, MissMode, DiscoveryRaises, RetryRefused, GiveUpRefused, Refused, Raises, ProbeAnchor, StartGrid, TakeCoarse, TakeFine, Take,
     GoFine, PickBest, Remeasure, NothingToHold, SetKnob, SetFails, KeepKnob, Measured, Unmeasured,
     LeaveWhatsminer
<1> QED
  BY <1>1, <1>2, <1>3, Zenon

(* A step of none of the loops keeps the one that runs.                    *)
LEMMA Pausing ==
  /\ ExploredInv /\ UNCHANGED <<worker, exploration>> => ExploredInv'
  /\ SearchedInv /\ PeakInv /\ UNCHANGED <<worker, braiins>> => SearchedInv' /\ PeakInv'
  /\ GriddedInv /\ LabelledInv /\ UNCHANGED <<worker, whatsminer>> => GriddedInv' /\ LabelledInv'
<1>1. ASSUME ExploredInv, UNCHANGED <<worker, exploration>> PROVE ExploredInv'
  BY <1>1 DEF worker, exploration, grid, vfFiles, plans, ExploredInv, InEra
<1>2. ASSUME SearchedInv, PeakInv, UNCHANGED <<worker, braiins>> PROVE SearchedInv' /\ PeakInv'
  <2>1. /\ UNCHANGED <<pc, market, limits, curve, wattageResults, best, low, high, target>>
        /\ UNCHANGED <<wattProfile, wattDisk>>
    BY <1>2 DEF worker, braiins, search, wattage, outside
  <2>2. SearchedInv'
    BY <1>2, <2>1 DEF SearchedInv, Window
  <2>3. /\ (Charted(wattageResults') <=> Charted(wattageResults)')
        /\ (Charted(wattDisk'.results) <=> Charted(wattDisk.results)')
        /\ \A p : Peak(p)' = Peak(p)
        /\ Full' = Full /\ Upper' = Upper /\ limits' = limits /\ curve' = curve
    BY <2>1, ChartedStill DEF outside
  <2>4. Bounds' = Bounds /\ Aiming' = Aiming /\ Steady' = Steady
    BY <2>1 DEF Bounds, Aiming, Near, Steady
  <2>5. ASSUME NEW p PROVE Aimed(p)' = Aimed(p)
    BY <2>1, <2>3, <2>4 DEF Aimed, Reach
  <2>6. PeakInv'
    BY <1>2, <2>1, <2>3, <2>4, <2>5 DEF PeakInv
  <2> QED
    BY <2>2, <2>6
<1>3. ASSUME GriddedInv, LabelledInv, UNCHANGED <<worker, whatsminer>> PROVE GriddedInv' /\ LabelledInv'
  <2>1. /\ UNCHANGED <<pc, baselines, pctAnchor, cache, cells, bestCell, streak, found, plan, cell>>
        /\ UNCHANGED <<cellProfile, cellDisk, miner, liveWm, land, faults, doubt>>
        /\ UNCHANGED <<wmEngine, wmTask, wmFiles>>
    BY <1>3 DEF worker, whatsminer, wmEngine, wmTask, wmFiles, wmWorld
  <2>2. LabelledInv'
    BY <1>3, <2>1, Labelled_Still
  <2>3. GriddedInv'
    BY <1>3, <2>1 DEF GriddedInv, World, EngineNow, EngineKept, Measuring
  <2> QED
    BY <2>2, <2>3
<1> QED
  BY <1>1, <1>2, <1>3

LEMMA MapsPausing ==
  ASSUME UNCHANGED <<worker, exploration, braiins, whatsminer>>
  PROVE  [T!Next]_(T!tuner)
<1>1. /\ UNCHANGED <<strategy, pc, surface, tunedCells, wattageResults, best, cells, bestCell, cell>>
  BY DEF worker, exploration, grid, braiins, search, whatsminer, wmEngine, wmTask
<1>2. Known' = Known /\ Choice' = Choice
  BY <1>1 DEF Known, Choice, Runs, Positions
<1>3. Mode' = Mode
  BY <1>1 DEF Mode, Holds, Holding, Knobs
<1> QED
  BY <1>2, <1>3 DEF T!tuner

(* A step keeps the invariant, and is a step of the Tuner or none.         *)
LEMMA StrategiesStep ==
  ASSUME Scores, StrategyInv, [Next]_vars
  PROVE  StrategyInv' /\ [T!Next]_(T!tuner)
<1>1. CASE Explores
  <2>1. ExploredInv /\ running \in BOOLEAN /\ IInv /\ BraiinsInit /\ WhatsminerInit
    BY <1>1 DEF Explores, Runs, StrategyInv
  <2>2. ExploredInv' /\ UNCHANGED strategy /\ ExploredStep /\ running' \in BOOLEAN
    BY <1>1, <2>1, Explored_Next, Flagged DEF Explores
  <2>3. BraiinsInit' /\ WhatsminerInit' /\ IInv'
    BY <1>1, <2>1, Standing DEF Explores
  <2>4. Runs("voltage_chip_tune") /\ Runs("voltage_chip_tune")'
    BY <1>1, <2>2 DEF Explores, Runs
  <2>5. [T!Next]_(T!tuner)
    BY <2>1, <2>2, <2>4, Explored_Maps
  <2>6. StrategyInv'
    BY <2>2, <2>3, <2>4 DEF StrategyInv, Runs, TuningStrategies
  <2> QED
    BY <2>5, <2>6
<1>2. CASE SearchesWatts
  <2>1. SearchedInv /\ PeakInv /\ running \in BOOLEAN /\ IInv /\ ExplorationInit /\ WhatsminerInit
    BY <1>2 DEF SearchesWatts, Runs, StrategyInv
  <2>2. SearchedInv' /\ PeakInv' /\ UNCHANGED strategy /\ SearchedStep /\ running' \in BOOLEAN
    BY <1>2, <2>1, Searched_Next, PeakKept, Flagged DEF SearchesWatts
  <2>3. ExplorationInit' /\ WhatsminerInit' /\ IInv'
    BY <1>2, <2>1, Standing DEF SearchesWatts
  <2>4. Runs("wattage_search") /\ Runs("wattage_search")'
    BY <1>2, <2>2 DEF SearchesWatts, Runs
  <2>5. [T!Next]_(T!tuner)
    BY <2>1, <2>2, <2>4, Searched_Maps
  <2>6. StrategyInv'
    BY <2>2, <2>3, <2>4 DEF StrategyInv, Runs, TuningStrategies
  <2> QED
    BY <2>5, <2>6
<1>3. CASE SearchesCells
  <2>1. GriddedInv /\ LabelledInv /\ running \in BOOLEAN /\ IInv /\ ExplorationInit /\ BraiinsInit
    BY <1>3 DEF SearchesCells, Runs, StrategyInv
  <2>2. GriddedInv' /\ LabelledInv' /\ UNCHANGED strategy /\ GriddedStep /\ running' \in BOOLEAN
    BY <1>3, <2>1, Gridded_Next, Labelled_Next, Flagged DEF SearchesCells
  <2>3. ExplorationInit' /\ BraiinsInit' /\ IInv'
    BY <1>3, <2>1, Standing DEF SearchesCells
  <2>4. Runs("power_limit_freq_search") /\ Runs("power_limit_freq_search")'
    BY <1>3, <2>2 DEF SearchesCells, Runs
  <2>5. [T!Next]_(T!tuner)
    BY <2>1, <2>2, <2>4, Gridded_Maps
  <2>6. StrategyInv'
    BY <2>2, <2>3, <2>4 DEF StrategyInv, Runs, TuningStrategies
  <2> QED
    BY <2>5, <2>6
<1>4. CASE AppliesPoints \/ UNCHANGED vars
  <2>1. /\ UNCHANGED <<worker, exploration, braiins, whatsminer>>
        /\ UNCHANGED worker /\ UNCHANGED exploration /\ UNCHANGED braiins /\ UNCHANGED whatsminer
    BY <1>4 DEF AppliesPoints, vars
  <2>2. IInv'
    <3>1. ApplyNext \/ UNCHANGED applyVars
      BY <1>4 DEF AppliesPoints, vars
    <3> QED
      BY <3>1, Standing, VoltageFollowsKeeps, ClockFollowsKeeps, BeginKeeps, ReadyKeeps, RaiseKeeps,
         AwaitVoltageKeeps, WriteClocksKeeps, AwaitClocksKeeps, LowerKeeps, EndKeeps, FailKeeps
         DEF StrategyInv, ApplyNext, ApplyStep
  <2>3. UNCHANGED <<strategy, running, pc>>
    BY <2>1 DEF worker
  <2>4. StrategyInv'
    BY <2>1, <2>2, <2>3, Standing, Pausing DEF StrategyInv, Runs
  <2> QED
    BY <2>1, <2>4, MapsPausing
<1> QED
  BY <1>1, <1>2, <1>3, <1>4 DEF Next

(* Whatever the settings, markets, miners and grids, and however often the *)
(* strategies fail, are stopped and are killed: the invariant holds.       *)
THEOREM StrategiesInductive == Scores => (Spec => []StrategyInv)
<1> SUFFICES ASSUME Scores PROVE Spec => []StrategyInv
  OBVIOUS
<1>1. Init => StrategyInv
  BY StrategiesBegin
<1>2. StrategyInv /\ [Next]_vars => StrategyInv'
  BY StrategiesStep
<1> QED
  BY <1>1, <1>2, PTL DEF Spec

(* Each of the three loops (_run_inner's dispatch) is a tuner: it measures *)
(* one point at a time and forgets none but in a crash, chooses only among *)
(* what it has measured, and a crash brings back no choice without its     *)
(* measurement.                                                            *)
THEOREM StrategiesAreTuners == Scores => (Spec => ImplementsTuner)
<1> SUFFICES ASSUME Scores PROVE Spec => ImplementsTuner
  OBVIOUS
<1>1. Init => T!Init
  <2> SUFFICES ASSUME Init PROVE T!Init
    OBVIOUS
  <2>1. pc = "off" /\ ExplorationInit /\ BraiinsInit /\ WhatsminerInit
    BY DEF Init, WorkerInit
  <2>2. Mode = "off" /\ Known = {} /\ Choice = {}
    BY <2>1 DEF Mode, Known, Choice, Positions, ExplorationInit, BraiinsInit, WhatsminerInit
  <2> QED
    BY <2>2 DEF T!Init
<1>2. StrategyInv /\ [Next]_vars => [T!Next]_(T!tuner)
  BY StrategiesStep
<1> QED
  BY <1>1, <1>2, StrategiesInductive, PTL DEF Spec, ImplementsTuner, T!Spec

(* Every part is well formed: no position is measured twice and no voltage *)
(* has two tunes, the window of wattages stays open and within the limits  *)
(* ever set, the held cell is one that was measured.                       *)
THEOREM StrategiesTyped == Scores => (Spec => []TypeOK)
<1> SUFFICES ASSUME Scores PROVE Spec => []TypeOK
  OBVIOUS
<1>1. StrategyInv => TypeOK
  <2> SUFFICES ASSUME StrategyInv PROVE TypeOK
    OBVIOUS
  <2>1. pc \notin {"measure", "mode", "percent", "limit", "sample"} \/ Runs("voltage_chip_tune")
           \/ Runs("power_limit_freq_search")
    BY DEF StrategyInv, Runs, TuningStrategies, SearchedInv
  <2>2. ExplorationTypeOK
    <3>1. CASE Runs("voltage_chip_tune")
      <4>1. ExploredInv
        BY <3>1 DEF StrategyInv
      <4> QED
        BY <4>1 DEF ExploredInv, InEra, Sound, Surface, NewCell, ExplorationTypeOK
    <3>2. CASE ~Runs("voltage_chip_tune")
      <4>1. ExplorationInit
        BY <3>2 DEF StrategyInv
      <4>2. 1 \in 1..Len(scene.eras) /\ scene.faults \in Nat
        BY <4>1, ExplorationAssumption DEF ExplorationInit
      <4>3. 1..Len(<<>>) = {}
        OBVIOUS
      <4>4. mishaps \in 0..scene.faults
        BY <4>1, <4>2 DEF ExplorationInit
      <4>5. Positions(surface) = {} /\ 1..Len(surface) = {} /\ tunedCells = {}
        BY <4>1, <4>3 DEF ExplorationInit, Positions
      <4> QED
        BY <4>1, <4>2, <4>4, <4>5 DEF ExplorationInit, ExplorationTypeOK
    <3> QED
      BY <3>1, <3>2
  <2>3. BraiinsTypeOK
    <3>1. CASE Runs("wattage_search")
      <4>1. SearchedInv
        BY <3>1 DEF StrategyInv
      <4>2. Len(wattageResults) \in Nat /\ wattageResults \in [1..Len(wattageResults) -> [watt : Allowed(market), profit : Nat]]
        BY <4>1, LenProperties DEF SearchedInv, Samples
      <4>3. Allowed(market) \subseteq Nat
        BY <4>1, WattsAllowed DEF SearchedInv
      <4>4. best \in Nat \cup {None}
        BY <4>1, <4>2, <4>3 DEF SearchedInv, Watts
      <4> QED
        BY <4>1, <4>2, <4>3, <4>4 DEF SearchedInv, Window, BraiinsTypeOK
    <3>2. CASE ~Runs("wattage_search")
      <4>1. BraiinsInit
        BY <3>2 DEF StrategyInv
      <4>2. 1..Len(<<>>) = {}
        OBVIOUS
      <4> QED
        BY <4>1, <4>2 DEF BraiinsInit, BraiinsTypeOK
    <3> QED
      BY <3>1, <3>2
  <2>4. WhatsminerTypeOK
    <3>1. CASE Runs("power_limit_freq_search")
      <4>1. GriddedInv
        BY <3>1 DEF StrategyInv
      <4> QED
        BY <4>1 DEF GriddedInv, World, EngineNow, Engine, Read, Measuring, Labelled, Pls, Fs, Knobs,
                    WhatsminerTypeOK
    <3>2. CASE ~Runs("power_limit_freq_search")
      <4>1. WhatsminerInit
        BY <3>2 DEF StrategyInv
      <4>2. pc \notin {"mode", "percent", "limit", "sample"}
        BY <3>2 DEF StrategyInv, Runs, TuningStrategies, ExploredInv, SearchedInv
      <4>3. miner.faults \in Nat
        BY <4>1, WhatsminerAssumption DEF WhatsminerInit
      <4> QED
        BY <4>1, <4>2, <4>3 DEF WhatsminerInit, NothingSet, WhatsminerTypeOK
    <3> QED
      BY <3>1, <3>2
  <2> QED
    BY <2>2, <2>3, <2>4 DEF StrategyInv, IInv, TypeOK
<1> QED
  BY <1>1, StrategiesInductive, PTL

(* set_power_mode, set_power_percent and set_power_limit, sent only when   *)
(* the cached value differs: a cell that some mode can reach is measured   *)
(* at the limit of its label and at a mode and a whole percentage that     *)
(* give its frequency to within 1.01 % of a baseline, the one discovery    *)
(* took for the mode; the miner runs there where discovery took the right  *)
(* one.  Excused are failed commands, and what a probe or a kill leaves    *)
(* in the miner until it is next set.                                      *)
THEOREM LabelsAreTrue == Scores => (Spec => []MeasuredAsLabelled)
<1> SUFFICES ASSUME Scores PROVE Spec => []MeasuredAsLabelled
  OBVIOUS
<1>1. StrategyInv => MeasuredAsLabelled
  <2> SUFFICES ASSUME StrategyInv PROVE MeasuredAsLabelled
    OBVIOUS
  <2>1. CASE Runs("power_limit_freq_search")
    BY <2>1, Labelled_Shows DEF StrategyInv
  <2>2. CASE ~Runs("power_limit_freq_search")
    BY <2>2 DEF StrategyInv, Runs, TuningStrategies, ExploredInv, SearchedInv, MeasuredAsLabelled
  <2> QED
    BY <2>1, <2>2
<1> QED
  BY <1>1, StrategiesInductive, PTL

(* NarrowBounds and SelectBest: with profits that fall evenly on both      *)
(* sides of a peak, and neither prices nor limits that change, what is     *)
(* held is within the tolerance of the peak, but for a watt - however wide *)
(* the limits, wherever the search was stopped or killed, and whichever    *)
(* samples it came back with.                                              *)
THEOREM PeakIsHeld == Scores => (Spec => []PeakHeld)
<1> SUFFICES ASSUME Scores PROVE Spec => []PeakHeld
  OBVIOUS
<1>1. StrategyInv => PeakHeld
  <2> SUFFICES ASSUME StrategyInv PROVE PeakHeld
    OBVIOUS
  <2>1. CASE Runs("wattage_search")
    BY <2>1 DEF StrategyInv, PeakInv, Aimed, PeakHeld, Reach
  <2>2. CASE ~Runs("wattage_search")
    BY <2>2 DEF StrategyInv, BraiinsInit, PeakHeld
  <2> QED
    BY <2>1, <2>2
<1> QED
  BY <1>1, StrategiesInductive, PTL
=============================================================================
