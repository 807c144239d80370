------------------------- MODULE StressReplayProofs -------------------------
(***************************************************************************)
(* The programs that re-derive the stress evidence agree, for paths of any *)
(* length, rows of any values and all the constants that satisfy the       *)
(* assumptions of StressReplay.                                            *)
(***************************************************************************)
EXTENDS StressReplay, FiniteSetTheorems, WellFoundedInduction, TLAPS

\* A scenario has at least one row.
PathTyped == path \in Seq(Row) /\ Len(path) > 0

-----------------------------------------------------------------------------
(* Least and greatest elements. *)

Less == {pair \in Nat \X Nat : pair[1] < pair[2]}

\* The library's relation on the natural numbers.
LEMMA LessIsLess == OpToRel(<, Nat) = Less
BY DEF OpToRel, Less

\* Min is the least element of a set of natural numbers.
LEMMA MinIsLeast ==
    ASSUME NEW T \in SUBSET Nat, T # {}
    PROVE  Min(T) \in T /\ \A y \in T : Min(T) <= y
<1>1. IsWellFoundedOn(Less, Nat)
  BY LessIsLess, NatLessThanWellFounded
<1>2. PICK x \in T : \A y \in T : <<y, x>> \notin Less
  BY <1>1, WFMin
<1>3. ASSUME NEW y \in T PROVE x <= y
  <2>1. <<y, x>> \in Nat \X Nat /\ <<y, x>>[1] = y /\ <<y, x>>[2] = x
    OBVIOUS
  <2> QED
    BY <1>2, <2>1 DEF Less
<1> QED
  BY <1>3 DEF Min

\* Max is the greatest element of a set of natural numbers below some bound.
LEMMA MaxIsGreatest ==
    ASSUME NEW bound \in Nat, NEW T \in SUBSET (0..bound), T # {}
    PROVE  Max(T) \in T /\ \A y \in T : y <= Max(T)
<1> DEFINE below == {bound - y : y \in T}
<1>1. below \in SUBSET Nat /\ below # {}
  <2>1. PICK t \in T : TRUE
    OBVIOUS
  <2>2. bound - t \in below
    OBVIOUS
  <2>3. \A y \in T : y \in Nat /\ y <= bound
    OBVIOUS
  <2> QED
    BY <2>2, <2>3
<1>2. PICK x \in T : \A y \in T : bound - x <= bound - y
  <2>1. PICK b \in below : \A z \in below : b <= z
    BY <1>1, MinIsLeast
  <2> QED
    BY <2>1
<1>3. \A y \in T : x >= y
  BY <1>2
<1> QED
  BY <1>3 DEF Max

-----------------------------------------------------------------------------
(* Rounding. *)

\* What the assumption says of the scalars.
LEMMA Scalars ==
    /\ CF_BASE \in Nat /\ LTV_FLOOR \in Nat /\ ONE \in Nat
    /\ MAX_LIQUIDITY_HAIRCUT \in Nat /\ MAX_DATA_QUALITY_HAIRCUT \in Nat
    /\ 0 < LTV_FLOOR /\ LTV_FLOOR < CF_BASE /\ CF_BASE < ONE
    /\ GRAIN \in Nat /\ GRAIN > 0
    /\ MAX_ROWS \in Nat /\ MAX_ROWS > 0
BY StressAssumption

\* A product with a natural number keeps the order.
LEMMA ProductMonotone ==
    ASSUME NEW f \in Nat, NEW m \in Int, NEW n \in Int, m <= n
    PROVE  f * m \in Int /\ f * n \in Int /\ f * m <= f * n
OBVIOUS

\* The rounding of compute_ltv.
Rounded(x) == (2 * x + GRAIN) \div (2 * GRAIN)

\* It is the one integer within half a grain.
LEMMA RoundedIsNearest ==
    ASSUME NEW x \in Int, NEW n \in Int
    PROVE  /\ Rounded(x) \in Int
           /\ Rounded(x) = n
                 <=> 2 * (GRAIN * n) - GRAIN <= 2 * x /\ 2 * x < 2 * (GRAIN * n) + GRAIN
<1>1. GRAIN \in Nat /\ GRAIN > 0
  BY Scalars
<1>2. ASSUME NEW d \in Nat, d > 0, NEW y \in Int
      PROVE  y \div d \in Int /\ d * (y \div d) <= y /\ y < d * (y \div d) + d
  BY <1>2
<1>3. ASSUME NEW d \in Nat, d > 0, NEW y \in Int, NEW m \in Int, d * m <= y, y < d * m + d
      PROVE  y \div d = m
  BY <1>3
<1> QED
  BY <1>1, <1>2, <1>3 DEF Rounded

\* It keeps the order.
LEMMA RoundedMonotone ==
    ASSUME NEW x \in Int, NEW y \in Int, x <= y
    PROVE  Rounded(x) <= Rounded(y)
<1> DEFINE m == Rounded(x)
           n == Rounded(y)
<1>1. GRAIN \in Nat /\ m \in Int /\ n \in Int
  BY Scalars, RoundedIsNearest
<1>2. 2 * (GRAIN * m) - GRAIN <= 2 * x /\ 2 * y < 2 * (GRAIN * n) + GRAIN
  BY <1>1, RoundedIsNearest
<1> HIDE DEF m, n
<1>3. ASSUME n < m PROVE FALSE
  <2>1. GRAIN * (n + 1) <= GRAIN * m
    BY <1>1, <1>3, ProductMonotone
  <2>2. GRAIN * (n + 1) = GRAIN * n + GRAIN /\ GRAIN * n \in Int /\ GRAIN * m \in Int
    BY <1>1
  <2> QED
    BY <1>1, <1>2, <2>1, <2>2
<1> QED
  BY <1>1, <1>3 DEF m, n

\* Whole steps pass through it.
LEMMA RoundedShift ==
    ASSUME NEW x \in Int, NEW k \in Int
    PROVE  /\ GRAIN * k \in Int
           /\ Rounded(x - GRAIN * k) = Rounded(x) - k
           /\ Rounded(GRAIN * k) = k
<1> DEFINE m == Rounded(x)
<1>1. GRAIN \in Nat /\ GRAIN > 0 /\ m \in Int /\ GRAIN * k \in Int /\ GRAIN * m \in Int
  BY Scalars, RoundedIsNearest
<1>2. 2 * (GRAIN * m) - GRAIN <= 2 * x /\ 2 * x < 2 * (GRAIN * m) + GRAIN
  BY <1>1, RoundedIsNearest
<1> HIDE DEF m
<1>3. GRAIN * (m - k) = GRAIN * m - GRAIN * k
  BY <1>1
<1>4. Rounded(x - GRAIN * k) = m - k
  BY <1>1, <1>2, <1>3, RoundedIsNearest
<1>5. Rounded(GRAIN * k) = k
  BY <1>1, RoundedIsNearest
<1> QED
  BY <1>1, <1>4, <1>5 DEF m

\* The clamp of compute_ltv, before the rounding.
Clamped(x) == AtLeast(AtMost(x, GRAIN * CF_BASE), GRAIN * LTV_FLOOR)

\* A clamped value lies between the limits, and a value between them is its own.
LEMMA ClampedBetween ==
    ASSUME NEW x \in Int
    PROVE  /\ GRAIN * CF_BASE \in Int /\ GRAIN * LTV_FLOOR \in Int
           /\ Clamped(x) \in Int
           /\ GRAIN * LTV_FLOOR <= Clamped(x) /\ Clamped(x) <= GRAIN * CF_BASE
           /\ x <= GRAIN * LTV_FLOOR => Clamped(x) = GRAIN * LTV_FLOOR
           /\ GRAIN * LTV_FLOOR <= x /\ x <= GRAIN * CF_BASE => Clamped(x) = x
<1>1. GRAIN * CF_BASE \in Int /\ GRAIN * LTV_FLOOR \in Int /\ GRAIN * LTV_FLOOR <= GRAIN * CF_BASE
  BY Scalars, ProductMonotone
<1> QED
  BY <1>1 DEF Clamped, AtLeast, AtMost

\* The LTV of the engine in these terms.
LEMMA ComputeLtvRounds ==
    ASSUME NEW flag, NEW raw, NEW liquidity \in 0..MAX_LIQUIDITY_HAIRCUT,
           NEW quality \in 0..MAX_DATA_QUALITY_HAIRCUT
    PROVE  ComputeLtv(flag, raw, liquidity, quality) =
               IF flag = 1 THEN LTV_FLOOR
               ELSE Rounded(Clamped(Clamped(raw) - GRAIN * (liquidity + quality)))
<1>1. AtMost(liquidity, MAX_LIQUIDITY_HAIRCUT) = liquidity
  BY Scalars DEF AtMost
<1>2. AtMost(quality, MAX_DATA_QUALITY_HAIRCUT) = quality
  BY Scalars DEF AtMost
<1> QED
  BY <1>1, <1>2 DEF ComputeLtv, Rounded, Clamped

\* Whatever the statistics and the haircuts, the LTV is between the limits.
LEMMA LtvBounds ==
    ASSUME NEW flag, NEW raw \in Nat, NEW liquidity \in 0..MAX_LIQUIDITY_HAIRCUT,
           NEW quality \in 0..MAX_DATA_QUALITY_HAIRCUT
    PROVE  /\ ComputeLtv(flag, raw, liquidity, quality) \in LTV_FLOOR..CF_BASE
           /\ flag = 1 => ComputeLtv(flag, raw, liquidity, quality) = LTV_FLOOR
<1> DEFINE cut == GRAIN * (liquidity + quality)
           x   == Clamped(Clamped(raw) - cut)
<1>1. liquidity + quality \in Int /\ raw \in Int
  BY Scalars
<1>2. cut \in Int
  BY <1>1, Scalars
<1>3. Clamped(raw) - cut \in Int
  BY <1>1, <1>2, ClampedBetween
<1> HIDE DEF cut
<1>4. /\ x \in Int /\ GRAIN * LTV_FLOOR <= x /\ x <= GRAIN * CF_BASE
      /\ GRAIN * LTV_FLOOR \in Int /\ GRAIN * CF_BASE \in Int
  BY <1>3, ClampedBetween
<1> HIDE DEF x
<1>5. Rounded(GRAIN * LTV_FLOOR) <= Rounded(x) /\ Rounded(x) <= Rounded(GRAIN * CF_BASE)
  BY <1>4, RoundedMonotone
<1>6. Rounded(GRAIN * LTV_FLOOR) = LTV_FLOOR /\ Rounded(GRAIN * CF_BASE) = CF_BASE
  BY Scalars, RoundedShift
<1>7. Rounded(x) \in LTV_FLOOR..CF_BASE
  BY <1>4, <1>5, <1>6, Scalars, RoundedIsNearest
<1>8. ComputeLtv(flag, raw, liquidity, quality) = IF flag = 1 THEN LTV_FLOOR ELSE Rounded(x)
  BY ComputeLtvRounds DEF x, cut
<1> QED
  BY <1>7, <1>8, Scalars

\* A haircut taken before the rounding and the second clamp is the haircut
\* verify-data.mjs takes after them.
LEMMA HaircutCommutes ==
    ASSUME NEW raw \in Nat, NEW liquidity \in 0..MAX_LIQUIDITY_HAIRCUT,
           NEW quality \in 0..MAX_DATA_QUALITY_HAIRCUT, NEW flag \in {0, 1}
    PROVE  ComputeLtv(flag, raw, liquidity, quality) =
               IF flag = 1 THEN LTV_FLOOR
               ELSE AtLeast(AtMost(ComputeLtv(flag, raw, 0, 0) - liquidity - quality, CF_BASE),
                            LTV_FLOOR)
<1> DEFINE k == liquidity + quality
           c == Clamped(raw)
           r == Rounded(c)
<1>1. k \in Nat /\ 0 \in 0..MAX_LIQUIDITY_HAIRCUT /\ 0 \in 0..MAX_DATA_QUALITY_HAIRCUT
  BY Scalars
<1>2. /\ c \in Int /\ GRAIN * LTV_FLOOR <= c /\ c <= GRAIN * CF_BASE
      /\ GRAIN * LTV_FLOOR \in Int /\ GRAIN * CF_BASE \in Int
  BY ClampedBetween
<1>3. GRAIN * k \in Nat /\ GRAIN * (0 + 0) = 0
  BY <1>1, Scalars
<1>4. flag = 0 => ComputeLtv(flag, raw, 0, 0) = r
  <2>1. Clamped(c - 0) = c
    BY <1>2, ClampedBetween
  <2> QED
    BY <1>1, <1>3, <2>1, ComputeLtvRounds
<1>5. flag = 0 => ComputeLtv(flag, raw, liquidity, quality) = Rounded(Clamped(c - GRAIN * k))
  BY ComputeLtvRounds
<1>6. r \in LTV_FLOOR..CF_BASE
  <2>1. Rounded(GRAIN * LTV_FLOOR) <= r /\ r <= Rounded(GRAIN * CF_BASE)
    BY <1>2, RoundedMonotone
  <2>2. Rounded(GRAIN * LTV_FLOOR) = LTV_FLOOR /\ Rounded(GRAIN * CF_BASE) = CF_BASE
    BY Scalars, RoundedShift
  <2>3. r \in Int
    BY <1>2, RoundedIsNearest
  <2> HIDE DEF r
  <2> QED
    BY <2>1, <2>2, <2>3, Scalars
<1>7. r - liquidity - quality = r - k
  BY <1>6, Scalars
<1>8. Rounded(c - GRAIN * k) = r - k
  BY <1>1, <1>2, RoundedShift
<1>9. Rounded(GRAIN * LTV_FLOOR) = LTV_FLOOR
  BY Scalars, RoundedShift
<1> HIDE DEF k, c, r
<1>10. CASE c - GRAIN * k <= GRAIN * LTV_FLOOR
  <2>1. Clamped(c - GRAIN * k) = GRAIN * LTV_FLOOR
    BY <1>2, <1>3, <1>10, ClampedBetween
  <2>2. r - k <= LTV_FLOOR
    BY <1>2, <1>3, <1>8, <1>9, <1>10, RoundedMonotone
  <2>3. AtLeast(AtMost(r - k, CF_BASE), LTV_FLOOR) = LTV_FLOOR
    BY <1>1, <1>6, <2>2, Scalars DEF AtLeast, AtMost
  <2> QED
    BY <1>4, <1>5, <1>7, <1>9, <2>1, <2>3, ComputeLtvRounds
<1>11. CASE GRAIN * LTV_FLOOR < c - GRAIN * k
  <2>1. Clamped(c - GRAIN * k) = c - GRAIN * k
    BY <1>2, <1>3, <1>11, ClampedBetween
  <2>2. LTV_FLOOR <= r - k
    BY <1>2, <1>3, <1>8, <1>9, <1>11, RoundedMonotone
  <2>3. AtLeast(AtMost(r - k, CF_BASE), LTV_FLOOR) = r - k
    BY <1>1, <1>6, <2>2, Scalars DEF AtLeast, AtMost
  <2> QED
    BY <1>4, <1>5, <1>7, <1>8, <2>1, <2>3, ComputeLtvRounds
<1> QED
  BY <1>2, <1>3, <1>10, <1>11
-----------------------------------------------------------------------------
(* The path. *)

\* A path of any length is one of rows.
THEOREM PathInvariant == Spec => []PathTyped
<1>1. Init => PathTyped
  <2> SUFFICES ASSUME NEW row \in Row, path = <<row>> PROVE PathTyped
    BY DEF Init
  <2> QED
    BY DEF PathTyped
<1>2. PathTyped /\ [Extend]_path => PathTyped'
  <2> SUFFICES ASSUME PathTyped, [Extend]_path PROVE PathTyped'
    OBVIOUS
  <2>1. CASE UNCHANGED path
    BY <2>1 DEF PathTyped
  <2>2. CASE Extend
    <3>1. PICK row \in Row : path' = Append(path, row)
      BY <2>2 DEF Extend
    <3> QED
      BY <3>1 DEF PathTyped
  <2> QED
    BY <2>1, <2>2
<1> QED
  BY <1>1, <1>2, PTL DEF Spec

\* What every row is.
LEMMA RowsTyped ==
    ASSUME PathTyped
    PROVE  /\ Len(path) \in Nat /\ Len(path) > 0 /\ DOMAIN path = 1..Len(path)
           /\ Last(path) = path[Len(path)]
           /\ \A i \in 1..Len(path) :
                 /\ path[i].price \in Nat /\ path[i].raw \in Nat /\ path[i].regime_flag \in {0, 1}
                 /\ Ltv(path[i]) \in LTV_FLOOR..CF_BASE
                 /\ path[i].regime_flag = 1 => Ltv(path[i]) = LTV_FLOOR
<1>1. Len(path) \in Nat /\ DOMAIN path = 1..Len(path) /\ \A i \in 1..Len(path) : path[i] \in Row
  BY DEF PathTyped
<1>2. ASSUME NEW i \in 1..Len(path)
      PROVE  path[i].price \in Nat /\ path[i].raw \in Nat /\ path[i].regime_flag \in {0, 1}
  BY <1>1, <1>2, StressAssumption DEF Row
<1>3. 0 \in 0..MAX_LIQUIDITY_HAIRCUT /\ 0 \in 0..MAX_DATA_QUALITY_HAIRCUT
  BY Scalars
<1> QED
  BY <1>1, <1>2, <1>3, LtvBounds DEF Ltv, Last, PathTyped

-----------------------------------------------------------------------------
(* The snapshots. *)

\* The numbers of an artifact explain each other, for every path and haircut.
THEOREM SnapshotsExplainThemselves == Spec => []SnapshotsExplained
<1>1. PathTyped => SnapshotsExplained
  <2> SUFFICES ASSUME PathTyped, NEW haircut \in Haircuts, NEW trusted_history \in BOOLEAN
               PROVE  LET s      == Snapshot(Last(path), haircut, trusted_history)
                          status == BuildArtifactStatus(s)
                      IN  /\ VerifySnapshot(s)
                          /\ status.suggested_ltv < status.statistical_ltv =>
                                 status.why_ltv_moved
                                     \cap {"no active stress", "follows the signal"} = {}
    BY DEF SnapshotsExplained
  <2> DEFINE row    == Last(path)
             s      == Snapshot(row, haircut, trusted_history)
             status == BuildArtifactStatus(s)
  <2>1. /\ row.raw \in Nat /\ row.regime_flag \in {0, 1}
        /\ haircut[1] \in 0..MAX_LIQUIDITY_HAIRCUT /\ haircut[2] \in 0..MAX_DATA_QUALITY_HAIRCUT
    BY RowsTyped, StressAssumption
  <2>2. 0 \in 0..MAX_LIQUIDITY_HAIRCUT /\ 0 \in 0..MAX_DATA_QUALITY_HAIRCUT
    BY Scalars
  <2> HIDE DEF row
  <2>3. /\ s.regime_flag = row.regime_flag /\ s.liquidity = haircut[1] /\ s.quality = haircut[2]
        /\ s.statistical_ltv = ComputeLtv(row.regime_flag, row.raw, 0, 0)
        /\ s.suggested_ltv = ComputeLtv(row.regime_flag, row.raw, haircut[1], haircut[2])
    BY DEF Snapshot, BuildRiskPayload
  <2>4. s.statistical_ltv \in LTV_FLOOR..CF_BASE /\ s.suggested_ltv \in LTV_FLOOR..CF_BASE
    BY <2>1, <2>2, <2>3, LtvBounds
  <2>5. VerifySnapshot(s)
    BY <2>1, <2>3, HaircutCommutes DEF VerifySnapshot
  <2> HIDE DEF s
  <2>6. /\ status.suggested_ltv = s.suggested_ltv /\ status.statistical_ltv = s.statistical_ltv
        /\ status.why_ltv_moved = ExplainLtv(s)
    BY DEF BuildArtifactStatus
  <2>7. ASSUME s.suggested_ltv < s.statistical_ltv
        PROVE  ExplainLtv(s) \cap {"no active stress", "follows the signal"} = {}
    <3>1. ~(s.suggested_ltv >= CF_BASE)
      BY <2>4, <2>7, Scalars
    <3>2. s.liquidity > 0 \/ s.liquidity <= 0
      BY <2>1, <2>3, Scalars
    <3> QED
      BY <2>7, <3>1, <3>2 DEF ExplainLtv
  <2> QED
    BY <2>5, <2>6, <2>7 DEF s, row
<1> QED
  BY <1>1, PathInvariant, PTL

-----------------------------------------------------------------------------
(* The replay's loans. *)

\* A shortfall is an amount.
LEMMA ShortfallTyped ==
    ASSUME PathTyped, NEW price \in Nat, NEW ltv \in Nat
    PROVE  Shortfall(ltv, price) \in Nat
<1>1. path[1].price * ltv \in Nat /\ price * ONE \in Nat
  BY RowsTyped, Scalars
<1> QED
  BY <1>1 DEF Shortfall, Loss, AtLeast

\* A loan at a higher LTV leaves no smaller shortfall.
LEMMA ShortfallMonotone ==
    ASSUME PathTyped, NEW price \in Nat, NEW low \in Nat, NEW high \in Nat, low <= high
    PROVE  Shortfall(low, price) <= Shortfall(high, price)
<1>1. path[1].price \in Nat /\ price * ONE \in Nat
  BY RowsTyped, Scalars
<1>2. /\ path[1].price * low \in Nat /\ path[1].price * high \in Nat
      /\ path[1].price * low <= path[1].price * high
  BY <1>1, ProductMonotone
<1> QED
  BY <1>1, <1>2 DEF Shortfall, Loss, AtLeast

\* The LTV of the replay is the lowest of the path, and one of them.
LEMMA DynamicIsLowest ==
    ASSUME PathTyped
    PROVE  /\ DynamicLtv \in LTV_FLOOR..CF_BASE /\ DynamicLtv \in Nat
           /\ \E i \in 1..Len(path) : DynamicLtv = Ltv(path[i])
           /\ \A i \in 1..Len(path) : DynamicLtv <= Ltv(path[i])
<1> DEFINE ltvs == {Ltv(path[i]) : i \in DOMAIN path}
<1>1. DOMAIN path = 1..Len(path) /\ 1 \in DOMAIN path
  BY RowsTyped
<1>2. ltvs \in SUBSET Nat /\ ltvs # {}
  BY <1>1, RowsTyped, Scalars
<1>3. Min(ltvs) \in ltvs /\ \A y \in ltvs : Min(ltvs) <= y
  BY <1>2, MinIsLeast
<1>4. PICK k \in 1..Len(path) : Min(ltvs) = Ltv(path[k])
  BY <1>1, <1>3
<1>5. DynamicLtv = Min(ltvs)
  BY DEF DynamicLtv
<1> HIDE DEF ltvs
<1>6. \A i \in 1..Len(path) : Ltv(path[i]) \in ltvs
  BY <1>1 DEF ltvs
<1> QED
  BY <1>3, <1>4, <1>5, <1>6, RowsTyped, Scalars

-----------------------------------------------------------------------------
(* The points of a scenario and their summary. *)

\* A point repeats its row.
LEMMA PointsFollowPath ==
    ASSUME PathTyped
    PROVE  /\ DOMAIN EvaluateOracle = 1..Len(path) /\ Len(EvaluateOracle) = Len(path)
           /\ Last(EvaluateOracle) = EvaluateOracle[Len(path)]
           /\ ToSet(EvaluateOracle) = {EvaluateOracle[i] : i \in 1..Len(path)}
           /\ \A i \in 1..Len(path) :
                 /\ EvaluateOracle[i].regime_flag = path[i].regime_flag
                 /\ EvaluateOracle[i].ltv_with_oracle = Ltv(path[i])
                 /\ EvaluateOracle[i].ltv_no_oracle = CF_BASE
                 /\ EvaluateOracle[i].shortfall_dynamic = Shortfall(DynamicLtv, path[i].price)
                 /\ EvaluateOracle[i].shortfall_static = Shortfall(CF_BASE, path[i].price)
<1>1. DOMAIN path = 1..Len(path) /\ Len(path) \in Nat
  BY RowsTyped
<1>2. DOMAIN EvaluateOracle = 1..Len(path)
  BY <1>1 DEF EvaluateOracle
<1>3. ASSUME NEW i \in 1..Len(path)
      PROVE  /\ EvaluateOracle[i].regime_flag = path[i].regime_flag
             /\ EvaluateOracle[i].ltv_with_oracle = Ltv(path[i])
             /\ EvaluateOracle[i].ltv_no_oracle = CF_BASE
             /\ EvaluateOracle[i].shortfall_dynamic = Shortfall(DynamicLtv, path[i].price)
             /\ EvaluateOracle[i].shortfall_static = Shortfall(CF_BASE, path[i].price)
  BY <1>1 DEF EvaluateOracle
<1>4. Len(EvaluateOracle) = Len(path)
  <2>1. EvaluateOracle \in Seq({EvaluateOracle[i] : i \in 1..Len(path)})
    BY <1>1 DEF EvaluateOracle
  <2> QED
    BY <1>1, <1>2, <2>1
<1> QED
  BY <1>2, <1>3, <1>4 DEF Last, ToSet

\* The loan at the fixed LTV is never short by less than the oracle's.
LEMMA ShortfallsOrdered ==
    ASSUME PathTyped, NEW i \in 1..Len(path)
    PROVE  /\ EvaluateOracle[i].shortfall_static \in 0..(path[1].price * CF_BASE)
           /\ EvaluateOracle[i].shortfall_dynamic \in 0..EvaluateOracle[i].shortfall_static
           /\ DynamicLtv = CF_BASE =>
                  EvaluateOracle[i].shortfall_dynamic = EvaluateOracle[i].shortfall_static
<1>1. /\ path[i].price \in Nat /\ DynamicLtv \in Nat /\ CF_BASE \in Nat /\ DynamicLtv <= CF_BASE
      /\ path[1].price \in Nat
  BY RowsTyped, DynamicIsLowest, Scalars
<1>2. /\ Shortfall(DynamicLtv, path[i].price) <= Shortfall(CF_BASE, path[i].price)
      /\ Shortfall(DynamicLtv, path[i].price) \in Nat /\ Shortfall(CF_BASE, path[i].price) \in Nat
  BY <1>1, ShortfallMonotone, ShortfallTyped
<1>3. Shortfall(CF_BASE, path[i].price) <= path[1].price * CF_BASE
  <2>1. path[1].price * CF_BASE \in Nat /\ path[i].price * ONE \in Nat
    BY <1>1, Scalars
  <2> QED
    BY <2>1 DEF Shortfall, Loss, AtLeast
<1>4. path[1].price * CF_BASE \in Nat
  BY <1>1
<1> QED
  BY <1>2, <1>3, <1>4, PointsFollowPath

\* The greatest value of a column of the points: it is in a row, and no row is above.
GreatestOf(greatest, column) ==
    /\ \E i \in 1..Len(path) : greatest = column[i]
    /\ \A i \in 1..Len(path) : column[i] <= greatest

\* The running maximum of a column is its greatest element.
LEMMA MaxOfColumn ==
    ASSUME PathTyped, NEW bound \in Nat, NEW column \in [1..Len(path) -> 0..bound]
    PROVE  GreatestOf(Max({column[i] : i \in 1..Len(path)}), column)
<1> DEFINE T == {column[i] : i \in 1..Len(path)}
<1>1. 1 \in 1..Len(path)
  BY RowsTyped
<1>2. column[1] \in T /\ T \in SUBSET (0..bound)
  BY <1>1
<1>3. Max(T) \in T /\ \A y \in T : y <= Max(T)
  BY <1>2, MaxIsGreatest
<1>4. PICK k \in 1..Len(path) : Max(T) = column[k]
  BY <1>3
<1>5. \A i \in 1..Len(path) : column[i] \in T
  OBVIOUS
<1> HIDE DEF T
<1>6. GreatestOf(Max(T), column)
  BY <1>3, <1>4, <1>5 DEF GreatestOf
<1> QED
  BY <1>6 DEF T

StaticColumn    == [i \in 1..Len(path) |-> EvaluateOracle[i].shortfall_static]
DynamicColumn   == [i \in 1..Len(path) |-> EvaluateOracle[i].shortfall_dynamic]
PreventedColumn == [i \in 1..Len(path) |->
                       EvaluateOracle[i].shortfall_static - EvaluateOracle[i].shortfall_dynamic]
CutColumn       == [i \in 1..Len(path) |-> CF_BASE - Ltv(path[i])]

\* The columns are of bounded amounts.
LEMMA ColumnsTyped ==
    ASSUME PathTyped
    PROVE  LET bound == path[1].price * CF_BASE IN
           /\ bound \in Nat
           /\ StaticColumn \in [1..Len(path) -> 0..bound]
           /\ DynamicColumn \in [1..Len(path) -> 0..bound]
           /\ PreventedColumn \in [1..Len(path) -> 0..bound]
           /\ CutColumn \in [1..Len(path) -> 0..CF_BASE]
<1> DEFINE bound == path[1].price * CF_BASE
<1>1. path[1].price \in Nat /\ CF_BASE \in Nat /\ LTV_FLOOR \in Nat
  BY RowsTyped, Scalars
<1>2. bound \in Nat
  BY <1>1
<1>3. \A i \in 1..Len(path) :
         /\ EvaluateOracle[i].shortfall_static \in 0..bound
         /\ EvaluateOracle[i].shortfall_dynamic \in 0..EvaluateOracle[i].shortfall_static
  BY ShortfallsOrdered
<1> HIDE DEF bound
<1>4. \A i \in 1..Len(path) :
         /\ EvaluateOracle[i].shortfall_dynamic \in 0..bound
         /\ EvaluateOracle[i].shortfall_static - EvaluateOracle[i].shortfall_dynamic \in 0..bound
  BY <1>2, <1>3
<1>5. \A i \in 1..Len(path) : CF_BASE - Ltv(path[i]) \in 0..CF_BASE
  BY <1>1, RowsTyped
<1>6. /\ bound \in Nat
      /\ StaticColumn \in [1..Len(path) -> 0..bound]
      /\ DynamicColumn \in [1..Len(path) -> 0..bound]
      /\ PreventedColumn \in [1..Len(path) -> 0..bound]
      /\ CutColumn \in [1..Len(path) -> 0..CF_BASE]
  BY <1>2, <1>3, <1>4, <1>5 DEF StaticColumn, DynamicColumn, PreventedColumn, CutColumn
<1> QED
  BY <1>6 DEF bound

\* The sets the programs take the greatest value of are these columns.
LEMMA ColumnsAreSets ==
    ASSUME PathTyped
    PROVE  LET rows == ToSet(EvaluateOracle) IN
           /\ {p.shortfall_static : p \in rows} = {StaticColumn[i] : i \in 1..Len(path)}
           /\ {p.shortfall_dynamic : p \in rows} = {DynamicColumn[i] : i \in 1..Len(path)}
           /\ {p.shortfall_static - p.shortfall_dynamic : p \in rows}
                  = {PreventedColumn[i] : i \in 1..Len(path)}
           /\ {AtLeast(p.shortfall_static - p.shortfall_dynamic, 0) : p \in rows}
                  = {PreventedColumn[i] : i \in 1..Len(path)}
           /\ {p.ltv_no_oracle - p.ltv_with_oracle : p \in rows}
                  = {CutColumn[i] : i \in 1..Len(path)}
           /\ {p.ltv_no_oracle : p \in rows} = {CF_BASE}
           /\ {p.ltv_with_oracle : p \in rows} = {Ltv(path[i]) : i \in DOMAIN path}
<1> DEFINE n == Len(path)
           point == EvaluateOracle
           rows == ToSet(point)
<1>1. rows = {point[i] : i \in 1..n} /\ DOMAIN path = 1..n /\ 1 \in 1..n
  BY PointsFollowPath, RowsTyped
<1>2. \A i \in 1..n : /\ point[i].ltv_with_oracle = Ltv(path[i]) /\ point[i].ltv_no_oracle = CF_BASE
                      /\ StaticColumn[i] = point[i].shortfall_static
                      /\ DynamicColumn[i] = point[i].shortfall_dynamic
                      /\ PreventedColumn[i] = point[i].shortfall_static - point[i].shortfall_dynamic
                      /\ CutColumn[i] = CF_BASE - Ltv(path[i])
  BY PointsFollowPath DEF StaticColumn, DynamicColumn, PreventedColumn, CutColumn
<1>3. \A i \in 1..n : AtLeast(point[i].shortfall_static - point[i].shortfall_dynamic, 0)
                          = PreventedColumn[i]
  <2> TAKE i \in 1..n
  <2>1. PreventedColumn[i] \in Int /\ PreventedColumn[i] >= 0
    BY ColumnsTyped
  <2> QED
    BY <1>2, <2>1 DEF AtLeast
<1> HIDE DEF n, rows, point
<1>4. {p.shortfall_static : p \in rows} = {StaticColumn[i] : i \in 1..n}
  BY <1>1, <1>2
<1>5. {p.shortfall_dynamic : p \in rows} = {DynamicColumn[i] : i \in 1..n}
  BY <1>1, <1>2
<1>6. {p.shortfall_static - p.shortfall_dynamic : p \in rows} = {PreventedColumn[i] : i \in 1..n}
  BY <1>1, <1>2
<1>7. {AtLeast(p.shortfall_static - p.shortfall_dynamic, 0) : p \in rows}
          = {PreventedColumn[i] : i \in 1..n}
  BY <1>1, <1>3
<1>8. {p.ltv_no_oracle - p.ltv_with_oracle : p \in rows} = {CutColumn[i] : i \in 1..n}
  BY <1>1, <1>2
<1>9. {p.ltv_no_oracle : p \in rows} = {CF_BASE}
  BY <1>1, <1>2
<1>10. {p.ltv_with_oracle : p \in rows} = {Ltv(path[i]) : i \in DOMAIN path}
  BY <1>1, <1>2
<1> QED
  BY <1>4, <1>5, <1>6, <1>7, <1>8, <1>9, <1>10 DEF n, rows, point

\* What a summary says of its path.
LEMMA SummaryFacts ==
    ASSUME PathTyped
    PROVE  LET summary == Summarize(EvaluateOracle) IN
           /\ summary.row_count = Len(path)
           /\ summary.critical_rows = CriticalRows(EvaluateOracle)
           /\ GreatestOf(summary.peak_shortfall_static, StaticColumn)
           /\ GreatestOf(summary.peak_shortfall_dynamic, DynamicColumn)
           /\ GreatestOf(summary.max_loss_prevented, PreventedColumn)
           /\ summary.peak_ltv_cut = CF_BASE - DynamicLtv
           /\ summary.final_dynamic_ltv = Ltv(Last(path))
           /\ summary.final_static_ltv = CF_BASE
           /\ summary.recovered_to_monitoring = (Last(path).regime_flag = 0)
<1> DEFINE summary == Summarize(EvaluateOracle)
           rows == ToSet(EvaluateOracle)
<1>1. /\ summary.row_count = Len(EvaluateOracle)
      /\ summary.critical_rows = CriticalRows(EvaluateOracle)
      /\ summary.peak_shortfall_static = Max({p.shortfall_static : p \in rows})
      /\ summary.peak_shortfall_dynamic = Max({p.shortfall_dynamic : p \in rows})
      /\ summary.max_loss_prevented =
             Max({AtLeast(p.shortfall_static - p.shortfall_dynamic, 0) : p \in rows})
      /\ summary.peak_ltv_cut = Max({p.ltv_no_oracle - p.ltv_with_oracle : p \in rows})
      /\ summary.final_dynamic_ltv = Last(EvaluateOracle).ltv_with_oracle
      /\ summary.final_static_ltv = Last(EvaluateOracle).ltv_no_oracle
      /\ summary.recovered_to_monitoring = (Last(EvaluateOracle).regime_flag = 0)
  BY DEF Summarize
<1> HIDE DEF summary, rows
<1>2. PICK bound \in Nat : /\ StaticColumn \in [1..Len(path) -> 0..bound]
                           /\ DynamicColumn \in [1..Len(path) -> 0..bound]
                           /\ PreventedColumn \in [1..Len(path) -> 0..bound]
  BY ColumnsTyped
<1>3. /\ GreatestOf(Max({StaticColumn[i] : i \in 1..Len(path)}), StaticColumn)
      /\ GreatestOf(Max({DynamicColumn[i] : i \in 1..Len(path)}), DynamicColumn)
      /\ GreatestOf(Max({PreventedColumn[i] : i \in 1..Len(path)}), PreventedColumn)
  BY <1>2, MaxOfColumn
<1>4. summary.peak_ltv_cut = CF_BASE - DynamicLtv
  <2>1. GreatestOf(Max({CutColumn[i] : i \in 1..Len(path)}), CutColumn)
    BY ColumnsTyped, Scalars, MaxOfColumn
  <2>2. summary.peak_ltv_cut = Max({CutColumn[i] : i \in 1..Len(path)})
    BY <1>1, ColumnsAreSets DEF rows
  <2>3. PICK k \in 1..Len(path) : summary.peak_ltv_cut = CF_BASE - Ltv(path[k])
    BY <2>1, <2>2 DEF GreatestOf, CutColumn
  <2>4. PICK low \in 1..Len(path) : DynamicLtv = Ltv(path[low])
    BY DynamicIsLowest
  <2>5. CF_BASE - Ltv(path[low]) <= summary.peak_ltv_cut
    BY <2>1, <2>2 DEF GreatestOf, CutColumn
  <2>6. /\ DynamicLtv <= Ltv(path[k]) /\ DynamicLtv \in Nat /\ CF_BASE \in Nat
        /\ Ltv(path[k]) \in Nat
    BY DynamicIsLowest, RowsTyped, Scalars
  <2> QED
    BY <2>3, <2>4, <2>5, <2>6
<1>5. Last(EvaluateOracle) = EvaluateOracle[Len(path)] /\ Len(path) \in 1..Len(path)
  BY PointsFollowPath, RowsTyped
<1>6. /\ Last(EvaluateOracle).ltv_with_oracle = Ltv(Last(path))
      /\ Last(EvaluateOracle).ltv_no_oracle = CF_BASE
      /\ Last(EvaluateOracle).regime_flag = Last(path).regime_flag
  BY <1>5, PointsFollowPath, RowsTyped
<1>7. /\ GreatestOf(summary.peak_shortfall_static, StaticColumn)
      /\ GreatestOf(summary.peak_shortfall_dynamic, DynamicColumn)
      /\ GreatestOf(summary.max_loss_prevented, PreventedColumn)
  BY <1>1, <1>3, ColumnsAreSets DEF rows
<1> QED
  BY <1>1, <1>4, <1>6, <1>7, PointsFollowPath DEF summary

-----------------------------------------------------------------------------
(* The readers of a scenario. *)

\* verify-data.mjs accepts what the simulation wrote.
LEMMA VerifierAccepts ==
    ASSUME PathTyped
    PROVE  VerifyScenario(Scenario)
<1> DEFINE rows == ToSet(EvaluateOracle)
           summary == Summarize(EvaluateOracle)
<1>1. Scenario.points = EvaluateOracle /\ Scenario.summary = summary
  BY DEF Scenario
<1>2. summary.row_count = Len(EvaluateOracle)
      /\ summary.critical_rows = CriticalRows(EvaluateOracle)
      /\ summary.critical_duration_ratio = <<CriticalRows(EvaluateOracle), Len(EvaluateOracle)>>
  BY SummaryFacts, PointsFollowPath DEF Summarize
<1>3. /\ summary.peak_shortfall_static = Max({p.shortfall_static : p \in rows})
      /\ summary.peak_shortfall_dynamic = Max({p.shortfall_dynamic : p \in rows})
      /\ summary.max_loss_prevented =
             Max({AtLeast(p.shortfall_static - p.shortfall_dynamic, 0) : p \in rows})
  BY DEF Summarize
<1>4. summary.max_loss_prevented = Max({p.shortfall_static - p.shortfall_dynamic : p \in rows})
  BY <1>3, ColumnsAreSets
<1>5. summary.peak_ltv_cut =
          Max({p.ltv_no_oracle : p \in rows}) - Min({p.ltv_with_oracle : p \in rows})
  <2>1. Max({CF_BASE}) = CF_BASE
    <3>1. CF_BASE \in Nat /\ {CF_BASE} \in SUBSET (0..CF_BASE) /\ {CF_BASE} # {}
      BY Scalars
    <3> QED
      BY <3>1, MaxIsGreatest
  <2>2. Min({Ltv(path[i]) : i \in DOMAIN path}) = DynamicLtv
    BY DEF DynamicLtv
  <2> QED
    BY <2>1, <2>2, SummaryFacts, ColumnsAreSets
<1>6. ASSUME NEW p \in rows
      PROVE  /\ p.ltv_with_oracle \in LTV_FLOOR..CF_BASE
             /\ p.ltv_no_oracle = CF_BASE
             /\ p.regime_flag = 1 => p.ltv_with_oracle = LTV_FLOOR
  <2>1. PICK i \in 1..Len(path) : p = EvaluateOracle[i]
    BY PointsFollowPath
  <2> QED
    BY <2>1, PointsFollowPath, RowsTyped
<1> HIDE DEF rows, summary
<1> QED
  BY <1>1, <1>2, <1>3, <1>4, <1>5, <1>6 DEF VerifyScenario, rows

\* There are critical rows exactly if one can be named.
LEMMA CriticalRowsCounted ==
    ASSUME PathTyped
    PROVE  (CriticalRows(EvaluateOracle) > 0)
               <=> \E i \in 1..Len(path) : path[i].regime_flag = 1
<1> DEFINE rows == {i \in DOMAIN EvaluateOracle : EvaluateOracle[i].regime_flag = 1}
<1>1. Len(path) \in Nat /\ DOMAIN EvaluateOracle = 1..Len(path)
  BY RowsTyped, PointsFollowPath
<1>2. IsFiniteSet(rows)
  <2>1. IsFiniteSet(1..Len(path)) /\ rows \subseteq 1..Len(path)
    BY <1>1, FS_Interval
  <2> QED
    BY <2>1, FS_Subset
<1>3. Cardinality(rows) > 0 <=> rows # {}
  BY <1>2, FS_CardinalityType, FS_EmptySet
<1>4. rows = {i \in 1..Len(path) : path[i].regime_flag = 1}
  BY <1>1, PointsFollowPath
<1> QED
  BY <1>3, <1>4 DEF CriticalRows

\* A path with a critical row can be the default scenario.
LEMMA DefaultAccepts ==
    ASSUME PathTyped, Scenario.summary.critical_rows > 0
    PROVE  VerifyDefaultScenario(Scenario)
<1>1. Scenario.points = EvaluateOracle /\ Scenario.summary = Summarize(EvaluateOracle)
  BY DEF Scenario
<1>2. PICK i \in 1..Len(path) : path[i].regime_flag = 1
  BY <1>1, SummaryFacts, CriticalRowsCounted
<1>3. DynamicLtv = LTV_FLOOR
  <2>1. Ltv(path[i]) = LTV_FLOOR /\ DynamicLtv <= Ltv(path[i])
    BY <1>2, RowsTyped, DynamicIsLowest
  <2>2. DynamicLtv \in LTV_FLOOR..CF_BASE
    BY DynamicIsLowest
  <2> QED
    BY <2>1, <2>2, Scalars
<1>4. {EvaluateOracle[k].ltv_with_oracle : k \in DOMAIN EvaluateOracle}
          = {Ltv(path[k]) : k \in DOMAIN path}
  <2>1. DOMAIN EvaluateOracle = DOMAIN path /\ DOMAIN path = 1..Len(path)
    BY RowsTyped, PointsFollowPath
  <2> QED
    BY <2>1, PointsFollowPath
<1> QED
  BY <1>1, <1>3, <1>4 DEF VerifyDefaultScenario, DynamicLtv

\* What a cut saves of a loan is at most what a deeper cut saves of a larger one.
LEMMA LossSaved ==
    ASSUME NEW opened \in Nat, NEW first \in Nat, opened <= first,
           NEW ltv \in Nat, NEW low \in Nat, NEW high \in Nat, low <= ltv, ltv <= high,
           NEW price \in Nat
    PROVE  /\ Loss(opened, high, price) \in Nat /\ Loss(opened, ltv, price) \in Nat
           /\ Loss(first, high, price) \in Nat /\ Loss(first, low, price) \in Nat
           /\ Loss(opened, high, price) - Loss(opened, ltv, price)
                  <= Loss(first, high, price) - Loss(first, low, price)
<1> DEFINE x == price * ONE
           a == opened * high
           b == opened * ltv
           A == first * high
           B == first * low
<1>1. x \in Nat /\ a \in Nat /\ b \in Nat /\ A \in Nat /\ B \in Nat
  BY Scalars
<1>2. b <= a /\ B <= A
  BY ProductMonotone
<1>3. a <= A
  <2>1. high * opened <= high * first
    BY ProductMonotone
  <2>2. high * opened = a /\ high * first = A
    OBVIOUS
  <2> QED
    BY <2>1, <2>2
<1>4. a - b <= A - B
  <2> DEFINE cut == high - ltv
             deep == high - low
  <2>1. cut \in Nat /\ deep \in Nat /\ cut <= deep
    OBVIOUS
  <2>2. opened * cut = a - b /\ first * deep = A - B
    OBVIOUS
  <2> HIDE DEF cut, deep, a, b, A, B
  <2>3. cut * opened <= cut * first
    BY <2>1, ProductMonotone
  <2>4. first * cut <= first * deep
    BY <2>1, ProductMonotone
  <2>5. cut * opened = opened * cut /\ cut * first = first * cut
    BY <2>1
  <2>6. opened * cut \in Int /\ first * cut \in Int /\ first * deep \in Int
    BY <2>1
  <2> QED
    BY <2>2, <2>3, <2>4, <2>5, <2>6
<1>5. /\ Loss(opened, high, price) = AtLeast(a - x, 0) /\ Loss(opened, ltv, price) = AtLeast(b - x, 0)
      /\ Loss(first, high, price) = AtLeast(A - x, 0) /\ Loss(first, low, price) = AtLeast(B - x, 0)
  BY DEF Loss
<1> HIDE DEF x, a, b, A, B
<1> QED
  BY <1>1, <1>2, <1>3, <1>4, <1>5 DEF AtLeast

\* The figure of the replay bounds what is saved on every loan that is taken at no
\* more than the first price.
LEMMA LossBounded ==
    ASSUME PathTyped
    PROVE  LossWithinPath(Scenario)
<1> SUFFICES ASSUME NEW i \in 1..Len(path), NEW j \in 1..i, NEW k \in 1..j,
                    path[j].price <= path[1].price
             PROVE  Loss(path[j].price, CF_BASE, path[i].price)
                      - Loss(path[j].price, Ltv(path[k]), path[i].price)
                          <= Scenario.summary.max_loss_prevented
  BY RowsTyped DEF LossWithinPath
<1>1. j \in 1..Len(path) /\ k \in 1..Len(path) /\ 1 \in 1..Len(path)
  BY RowsTyped
<1>2. /\ path[i].price \in Nat /\ path[j].price \in Nat /\ path[1].price \in Nat
      /\ Ltv(path[k]) \in Nat /\ Ltv(path[k]) <= CF_BASE /\ CF_BASE \in Nat
      /\ DynamicLtv \in Nat /\ DynamicLtv <= Ltv(path[k])
  BY <1>1, RowsTyped, DynamicIsLowest, Scalars
<1>3. /\ Loss(path[j].price, CF_BASE, path[i].price)
           - Loss(path[j].price, Ltv(path[k]), path[i].price)
               <= Loss(path[1].price, CF_BASE, path[i].price)
                    - Loss(path[1].price, DynamicLtv, path[i].price)
      /\ Loss(path[j].price, CF_BASE, path[i].price) \in Nat
      /\ Loss(path[j].price, Ltv(path[k]), path[i].price) \in Nat
      /\ Loss(path[1].price, CF_BASE, path[i].price) \in Nat
      /\ Loss(path[1].price, DynamicLtv, path[i].price) \in Nat
  BY <1>2, LossSaved
<1>4. PreventedColumn[i] = Loss(path[1].price, CF_BASE, path[i].price)
                             - Loss(path[1].price, DynamicLtv, path[i].price)
  BY PointsFollowPath DEF PreventedColumn, Shortfall
<1>5. GreatestOf(Scenario.summary.max_loss_prevented, PreventedColumn)
  BY SummaryFacts DEF Scenario
<1>6. Scenario.summary.max_loss_prevented \in Int
  <2>1. PICK r \in 1..Len(path) : Scenario.summary.max_loss_prevented = PreventedColumn[r]
    BY <1>5 DEF GreatestOf
  <2>2. path[1].price * CF_BASE \in Nat /\ PreventedColumn[r] \in 0..(path[1].price * CF_BASE)
    BY ColumnsTyped
  <2> QED
    BY <2>1, <2>2
<1>7. PreventedColumn[i] <= Scenario.summary.max_loss_prevented
  BY <1>5 DEF GreatestOf
<1> QED
  BY <1>3, <1>4, <1>6, <1>7

\* The first row with a mark, zero if there is none.
FirstOf(marked) == IF marked = {} THEN 0 ELSE Min(marked)

CriticalAt(points) == {i \in 1..Len(points) : points[i].regime_flag = 1}
CutAt(points) == {i \in 1..Len(points) : points[i].ltv_with_oracle < points[i].ltv_no_oracle}

\* Both command lines search the points from the first one.
LEMMA FirstRows ==
    ASSUME NEW s, NEW units, NEW flag
    PROVE  /\ PolicyProof(s, units, flag).first_critical = FirstOf(CriticalAt(s.points))
           /\ ScenarioLab(s).first_critical = FirstOf(CriticalAt(s.points))
           /\ ScenarioLab(s).first_cut = FirstOf(CutAt(s.points))
BY DEF PolicyProof, ScenarioLab, SelectInSeq, FirstOf, CriticalAt, CutAt

\* policy-proof, by the last row's LTV: the amounts are doubled.
LEMMA ProofByLastRow ==
    ASSUME PathTyped, NEW flag
    PROVE  LET ltv   == Ltv(Last(path))
               asked == IF flag = {} THEN CF_BASE + ltv ELSE 2 * Max(flag)
               proof == PolicyProof(Scenario, 1, flag)
           IN  /\ proof.static_decision = (asked <= 2 * CF_BASE)
               /\ proof.stress_decision = (asked <= 2 * ltv)
               /\ proof.credit_removed = 2 * CF_BASE - 2 * ltv
<1> DEFINE ltv == Ltv(Last(path))
<1>1. ltv \in Nat /\ CF_BASE \in Nat /\ ltv <= CF_BASE
  BY RowsTyped, Scalars
<1>2. Scenario.summary.final_static_ltv = CF_BASE /\ Scenario.summary.final_dynamic_ltv = ltv
  BY SummaryFacts DEF Scenario
<1> HIDE DEF ltv
<1>3. 2 * 1 * ltv + (2 * 1 * CF_BASE - 2 * 1 * ltv) \div 2 = CF_BASE + ltv
  BY <1>1
<1>4. 2 * 1 * CF_BASE = 2 * CF_BASE /\ 2 * 1 * ltv = 2 * ltv
  BY <1>1
<1> QED
  BY <1>2, <1>3, <1>4 DEF PolicyProof, ltv

\* policy-proof stays within the path's figures.
LEMMA ProofAgrees ==
    ASSUME PathTyped
    PROVE  ProofWithinPath(Scenario)
<1> DEFINE ltv == Ltv(Last(path))
           P(flag) == PolicyProof(Scenario, 1, flag)
<1>1. /\ ltv \in Nat /\ CF_BASE \in Nat /\ ltv <= CF_BASE
      /\ DynamicLtv \in Nat /\ DynamicLtv <= ltv
  BY RowsTyped, DynamicIsLowest, Scalars
<1>2. Scenario.summary.peak_ltv_cut = CF_BASE - DynamicLtv
  BY SummaryFacts DEF Scenario
<1>3. /\ P({}).static_decision = (CF_BASE + ltv <= 2 * CF_BASE)
      /\ P({}).stress_decision = (CF_BASE + ltv <= 2 * ltv)
      /\ P({}).credit_removed = 2 * CF_BASE - 2 * ltv
  BY ProofByLastRow
<1>4. ASSUME NEW request \in Requests
      PROVE  P({request}).stress_decision => P({request}).static_decision
  <2>1. request \in Nat /\ {request} # {}
    BY StressAssumption
  <2>2. Max({request}) = request
    <3>1. {request} \in SUBSET (0..request)
      BY <2>1
    <3> QED
      BY <2>1, <3>1, MaxIsGreatest
  <2>3. /\ P({request}).static_decision = (2 * request <= 2 * CF_BASE)
        /\ P({request}).stress_decision = (2 * request <= 2 * ltv)
    BY <2>1, <2>2, ProofByLastRow
  <2>4. 2 * request <= 2 * ltv => 2 * request <= 2 * CF_BASE
    BY <1>1, <2>1
  <2> QED
    BY <2>3, <2>4
<1>5. P({}).first_critical = ScenarioLab(Scenario).first_critical
  BY FirstRows
<1> HIDE DEF P
<1>6. /\ P({}).credit_removed <= 2 * Scenario.summary.peak_ltv_cut
      /\ (P({}).static_decision # P({}).stress_decision) <=> (ltv < CF_BASE)
  BY <1>1, <1>2, <1>3
<1> QED
  BY <1>4, <1>5, <1>6 DEF ProofWithinPath, P

\* The first cut is no later than the first critical row, and no path is counted
\* both as a false positive and as a loss prevented.
LEMMA LabAgrees ==
    ASSUME PathTyped
    PROVE  LabWithinPath(Scenario)
<1> DEFINE lab == ScenarioLab(Scenario)
           n == Len(path)
<1>1. /\ Scenario.points = EvaluateOracle /\ Len(EvaluateOracle) = n /\ n \in Nat
      /\ Scenario.summary = Summarize(EvaluateOracle)
  BY PointsFollowPath, RowsTyped DEF Scenario
<1>2. CriticalAt(EvaluateOracle) \subseteq CutAt(EvaluateOracle)
  <2> SUFFICES ASSUME NEW i \in 1..n, EvaluateOracle[i].regime_flag = 1
               PROVE  EvaluateOracle[i].ltv_with_oracle < EvaluateOracle[i].ltv_no_oracle
    BY <1>1 DEF CriticalAt, CutAt
  <2> QED
    BY PointsFollowPath, RowsTyped, Scalars
<1>3. CutAt(EvaluateOracle) \in SUBSET Nat /\ CriticalAt(EvaluateOracle) \in SUBSET Nat
      /\ \A i \in CutAt(EvaluateOracle) : i >= 1
  BY <1>1 DEF CriticalAt, CutAt
<1>4. lab.first_critical > 0 => lab.first_cut \in 1..lab.first_critical
  <2> DEFINE critical == CriticalAt(EvaluateOracle)
             cut == CutAt(EvaluateOracle)
  <2>1. lab.first_critical = FirstOf(critical) /\ lab.first_cut = FirstOf(cut)
    BY <1>1, FirstRows
  <2> SUFFICES ASSUME FirstOf(critical) > 0 PROVE FirstOf(cut) \in 1..FirstOf(critical)
    BY <2>1
  <2>2. critical # {} /\ cut # {}
    BY <1>2 DEF FirstOf
  <2>3. Min(critical) \in critical /\ Min(cut) \in cut /\ \A i \in cut : Min(cut) <= i
    BY <1>3, <2>2, MinIsLeast
  <2> QED
    BY <1>2, <1>3, <2>2, <2>3 DEF FirstOf
<1>5. ~(lab.false_positive /\ lab.max_loss_prevented > 0)
  <2>1. /\ lab.false_positive => Summarize(EvaluateOracle).peak_shortfall_static = 0
        /\ lab.max_loss_prevented = Summarize(EvaluateOracle).max_loss_prevented
    BY <1>1 DEF ScenarioLab
  <2>2. /\ GreatestOf(Summarize(EvaluateOracle).peak_shortfall_static, StaticColumn)
        /\ GreatestOf(Summarize(EvaluateOracle).max_loss_prevented, PreventedColumn)
    BY SummaryFacts
  <2>3. PICK i \in 1..n : Summarize(EvaluateOracle).max_loss_prevented = PreventedColumn[i]
    BY <2>2 DEF GreatestOf
  <2>4. /\ StaticColumn[i] = EvaluateOracle[i].shortfall_static
        /\ PreventedColumn[i] =
               EvaluateOracle[i].shortfall_static - EvaluateOracle[i].shortfall_dynamic
    BY DEF StaticColumn, PreventedColumn
  <2>5. StaticColumn[i] <= Summarize(EvaluateOracle).peak_shortfall_static
    BY <2>2 DEF GreatestOf
  <2>6. /\ EvaluateOracle[i].shortfall_static \in 0..(path[1].price * CF_BASE)
        /\ EvaluateOracle[i].shortfall_dynamic \in 0..EvaluateOracle[i].shortfall_static
        /\ path[1].price * CF_BASE \in Nat
    BY ShortfallsOrdered, ColumnsTyped
  <2>7. /\ EvaluateOracle[i].shortfall_static \in Nat /\ EvaluateOracle[i].shortfall_dynamic \in Nat
    BY <2>6
  <2> QED
    BY <2>1, <2>3, <2>4, <2>5, <2>7
<1> QED
  BY <1>4, <1>5 DEF LabWithinPath

\* The demo's stressed limit is the static one less the peak cut, and what it
\* shows as removed is at least what policy-proof calls removed.
LEMMA DemoAgrees ==
    ASSUME PathTyped
    PROVE  DemoWithinPath(Scenario)
<1> SUFFICES ASSUME NEW haircut \in Haircuts
             PROVE  LET Demo(market) ==
                            BorrowDemo(Scenario, Snapshot(Last(path), haircut, TRUE), 1, market)
                    IN  /\ Demo("stress").fallback_max = CF_BASE - Scenario.summary.peak_ltv_cut
                        /\ PolicyProof(Scenario, 1, {}).credit_removed <= 2 * Demo("stress").removed
                        /\ Demo("normal").removed \in 0..Demo("stress").removed
  BY DEF DemoWithinPath
<1> DEFINE snapshot == Snapshot(Last(path), haircut, TRUE)
           Demo(market) == BorrowDemo(Scenario, snapshot, 1, market)
           lowest == Min({Scenario.points[i].ltv_with_oracle : i \in DOMAIN Scenario.points})
<1>1. lowest = DynamicLtv
  <2>1. /\ Scenario.points = EvaluateOracle /\ DOMAIN EvaluateOracle = DOMAIN path
        /\ DOMAIN path = 1..Len(path)
    BY PointsFollowPath, RowsTyped DEF Scenario
  <2>2. {EvaluateOracle[i].ltv_with_oracle : i \in DOMAIN path} = {Ltv(path[i]) : i \in DOMAIN path}
    BY <2>1, PointsFollowPath
  <2> QED
    BY <2>1, <2>2 DEF DynamicLtv
<1>2. snapshot.suggested_ltv \in LTV_FLOOR..CF_BASE
  <2>1. haircut[1] \in 0..MAX_LIQUIDITY_HAIRCUT /\ haircut[2] \in 0..MAX_DATA_QUALITY_HAIRCUT
    BY StressAssumption
  <2> QED
    BY <2>1, RowsTyped, LtvBounds DEF Snapshot, BuildRiskPayload
<1>3. /\ DynamicLtv \in Nat /\ DynamicLtv <= CF_BASE /\ CF_BASE \in Nat /\ LTV_FLOOR \in Nat
      /\ Ltv(Last(path)) \in Nat
  BY DynamicIsLowest, RowsTyped, Scalars
<1>4. Scenario.summary.peak_ltv_cut = CF_BASE - DynamicLtv
  BY SummaryFacts DEF Scenario
<1>5. PolicyProof(Scenario, 1, {}).credit_removed = 2 * CF_BASE - 2 * Ltv(Last(path))
  BY ProofByLastRow
<1>6. /\ Demo("stress").fallback_max = 1 * lowest
      /\ Demo("stress").removed = 1 * CF_BASE - 1 * 0
      /\ Demo("normal").removed = 1 * CF_BASE - 1 * snapshot.suggested_ltv
  BY DEF BorrowDemo
<1> HIDE DEF Demo, snapshot, lowest
<1>7. /\ Demo("stress").fallback_max = CF_BASE - Scenario.summary.peak_ltv_cut
      /\ PolicyProof(Scenario, 1, {}).credit_removed <= 2 * Demo("stress").removed
      /\ Demo("normal").removed \in 0..Demo("stress").removed
  BY <1>1, <1>2, <1>3, <1>4, <1>5, <1>6
<1> QED
  BY <1>7 DEF Demo, snapshot

-----------------------------------------------------------------------------
(* The chart. *)

Critical(i) == EvaluateOracle[i].regime_flag = 1

\* A stretch of critical rows that no row could extend.
IsRun(first, last) ==
    /\ first \in 1..Len(path) /\ last \in 1..Len(path)
    /\ first <= last
    /\ \A i \in first..last : Critical(i)
    /\ first > 1 => ~Critical(first - 1)
    /\ last < Len(path) => ~Critical(last + 1)

\* The band of such a stretch.
BandOf(first, last) ==
    [x0 |-> X(EvaluateOracle, 2 * first - 3),
     x1 |-> X(EvaluateOracle, IF last = Len(path) THEN 2 * last - 2 ELSE 2 * last - 1)]

\* Every critical row is in one of these stretches: the first row that only
\* critical rows part from it begins it, the last such row ends it.
LEMMA RunAround ==
    ASSUME PathTyped, NEW row \in 1..Len(path), Critical(row)
    PROVE  \E first \in 1..row, last \in row..Len(path) : IsRun(first, last)
<1> DEFINE n == Len(path)
           before == {j \in 1..row : \A i \in j..row : Critical(i)}
           after == {j \in row..n : \A i \in row..j : Critical(i)}
<1>1. n \in Nat /\ row \in Nat /\ row <= n /\ row >= 1
  BY RowsTyped
<1>2. before \in SUBSET Nat /\ row \in before
  <2>1. \A i \in row..row : i = row
    BY <1>1
  <2> QED
    BY <1>1, <2>1
<1>3. PICK first \in before : \A j \in before : first <= j
  BY <1>2, MinIsLeast
<1>4. PICK last \in after : \A j \in after : j <= last
  <2>1. after \in SUBSET (0..n)
    BY <1>1
  <2>2. row \in after
    <3>1. \A i \in row..row : i = row
      BY <1>1
    <3> QED
      BY <1>1, <3>1
  <2> QED
    BY <1>1, <2>1, <2>2, MaxIsGreatest
<1>5. /\ first \in 1..row /\ last \in row..n
      /\ \A i \in first..row : Critical(i)
      /\ \A i \in row..last : Critical(i)
  OBVIOUS
<1>6. ASSUME first > 1, Critical(first - 1) PROVE FALSE
  <2>1. first - 1 \in 1..row
    BY <1>1, <1>5, <1>6
  <2>2. \A i \in (first - 1)..row : i = first - 1 \/ i \in first..row
    BY <1>1, <1>5
  <2>3. first - 1 \in before
    BY <1>5, <1>6, <2>1, <2>2
  <2> QED
    BY <1>1, <1>3, <1>5, <2>3
<1>7. ASSUME last < n, Critical(last + 1) PROVE FALSE
  <2>1. last + 1 \in row..n
    BY <1>1, <1>5, <1>7
  <2>2. \A i \in row..(last + 1) : i = last + 1 \/ i \in row..last
    BY <1>1, <1>5
  <2>3. last + 1 \in after
    BY <1>5, <1>7, <2>1, <2>2
  <2> QED
    BY <1>1, <1>4, <1>5, <2>3
<1>8. \A i \in first..last : Critical(i)
  <2>1. \A i \in first..last : i \in first..row \/ i \in row..last
    BY <1>1, <1>5
  <2> QED
    BY <1>5, <2>1
<1>9. first \in 1..n /\ last \in 1..n /\ first <= last
  BY <1>1, <1>5
<1> HIDE DEF before, after
<1>10. IsRun(first, last)
  BY <1>6, <1>7, <1>8, <1>9 DEF IsRun
<1> QED
  BY <1>5, <1>10

\* The bands are those of the stretches.
LEMMA BandsAreRuns ==
    ASSUME PathTyped, NEW band
    PROVE  band \in CriticalBands(EvaluateOracle)
               <=> \E first, last \in 1..Len(path) :
                        IsRun(first, last) /\ band = BandOf(first, last)
<1> DEFINE n == Len(path)
           runs == {run \in (1..n) \X (1..n) : IsRun(run[1], run[2])}
<1>1. Len(EvaluateOracle) = n
  BY PointsFollowPath
<1>2. CriticalBands(EvaluateOracle) = {BandOf(run[1], run[2]) : run \in runs}
  BY <1>1 DEF CriticalBands, BandOf, IsRun, Critical
<1>3. ASSUME NEW first \in 1..n, NEW last \in 1..n, IsRun(first, last)
      PROVE  BandOf(first, last) \in {BandOf(run[1], run[2]) : run \in runs}
  <2>1. <<first, last>> \in runs /\ <<first, last>>[1] = first /\ <<first, last>>[2] = last
    BY <1>3
  <2> QED
    BY <2>1
<1> HIDE DEF runs
<1>4. \A run \in runs : run[1] \in 1..n /\ run[2] \in 1..n /\ IsRun(run[1], run[2])
  BY DEF runs
<1> QED
  BY <1>2, <1>3, <1>4

PlotEnd == X(EvaluateOracle, 2 * Len(EvaluateOracle) - 2)

ShadedAt(half) ==
    \E band \in CriticalBands(EvaluateOracle) :
        band.x0 <= half /\ (half < band.x1 \/ (half = PlotEnd /\ band.x1 = PlotEnd))

\* A position is shaded exactly if the row it belongs to is critical.
LEMMA ShadedIsCritical ==
    ASSUME PathTyped, Len(path) > 1, NEW half \in Int, NEW row \in 1..Len(path),
           2 * row - 3 <= half, half <= 2 * row - 2
    PROVE  ShadedAt(half) <=> Critical(row)
<1> DEFINE n == Len(path)
<1>1. n \in Nat /\ row \in Nat /\ row <= n /\ Len(EvaluateOracle) = n
  BY RowsTyped, PointsFollowPath
<1>2. PlotEnd = 2 * n - 2
  BY <1>1 DEF PlotEnd, X
<1>3. ASSUME NEW first \in 1..n, NEW last \in 1..n
      PROVE  /\ BandOf(first, last).x0 = 2 * first - 3
             /\ BandOf(first, last).x1 = IF last = n THEN 2 * n - 2 ELSE 2 * last - 1
  BY <1>1 DEF BandOf, X
<1>4. ASSUME ShadedAt(half) PROVE Critical(row)
  <2>1. PICK band \in CriticalBands(EvaluateOracle) :
           band.x0 <= half /\ (half < band.x1 \/ (half = PlotEnd /\ band.x1 = PlotEnd))
    BY <1>4 DEF ShadedAt
  <2>2. PICK first, last \in 1..n : IsRun(first, last) /\ band = BandOf(first, last)
    BY BandsAreRuns
  <2>3. row \in first..last
    BY <1>1, <1>2, <1>3, <2>1, <2>2
  <2> QED
    BY <2>2, <2>3 DEF IsRun
<1>5. ASSUME Critical(row) PROVE ShadedAt(half)
  <2>1. PICK first \in 1..row, last \in row..n : IsRun(first, last)
    BY <1>5, RunAround
  <2>2. first \in 1..n /\ last \in 1..n /\ first <= row /\ row <= last
    BY <1>1, <2>1
  <2>3. BandOf(first, last) \in CriticalBands(EvaluateOracle)
    BY <2>1, <2>2, BandsAreRuns
  <2>4. /\ BandOf(first, last).x0 <= half
        /\ \/ half < BandOf(first, last).x1
           \/ half = PlotEnd /\ BandOf(first, last).x1 = PlotEnd
    <3>1. /\ BandOf(first, last).x0 = 2 * first - 3
          /\ BandOf(first, last).x1 = IF last = n THEN 2 * n - 2 ELSE 2 * last - 1
      BY <1>3, <2>2
    <3>2. 2 * first - 3 <= half
      BY <1>1, <2>2
    <3>3. CASE last = n
      <4>1. half <= 2 * n - 2
        BY <1>1
      <4> QED
        BY <1>1, <1>2, <3>1, <3>2, <3>3, <4>1
    <3>4. CASE last # n
      <4>1. half < 2 * last - 1
        BY <1>1, <2>2
      <4> QED
        BY <3>1, <3>2, <3>4, <4>1
    <3> QED
      BY <3>3, <3>4
  <2> QED
    BY <2>3, <2>4 DEF ShadedAt
<1> QED
  BY <1>4, <1>5

\* The end of the plot is shaded exactly if the last row is critical.
LEMMA EndShaded ==
    ASSUME PathTyped
    PROVE  ShadedAt(PlotEnd) <=> Critical(Len(path))
<1> DEFINE n == Len(path)
<1>1. n \in Nat /\ n > 0 /\ n \in 1..n /\ Len(EvaluateOracle) = n
  BY RowsTyped, PointsFollowPath
<1>2. CASE n > 1
  <2>1. PlotEnd = 2 * n - 2
    BY <1>1, <1>2 DEF PlotEnd, X
  <2>2. PlotEnd \in Int /\ 2 * n - 3 <= PlotEnd /\ PlotEnd <= 2 * n - 2
    BY <1>1, <2>1
  <2> QED
    BY <1>1, <1>2, <2>2, ShadedIsCritical
<1>3. CASE n = 1
  <2>1. PlotEnd = 0
    BY <1>1, <1>3 DEF PlotEnd, X
  <2>2. \A first, last \in 1..n :
           /\ first = n /\ last = n
           /\ BandOf(first, last).x0 = 0 /\ BandOf(first, last).x1 = 0
    BY <1>1, <1>3 DEF BandOf, X
  <2>3. ASSUME ShadedAt(PlotEnd) PROVE Critical(n)
    <3>1. PICK band \in CriticalBands(EvaluateOracle) : TRUE
      BY <2>3 DEF ShadedAt
    <3>2. PICK first, last \in 1..n : IsRun(first, last)
      BY BandsAreRuns
    <3> QED
      BY <1>1, <1>3, <2>2, <3>2 DEF IsRun
  <2>4. ASSUME Critical(n) PROVE ShadedAt(PlotEnd)
    <3>1. PICK first \in 1..n, last \in n..n : IsRun(first, last)
      BY <1>1, <2>4, RunAround
    <3>2. last \in 1..n
      BY <1>1
    <3>3. BandOf(first, last) \in CriticalBands(EvaluateOracle)
      BY <3>1, <3>2, BandsAreRuns
    <3> QED
      BY <2>1, <2>2, <3>2, <3>3 DEF ShadedAt
  <2> QED
    BY <2>3, <2>4
<1> QED
  BY <1>1, <1>2, <1>3

\* The row whose figures a pointer shows is the row of its position.
LEMMA HoveredRowOf ==
    ASSUME PathTyped, Len(path) > 1, NEW half \in -1..(2 * Len(path) - 2)
    PROVE  LET row == HoveredRow(EvaluateOracle, half) IN
           row \in 1..Len(path) /\ 2 * row - 3 <= half /\ half <= 2 * row - 2
<1> DEFINE n == Len(path)
           q == (half + 1) \div 2
<1>1. n \in Nat /\ Len(EvaluateOracle) = n
  BY RowsTyped, PointsFollowPath
<1>2. q \in Int /\ 2 * q <= half + 1 /\ half + 1 < 2 * q + 2
  BY <1>1
<1>3. q >= 0 /\ q <= n - 1
  BY <1>1, <1>2
<1>4. HoveredRow(EvaluateOracle, half) = 1 + q
  BY <1>1, <1>2, <1>3 DEF HoveredRow, AtLeast, AtMost
<1> HIDE DEF q
<1> QED
  BY <1>1, <1>2, <1>3, <1>4

\* There are critical rows exactly if there are bands.
LEMMA BandsForCriticalRows ==
    ASSUME PathTyped
    PROVE  (CriticalRows(EvaluateOracle) > 0) <=> (CriticalBands(EvaluateOracle) # {})
<1> DEFINE n == Len(path)
<1>1. n \in Nat /\ \A i \in 1..n : Critical(i) <=> path[i].regime_flag = 1
  BY RowsTyped, PointsFollowPath DEF Critical
<1>2. ASSUME NEW row \in 1..n, Critical(row) PROVE CriticalBands(EvaluateOracle) # {}
  <2>1. PICK first \in 1..row, last \in row..n : IsRun(first, last)
    BY <1>2, RunAround
  <2>2. first \in 1..n /\ last \in 1..n
    BY <2>1 DEF IsRun
  <2> QED
    BY <2>1, <2>2, BandsAreRuns
<1>3. ASSUME CriticalBands(EvaluateOracle) # {} PROVE \E row \in 1..n : Critical(row)
  <2>1. PICK band \in CriticalBands(EvaluateOracle) : TRUE
    BY <1>3
  <2>2. PICK first, last \in 1..n : IsRun(first, last)
    BY BandsAreRuns
  <2>3. first \in first..last
    BY <1>1, <2>2 DEF IsRun
  <2> QED
    BY <2>2, <2>3 DEF IsRun
<1> QED
  BY <1>1, <1>2, <1>3, CriticalRowsCounted

\* The chart, its bands and its card show the same path.
LEMMA SiteAgrees ==
    ASSUME PathTyped
    PROVE  SiteShowsPath(Scenario)
<1> DEFINE n == Len(path)
           card == StressCard(Scenario)
<1>1. /\ Scenario.points = EvaluateOracle /\ Scenario.summary = Summarize(EvaluateOracle)
      /\ Len(EvaluateOracle) = n /\ n \in Nat /\ n > 0
  BY PointsFollowPath, RowsTyped DEF Scenario
<1>2. ASSUME NEW half \in -1..PlotEnd, n > 1
      PROVE  ShadedAt(half) <=>
                 EvaluateOracle[HoveredRow(EvaluateOracle, half)].regime_flag = 1
  <2>1. PlotEnd = 2 * n - 2
    BY <1>1, <1>2 DEF PlotEnd, X
  <2>2. half \in -1..(2 * n - 2) /\ half \in Int
    BY <1>1, <2>1
  <2> DEFINE row == HoveredRow(EvaluateOracle, half)
  <2>3. row \in 1..n /\ 2 * row - 3 <= half /\ half <= 2 * row - 2
    BY <1>2, <2>2, HoveredRowOf
  <2> HIDE DEF row
  <2>4. ShadedAt(half) <=> Critical(row)
    BY <1>2, <2>2, <2>3, ShadedIsCritical
  <2> QED
    BY <2>4 DEF Critical, row
<1>3. card.recovered <=> ~ShadedAt(PlotEnd)
  <2>1. card.recovered = (Last(path).regime_flag = 0)
    BY <1>1, SummaryFacts DEF StressCard
  <2>2. Critical(n) <=> Last(path).regime_flag = 1
    BY <1>1, PointsFollowPath, RowsTyped DEF Critical
  <2>3. Last(path).regime_flag \in {0, 1}
    BY <1>1, RowsTyped
  <2>4. ShadedAt(PlotEnd) <=> Critical(n)
    BY EndShaded
  <2> HIDE DEF card, n
  <2>5. (Last(path).regime_flag = 0) <=> ~ShadedAt(PlotEnd)
    BY <2>2, <2>3, <2>4
  <2> QED
    BY <2>1, <2>5
<1>4. (card.critical_rows > 0) <=> (CriticalBands(EvaluateOracle) # {})
  <2>1. card.critical_rows = CriticalRows(EvaluateOracle)
    BY <1>1, SummaryFacts DEF StressCard
  <2> QED
    BY <2>1, BandsForCriticalRows
<1>5. card.avoided # {} => card.peak_ltv_cut > 0
  <2> DEFINE loss == Summarize(EvaluateOracle).max_loss_prevented
  <2>1. card.avoided = {loss} \ {0} /\ card.peak_ltv_cut = CF_BASE - DynamicLtv
    BY <1>1, SummaryFacts DEF StressCard
  <2>2. PICK i \in 1..n : loss = EvaluateOracle[i].shortfall_static
                                 - EvaluateOracle[i].shortfall_dynamic
    BY SummaryFacts DEF GreatestOf, PreventedColumn
  <2>3. /\ DynamicLtv = CF_BASE =>
               EvaluateOracle[i].shortfall_dynamic = EvaluateOracle[i].shortfall_static
        /\ EvaluateOracle[i].shortfall_static \in 0..(path[1].price * CF_BASE)
        /\ path[1].price * CF_BASE \in Nat
    BY ShortfallsOrdered, ColumnsTyped
  <2>4. DynamicLtv = CF_BASE => loss = 0
    BY <2>2, <2>3
  <2>5. DynamicLtv \in Nat /\ DynamicLtv <= CF_BASE /\ CF_BASE \in Nat
    BY DynamicIsLowest, Scalars
  <2> HIDE DEF loss
  <2> QED
    BY <2>1, <2>4, <2>5
<1> HIDE DEF card
<1> QED
  BY <1>1, <1>2, <1>3, <1>4, <1>5 DEF SiteShowsPath, ShadedAt, PlotEnd, card

\* The programs agree on every path, of any length and any prices.
THEOREM ProgramsAgree == Spec => []EvidenceAgrees
<1>1. PathTyped => EvidenceAgrees
  BY VerifierAccepts, DefaultAccepts, LossBounded, ProofAgrees, LabAgrees, SiteAgrees, DemoAgrees
     DEF EvidenceAgrees
<1> QED
  BY <1>1, PathInvariant, PTL
=============================================================================
