---------------------------- MODULE StressReplay ----------------------------
(***************************************************************************)
(* The stress replay and its readers.  stress_test.py lends against the    *)
(* first price of a path, once at a fixed LTV and once at the oracle's, and *)
(* records the shortfall of both loans at every later price; build-data.mjs *)
(* copies the result into the site, verify-data.mjs checks the copy, and   *)
(* policy-proof, scenario-lab, snapshot-status and the borrow demo draw    *)
(* conclusions from it.  Five programs in three languages say the same     *)
(* thing about one path, each in its own words.                            *)
(*                                                                         *)
(* The state is the path: one row per price, with what the statistics made *)
(* of it, a regime flag and an unclamped LTV.  LTVs are in steps of the     *)
(* four decimals the engine rounds to, amounts in prices times such steps. *)
(***************************************************************************)
EXTENDS Integers, SequencesExt

CONSTANTS
    Prices,                     \* of the collateral
    RawLtvs,                    \* in steps of 1/GRAIN
    Haircuts,                   \* pairs: liquidity, data quality
    Requests,                   \* values of --borrow-usd
    CF_BASE,
    LTV_FLOOR,
    ONE,                        \* an LTV of 100 percent
    MAX_LIQUIDITY_HAIRCUT,
    MAX_DATA_QUALITY_HAIRCUT,
    GRAIN,                      \* steps of an LTV before it is rounded
    MAX_ROWS

ASSUME StressAssumption ==
    /\ Prices \subseteq Nat \ {0}
    /\ RawLtvs \subseteq Nat
    /\ Haircuts \subseteq (0..MAX_LIQUIDITY_HAIRCUT) \X (0..MAX_DATA_QUALITY_HAIRCUT)
    /\ Requests \subseteq Nat
    /\ {CF_BASE, LTV_FLOOR, ONE, MAX_LIQUIDITY_HAIRCUT, MAX_DATA_QUALITY_HAIRCUT} \subseteq Nat
    /\ 0 < LTV_FLOOR /\ LTV_FLOOR < CF_BASE /\ CF_BASE < ONE
    /\ GRAIN \in Nat /\ GRAIN % 2 = 1       \* no LTV is halfway between two steps
    /\ MAX_ROWS \in Nat \ {0}

VARIABLE path

Row == [price : Prices, regime_flag : {0, 1}, raw : RawLtvs]

Init == path \in {<<row>> : row \in Row}

\* The scenario with one more row.
Extend == Len(path) < MAX_ROWS /\ \E row \in Row : path' = Append(path, row)

Spec == Init /\ [][Extend]_path

-----------------------------------------------------------------------------
(* The engine. *)

AtLeast(x, y) == IF x < y THEN y ELSE x
AtMost(x, y)  == IF x > y THEN y ELSE x

SlipComputeLtv(flag, raw, liquidity, quality) ==
    LET adjusted == AtLeast(AtMost(raw, GRAIN * CF_BASE), GRAIN * LTV_FLOOR)
                    - GRAIN * (AtMost(liquidity, MAX_LIQUIDITY_HAIRCUT)
                               + AtMost(quality, MAX_DATA_QUALITY_HAIRCUT))
    IN  IF flag = 1 THEN LTV_FLOOR ELSE (2 * adjusted + GRAIN) \div (2 * GRAIN)

\* Clamped, cut, clamped again and rounded.
ComputeLtv(flag, raw, liquidity, quality) ==
    LET Clamp(x) == AtLeast(AtMost(x, GRAIN * CF_BASE), GRAIN * LTV_FLOOR)
        adjusted == Clamp(Clamp(raw) - GRAIN * (AtMost(liquidity, MAX_LIQUIDITY_HAIRCUT)
                                                + AtMost(quality, MAX_DATA_QUALITY_HAIRCUT)))
    IN  IF flag = 1 THEN LTV_FLOOR ELSE (2 * adjusted + GRAIN) \div (2 * GRAIN)

\* The engine's payload.  The statistical LTV is the same function without the
\* haircuts.
BuildRiskPayload(row, haircut) ==
    [regime_flag     |-> row.regime_flag,
     statistical_ltv |-> ComputeLtv(row.regime_flag, row.raw, 0, 0),
     suggested_ltv   |-> ComputeLtv(row.regime_flag, row.raw, haircut[1], haircut[2]),
     liquidity       |-> haircut[1],
     quality         |-> haircut[2]]

\* What sync_artifacts.py makes of it.
Snapshot(row, haircut, trusted_history) ==
    LET payload == BuildRiskPayload(row, haircut) IN
    [regime_flag      |-> payload.regime_flag,
     statistical_ltv  |-> payload.statistical_ltv,
     suggested_ltv    |-> payload.suggested_ltv,
     liquidity        |-> payload.liquidity,
     quality          |-> payload.quality,
     analytics_status |-> IF trusted_history THEN "trusted" ELSE "withheld_fallback_history"]

-----------------------------------------------------------------------------
(* The simulation. *)

Ltv(row) == ComputeLtv(row.regime_flag, row.raw, 0, 0)

\* Of a loan taken on collateral worth opened that is now worth price.
Loss(opened, ltv, price) == AtLeast(opened * ltv - price * ONE, 0)

\* The replay takes its loans at the first price.
Shortfall(ltv, price) == Loss(path[1].price, ltv, price)

\* The LTV at the end of the path.
SlipDynamicLtv == Ltv(Last(path))

\* "If you had listened to the oracle at its most cautious point": the lowest
\* LTV of the whole path, the rows after the loan included.
DynamicLtv == Min({Ltv(path[i]) : i \in DOMAIN path})

EvaluateOracle ==
    [i \in DOMAIN path |->
        [regime_flag       |-> path[i].regime_flag,
         ltv_with_oracle   |-> Ltv(path[i]),
         ltv_no_oracle     |-> CF_BASE,
         shortfall_dynamic |-> Shortfall(DynamicLtv, path[i].price),
         shortfall_static  |-> Shortfall(CF_BASE, path[i].price)]]

CriticalRows(points) == Cardinality({i \in DOMAIN points : points[i].regime_flag = 1})

\* The cut that is left at the end.
SlipSummarize(points) ==
    LET rows == ToSet(points) IN
    [row_count               |-> Len(points),
     critical_rows           |-> CriticalRows(points),
     critical_duration_ratio |-> <<CriticalRows(points), Len(points)>>,   \* a fraction
     peak_shortfall_static   |-> Max({p.shortfall_static : p \in rows}),
     peak_shortfall_dynamic  |-> Max({p.shortfall_dynamic : p \in rows}),
     max_loss_prevented      |->
         Max({AtLeast(p.shortfall_static - p.shortfall_dynamic, 0) : p \in rows}),
     peak_ltv_cut            |-> Last(points).ltv_no_oracle - Last(points).ltv_with_oracle,
     final_dynamic_ltv       |-> Last(points).ltv_with_oracle,
     final_static_ltv        |-> Last(points).ltv_no_oracle,
     recovered_to_monitoring |-> Last(points).regime_flag = 0]

Summarize(points) ==
    LET rows == ToSet(points) IN
    [row_count               |-> Len(points),
     critical_rows           |-> CriticalRows(points),
     critical_duration_ratio |-> <<CriticalRows(points), Len(points)>>,   \* a fraction
     peak_shortfall_static   |-> Max({p.shortfall_static : p \in rows}),
     peak_shortfall_dynamic  |-> Max({p.shortfall_dynamic : p \in rows}),
     max_loss_prevented      |->
         Max({AtLeast(p.shortfall_static - p.shortfall_dynamic, 0) : p \in rows}),
     peak_ltv_cut            |-> Max({p.ltv_no_oracle - p.ltv_with_oracle : p \in rows}),
     final_dynamic_ltv       |-> Last(points).ltv_with_oracle,
     final_static_ltv        |-> Last(points).ltv_no_oracle,
     recovered_to_monitoring |-> Last(points).regime_flag = 0]

\* The scenario as the artifact holds it; build-data.mjs only renames the keys.
Scenario == [points |-> EvaluateOracle, summary |-> Summarize(EvaluateOracle)]

-----------------------------------------------------------------------------
(* The readers. *)

\* verify-data.mjs computes the summary again from the points.
VerifyScenario(s) ==
    LET rows == ToSet(s.points) IN
    /\ s.summary.row_count = Len(s.points)
    /\ s.summary.critical_rows = CriticalRows(s.points)
    /\ s.summary.critical_duration_ratio = <<CriticalRows(s.points), Len(s.points)>>
    /\ s.summary.peak_shortfall_static = Max({p.shortfall_static : p \in rows})
    /\ s.summary.peak_shortfall_dynamic = Max({p.shortfall_dynamic : p \in rows})
    /\ s.summary.max_loss_prevented = Max({p.shortfall_static - p.shortfall_dynamic : p \in rows})
    /\ s.summary.peak_ltv_cut =
           Max({p.ltv_no_oracle : p \in rows}) - Min({p.ltv_with_oracle : p \in rows})
    /\ \A p \in rows :
           /\ p.ltv_with_oracle \in LTV_FLOOR..CF_BASE
           /\ p.ltv_no_oracle = CF_BASE
           /\ p.regime_flag = 1 => p.ltv_with_oracle = LTV_FLOOR

\* The scenario that the page opens with has to reach the floor.
VerifyDefaultScenario(s) ==
    Min({s.points[i].ltv_with_oracle : i \in DOMAIN s.points}) = LTV_FLOOR

VerifySnapshot(s) ==
    s.suggested_ltv =
        IF s.regime_flag = 1 THEN LTV_FLOOR
        ELSE AtLeast(AtMost(s.statistical_ltv - s.liquidity - s.quality, CF_BASE), LTV_FLOOR)

\* flag is {} or the value of --borrow-usd.  Without it the request is midway
\* between the limits; amounts are doubled so that it is a whole number.  The
\* limits are those of the last row.
PolicyProof(s, units, flag) ==
    LET limit(ltv) == 2 * units * ltv
        static == limit(s.summary.final_static_ltv)
        stress == limit(s.summary.final_dynamic_ltv)
        asked  == IF flag = {} THEN stress + (static - stress) \div 2 ELSE 2 * Max(flag)
    IN  [first_critical  |-> SelectInSeq(s.points, LAMBDA p : p.regime_flag = 1),
         first_shortfall |-> SelectInSeq(s.points, LAMBDA p : p.shortfall_static > 0),
         static_decision |-> asked <= static,
         stress_decision |-> asked <= stress,
         credit_removed  |-> static - stress]

\* One row of scenario-lab.
ScenarioLab(s) ==
    [first_cut          |-> SelectInSeq(s.points, LAMBDA p : p.ltv_with_oracle < p.ltv_no_oracle),
     first_critical     |-> SelectInSeq(s.points, LAMBDA p : p.regime_flag = 1),
     max_loss_prevented |-> s.summary.max_loss_prevented,
     false_positive     |-> /\ s.summary.peak_shortfall_static = 0
                            /\ s.summary.peak_ltv_cut > 0
                            /\ s.summary.recovered_to_monitoring]

\* The borrow demo: the latest snapshot in a normal market, in a stressed one
\* the path's lowest LTV, which the Gate halts on.
BorrowDemo(s, snapshot, collateral, market) ==
    LET lowest  == Min({s.points[i].ltv_with_oracle : i \in DOMAIN s.points})
        applied == IF market = "stress" THEN 0 ELSE snapshot.suggested_ltv
    IN  [oracle_ltv   |-> IF market = "stress" THEN lowest ELSE snapshot.suggested_ltv,
         fallback_max |-> collateral * lowest,
         lent         |-> collateral * applied,
         removed      |-> collateral * CF_BASE - collateral * applied]

\* The figures beside the chart; a loss of zero is shown as a dash.
StressCard(s) ==
    [critical_rows |-> s.summary.critical_rows,
     avoided       |-> {s.summary.max_loss_prevented} \ {0},
     peak_ltv_cut  |-> s.summary.peak_ltv_cut,
     recovered     |-> s.summary.recovered_to_monitoring]

\* The chart's x axis, in half rows from the first one.
X(points, half) == IF Len(points) <= 1 THEN 0 ELSE half

\* A band for every run of critical rows, from half a row before it to half a row
\* before the next row, or to the last one.
CriticalBands(points) ==
    LET Critical(i) == points[i].regime_flag = 1
        last == Len(points)
        runs == {run \in (1..last) \X (1..last) :
                    /\ run[1] <= run[2]
                    /\ \A i \in run[1]..run[2] : Critical(i)
                    /\ run[1] > 1 => ~Critical(run[1] - 1)
                    /\ run[2] < last => ~Critical(run[2] + 1)}
    IN  {[x0 |-> X(points, 2 * run[1] - 3),
          x1 |-> X(points, IF run[2] = last THEN 2 * last - 2 ELSE 2 * run[2] - 1)] : run \in runs}

\* The row whose figures are shown for a pointer at half.
HoveredRow(points, half) == 1 + AtLeast(AtMost((half + 1) \div 2, Len(points) - 1), 0)

\* snapshot-status: why the LTV is where it is.
ExplainLtv(s) ==
    LET Reason(holds, name) == IF holds THEN {name} ELSE {}
        reasons ==
            Reason(s.regime_flag = 1, "critical regime")
            \cup Reason(s.liquidity > 0, "liquidity haircut")
            \cup Reason(s.quality > 0, "data-quality haircut")
            \cup Reason(s.suggested_ltv < s.statistical_ltv /\ s.liquidity <= 0, "model clamps")
            \cup Reason(s.suggested_ltv >= CF_BASE /\ s.regime_flag = 0 /\ s.liquidity = 0,
                        "no active stress")
            \cup Reason(s.analytics_status # "trusted", "analytics withheld")
    IN  IF reasons = {} THEN {"follows the signal"} ELSE reasons

\* What snapshot-status prints, the texts and the clock aside.
BuildArtifactStatus(s) ==
    [suggested_ltv   |-> s.suggested_ltv,
     statistical_ltv |-> s.statistical_ltv,
     regime_flag     |-> s.regime_flag,
     why_ltv_moved   |-> ExplainLtv(s)]

-----------------------------------------------------------------------------
(* Properties. *)

\* What a lender that takes its loan at row j, at an LTV that the oracle has
\* published by then, has saved by row i.  The replay's figure is about a loan at
\* the first price and the lowest LTV of the whole path, rows after the loan
\* included; it speaks for every later loan too, unless the price had risen above
\* the first one.
LossWithinPath(s) ==
    \A i \in DOMAIN path : \A j \in 1..i : \A published \in {Ltv(path[k]) : k \in 1..j} :
        path[j].price <= path[1].price =>
            Loss(path[j].price, CF_BASE, path[i].price)
              - Loss(path[j].price, published, path[i].price) <= s.summary.max_loss_prevented

\* policy-proof looks at the last row.
ProofWithinPath(s) ==
    LET P(flag) == PolicyProof(s, 1, flag) IN
    /\ P({}).credit_removed <= 2 * s.summary.peak_ltv_cut
    /\ (P({}).static_decision # P({}).stress_decision) <=> (Ltv(Last(path)) < CF_BASE)
    /\ P({}).first_critical = ScenarioLab(s).first_critical
    /\ \A request \in Requests : P({request}).stress_decision => P({request}).static_decision

LabWithinPath(s) ==
    LET lab == ScenarioLab(s) IN
    /\ lab.first_critical > 0 => lab.first_cut \in 1..lab.first_critical
    /\ ~(lab.false_positive /\ lab.max_loss_prevented > 0)

\* half is a position on the plot, from half a row before the first one.
SiteShowsPath(s) ==
    LET points == s.points
        bands  == CriticalBands(points)
        end    == X(points, 2 * Len(points) - 2)
        Shaded(half) == \E band \in bands :
                           band.x0 <= half /\ (half < band.x1 \/ (half = end /\ band.x1 = end))
    IN  /\ \A half \in -1..end : Len(points) > 1 =>
               (Shaded(half) <=> points[HoveredRow(points, half)].regime_flag = 1)
        /\ StressCard(s).recovered <=> ~Shaded(end)
        /\ (StressCard(s).critical_rows > 0) <=> (bands # {})
        /\ StressCard(s).avoided # {} => StressCard(s).peak_ltv_cut > 0

DemoWithinPath(s) ==
    \A haircut \in Haircuts :
        LET Demo(market) == BorrowDemo(s, Snapshot(Last(path), haircut, TRUE), 1, market) IN
        /\ Demo("stress").fallback_max = CF_BASE - s.summary.peak_ltv_cut
        /\ PolicyProof(s, 1, {}).credit_removed <= 2 * Demo("stress").removed
        /\ Demo("normal").removed \in 0..Demo("stress").removed

\* The programs agree on every path: verify-data accepts what the simulation
\* wrote, as the default scenario too if the path was ever critical; the loss
\* called prevented bounds what a lender that follows the feed row by row saves on
\* each loan it takes at no more than the first price; policy-proof never claims
\* more removed credit than the peak cut, parts the two decisions on its default
\* request exactly if the last row is cut, and lets no request through under
\* stress that the static table refuses;
\* scenario-lab dates the first cut no later than the first critical signal and
\* counts no path both as a loss prevented and as a false positive; on the chart
\* a pointer is on a shaded band exactly if the row it shows is critical, and the
\* card says "recovered" exactly if the plot does not end in a band; the demo's
\* stressed limit is the static one less the peak cut.
EvidenceAgrees ==
    LET s == Scenario IN
    /\ VerifyScenario(s)
    /\ s.summary.critical_rows > 0 => VerifyDefaultScenario(s)
    /\ LossWithinPath(s)
    /\ ProofWithinPath(s)
    /\ LabWithinPath(s)
    /\ SiteShowsPath(s)
    /\ DemoWithinPath(s)

\* The two roundings, the two clamps and the two haircuts commute the way
\* verify-data.mjs assumes, and snapshot-status never calls an LTV that was cut
\* one that follows the signal or is free of stress.
SnapshotsExplained ==
    \A haircut \in Haircuts, trusted_history \in BOOLEAN :
        LET s      == Snapshot(Last(path), haircut, trusted_history)
            status == BuildArtifactStatus(s)
        IN  /\ VerifySnapshot(s)
            /\ status.suggested_ltv < status.statistical_ltv =>
                   status.why_ltv_moved \cap {"no active stress", "follows the signal"} = {}
=============================================================================
