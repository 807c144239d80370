--------------------------- MODULE ConsumerPolicy ---------------------------
(***************************************************************************)
(* The off-chain readers of a RiskState account, beside the gate that      *)
(* reads it on chain: the SDK and its users (the lending example, the      *)
(* dashboard), the CLI and the updater's reference consumer.  They keep no *)
(* state: each is a function of the account and the time, so they are      *)
(* operators over the gate's behaviours.                                   *)
(***************************************************************************)
EXTENDS BorrowGate

CONSTANTS
    MAX_STALENESS_SECS,     \* the readers' own freshness limit
    DEFAULT_FALLBACK_LTV,   \* safeLtv's defaults, in basis points
    DEFAULT_MAX_LTV

ASSUME ReaderAssumption ==
    /\ MAX_STALENESS_SECS \in Nat /\ MAX_STALENESS_SECS < MAX_AGE
    /\ DEFAULT_FALLBACK_LTV \in Nat /\ DEFAULT_MAX_LTV \in Nat

-----------------------------------------------------------------------------
(* The SDK. *)

SlipDecodeRiskState(state) ==
    [suggested_ltv_bps |-> state.params.suggested_ltv_bps,
     regime_flag |-> 0, timestamp |-> state.timestamp]

\* Both layouts are decoded: the fields a legacy account lacks default to
\* single-attester mode.  Every flag but 1 reads as NORMAL.
DecodeRiskState(state) ==
    [suggested_ltv_bps |-> state.params.suggested_ltv_bps,
     regime_flag |-> IF state.params.regime_flag = 1 THEN 1 ELSE 0,
     timestamp |-> state.timestamp]

\* An account that is missing, or not the program's, is an error.
FetchRiskState(l) ==
    IF oracle[l].status = "absent" THEN {} ELSE {DecodeRiskState(oracle[l])}

SlipIsStaleAtLimit(state, maxAgeSec) ==
    state.timestamp = 0 \/ now - state.timestamp >= maxAgeSec

IsStale(state, maxAgeSec) == state.timestamp = 0 \/ now - state.timestamp > maxAgeSec

IsCritical(state) == state.regime_flag = 1

SafeLtv(state, maxAgeSec, fallback, maxLtv) ==
    IF IsStale(state, maxAgeSec) \/ IsCritical(state) THEN fallback
    ELSE IF state.suggested_ltv_bps <= maxLtv THEN state.suggested_ltv_bps ELSE maxLtv

-----------------------------------------------------------------------------
(* Its users. *)

\* The lending example: the regime is tested before the age.
ReferenceAction(state) ==
    IF IsCritical(state) THEN "halt"
    ELSE IF IsStale(state, MAX_STALENESS_SECS) THEN "reject" ELSE "allow"

\* The dashboard's pill, and the LTV it shows as the default SDK guard.
DeriveStatus(state) ==
    IF state.timestamp = 0 \/ now - state.timestamp > MAX_STALENESS_SECS THEN "stale"
    ELSE IF state.regime_flag = 1 THEN "critical" ELSE "healthy"

GuardLtv(state) ==
    IF DeriveStatus(state) = "stale" \/ state.regime_flag = 1
    THEN DEFAULT_FALLBACK_LTV ELSE state.suggested_ltv_bps

\* The updater's reference consumer: an old value is only warned about, and
\* the regime is printed without being tested.
ConsumerReference(state) ==
    [ltv |-> state.params.suggested_ltv_bps,
     is_stale |-> OracleAge(state) > MAX_STALENESS_SECS]

-----------------------------------------------------------------------------
(* Properties. *)

\* One account, one verdict.  For a feed in the current layout with one of the
\* two regimes the engine knows, the gate and safeLtv, given the same limits,
\* apply the same LTV unless the gate halts lending, and then it applies none.
GateWithinSafeLtv ==
    \A l \in Lsts : \A pol \in policy[l] : \A s \in FetchRiskState(l) :
        LET p == pol.params
            ltv == SafeLtv(s, p.max_oracle_age_secs, p.fallback_ltv_bps, p.max_ltv_bps)
        IN oracle[l].status = "current" /\ oracle[l].params.regime_flag \in {0, 1} =>
              AppliedLtv(p, oracle[l]) =
                  IF IsHalted(p, Verdict(p, oracle[l])) THEN 0 ELSE ltv

\* All the readers draw the line of staleness and of the regime at the same
\* place: the example allows a loan exactly when the dashboard shows a healthy
\* feed, the reference consumer warns exactly when the SDK falls back for age,
\* and the guard LTV on the dashboard is the SDK's for every value below the
\* SDK's default maximum.
ReadersAgree ==
    \A l \in Lsts : \A s \in FetchRiskState(l) :
        /\ ReferenceAction(s) = "allow" <=> DeriveStatus(s) = "healthy"
        /\ ConsumerReference(oracle[l]).is_stale <=> IsStale(s, MAX_STALENESS_SECS)
        /\ s.suggested_ltv_bps <= DEFAULT_MAX_LTV =>
              GuardLtv(s) =
                  SafeLtv(s, MAX_STALENESS_SECS, DEFAULT_FALLBACK_LTV, DEFAULT_MAX_LTV)
=============================================================================
