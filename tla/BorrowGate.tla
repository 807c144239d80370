----------------------------- MODULE BorrowGate -----------------------------
(***************************************************************************)
(* PegShield Gate, the program mock-lender, beside the risk-oracle program *)
(* it reads: one borrow policy per LST, written by the market's admin, and *)
(* one decision per borrower and LST, written by assess_borrow from the    *)
(* policy and from the feed's RiskState account.                           *)
(*                                                                         *)
(* Abstractions.  market_admin is written once and never changes: it is    *)
(* left out, and an update is one only the admin makes.  The fields of a   *)
(* decision that copy its account's address are left out.  The result of   *)
(* mul_div_u64 always fits 64 bits because it is at most the collateral    *)
(* (part of ApprovedWithinCap), so its overflow error is no case here.     *)
(***************************************************************************)
EXTENDS RiskOracle

CONSTANTS
    Borrowers,
    PolicyArgs,       \* the parameters an admin submits, valid or not
    CollateralArgs,   \* collateral_value_usd
    RequestArgs,      \* requested_borrow_usd
    FULL_BPS,         \* the 10_000 of mul_div_u64 and of validate_policy_params
    MAX_AGE           \* i64::MAX

PolicyParams == [max_ltv_bps : Nat, fallback_ltv_bps : Nat, max_oracle_age_secs : Int,
                 halt_on_critical : BOOLEAN, paused : BOOLEAN]

ASSUME GateAssumption ==
    /\ PolicyArgs \subseteq PolicyParams
    /\ CollateralArgs \subseteq Nat /\ RequestArgs \subseteq Nat
    /\ FULL_BPS \in Nat \ {0}
    /\ MAX_AGE \in Nat

VARIABLES
    policy,      \* the BorrowPolicy accounts: the set of the one, or none
    decision     \* the BorrowDecision accounts, likewise

gateVars == <<policy, decision>>
allVars == <<vars, gateVars>>

Reasons == {"Approved", "StaleOracle", "CriticalRegime", "ExceedsLtv", "PolicyPaused"}

Policy == [params : PolicyParams, updated_at : Nat]

Decision == [collateral : Nat, requested : Nat, max_safe_borrow : Nat,
             oracle_ltv_bps : Nat, applied_ltv_bps : Nat, max_policy_ltv_bps : Nat,
             regime_flag : Nat, oracle_timestamp : Nat, oracle_age : Nat,
             evaluated_at : Nat, allowed : BOOLEAN, reason : Reasons]

-----------------------------------------------------------------------------
(* assess_request. *)

SlipIsValidAnyFallback(p) == p.max_ltv_bps <= FULL_BPS /\ p.max_oracle_age_secs > 0

IsValidPolicy(p) ==
    /\ p.max_ltv_bps <= FULL_BPS
    /\ p.fallback_ltv_bps <= p.max_ltv_bps
    /\ p.max_oracle_age_secs > 0

SlipOracleAgeReversed(state) == state.timestamp - now

\* A state never written, timestamp 0, is as old as can be.
OracleAge(state) == IF state.timestamp <= 0 THEN MAX_AGE ELSE now - state.timestamp

\* What the feed's state means under a policy, before the amount is looked at.
Verdict(p, state) ==
    IF p.paused THEN "PolicyPaused"
    ELSE IF OracleAge(state) > p.max_oracle_age_secs THEN "StaleOracle"
    ELSE IF state.params.regime_flag # 0 THEN "CriticalRegime"
    ELSE "Approved"

IsHalted(p, verdict) ==
    verdict = "PolicyPaused" \/ (verdict = "CriticalRegime" /\ p.halt_on_critical)

AppliedLtv(p, state) ==
    LET verdict == Verdict(p, state) IN
    IF IsHalted(p, verdict) THEN 0
    ELSE IF verdict \in {"StaleOracle", "CriticalRegime"} THEN p.fallback_ltv_bps
    ELSE IF state.params.suggested_ltv_bps <= p.max_ltv_bps
         THEN state.params.suggested_ltv_bps ELSE p.max_ltv_bps

MaxSafeBorrow(collateral, ltv) == (collateral * ltv) \div FULL_BPS

Assessment(p, state, collateral, requested) ==
    LET verdict == Verdict(p, state)
        ltv     == AppliedLtv(p, state)
        safe    == MaxSafeBorrow(collateral, ltv)
        halted  == IsHalted(p, verdict)
        exceeds == ~halted /\ requested > safe
    IN [collateral |-> collateral, requested |-> requested, max_safe_borrow |-> safe,
        oracle_ltv_bps |-> state.params.suggested_ltv_bps, applied_ltv_bps |-> ltv,
        max_policy_ltv_bps |-> p.max_ltv_bps, regime_flag |-> state.params.regime_flag,
        oracle_timestamp |-> state.timestamp, oracle_age |-> OracleAge(state),
        evaluated_at |-> now, allowed |-> ~halted /\ ~exceeds,
        reason |-> IF exceeds /\ verdict = "Approved" THEN "ExceedsLtv" ELSE verdict]

-----------------------------------------------------------------------------
(* Instructions. *)

GateInit ==
    /\ Init
    /\ policy = [l \in Lsts |-> {}]
    /\ decision = [b \in Borrowers |-> [l \in Lsts |-> {}]]

InitializeBorrowPolicy(l, p) ==
    /\ policy[l] = {}
    /\ IsValidPolicy(p)
    /\ policy' = [policy EXCEPT ![l] = {[params |-> p, updated_at |-> now]}]
    /\ UNCHANGED <<vars, decision>>

UpdateBorrowPolicy(l, p) ==
    /\ policy[l] # {}
    /\ IsValidPolicy(p)
    /\ policy' = [policy EXCEPT ![l] = {[params |-> p, updated_at |-> now]}]
    /\ UNCHANGED <<vars, decision>>

\* An account of the old layout does not deserialize as a RiskState.  The
\* decision account is created when missing and overwritten when there.
AssessBorrow(b, l, collateral, requested) ==
    /\ oracle[l].status = "current"
    /\ \E pol \in policy[l] :
         decision' = [decision EXCEPT ![b][l] =
             {Assessment(pol.params, oracle[l], collateral, requested)}]
    /\ UNCHANGED <<vars, policy>>

GateStep ==
    \E l \in Lsts :
        \/ \E p \in PolicyArgs : InitializeBorrowPolicy(l, p) \/ UpdateBorrowPolicy(l, p)
        \/ \E b \in Borrowers, collateral \in CollateralArgs, requested \in RequestArgs :
               AssessBorrow(b, l, collateral, requested)

GateNext == GateStep \/ (Next /\ UNCHANGED gateVars)

GateSpec == GateInit /\ [][GateNext]_allVars

-----------------------------------------------------------------------------
(* Properties. *)

GateTypeOK ==
    /\ TypeOK
    /\ policy \in [Lsts -> SUBSET Policy]
    /\ decision \in [Borrowers -> [Lsts -> SUBSET Decision]]

\* The protocol keeps final authority: whatever the feed says and however the
\* policy changed, an allowed borrow is within the cap in force when it was
\* assessed, and no limit exceeds the collateral.
ApprovedWithinCap ==
    \A b \in Borrowers, l \in Lsts : \A d \in decision[b][l] :
        /\ d.max_safe_borrow <= d.collateral
        /\ d.allowed => d.requested * FULL_BPS <= d.collateral * d.max_policy_ltv_bps

\* Round r of feed l answers for loan d under policy p: as many slots as the
\* threshold confirmed it, and it is recent enough and suggests enough.
AnswersFor(l, r, d, p) ==
    LET round == pending[<<l, r>>] IN
    /\ round.status = "finalized"
    /\ Cardinality(round.confirmations) >= threshold
    /\ now - round.finalized_at <= p.max_oracle_age_secs
    /\ d.requested * FULL_BPS <= d.collateral * round.params.suggested_ltv_bps

\* More than the fallback is only lent on the word of a feed that was written,
\* is not older than the policy accepts and is not critical, and then no more
\* than that feed suggests; also when the account was closed, reopened or
\* migrated between two assessments.  Where attesters have written the feed, a
\* round that reached its threshold answers for the loan.
AboveFallbackNeedsFeed ==
    [][\A b \in Borrowers, l \in Lsts :
          \A d \in decision'[b][l] \ decision[b][l], pol \in policy[l] :
              d.allowed /\ d.requested * FULL_BPS > d.collateral * pol.params.fallback_ltv_bps =>
                  /\ oracle[l].timestamp > 0
                  /\ now - oracle[l].timestamp <= pol.params.max_oracle_age_secs
                  /\ oracle[l].params.regime_flag = 0
                  /\ d.requested * FULL_BPS
                        <= d.collateral * oracle[l].params.suggested_ltv_bps
                  /\ IsMultiAttester(l) /\ oracle[l].last_updater # oracle[l].authority =>
                        \E r \in Rounds : AnswersFor(l, r, d, pol.params)]_allVars

\* docs/INTEGRATION.md: a stale oracle tightens lending, never loosens it.  With
\* the same policy and the same value in the feed, a later assessment of a
\* borrower applies no higher LTV than the one before.
StalenessNeverLoosens ==
    [][\A b \in Borrowers, l \in Lsts :
          \A d \in decision[b][l], e \in decision'[b][l], pol \in policy[l] :
              /\ pol.updated_at < d.evaluated_at
              /\ oracle[l].timestamp = d.oracle_timestamp
              /\ oracle[l].timestamp < d.evaluated_at
              => e.applied_ltv_bps <= d.applied_ltv_bps]_allVars
=============================================================================
