---------------------------- MODULE MCRiskOracle ----------------------------
(* Small instances of the risk-oracle program for TLC. *)
EXTENDS RiskOracleRefinement, Functions, TLC

\* Two acceptable payloads, one of each regime, and two the program rejects.
Normal    == [theta_scaled |-> 1, sigma_scaled |-> 1, regime_flag |-> 0, suggested_ltv_bps |-> 8]
Critical  == [theta_scaled |-> 0, sigma_scaled |-> 1, regime_flag |-> 1, suggested_ltv_bps |-> 4]
NoSigma   == [theta_scaled |-> 1, sigma_scaled |-> 0, regime_flag |-> 0, suggested_ltv_bps |-> 8]
AboveFull == [theta_scaled |-> 1, sigma_scaled |-> 1, regime_flag |-> 0, suggested_ltv_bps |-> 11]

OnePayload   == {Normal}
TwoPayloads  == {Normal, Critical}
MixedPayloads == {Normal, NoSigma, AboveFull}

AttesterSymmetry == Permutations(Attesters)
=============================================================================
