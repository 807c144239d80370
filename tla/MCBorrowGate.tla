---------------------------- MODULE MCBorrowGate ----------------------------
(***************************************************************************)
(* Small instances of the borrow gate over one feed for TLC.               *)
(***************************************************************************)
EXTENDS ConsumerPolicy, MCEstablished

\* A feed below and one above the cap of the policies, and a critical one.
FeedPayload(ltv, flag) ==
    [theta_scaled |-> 1, sigma_scaled |-> 1, regime_flag |-> flag, suggested_ltv_bps |-> ltv]

FeedPayloads == {FeedPayload(6, 0), FeedPayload(9, 0), FeedPayload(4, 1)}

PolicyOf(max, fallback, age, halt, paused) ==
    [max_ltv_bps |-> max, fallback_ltv_bps |-> fallback, max_oracle_age_secs |-> age,
     halt_on_critical |-> halt, paused |-> paused]

\* Both critical behaviours, a paused market, and one policy for each reason
\* to reject parameters.
Policies ==
    {PolicyOf(8, 5, 1, TRUE, FALSE), PolicyOf(7, 3, 2, FALSE, FALSE),
     PolicyOf(8, 5, 1, TRUE, TRUE),
     PolicyOf(11, 5, 1, TRUE, FALSE), PolicyOf(5, 8, 1, TRUE, FALSE),
     PolicyOf(8, 5, 0, TRUE, FALSE)}

\* A market opens beside a feed that has one authority, or none, as in GateSpec,
\* or beside one that a standing registry of attesters already writes (its old
\* account migrated, closed and opened anew).  The registry's own instructions
\* and the disputes write nothing that the gate or a round of these attesters reads.
MarketInit ==
    /\ Init \/ EstablishedInit
    /\ policy = [l \in Lsts |-> {}]
    /\ decision = [b \in Borrowers |-> [l \in Lsts |-> {}]]

MarketNext == GateStep \/ (RoundsNext /\ UNCHANGED gateVars)

MarketSpec == MarketInit /\ [][MarketNext]_allVars
=============================================================================
