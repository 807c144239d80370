--------------------------- MODULE MCEstablished ---------------------------
(***************************************************************************)
(* The program started from a deployment that is already running: the      *)
(* registry has its attesters and every feed is in multi-attester mode.    *)
(* initialize_registry, the registrations, initialize_oracle and           *)
(* enable_multi_attester lead there within one clock value, so the state   *)
(* is one of RiskOracle's own; starting in it leaves the states to the     *)
(* rounds, the disputes and the turnover of attesters.                     *)
(***************************************************************************)
EXTENDS MCRiskOracle

CONSTANTS
    InitialThresholds,  \* what the registry's threshold may be
    InitialSpares,      \* how many more attesters are registered, in slots 1, 2, ...
    InitialBond         \* the bond of each

EstablishedInit ==
    \E m \in InitialThresholds, auth \in Authorities :
    LET count == m + InitialSpares IN
    \E who \in [1..count -> Attesters] :
        /\ IsInjective(who)
        /\ now = 1
        /\ attester_count = count
        /\ threshold = m
        /\ total_bonded = count * InitialBond
        /\ min_bond = MIN_ATTESTER_BOND
        /\ vault = count * InitialBond
        /\ attesters = [i \in Slots |->
               IF i <= count THEN NewEntry(who[i], InitialBond) ELSE EmptyEntry]
        /\ oracle = [l \in Lsts |-> [FreshOracle(auth) EXCEPT !.update_mode = 1]]
        /\ pending = [k \in RoundKeys |-> NoPending]
        /\ dispute = [k \in RoundKeys |-> [a \in Attesters |-> NoDispute]]
        /\ signers = [k \in RoundKeys |-> {}]

\* Rounds and the life of the feed's account, with a fixed set of attesters:
\* neither a dispute nor a departure reads or writes a round or a feed.
RoundsNext == OracleStep \/ RoundStep \/ (Tick /\ UNCHANGED oracleVars)
RoundsSpec == EstablishedInit /\ [][RoundsNext]_vars

\* Rounds, disputes and the turnover of attesters over feeds that stay open.
DisputesNext == RegistryStep \/ RoundStep \/ DisputeStep
DisputesSpec == EstablishedInit /\ [][DisputesNext]_vars
=============================================================================
