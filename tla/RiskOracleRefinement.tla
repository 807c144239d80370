------------------------ MODULE RiskOracleRefinement ------------------------
(***************************************************************************)
(* The program implements ThresholdFeed: a RiskState account stands for a  *)
(* feed's mode and value, a PendingUpdate account for a ballot whose seats *)
(* are the slots of its bitmap, and the registry for the bonded members.   *)
(***************************************************************************)
EXTENDS RiskOracle, AttesterRegistryRefinement

\* An account of the old layout has one authority, like a new one.
ModeOf(state) ==
    CASE state.status = "absent" -> "none"
      [] state.status = "current" /\ state.update_mode = 1 -> "quorum"
      [] OTHER -> "single"

BallotOf(p) ==
    [state |-> CASE p.status = "absent" -> "none"
                 [] p.status = "open" -> "open"
                 [] p.status = "finalized" -> "passed",
     value |-> p.params,
     votes |-> p.confirmations]

FeedModes == [l \in Lsts |-> ModeOf(oracle[l])]
FeedValues == [l \in Lsts |-> oracle[l].params]
Ballots == [k \in RoundKeys |-> BallotOf(pending[k])]

Feed == INSTANCE ThresholdFeed WITH
    Capacity  <- MAX_ATTESTERS,
    Deposits  <- BondArgs,
    Penalty   <- SlashAmount,
    members   <- Members,
    bonds     <- Bonds,
    escrow    <- vault,
    quorum    <- threshold,
    Feeds     <- Lsts,
    BallotIds <- Rounds,
    Values    <- {p \in Payloads : IsValid(p)},
    Blank     <- ZeroPayload,
    Seats     <- Slots,
    mode      <- FeedModes,
    value     <- FeedValues,
    ballot    <- Ballots

\* Under this mapping every instruction of the program is one operation on the
\* bonds or one on a feed or its ballots, or changes nothing either sees: the
\* counter of a round never runs ahead of its bitmap, the value is published in
\* the very step that completes the quorum, no dispute, slash, departure or
\* statistic touches a ballot, and no lamport moves with a vote.
ImplementsThresholdFeed == Feed!BondedFeedSpec
=============================================================================
