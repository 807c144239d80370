--------------------- MODULE AttesterRegistryRefinement ---------------------
(***************************************************************************)
(* The registry implements BondEscrow: the slot array stands for the map   *)
(* from member to bond, the counter for the number of members and the      *)
(* account's lamports for the escrow.                                      *)
(***************************************************************************)
EXTENDS AttesterRegistry

Members == {attesters[i].pubkey : i \in ActiveSlots}

BondOf(a) ==
    IF SlotsOf(a) = {} THEN 0
    ELSE attesters[CHOOSE i \in Slots : IsAttesterAt(a, i)].bond

Bonds == [a \in Attesters |-> BondOf(a)]

Escrow == INSTANCE BondEscrow WITH
    Capacity <- MAX_ATTESTERS,
    Deposits <- BondArgs,
    Penalty  <- SlashAmount,
    members  <- Members,
    bonds    <- Bonds,
    escrow   <- vault,
    quorum   <- threshold

\* Every instruction of the registry is one operation of the escrow or changes
\* nothing the escrow sees: keys join once, leave whole, and no lamport moves
\* otherwise.
ImplementsEscrow == Escrow!EscrowSpec
=============================================================================
