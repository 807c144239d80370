----------------------------- MODULE BondEscrow -----------------------------
(***************************************************************************)
(* What the attester registry promises about money, without slots, counts  *)
(* or clocks: a set of members, each with one bond, and an escrow that     *)
(* holds the bonds.  A key joins once with one deposit, leaves with all    *)
(* that is left of it, and loses part of it only to a penalty; the escrow  *)
(* never holds anything else.  AttesterRegistry implements this            *)
(* specification under the mapping of module AttesterRegistryRefinement.   *)
(***************************************************************************)
EXTENDS Integers, FiniteSets

CONSTANTS
    Attesters,      \* who may join
    Capacity,       \* how many may be members at once
    Deposits,       \* the deposits a member may join with
    Penalty(_)      \* what a penalty takes from a bond

VARIABLES members, bonds, escrow, quorum

escrowVars == <<members, bonds, escrow, quorum>>

EscrowInit ==
    /\ members = {}
    /\ bonds = [a \in Attesters |-> 0]
    /\ escrow = 0
    /\ quorum = 0

\* The quorum is fixed once, before anyone joins.
Open(m) ==
    /\ quorum = 0 /\ members = {}
    /\ m \in 1..Capacity
    /\ quorum' = m
    /\ UNCHANGED <<members, bonds, escrow>>

Join(a, amount) ==
    /\ quorum > 0
    /\ a \notin members
    /\ Cardinality(members) < Capacity
    /\ members' = members \cup {a}
    /\ bonds' = [bonds EXCEPT ![a] = amount]
    /\ escrow' = escrow + amount
    /\ UNCHANGED quorum

\* A member leaves with its whole remaining bond, and only from a membership
\* larger than the quorum.
Leave(a) ==
    /\ a \in members
    /\ Cardinality(members) > quorum
    /\ members' = members \ {a}
    /\ bonds' = [bonds EXCEPT ![a] = 0]
    /\ escrow' = escrow - bonds[a]
    /\ UNCHANGED quorum

Penalise(a) ==
    /\ a \in members
    /\ bonds' = [bonds EXCEPT ![a] = @ - Penalty(@)]
    /\ escrow' = escrow - Penalty(bonds[a])
    /\ UNCHANGED <<members, quorum>>

EscrowNext ==
    \/ \E m \in 1..Capacity : Open(m)
    \/ \E a \in Attesters, amount \in Deposits : Join(a, amount)
    \/ \E a \in Attesters : Leave(a)
    \/ \E a \in Attesters : Penalise(a)

EscrowSpec == EscrowInit /\ [][EscrowNext]_escrowVars
=============================================================================
