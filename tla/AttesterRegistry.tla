-------------------------- MODULE AttesterRegistry --------------------------
(***************************************************************************)
(* The bonded attester registry of the risk-oracle program: the singleton  *)
(* AttesterRegistry account, its lamports, and the instructions that       *)
(* change it.  A Solana instruction is atomic, so each one is one action;  *)
(* an instruction that returns an error changes nothing and is no step.    *)
(*                                                                         *)
(* Abstractions.  Timestamps are natural numbers that start at 1, so that  *)
(* 0 keeps its meaning "never".  vault is the account's balance above the  *)
(* rent-exempt reserve.  Payers always own the lamports they transfer and  *)
(* amounts stay below 2^64 (the supply of lamports does).  The admin and   *)
(* slash_destination keys are written once and never change: they are left *)
(* out and an admin instruction is one only the admin takes.               *)
(***************************************************************************)
EXTENDS Integers, FiniteSets

CONSTANTS
    Attesters,                 \* the keys that may register
    NoKey,                     \* Pubkey::default(), the key of a cleared slot
    MAX_ATTESTERS,             \* number of slots of the registry
    MIN_ATTESTER_BOND,         \* lower bound of min_bond
    UNREGISTER_COOLDOWN_SECS,  \* wait between initiate and withdraw
    SLASH_PERCENT,             \* part of a bond a lost dispute costs
    MaxCounter,                \* u64::MAX of the two statistics counters
    ThresholdArgs,             \* thresholds initialize_registry is called with
    MinBondArgs,               \* minimum bonds it is called with
    BondArgs,                  \* bonds register_attester is called with
    MaxTime                    \* bound of the modelled clock

ASSUME AttesterAssumption == NoKey \notin Attesters
\* The conservation law is stated over the five slots of the source, written
\* out: a registry of fewer slots is an instance with the others missing.
ASSUME SlotAssumption == MAX_ATTESTERS \in 1..5
ASSUME BondAssumption ==
    /\ MIN_ATTESTER_BOND \in Nat \ {0}
    /\ SLASH_PERCENT \in 0..100
    /\ BondArgs \subseteq Nat /\ MinBondArgs \subseteq Nat
    /\ ThresholdArgs \subseteq Nat
    /\ MaxCounter \in Nat
ASSUME CooldownAssumption == UNREGISTER_COOLDOWN_SECS \in Nat \ {0}

VARIABLES
    now,             \* Clock::unix_timestamp
    attester_count,
    threshold,       \* 0 until the registry account exists
    total_bonded,
    min_bond,
    attesters,       \* the slots
    vault            \* lamports the registry account holds for bonds

registryVars == <<attester_count, threshold, total_bonded, min_bond, attesters, vault>>
clockedRegistryVars == <<now, registryVars>>

Slots == 1..MAX_ATTESTERS

Entry == [pubkey : Attesters \cup {NoKey}, bond : Nat, registered_at : Nat,
          unregister_initiated_at : Nat, updates_submitted : Nat,
          disputes_lost : Nat, is_active : BOOLEAN]

EmptyEntry == [pubkey |-> NoKey, bond |-> 0, registered_at |-> 0,
               unregister_initiated_at |-> 0, updates_submitted |-> 0,
               disputes_lost |-> 0, is_active |-> FALSE]

-----------------------------------------------------------------------------
(* Lookups.  Each scan returns the first matching slot, as position() does. *)
(*                                                                           *)
(* A definition whose name starts with Slip stands before the definition it  *)
(* distorts the way a mistake in the code would.  No specification uses one: *)
(* PROJECT.json names the property that rejects it.                          *)

IsFirst(i, S) == i \in S /\ \A j \in S : i <= j

ActiveSlots == {i \in Slots : attesters[i].is_active}

SlipSlotsOfStaying(a) ==
    {i \in ActiveSlots : attesters[i].pubkey = a /\ attesters[i].unregister_initiated_at = 0}

SlotsOf(a) == {i \in ActiveSlots : attesters[i].pubkey = a}

IsAttesterAt(a, i) == IsFirst(i, SlotsOf(a))

SlipIsVacatingSlot(i) ==
    IsFirst(i, {j \in Slots : attesters[j].is_active => attesters[j].unregister_initiated_at > 0})

IsEmptySlot(i) == IsFirst(i, Slots \ ActiveSlots)

SlipCanRemoveLastNeeded == attester_count >= threshold

CanRemoveAttester == attester_count > threshold

-----------------------------------------------------------------------------
(* Instructions. *)

RegistryInit ==
    /\ now = 1
    /\ attester_count = 0
    /\ threshold = 0
    /\ total_bonded = 0
    /\ min_bond = 0
    /\ attesters = [i \in Slots |-> EmptyEntry]
    /\ vault = 0

SlipIsPositiveThreshold(m) == m >= 1

IsValidThreshold(m) == m \in 1..MAX_ATTESTERS

InitializeRegistry(m, minimum) ==
    /\ threshold = 0
    /\ IsValidThreshold(m)
    /\ minimum >= MIN_ATTESTER_BOND
    /\ attester_count' = 0
    /\ threshold' = m
    /\ total_bonded' = 0
    /\ min_bond' = minimum
    /\ attesters' = [i \in Slots |-> EmptyEntry]
    /\ UNCHANGED <<now, vault>>

SlipNewEntryAtMinimum(a, amount) ==
    [EmptyEntry EXCEPT !.pubkey = a, !.bond = min_bond, !.registered_at = now, !.is_active = TRUE]

NewEntry(a, amount) ==
    [pubkey |-> a, bond |-> amount, registered_at |-> now,
     unregister_initiated_at |-> 0, updates_submitted |-> 0,
     disputes_lost |-> 0, is_active |-> TRUE]

RegisterAttester(a, amount) ==
    /\ threshold > 0
    /\ amount >= min_bond
    /\ SlotsOf(a) = {}
    /\ \E i \in Slots :
         /\ IsEmptySlot(i)
         /\ attesters' = [attesters EXCEPT ![i] = NewEntry(a, amount)]
    /\ attester_count' = attester_count + 1
    /\ total_bonded' = total_bonded + amount
    /\ vault' = vault + amount
    /\ UNCHANGED <<now, threshold, min_bond>>

InitiateUnregister(a) ==
    /\ \E i \in Slots :
         /\ IsAttesterAt(a, i)
         /\ attesters[i].unregister_initiated_at = 0
         /\ attesters' = [attesters EXCEPT ![i].unregister_initiated_at = now]
    /\ UNCHANGED <<now, attester_count, threshold, total_bonded, min_bond, vault>>

SlipCooldownOverAnyway(entry) ==
    now >= entry.unregister_initiated_at + UNREGISTER_COOLDOWN_SECS

CooldownOver(entry) ==
    /\ entry.unregister_initiated_at > 0
    /\ now >= entry.unregister_initiated_at + UNREGISTER_COOLDOWN_SECS

\* The slot keeps its statistics and its timestamps: only the three fields
\* below are cleared.  The lamports must be there, or the transfer aborts.
WithdrawBond(a) ==
    /\ CanRemoveAttester
    /\ \E i \in Slots :
         /\ IsAttesterAt(a, i)
         /\ CooldownOver(attesters[i])
         /\ attesters[i].bond <= vault
         /\ attesters' = [attesters EXCEPT ![i].is_active = FALSE,
                                           ![i].pubkey = NoKey,
                                           ![i].bond = 0]
         /\ total_bonded' = total_bonded - attesters[i].bond
         /\ vault' = vault - attesters[i].bond
    /\ attester_count' = attester_count - 1
    /\ UNCHANGED <<now, threshold, min_bond>>

SlashAmount(bond) == (bond * SLASH_PERCENT) \div 100

SaturatingSub(x, y) == IF y <= x THEN x - y ELSE 0

\* What resolve_dispute does to the registry when it slashes a.  The scan
\* looks at every slot, not only at the active ones.
SlashAttester(a) ==
    /\ \E i \in Slots :
         LET slash == SlashAmount(attesters[i].bond) IN
         /\ IsFirst(i, {j \in Slots : attesters[j].pubkey = a})
         /\ attesters[i].is_active
         /\ slash <= vault
         /\ attesters' = [attesters EXCEPT
                ![i].bond = @ - slash,
                ![i].disputes_lost = IF @ < MaxCounter THEN @ + 1 ELSE @]
         /\ total_bonded' = SaturatingSub(total_bonded, slash)
         /\ vault' = vault - slash
    /\ UNCHANGED <<now, attester_count, threshold, min_bond>>

\* What a finalizing confirm_update does to the registry: the proposer's
\* counter goes up if the proposer is still registered.
CreditProposer(a) ==
    /\ \/ /\ SlotsOf(a) = {}
          /\ UNCHANGED attesters
       \/ \E i \in Slots :
            /\ IsAttesterAt(a, i)
            /\ attesters[i].updates_submitted < MaxCounter
            /\ attesters' = [attesters EXCEPT ![i].updates_submitted = @ + 1]
    /\ UNCHANGED <<now, attester_count, threshold, total_bonded, min_bond, vault>>

Tick ==
    /\ now < MaxTime
    /\ now' = now + 1
    /\ UNCHANGED registryVars

RegistryNext ==
    \/ \E m \in ThresholdArgs, minimum \in MinBondArgs : InitializeRegistry(m, minimum)
    \/ \E a \in Attesters, amount \in BondArgs : RegisterAttester(a, amount)
    \/ \E a \in Attesters : InitiateUnregister(a)
    \/ \E a \in Attesters : WithdrawBond(a)
    \/ \E a \in Attesters : SlashAttester(a)
    \/ \E a \in Attesters : CreditProposer(a)
    \/ Tick

RegistrySpec == RegistryInit /\ [][RegistryNext]_clockedRegistryVars

-----------------------------------------------------------------------------
(* Properties. *)

RegistryTypeOK ==
    /\ now \in Nat \ {0}
    /\ attester_count \in Nat
    /\ threshold \in 0..MAX_ATTESTERS
    /\ total_bonded \in Nat
    /\ min_bond \in Nat
    /\ attesters \in [Slots -> Entry]
    /\ vault \in Nat

\* BondIn(f, i) is the bond in slot i of f, 0 for a slot the instance lacks.
BondIn(f, i) == IF i \in Slots THEN f[i].bond ELSE 0

BondSum(f) == BondIn(f, 1) + BondIn(f, 2) + BondIn(f, 3) + BondIn(f, 4) + BondIn(f, 5)

\* Solvency: the registry's running total is the sum of the recorded bonds and
\* the account holds exactly that many lamports, whatever order registrations,
\* slashes and withdrawals come in; so a withdrawal never finds the vault short
\* and the saturating subtraction of resolve_dispute never saturates.
BondsBacked ==
    /\ total_bonded = BondSum(attesters)
    /\ vault = total_bonded

\* The registry's count is the number of active slots: the threshold guards of
\* withdraw_bond and enable_multi_attester decide on this counter alone.
CountMatchesSlots == attester_count = Cardinality(ActiveSlots)

\* An attester never holds two slots, and a cleared slot holds neither a key
\* nor a bond: otherwise one attester could count twice towards a threshold,
\* and the scan of resolve_dispute could stop at a slot that is not active.
OneSlotPerAttester ==
    /\ \A i, j \in ActiveSlots : attesters[i].pubkey = attesters[j].pubkey => i = j
    /\ \A i \in Slots \ ActiveSlots : attesters[i].pubkey = NoKey /\ attesters[i].bond = 0
    /\ \A i \in ActiveSlots : attesters[i].pubkey # NoKey

\* Once enough attesters are registered for the threshold, no instruction leaves
\* fewer: a registry that could finalize a round stays able to.
ThresholdStaysReachable ==
    [][threshold > 0 /\ attester_count >= threshold =>
           attester_count' >= threshold']_clockedRegistryVars

\* A slot is vacated no earlier than the cooldown after its occupant registered,
\* also when the slot or the key was used before: a re-registration does not
\* inherit the cooldown its slot or its key served earlier.
BondLockedForCooldown ==
    [][\A i \in Slots :
           attesters[i].is_active /\ ~attesters'[i].is_active =>
               now >= attesters[i].registered_at + UNREGISTER_COOLDOWN_SECS]_clockedRegistryVars
=============================================================================
