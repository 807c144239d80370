-------------------------- MODULE RefinementProofs --------------------------
(***************************************************************************)
(* The registry implements the abstract escrow and the whole program the   *)
(* abstract feed, for every set of keys, feeds, rounds and payloads, every *)
(* number of slots, threshold, bond and slash, and all the periods.        *)
(***************************************************************************)
EXTENDS RiskOracleRefinement, RiskOracleProofs

\* The slots through parameters, so that a lemma speaks of either state.
KeysAt(f, A) == {f[i].pubkey : i \in A}
ActiveIn(f) == {i \in Slots : f[i].is_active}

Distinct(f) ==
    /\ \A i, j \in ActiveIn(f) : f[i].pubkey = f[j].pubkey => i = j
    /\ \A i \in ActiveIn(f) : f[i].pubkey # NoKey

\* The mapping, of slots f.
SlotsIn(f, a) == {i \in ActiveIn(f) : f[i].pubkey = a}
BondFrom(f, a) ==
    IF SlotsIn(f, a) = {} THEN 0 ELSE f[CHOOSE i \in Slots : IsFirst(i, SlotsIn(f, a))].bond
BondsFrom(f) == [a \in Attesters |-> BondFrom(f, a)]

\* The mapping of the refinement is the mapping above, in both states.
LEMMA MappingIsMapping ==
    /\ Members = KeysAt(attesters, ActiveIn(attesters))
    /\ Members' = KeysAt(attesters', ActiveIn(attesters'))
    /\ Bonds = BondsFrom(attesters)
    /\ Bonds' = BondsFrom(attesters')
BY DEF Members, KeysAt, ActiveIn, ActiveSlots, Bonds, BondOf, BondsFrom, BondFrom, SlotsIn, SlotsOf,
       IsAttesterAt, IsFirst

\* As many keys as slots.
LEMMA KeysCounted ==
    ASSUME NEW f, Distinct(f)
    PROVE  Cardinality(KeysAt(f, ActiveIn(f))) = Cardinality(ActiveIn(f))
<1> DEFINE A == ActiveIn(f)
           K == KeysAt(f, A)
           key == [i \in A |-> f[i].pubkey]
<1>1. A \subseteq Slots /\ IsFiniteSet(A)
  BY SlotsFinite DEF ActiveIn
<1>2. key \in Bijection(A, K)
  BY DEF Distinct, KeysAt, Bijection, Injection, IsInjective, Surjection
<1> QED
  BY <1>1, <1>2, FS_Bijection, FS_CardinalityType DEF ExistsBijection

\* The bond of a key is the bond of the one slot that holds it.
LEMMA BondAtSlot ==
    ASSUME NEW f, Distinct(f), NEW i \in ActiveIn(f)
    PROVE  BondFrom(f, f[i].pubkey) = f[i].bond
<1>1. SlotsIn(f, f[i].pubkey) = {i} /\ i \in Slots
  BY DEF SlotsIn, Distinct, ActiveIn
<1>2. i \in Nat
  BY <1>1, SlotAssumption DEF Slots
<1>3. \A j \in Slots : IsFirst(j, {i}) <=> j = i
  BY <1>1, <1>2, SlotAssumption DEF IsFirst, Slots
<1>4. (CHOOSE j \in Slots : IsFirst(j, {i})) = i
  BY <1>1, <1>3
<1> QED
  BY <1>1, <1>4 DEF BondFrom

\* A key without a slot has no bond.
LEMMA BondNowhere ==
    ASSUME NEW f, NEW a, a \notin KeysAt(f, ActiveIn(f))
    PROVE  BondFrom(f, a) = 0
BY DEF BondFrom, SlotsIn, KeysAt

\* Slots that differ in no key, activity or bond are the same to the escrow.
LEMMA SameToEscrow ==
    ASSUME NEW f, NEW g, Distinct(f), Distinct(g),
           ActiveIn(f) = ActiveIn(g),
           \A i \in ActiveIn(f) : g[i].pubkey = f[i].pubkey /\ g[i].bond = f[i].bond
    PROVE  KeysAt(g, ActiveIn(g)) = KeysAt(f, ActiveIn(f)) /\ BondsFrom(g) = BondsFrom(f)
<1>1. KeysAt(g, ActiveIn(g)) = KeysAt(f, ActiveIn(f))
  BY DEF KeysAt
<1>2. ASSUME NEW a \in Attesters PROVE BondFrom(g, a) = BondFrom(f, a)
  <2>1. CASE a \notin KeysAt(f, ActiveIn(f))
    BY <2>1, <1>1, BondNowhere
  <2>2. ASSUME NEW i \in ActiveIn(f), a = f[i].pubkey PROVE BondFrom(g, a) = BondFrom(f, a)
    <3>1. BondFrom(f, f[i].pubkey) = f[i].bond
      BY BondAtSlot
    <3>2. BondFrom(g, g[i].pubkey) = g[i].bond
      BY BondAtSlot
    <3> QED
      BY <2>2, <3>1, <3>2
  <2> QED
    BY <2>1, <2>2 DEF KeysAt
<1> QED
  BY <1>1, <1>2 DEF BondsFrom

\* If only what is recorded of a key changes, only its bond does.
LEMMA OneKeyChanges ==
    ASSUME NEW f, NEW g, Distinct(f), Distinct(g), NEW a \in Attesters,
           \A i \in ActiveIn(f) : f[i].pubkey # a =>
               i \in ActiveIn(g) /\ g[i].pubkey = f[i].pubkey /\ g[i].bond = f[i].bond,
           \A i \in ActiveIn(g) : g[i].pubkey # a =>
               i \in ActiveIn(f) /\ g[i].pubkey = f[i].pubkey
    PROVE  /\ KeysAt(g, ActiveIn(g)) \ {a} = KeysAt(f, ActiveIn(f)) \ {a}
           /\ BondsFrom(g) = [BondsFrom(f) EXCEPT ![a] = BondFrom(g, a)]
<1>1. KeysAt(g, ActiveIn(g)) \ {a} = KeysAt(f, ActiveIn(f)) \ {a}
  BY DEF KeysAt
<1>2. ASSUME NEW b \in Attesters, b # a PROVE BondFrom(g, b) = BondFrom(f, b)
  <2>1. CASE b \notin KeysAt(f, ActiveIn(f))
    <3>1. b \notin KeysAt(g, ActiveIn(g))
      BY <2>1, <1>1, <1>2
    <3> QED
      BY <2>1, <3>1, BondNowhere
  <2>2. ASSUME NEW i \in ActiveIn(f), b = f[i].pubkey PROVE BondFrom(g, b) = BondFrom(f, b)
    <3>1. BondFrom(f, f[i].pubkey) = f[i].bond
      BY BondAtSlot
    <3>2. i \in ActiveIn(g) /\ g[i].pubkey = b /\ g[i].bond = f[i].bond
      BY <1>2, <2>2
    <3>3. BondFrom(g, g[i].pubkey) = g[i].bond
      BY <3>2, BondAtSlot
    <3> QED
      BY <2>2, <3>1, <3>2, <3>3
  <2> QED
    BY <2>1, <2>2 DEF KeysAt
<1> QED
  BY <1>1, <1>2 DEF BondsFrom

-----------------------------------------------------------------------------
(* What the invariant says of the mapping. *)

\* Under the invariant a key has one slot, so counts and bonds map as they should.
LEMMA InvariantMaps ==
    ASSUME RegistryInv
    PROVE  /\ Distinct(attesters)
           /\ attesters \in [Slots -> Entry]
           /\ Cardinality(Members) = attester_count
           /\ \A i \in ActiveSlots : attesters[i].pubkey \in Attesters
           /\ \A i \in ActiveSlots : BondOf(attesters[i].pubkey) = attesters[i].bond
           /\ vault \in Nat /\ threshold \in 0..MAX_ATTESTERS
<1>1. /\ OneSlotPerAttester /\ CountMatchesSlots /\ attesters \in [Slots -> Entry]
      /\ vault \in Nat /\ threshold \in 0..MAX_ATTESTERS
  BY DEF RegistryInv, RegistryTypeOK
<1>2. ActiveSlots = ActiveIn(attesters)
  BY DEF ActiveSlots, ActiveIn
<1>3. Distinct(attesters)
  BY <1>1, <1>2 DEF OneSlotPerAttester, Distinct
<1>4. Cardinality(Members) = attester_count
  BY <1>1, <1>2, <1>3, KeysCounted, MappingIsMapping DEF CountMatchesSlots
<1>5. \A i \in ActiveSlots : attesters[i].pubkey \in Attesters
  BY <1>1 DEF OneSlotPerAttester, Entry, ActiveSlots
<1>6. ASSUME NEW i \in ActiveSlots PROVE BondOf(attesters[i].pubkey) = attesters[i].bond
  <2>1. BondFrom(attesters, attesters[i].pubkey) = attesters[i].bond
    BY <1>2, <1>3, BondAtSlot
  <2> QED
    BY <2>1 DEF BondOf, BondFrom, SlotsIn, SlotsOf, ActiveIn, ActiveSlots, IsAttesterAt, IsFirst
<1> QED
  BY <1>1, <1>3, <1>4, <1>5, <1>6

\* The same of the slots after a step.
LEMMA InvariantMapsNext ==
    ASSUME RegistryInv'
    PROVE  Distinct(attesters') /\ attesters' \in [Slots -> Entry]
<1>1. OneSlotPerAttester' /\ attesters' \in [Slots -> Entry]
  BY DEF RegistryInv, RegistryTypeOK
<1> QED
  BY <1>1 DEF OneSlotPerAttester, Distinct, ActiveIn, ActiveSlots

\* All slots are taken only when their number is the number of slots.
LEMMA FreeSlotLeavesRoom ==
    ASSUME RegistryInv, Slots \ ActiveSlots # {}
    PROVE  attester_count < MAX_ATTESTERS
<1>1. ActiveSlots \subseteq Slots /\ ActiveSlots # Slots
  BY DEF ActiveSlots
<1>2. IsFiniteSet(Slots) /\ Cardinality(Slots) = MAX_ATTESTERS
  BY FS_Interval, SlotAssumption DEF Slots
<1>3. Cardinality(ActiveSlots) < Cardinality(Slots)
  BY <1>1, <1>2, FS_Subset, SlotsFinite
<1> QED
  BY <1>2, <1>3 DEF RegistryInv, CountMatchesSlots

\* The instance counts as the registry does.
LEMMA EscrowCounts == ASSUME NEW S PROVE Escrow!Cardinality(S) = Cardinality(S)
BY DEF Escrow!Cardinality, Cardinality

-----------------------------------------------------------------------------
(* One lemma per instruction: the operation of the escrow that it is. *)

\* The escrow sees nothing of a step that keeps keys, bonds, lamports and threshold.
LEMMA UnseenStep ==
    ASSUME RegistryInv, RegistryInv', UNCHANGED <<vault, threshold>>,
           ActiveIn(attesters') = ActiveIn(attesters),
           \A i \in ActiveIn(attesters) :
               /\ attesters'[i].pubkey = attesters[i].pubkey
               /\ attesters'[i].bond = attesters[i].bond
    PROVE  UNCHANGED Escrow!escrowVars
<1>1. Members' = Members /\ Bonds' = Bonds
  BY InvariantMaps, InvariantMapsNext, SameToEscrow, MappingIsMapping
<1> QED
  BY <1>1 DEF Escrow!escrowVars

\* initialize_registry fixes the quorum of an escrow that nobody has joined.
LEMMA InitializeRegistryOpens ==
    ASSUME RegistryInv, RegistryInv', NEW m \in ThresholdArgs, NEW minimum \in MinBondArgs,
           InitializeRegistry(m, minimum)
    PROVE  Escrow!Open(m) /\ m \in 1..MAX_ATTESTERS
<1>1. threshold = 0 /\ m \in 1..MAX_ATTESTERS /\ threshold' = m /\ vault' = vault
  BY DEF InitializeRegistry, IsValidThreshold
<1>2. ActiveIn(attesters) = {}
  BY <1>1 DEF RegistryInv, ActiveSlots, ActiveIn
<1>3. ActiveIn(attesters') = {}
  BY DEF InitializeRegistry, EmptyEntry, ActiveIn
<1>4. Members = {}
  BY <1>2, MappingIsMapping DEF KeysAt
<1>5. Members' = Members /\ Bonds' = Bonds
  BY <1>2, <1>3, InvariantMaps, InvariantMapsNext, SameToEscrow, MappingIsMapping
<1> QED
  BY <1>1, <1>4, <1>5 DEF Escrow!Open

\* register_attester joins one new member with its bond.
LEMMA RegisterAttesterJoins ==
    ASSUME RegistryInv, RegistryInv', NEW a \in Attesters, NEW amount \in BondArgs,
           RegisterAttester(a, amount)
    PROVE  Escrow!Join(a, amount)
<1> DEFINE f == attesters
           g == attesters'
<1>1. PICK i \in Slots : i \notin ActiveIn(f) /\ g = [f EXCEPT ![i] = NewEntry(a, amount)]
  BY DEF RegisterAttester, IsEmptySlot, IsFirst, ActiveIn, ActiveSlots
<1>2. threshold > 0 /\ vault' = vault + amount /\ threshold' = threshold /\ SlotsOf(a) = {}
  BY DEF RegisterAttester
<1>3. /\ Distinct(f) /\ f \in [Slots -> Entry] /\ Distinct(g)
      /\ Cardinality(Members) = attester_count
  BY InvariantMaps, InvariantMapsNext
<1>4. ActiveIn(g) = ActiveIn(f) \cup {i} /\ g[i].pubkey = a /\ g[i].bond = amount
      /\ \A j \in ActiveIn(f) : g[j] = f[j]
  BY <1>1, <1>3 DEF ActiveIn, NewEntry
<1>5. a \notin KeysAt(f, ActiveIn(f))
  BY <1>2 DEF SlotsOf, ActiveSlots, ActiveIn, KeysAt
<1>6. KeysAt(g, ActiveIn(g)) = KeysAt(f, ActiveIn(f)) \cup {a}
  BY <1>4 DEF KeysAt
<1>7. BondFrom(g, a) = amount
  BY <1>3, <1>4, BondAtSlot
<1>8. BondsFrom(g) = [BondsFrom(f) EXCEPT ![a] = amount]
  <2>1. BondsFrom(g) = [BondsFrom(f) EXCEPT ![a] = BondFrom(g, a)]
    BY <1>3, <1>4, OneKeyChanges
  <2> QED
    BY <2>1, <1>7
<1>9. attester_count < MAX_ATTESTERS
  BY <1>1, FreeSlotLeavesRoom DEF ActiveIn, ActiveSlots
<1> HIDE DEF f, g
<1>10. /\ a \notin Members /\ Members' = Members \cup {a}
       /\ Bonds' = [Bonds EXCEPT ![a] = amount]
  BY <1>5, <1>6, <1>8, MappingIsMapping DEF f, g
<1> QED
  BY <1>2, <1>3, <1>9, <1>10, EscrowCounts DEF Escrow!Join

\* withdraw_bond lets one member leave with the bond it has left.
LEMMA WithdrawBondLeaves ==
    ASSUME RegistryInv, RegistryInv', NEW a \in Attesters, WithdrawBond(a)
    PROVE  Escrow!Leave(a)
<1> DEFINE f == attesters
           g == attesters'
<1>1. PICK i \in Slots :
         /\ IsAttesterAt(a, i)
         /\ g = [f EXCEPT ![i].is_active = FALSE, ![i].pubkey = NoKey, ![i].bond = 0]
         /\ vault' = vault - f[i].bond
  BY DEF WithdrawBond
<1>2. attester_count > threshold /\ threshold' = threshold
  BY DEF WithdrawBond, CanRemoveAttester
<1>3. /\ Distinct(f) /\ f \in [Slots -> Entry] /\ Distinct(g)
      /\ Cardinality(Members) = attester_count
  BY InvariantMaps, InvariantMapsNext
<1>4. i \in ActiveIn(f) /\ f[i].pubkey = a
  BY <1>1 DEF IsAttesterAt, IsFirst, SlotsOf, ActiveSlots, ActiveIn
<1>5. g[i].is_active = FALSE /\ \A j \in Slots : j # i => g[j] = f[j]
  BY <1>1, <1>3 DEF Entry
<1>6. ActiveIn(g) = ActiveIn(f) \ {i} /\ \A j \in ActiveIn(g) : g[j] = f[j]
  BY <1>5 DEF ActiveIn
<1>7. a \in KeysAt(f, ActiveIn(f)) /\ a \notin KeysAt(g, ActiveIn(g))
  BY <1>3, <1>4, <1>6 DEF KeysAt, Distinct
<1>8. BondFrom(g, a) = 0 /\ BondFrom(f, a) = f[i].bond
  BY <1>3, <1>4, <1>7, BondNowhere, BondAtSlot
<1>9. \A j \in ActiveIn(f) : f[j].pubkey # a => j \in ActiveIn(g) /\ g[j] = f[j]
  BY <1>4, <1>6
<1>14. \A j \in ActiveIn(g) : j \in ActiveIn(f) /\ g[j] = f[j]
  BY <1>6
<1>10. /\ KeysAt(g, ActiveIn(g)) \ {a} = KeysAt(f, ActiveIn(f)) \ {a}
       /\ BondsFrom(g) = [BondsFrom(f) EXCEPT ![a] = BondFrom(g, a)]
  BY <1>3, <1>9, <1>14, OneKeyChanges
<1>11. KeysAt(g, ActiveIn(g)) = KeysAt(f, ActiveIn(f)) \ {a}
  BY <1>7, <1>10
<1>12. BondsFrom(f)[a] = f[i].bond
  BY <1>8 DEF BondsFrom
<1> HIDE DEF f, g
<1>13. /\ a \in Members /\ Members' = Members \ {a}
       /\ Bonds' = [Bonds EXCEPT ![a] = 0]
       /\ vault' = vault - Bonds[a]
  BY <1>1, <1>7, <1>8, <1>10, <1>11, <1>12, MappingIsMapping DEF f, g
<1> QED
  BY <1>2, <1>3, <1>13, EscrowCounts DEF Escrow!Leave

\* A resolution that slashes takes the penalty from that bond alone.
LEMMA SlashAttesterPenalises ==
    ASSUME RegistryInv, RegistryInv', NEW a \in Attesters, SlashAttester(a)
    PROVE  Escrow!Penalise(a)
<1> DEFINE f == attesters
           g == attesters'
<1>1. PICK i \in Slots :
         /\ f[i].pubkey = a /\ f[i].is_active
         /\ g = [f EXCEPT ![i].bond = @ - SlashAmount(f[i].bond),
                          ![i].disputes_lost = IF @ < MaxCounter THEN @ + 1 ELSE @]
         /\ vault' = vault - SlashAmount(f[i].bond)
  BY DEF SlashAttester, IsFirst
<1>2. threshold' = threshold
  BY DEF SlashAttester
<1>3. Distinct(f) /\ f \in [Slots -> Entry] /\ Distinct(g)
  BY InvariantMaps, InvariantMapsNext
<1>4. i \in ActiveIn(f) /\ f[i].pubkey = a
  BY <1>1 DEF ActiveIn
<1>5. /\ g[i].bond = f[i].bond - SlashAmount(f[i].bond)
      /\ g[i].pubkey = a
      /\ g[i].is_active = f[i].is_active
      /\ \A j \in Slots : j # i => g[j] = f[j]
  BY <1>1, <1>3 DEF Entry
<1>6. ActiveIn(g) = ActiveIn(f)
  BY <1>5 DEF ActiveIn
<1>7. KeysAt(g, ActiveIn(g)) = KeysAt(f, ActiveIn(f)) /\ a \in KeysAt(f, ActiveIn(f))
  <2>1. \A j \in ActiveIn(f) : g[j].pubkey = f[j].pubkey
    BY <1>4, <1>5 DEF ActiveIn
  <2> QED
    BY <1>4, <1>6, <2>1 DEF KeysAt
<1>8. BondFrom(f, a) = f[i].bond /\ BondFrom(g, a) = f[i].bond - SlashAmount(f[i].bond)
  <2>1. BondFrom(f, f[i].pubkey) = f[i].bond
    BY <1>3, <1>4, BondAtSlot
  <2>2. BondFrom(g, g[i].pubkey) = g[i].bond
    BY <1>3, <1>4, <1>6, BondAtSlot
  <2> QED
    BY <1>4, <1>5, <2>1, <2>2
<1>9. \A j \in ActiveIn(f) : f[j].pubkey # a => g[j] = f[j]
  BY <1>4, <1>5 DEF ActiveIn
<1>10. \A j \in ActiveIn(g) : g[j].pubkey # a => j \in ActiveIn(f) /\ g[j] = f[j]
  BY <1>5, <1>6 DEF ActiveIn
<1>11. BondsFrom(g) = [BondsFrom(f) EXCEPT ![a] = BondFrom(g, a)]
  BY <1>3, <1>6, <1>9, <1>10, OneKeyChanges
<1>12. BondsFrom(f)[a] = f[i].bond
  BY <1>8 DEF BondsFrom
<1> HIDE DEF f, g
<1>13. /\ a \in Members /\ Members' = Members
       /\ Bonds' =
              [Bonds EXCEPT ![a] = @ - SlashAmount(@)]
       /\ vault' = vault - SlashAmount(Bonds[a])
  BY <1>1, <1>7, <1>8, <1>11, <1>12, MappingIsMapping DEF f, g
<1> QED
  BY <1>2, <1>13 DEF Escrow!Penalise

\* initiate_unregister only starts a cooldown.
LEMMA InitiateUnregisterUnseen ==
    ASSUME RegistryInv, RegistryInv', NEW a \in Attesters, InitiateUnregister(a)
    PROVE  UNCHANGED Escrow!escrowVars
<1>1. PICK i \in Slots : attesters' = [attesters EXCEPT ![i].unregister_initiated_at = now]
  BY DEF InitiateUnregister
<1>2. UNCHANGED <<vault, threshold>>
  BY DEF InitiateUnregister
<1>3. attesters \in [Slots -> Entry]
  BY InvariantMaps
<1>4. \A j \in Slots : /\ attesters'[j].pubkey = attesters[j].pubkey
                       /\ attesters'[j].bond = attesters[j].bond
                       /\ attesters'[j].is_active = attesters[j].is_active
  BY <1>1, <1>3 DEF Entry
<1> QED
  BY <1>2, <1>4, UnseenStep DEF ActiveIn

\* A credit to the proposer is a statistic.
LEMMA CreditProposerUnseen ==
    ASSUME RegistryInv, RegistryInv', NEW a \in Attesters, CreditProposer(a)
    PROVE  UNCHANGED Escrow!escrowVars
<1>1. \/ UNCHANGED attesters
      \/ \E i \in Slots : attesters' = [attesters EXCEPT ![i].updates_submitted = @ + 1]
  BY DEF CreditProposer
<1>2. UNCHANGED <<vault, threshold>>
  BY DEF CreditProposer
<1>3. attesters \in [Slots -> Entry]
  BY InvariantMaps
<1>4. \A j \in Slots : /\ attesters'[j].pubkey = attesters[j].pubkey
                       /\ attesters'[j].bond = attesters[j].bond
                       /\ attesters'[j].is_active = attesters[j].is_active
  <2>1. CASE UNCHANGED attesters
    BY <2>1
  <2>2. ASSUME NEW i \in Slots,
               attesters' = [attesters EXCEPT ![i].updates_submitted = @ + 1]
        PROVE  \A j \in Slots : /\ attesters'[j].pubkey = attesters[j].pubkey
                                /\ attesters'[j].bond = attesters[j].bond
                                /\ attesters'[j].is_active = attesters[j].is_active
    BY <2>2, <1>3 DEF Entry
  <2> QED
    BY <1>1, <2>1, <2>2
<1> QED
  BY <1>2, <1>4, UnseenStep DEF ActiveIn

-----------------------------------------------------------------------------
(* Theorems. *)

\* The empty registry is the empty escrow.
LEMMA RegistryInitImplements == RegistryInit => Escrow!EscrowInit
<1> SUFFICES ASSUME RegistryInit PROVE Escrow!EscrowInit
  OBVIOUS
<1>1. ActiveIn(attesters) = {} /\ vault = 0 /\ threshold = 0
  BY DEF RegistryInit, EmptyEntry, ActiveIn
<1>2. Members = {}
  BY <1>1, MappingIsMapping DEF KeysAt
<1>3. \A a : BondFrom(attesters, a) = 0
  BY <1>1 DEF BondFrom, SlotsIn
<1>4. Bonds = [a \in Attesters |-> 0]
  BY <1>3, MappingIsMapping DEF BondsFrom
<1> QED
  BY <1>1, <1>2, <1>4 DEF Escrow!EscrowInit

\* Every step of the registry is a step of the escrow, or none.
LEMMA StepImplementsEscrow ==
    ASSUME RegistryInv, RegistryInv', [RegistryNext]_clockedRegistryVars
    PROVE  [Escrow!EscrowNext]_Escrow!escrowVars
<1>1. ASSUME NEW m \in ThresholdArgs, NEW minimum \in MinBondArgs,
             InitializeRegistry(m, minimum)
      PROVE  Escrow!EscrowNext
  BY <1>1, InitializeRegistryOpens DEF Escrow!EscrowNext
<1>2. ASSUME NEW a \in Attesters, NEW amount \in BondArgs, RegisterAttester(a, amount)
      PROVE  Escrow!EscrowNext
  BY <1>2, RegisterAttesterJoins DEF Escrow!EscrowNext
<1>3. ASSUME NEW a \in Attesters, InitiateUnregister(a)
      PROVE  UNCHANGED Escrow!escrowVars
  BY <1>3, InitiateUnregisterUnseen
<1>4. ASSUME NEW a \in Attesters, WithdrawBond(a)
      PROVE  Escrow!EscrowNext
  BY <1>4, WithdrawBondLeaves DEF Escrow!EscrowNext
<1>5. ASSUME NEW a \in Attesters, SlashAttester(a)
      PROVE  Escrow!EscrowNext
  BY <1>5, SlashAttesterPenalises DEF Escrow!EscrowNext
<1>6. ASSUME NEW a \in Attesters, CreditProposer(a)
      PROVE  UNCHANGED Escrow!escrowVars
  BY <1>6, CreditProposerUnseen
<1>7. CASE Tick \/ UNCHANGED clockedRegistryVars
  <2>1. UNCHANGED <<attesters, vault, threshold>>
    BY <1>7 DEF Tick, registryVars, clockedRegistryVars
  <2> QED
    BY <2>1, UnseenStep DEF ActiveIn
<1> QED
  BY <1>1, <1>2, <1>3, <1>4, <1>5, <1>6, <1>7 DEF RegistryNext

\* The registry is an escrow: under the mapping each instruction is one operation
\* of BondEscrow or is invisible to it, so keys join once, leave whole and lose
\* only penalties, and no lamport moves otherwise.
THEOREM RegistryImplementsEscrow == RegistrySpec => ImplementsEscrow
<1>1. RegistryInit => Escrow!EscrowInit
  BY RegistryInitImplements
<1>2. RegistryInv /\ RegistryInv' /\ [RegistryNext]_clockedRegistryVars
        => [Escrow!EscrowNext]_Escrow!escrowVars
  BY StepImplementsEscrow
<1> QED
  BY <1>1, <1>2, RegistryInvariant, PTL DEF RegistrySpec, ImplementsEscrow, Escrow!EscrowSpec

\* Rounds and disputes move no lamport of the registry otherwise either: the
\* whole program implements the escrow.
THEOREM ProgramImplementsEscrow == Spec => ImplementsEscrow
BY RegistryImplementsEscrow, ProgramImplementsRegistry, PTL DEF ImplementsRegistry

-----------------------------------------------------------------------------
(* The feed: the mapping of an account. *)

\* The instance counts as the program does.
LEMMA FeedCounts == ASSUME NEW S PROVE Feed!Cardinality(S) = Cardinality(S)
BY DEF Feed!Cardinality, Cardinality

\* ThresholdFeed's escrow is BondEscrow's.
LEMMA SameEscrow ==
    /\ Escrow!EscrowInit => Feed!EscrowInit
    /\ Escrow!EscrowNext => Feed!EscrowNext
    /\ UNCHANGED Escrow!escrowVars => UNCHANGED Feed!escrowVars
<1>1. \A S : Feed!Cardinality(S) = Escrow!Cardinality(S)
  BY FeedCounts, EscrowCounts
<1>2. Escrow!EscrowInit => Feed!EscrowInit
  BY DEF Escrow!EscrowInit, Feed!EscrowInit
<1>3. \A m : Escrow!Open(m) => Feed!Open(m)
  BY DEF Escrow!Open, Feed!Open
<1>4. \A a, amount : Escrow!Join(a, amount) => Feed!Join(a, amount)
  BY <1>1 DEF Escrow!Join, Feed!Join
<1>5. \A a : Escrow!Leave(a) => Feed!Leave(a)
  BY <1>1 DEF Escrow!Leave, Feed!Leave
<1>6. \A a : Escrow!Penalise(a) => Feed!Penalise(a)
  BY DEF Escrow!Penalise, Feed!Penalise
<1>7. Escrow!EscrowNext => Feed!EscrowNext
  BY <1>3, <1>4, <1>5, <1>6 DEF Escrow!EscrowNext, Feed!EscrowNext
<1>8. UNCHANGED Escrow!escrowVars => UNCHANGED Feed!escrowVars
  BY DEF Escrow!escrowVars, Feed!escrowVars
<1> QED
  BY <1>2, <1>7, <1>8

\* The mapping of one account, in either state.
LEMMA MappedAccounts ==
    /\ DOMAIN FeedModes = Lsts /\ DOMAIN FeedValues = Lsts /\ DOMAIN Ballots = RoundKeys
    /\ \A l \in Lsts : FeedModes[l] = ModeOf(oracle[l]) /\ FeedValues[l] = oracle[l].params
    /\ \A k \in RoundKeys : Ballots[k] = BallotOf(pending[k])
BY DEF FeedModes, FeedValues, Ballots

\* A mode is known by its account.
LEMMA ModeIs ==
    ASSUME NEW l \in Lsts
    PROVE  /\ IsMultiAttester(l) => FeedModes[l] = "quorum"
           /\ IsSingleAttester(l) => FeedModes[l] = "single"
           /\ oracle[l].status = "absent" <=> FeedModes[l] = "none"
           /\ oracle[l].status = "legacy" => FeedModes[l] = "single"
BY DEF FeedModes, ModeOf, IsMultiAttester, IsSingleAttester

\* Writing one account changes the mapping at that feed only.
LEMMA OneFeedMapped ==
    ASSUME FeedsTyped, NEW l \in Lsts, NEW state, oracle' = [oracle EXCEPT ![l] = state]
    PROVE  /\ FeedModes' = [FeedModes EXCEPT ![l] = ModeOf(state)]
           /\ FeedValues' = [FeedValues EXCEPT ![l] = state.params]
<1>1. oracle \in [Lsts -> RiskState]
  BY DEF FeedsTyped
<1>2. \A m \in Lsts : oracle'[m] = IF m = l THEN state ELSE oracle[m]
  BY <1>1
<1>3. FeedModes' = [m \in Lsts |-> ModeOf(oracle'[m])]
  BY DEF FeedModes
<1>4. FeedValues' = [m \in Lsts |-> oracle'[m].params]
  BY DEF FeedValues
<1>5. [FeedModes EXCEPT ![l] = ModeOf(state)]
        = [m \in Lsts |-> IF m = l THEN ModeOf(state) ELSE ModeOf(oracle[m])]
  BY DEF FeedModes
<1>6. [FeedValues EXCEPT ![l] = state.params]
        = [m \in Lsts |-> IF m = l THEN state.params ELSE oracle[m].params]
  BY DEF FeedValues
<1> QED
  BY <1>2, <1>3, <1>4, <1>5, <1>6

\* Writing one round changes the mapping at that round only.
LEMMA OneBallotMapped ==
    ASSUME FeedsTyped, NEW k \in RoundKeys, NEW p, pending' = [pending EXCEPT ![k] = p]
    PROVE  Ballots' = [Ballots EXCEPT ![k] = BallotOf(p)]
<1>1. pending \in [RoundKeys -> PendingUpdate]
  BY DEF FeedsTyped
<1>2. \A j \in RoundKeys : pending'[j] = IF j = k THEN p ELSE pending[j]
  BY <1>1
<1>3. Ballots' = [j \in RoundKeys |-> BallotOf(pending'[j])]
  BY DEF Ballots
<1>4. [Ballots EXCEPT ![k] = BallotOf(p)]
        = [j \in RoundKeys |-> IF j = k THEN BallotOf(p) ELSE BallotOf(pending[j])]
  BY DEF Ballots
<1> QED
  BY <1>2, <1>3, <1>4

\* Accounts that stay keep their mapping.
LEMMA SameAccountsMapped ==
    /\ UNCHANGED oracle => UNCHANGED <<FeedModes, FeedValues>>
    /\ UNCHANGED pending => UNCHANGED Ballots
BY DEF FeedModes, FeedValues, Ballots

-----------------------------------------------------------------------------
(* One lemma per instruction: the operation on the feed that it is. *)

\* initialize_oracle creates a feed with one writer and no value.
LEMMA InitializeOracleCreates ==
    ASSUME FeedsTyped, NEW l \in Lsts, NEW auth \in Authorities, InitializeOracle(l, auth)
    PROVE  Feed!Create(l)
<1>1. FreshOracle(auth).status = "current" /\ FreshOracle(auth).update_mode = 0
      /\ FreshOracle(auth).params = ZeroPayload
  BY DEF FreshOracle, NoOracle
<1>2. oracle[l].status = "absent" /\ oracle' = [oracle EXCEPT ![l] = FreshOracle(auth)]
      /\ pending' = pending
  BY DEF InitializeOracle
<1>3. ModeOf(FreshOracle(auth)) = "single"
  BY <1>1 DEF ModeOf
<1>4. FeedModes' = [FeedModes EXCEPT ![l] = "single"]
      /\ FeedValues' = [FeedValues EXCEPT ![l] = ZeroPayload]
  BY <1>1, <1>2, <1>3, OneFeedMapped
<1> QED
  BY <1>2, <1>4, ModeIs, SameAccountsMapped DEF Feed!Create

\* update_risk_state publishes where no quorum does.
LEMMA UpdateRiskStatePublishes ==
    ASSUME FeedsTyped, NEW l \in Lsts, NEW p \in Payloads, UpdateRiskState(l, p)
    PROVE  Feed!Publish(l, p)
<1> DEFINE state == Written(oracle[l], p, oracle[l].authority)
<1>1. oracle[l] \in RiskState /\ IsSingleAttester(l) /\ pending' = pending
      /\ oracle' = [oracle EXCEPT ![l] = state]
  BY DEF FeedsTyped, UpdateRiskState
<1>2. state.params = p /\ state.status = "current" /\ state.update_mode = 0
  BY <1>1 DEF Written, RiskState, IsSingleAttester
<1>3. ModeOf(state) = "single"
  BY <1>2 DEF ModeOf
<1> HIDE DEF state
<1>4. FeedModes' = [FeedModes EXCEPT ![l] = "single"]
      /\ FeedValues' = [FeedValues EXCEPT ![l] = p]
  BY <1>1, <1>2, <1>3, OneFeedMapped
<1>5. FeedModes' = FeedModes /\ FeedModes[l] = "single"
  BY <1>1, <1>4, ModeIs DEF FeedModes
<1> QED
  BY <1>1, <1>4, <1>5, SameAccountsMapped DEF Feed!Publish

\* close_oracle deletes the feed, in either mode.
LEMMA CloseOracleDeletes ==
    ASSUME FeedsTyped, NEW l \in Lsts, CloseOracle(l)
    PROVE  Feed!Delete(l)
<1>1. oracle[l].status = "current" /\ oracle' = [oracle EXCEPT ![l] = NoOracle]
      /\ pending' = pending
  BY DEF CloseOracle
<1>2. ModeOf(NoOracle) = "none" /\ NoOracle.params = ZeroPayload
  BY DEF ModeOf, NoOracle
<1>3. FeedModes' = [FeedModes EXCEPT ![l] = "none"]
      /\ FeedValues' = [FeedValues EXCEPT ![l] = ZeroPayload]
  BY <1>1, <1>2, OneFeedMapped
<1> QED
  BY <1>1, <1>3, ModeIs, SameAccountsMapped DEF Feed!Delete

\* A migrated account keeps its value and its one writer.
LEMMA MigrateRiskStateUnseen ==
    ASSUME FeedsTyped, NEW l \in Lsts, MigrateRiskState(l)
    PROVE  UNCHANGED Feed!feedVars
<1>1. pending' = pending
  BY DEF MigrateRiskState
<1>2. CASE oracle' = oracle
  BY <1>1, <1>2, SameAccountsMapped DEF Feed!feedVars
<1>3. CASE oracle[l].status = "legacy"
  <2> DEFINE state == [oracle[l] EXCEPT !.status = "current", !.update_mode = 0]
  <2>1. oracle' = [oracle EXCEPT ![l] = state] /\ oracle[l] \in RiskState
    BY <1>3 DEF MigrateRiskState, FeedsTyped
  <2>2. state.status = "current" /\ state.update_mode = 0 /\ state.params = oracle[l].params
    BY <2>1 DEF RiskState
  <2>3. ModeOf(state) = "single" /\ FeedModes[l] = "single"
    BY <1>3, <2>2, ModeIs DEF ModeOf
  <2> HIDE DEF state
  <2>4. FeedModes' = FeedModes /\ FeedValues' = FeedValues
    BY <2>1, <2>2, <2>3, OneFeedMapped DEF FeedModes, FeedValues
  <2> QED
    BY <1>1, <2>4, SameAccountsMapped DEF Feed!feedVars
<1> QED
  BY <1>2, <1>3 DEF MigrateRiskState

\* enable_multi_attester hands a feed over to a quorum of members that exists.
LEMMA EnableMultiAttesterHandsOver ==
    ASSUME RegistryInv, FeedsTyped, NEW l \in Lsts, EnableMultiAttester(l)
    PROVE  Feed!HandOver(l)
<1> DEFINE state == [oracle[l] EXCEPT !.update_mode = 1]
<1>1. IsSingleAttester(l) /\ pending' = pending /\ oracle[l] \in RiskState
      /\ oracle' = [oracle EXCEPT ![l] = state]
  BY DEF EnableMultiAttester, FeedsTyped
<1>2. threshold > 0 /\ Cardinality(Members) >= threshold
  BY InvariantMaps DEF EnableMultiAttester
<1>3. state.status = "current" /\ state.update_mode = 1 /\ state.params = oracle[l].params
  BY <1>1 DEF RiskState, IsSingleAttester
<1>4. ModeOf(state) = "quorum" /\ FeedModes[l] = "single"
  BY <1>1, <1>3, ModeIs DEF ModeOf
<1> HIDE DEF state
<1>5. FeedModes' = [FeedModes EXCEPT ![l] = "quorum"] /\ FeedValues' = FeedValues
  <2>1. /\ FeedModes' = [FeedModes EXCEPT ![l] = ModeOf(state)]
        /\ FeedValues' = [FeedValues EXCEPT ![l] = state.params]
    BY <1>1, OneFeedMapped
  <2> QED
    BY <1>3, <1>4, <2>1 DEF FeedValues
<1> QED
  BY <1>1, <1>2, <1>4, <1>5, FeedCounts, SameAccountsMapped DEF Feed!HandOver

\* Whoever signs is a member.
LEMMA SignerIsMember ==
    ASSUME NEW a, NEW i, IsAttesterAt(a, i)
    PROVE  i \in Slots /\ Members # {}
<1>1. i \in ActiveSlots
  BY DEF IsAttesterAt, IsFirst, SlotsOf
<1> QED
  BY <1>1 DEF Members, ActiveSlots

\* propose_update opens a ballot with the proposer's own vote.
LEMMA ProposeUpdateProposes ==
    ASSUME FeedsTyped, NEW k \in RoundKeys, NEW a \in Attesters, NEW p \in Payloads,
           ProposeUpdate(a, k, p)
    PROVE  IsValid(p) /\ \E i \in Slots : Feed!Propose(k, p, i)
<1>1. IsMultiAttester(k[1]) /\ pending[k].status = "absent" /\ IsValid(p) /\ oracle' = oracle
  BY DEF ProposeUpdate
<1>2. PICK i \in Slots :
         /\ IsAttesterAt(a, i)
         /\ pending' = [pending EXCEPT ![k] =
               [status |-> "open", params |-> p, proposer |-> a,
                expires_at |-> now + PENDING_UPDATE_TTL_SECS,
                confirmation_count |-> 1, confirmations |-> {i}, finalized_at |-> 0]]
  BY DEF ProposeUpdate
<1>3. Ballots' = [Ballots EXCEPT ![k] = [state |-> "open", value |-> p, votes |-> {i}]]
  BY <1>2, OneBallotMapped DEF BallotOf
<1>4. FeedModes[k[1]] = "quorum"
  BY <1>1, ModeIs DEF RoundKeys
<1>5. Ballots[k].state = "none"
  BY <1>1, MappedAccounts DEF BallotOf
<1> QED
  BY <1>1, <1>2, <1>3, <1>4, <1>5, SignerIsMember, SameAccountsMapped DEF Feed!Propose

\* A confirmation adds one vote; the one on which the counter reaches the
\* threshold completes the quorum of votes, and no earlier one does.
LEMMA ConfirmUpdateVotes ==
    ASSUME FeedsTyped, RoundsSound, threshold \in Nat,
           NEW k \in RoundKeys, NEW a \in Attesters, ConfirmUpdate(a, k)
    PROVE  \E i \in Slots : Feed!Vote(k, i) \/ Feed!Decide(k, i)
<1>1. IsMultiAttester(k[1]) /\ pending[k].status = "open" /\ pending[k] \in PendingUpdate
      /\ k[1] \in Lsts /\ oracle[k[1]] \in RiskState
  BY DEF ConfirmUpdate, FeedsTyped, RoundKeys
<1>2. PICK i \in Slots :
         LET confirmed == AddConfirmation(pending[k], i) IN
         /\ IsAttesterAt(a, i)
         /\ i \notin pending[k].confirmations
         /\ \/ /\ confirmed.confirmation_count >= threshold
               /\ Finalize(a, k, confirmed)
            \/ /\ confirmed.confirmation_count < threshold
               /\ pending' = [pending EXCEPT ![k] = confirmed]
               /\ UNCHANGED <<clockedRegistryVars, oracle>>
  BY DEF ConfirmUpdate
<1> DEFINE votes == pending[k].confirmations
           confirmed == AddConfirmation(pending[k], i)
<1>3. /\ confirmed.status = "open" /\ confirmed.params = pending[k].params
      /\ confirmed.confirmations = votes \cup {i}
      /\ confirmed.confirmation_count = pending[k].confirmation_count + 1
  BY <1>1 DEF AddConfirmation, PendingUpdate
<1>4. /\ Cardinality(votes \cup {i}) = confirmed.confirmation_count
      /\ confirmed.confirmation_count \in Nat
  <2>1. IsFiniteSet(votes)
    <3>1. votes \subseteq Slots
      BY <1>1 DEF PendingUpdate
    <3>2. IsFiniteSet(Slots)
      BY SlotAssumption, FS_Interval DEF Slots
    <3> QED
      BY <3>1, <3>2, FS_Subset
  <2>2. pending[k].confirmation_count = Cardinality(votes) /\ Cardinality(votes) \in Nat
    BY <2>1, FS_CardinalityType DEF RoundsSound
  <2>3. i \notin votes
    BY <1>2
  <2>4. confirmed.confirmation_count = Cardinality(votes) + 1
    BY <1>3, <2>2
  <2> HIDE DEF votes, confirmed
  <2>5. Cardinality(votes \cup {i}) = Cardinality(votes) + 1
    BY <2>1, <2>3, FS_AddElement
  <2> QED
    BY <2>2, <2>4, <2>5
<1>5. /\ FeedModes[k[1]] = "quorum" /\ Members # {}
      /\ Ballots[k] = [state |-> "open", value |-> pending[k].params, votes |-> votes]
  BY <1>1, <1>2, ModeIs, SignerIsMember, MappedAccounts DEF BallotOf
<1>6. i \notin votes
  BY <1>2
<1>7. Feed!Voted(k, i) = [state |-> "open", value |-> pending[k].params, votes |-> votes \cup {i}]
  BY <1>5 DEF Feed!Voted
<1>8. Feed!Cardinality(Feed!Voted(k, i).votes) = confirmed.confirmation_count
  BY <1>4, <1>7, FeedCounts
<1>9. CASE /\ confirmed.confirmation_count < threshold
           /\ pending' = [pending EXCEPT ![k] = confirmed]
           /\ UNCHANGED oracle
  <2>1. BallotOf(confirmed) = Feed!Voted(k, i)
    BY <1>3, <1>7 DEF BallotOf
  <2> HIDE DEF confirmed, votes
  <2>2. Ballots' = [Ballots EXCEPT ![k] = Feed!Voted(k, i)]
    BY <1>9, <2>1, OneBallotMapped
  <2>3. Feed!Vote(k, i)
    BY <1>5, <1>6, <1>8, <1>9, <2>2, SameAccountsMapped DEF Feed!Vote
  <2> QED
    BY <2>3
<1>10. CASE confirmed.confirmation_count >= threshold /\ Finalize(a, k, confirmed)
  <2> DEFINE final == [confirmed EXCEPT !.status = "finalized", !.finalized_at = now]
             state == Written(oracle[k[1]], confirmed.params, a)
  <2>1. pending' = [pending EXCEPT ![k] = final] /\ oracle' = [oracle EXCEPT ![k[1]] = state]
    BY <1>10 DEF Finalize, Written
  <2>2. final.status = "finalized" /\ final.params = pending[k].params
        /\ final.confirmations = votes \cup {i}
    BY <1>1, <1>3 DEF AddConfirmation, PendingUpdate
  <2>3. state.status = "current" /\ state.update_mode = 1 /\ state.params = pending[k].params
    BY <1>1, <1>3 DEF Written, RiskState, IsMultiAttester
  <2>4. BallotOf(final) = [state |-> "passed", value |-> pending[k].params,
                           votes |-> votes \cup {i}]
    BY <2>2 DEF BallotOf
  <2>5. ModeOf(state) = "quorum"
    BY <2>3 DEF ModeOf
  <2> HIDE DEF final, state, confirmed, votes
  <2>6. BallotOf(final) = [Feed!Voted(k, i) EXCEPT !.state = "passed"]
    BY <1>7, <2>4
  <2>7. Ballots' = [Ballots EXCEPT ![k] = [Feed!Voted(k, i) EXCEPT !.state = "passed"]]
    BY <2>1, <2>6, OneBallotMapped
  <2>8. FeedValues' = [FeedValues EXCEPT ![k[1]] = pending[k].params]
        /\ FeedModes' = [FeedModes EXCEPT ![k[1]] = "quorum"]
    <3>1. /\ FeedModes' = [FeedModes EXCEPT ![k[1]] = ModeOf(state)]
          /\ FeedValues' = [FeedValues EXCEPT ![k[1]] = state.params]
      BY <1>1, <2>1, OneFeedMapped
    <3> QED
      BY <2>3, <2>5, <3>1
  <2>9. FeedModes' = FeedModes /\ Ballots[k].value = pending[k].params
    BY <1>5, <2>8 DEF FeedModes
  <2>10. Feed!Decide(k, i)
    BY <1>5, <1>6, <1>8, <1>10, <2>7, <2>8, <2>9 DEF Feed!Decide
  <2> QED
    BY <2>10
<1> QED
  BY <1>2, <1>9, <1>10

\* cancel_expired drops an undecided ballot.
LEMMA CancelExpiredDrops ==
    ASSUME FeedsTyped, NEW k \in RoundKeys, CancelExpired(k)
    PROVE  Feed!Drop(k)
<1>1. pending[k].status = "open" /\ pending' = [pending EXCEPT ![k] = NoPending]
      /\ oracle' = oracle
  BY DEF CancelExpired
<1>2. BallotOf(NoPending) = Feed!NoBallot
  BY DEF BallotOf, NoPending, Feed!NoBallot
<1>3. Ballots' = [Ballots EXCEPT ![k] = Feed!NoBallot]
  BY <1>1, <1>2, OneBallotMapped
<1>4. Ballots[k].state = "open"
  BY <1>1, MappedAccounts DEF BallotOf
<1> QED
  BY <1>1, <1>3, <1>4, SameAccountsMapped DEF Feed!Drop

-----------------------------------------------------------------------------
(* The whole program. *)

\* An instruction that keeps the registry's accounts moves no money.
LEMMA KeptRegistryUnseen ==
    ASSUME RegistryInv, RegistryInv', UNCHANGED clockedRegistryVars
    PROVE  UNCHANGED Escrow!escrowVars
<1>1. UNCHANGED <<attesters, vault, threshold>>
  BY DEF clockedRegistryVars, registryVars
<1> QED
  BY <1>1, UnseenStep DEF ActiveIn

\* An instruction on a feed is an operation on the feed, or a migration.
LEMMA OracleStepImplements ==
    ASSUME RegistryInv, FeedsTyped, OracleStep
    PROVE  Feed!FeedNext \/ UNCHANGED Feed!feedVars
<1> PICK l \in Lsts :
        \/ \E auth \in Authorities : InitializeOracle(l, auth)
        \/ \E p \in Payloads : UpdateRiskState(l, p)
        \/ CloseOracle(l)
        \/ MigrateRiskState(l)
        \/ EnableMultiAttester(l)
  BY DEF OracleStep
<1>1. CASE \E auth \in Authorities : InitializeOracle(l, auth)
  BY <1>1, InitializeOracleCreates DEF Feed!FeedNext
<1>2. ASSUME NEW p \in Payloads, UpdateRiskState(l, p) PROVE Feed!FeedNext
  <2>1. Feed!Publish(l, p) /\ p \in {q \in Payloads : IsValid(q)}
    BY <1>2, UpdateRiskStatePublishes DEF UpdateRiskState
  <2> QED
    BY <2>1 DEF Feed!FeedNext
<1>3. CASE CloseOracle(l)
  BY <1>3, CloseOracleDeletes DEF Feed!FeedNext
<1>4. CASE MigrateRiskState(l)
  BY <1>4, MigrateRiskStateUnseen
<1>5. CASE EnableMultiAttester(l)
  BY <1>5, EnableMultiAttesterHandsOver DEF Feed!FeedNext
<1> QED
  BY <1>1, <1>2, <1>3, <1>4, <1>5

\* An instruction on a round is an operation on a ballot and moves no money.
LEMMA RoundStepImplements ==
    ASSUME RegistryInv, RegistryInv', FeedsTyped, RoundsSound, RoundStep
    PROVE  Feed!FeedNext /\ UNCHANGED Escrow!escrowVars
<1> PICK k \in RoundKeys :
        \/ \E a \in Attesters, p \in Payloads : ProposeUpdate(a, k, p)
        \/ \E a \in Attesters : ConfirmUpdate(a, k)
        \/ CancelExpired(k)
  BY DEF RoundStep
<1>1. k \in Lsts \X Rounds
  BY DEF RoundKeys
<1>2. ASSUME NEW a \in Attesters, NEW p \in Payloads, ProposeUpdate(a, k, p)
      PROVE  Feed!FeedNext /\ UNCHANGED Escrow!escrowVars
  <2>1. PICK i \in Slots : Feed!Propose(k, p, i)
    BY <1>2, ProposeUpdateProposes
  <2>2. p \in {q \in Payloads : IsValid(q)} /\ UNCHANGED clockedRegistryVars
    BY <1>2 DEF ProposeUpdate
  <2> QED
    BY <1>1, <2>1, <2>2, KeptRegistryUnseen DEF Feed!FeedNext
<1>3. ASSUME NEW a \in Attesters, ConfirmUpdate(a, k)
      PROVE  Feed!FeedNext /\ UNCHANGED Escrow!escrowVars
  <2>1. threshold \in Nat
    BY SlotAssumption DEF RegistryInv, RegistryTypeOK
  <2>2. PICK i \in Slots : Feed!Vote(k, i) \/ Feed!Decide(k, i)
    BY <1>3, <2>1, ConfirmUpdateVotes
  <2>3. Feed!FeedNext
    BY <1>1, <2>2 DEF Feed!FeedNext
  <2>4. UNCHANGED clockedRegistryVars \/ CreditProposer(pending[k].proposer)
    <3>1. PICK j \in Slots :
             \/ Finalize(a, k, AddConfirmation(pending[k], j))
             \/ UNCHANGED clockedRegistryVars
      BY <1>3 DEF ConfirmUpdate
    <3>2. AddConfirmation(pending[k], j).proposer = pending[k].proposer
      BY DEF AddConfirmation
    <3> QED
      BY <3>1, <3>2 DEF Finalize
  <2>5. pending[k].proposer \in Attesters
    BY <1>3 DEF ConfirmUpdate, RoundsSound
  <2> QED
    BY <2>3, <2>4, <2>5, KeptRegistryUnseen, CreditProposerUnseen
<1>4. CASE CancelExpired(k)
  <2>1. Feed!Drop(k) /\ UNCHANGED clockedRegistryVars
    BY <1>4, CancelExpiredDrops DEF CancelExpired
  <2> QED
    BY <1>1, <2>1, KeptRegistryUnseen DEF Feed!FeedNext
<1> QED
  BY <1>2, <1>3, <1>4

\* Every step of the program is a step of one of the two, or of neither.
LEMMA ProgramStepImplements ==
    ASSUME ProgramInv, ProgramInv', [Next]_vars
    PROVE  \/ Feed!EscrowNext /\ UNCHANGED Feed!feedVars
           \/ Feed!FeedNext /\ UNCHANGED Feed!escrowVars
           \/ UNCHANGED <<Feed!escrowVars, Feed!feedVars>>
<1>1. RegistryInv /\ RegistryInv' /\ FeedsTyped /\ RoundsSound
  BY DEF ProgramInv
<1>2. Escrow!EscrowNext \/ UNCHANGED Escrow!escrowVars
  BY <1>1, NextDrivesRegistry, StepImplementsEscrow
<1>3. CASE OracleStep
  <2>1. UNCHANGED Escrow!escrowVars
    BY <1>1, <1>3, OracleStepFrame, KeptRegistryUnseen
  <2> QED
    BY <1>1, <1>3, <2>1, OracleStepImplements, SameEscrow
<1>4. CASE RoundStep
  BY <1>1, <1>4, RoundStepImplements, SameEscrow
<1>5. CASE RegistryStep \/ DisputeStep \/ UNCHANGED vars
  <2>1. oracle' = oracle /\ pending' = pending
    BY <1>5, DisputeStepFrame DEF RegistryStep, vars, oracleVars
  <2>2. UNCHANGED Feed!feedVars
    BY <2>1, SameAccountsMapped DEF Feed!feedVars
  <2> QED
    BY <1>2, <2>2, SameEscrow
<1> QED
  BY <1>3, <1>4, <1>5 DEF Next

\* A deployment starts with feeds that have at most one writer, and no ballots.
LEMMA ProgramInitImplements == Init => Feed!EscrowInit /\ Feed!FeedInit
<1> SUFFICES ASSUME Init PROVE Feed!EscrowInit /\ Feed!FeedInit
  OBVIOUS
<1>1. Feed!EscrowInit
  BY RegistryInitImplements, SameEscrow DEF Init
<1>2. PICK auth \in [LegacyLsts -> Authorities],
           p \in [LegacyLsts -> {q \in Payloads : IsValid(q)}] :
         oracle = [l \in Lsts |->
             IF l \in LegacyLsts
             THEN [FreshOracle(auth[l]) EXCEPT !.status = "legacy", !.params = p[l],
                                               !.timestamp = now]
             ELSE NoOracle]
  BY DEF Init
<1>3. ASSUME NEW l \in Lsts
      PROVE  /\ FeedModes[l] \in {"none", "single"}
             /\ FeedValues[l] \in {q \in Payloads : IsValid(q)} \cup {ZeroPayload}
  <2>1. CASE l \in LegacyLsts
    <3>1. oracle[l].status = "legacy" /\ oracle[l].params = p[l]
      BY <1>2, <2>1 DEF FreshOracle, NoOracle
    <3> QED
      BY <2>1, <3>1, ModeIs, MappedAccounts
  <2>2. CASE l \notin LegacyLsts
    <3>1. oracle[l].status = "absent" /\ oracle[l].params = ZeroPayload
      BY <1>2, <2>2 DEF NoOracle
    <3> QED
      BY <3>1, ModeIs, MappedAccounts
  <2> QED
    BY <2>1, <2>2
<1>4. FeedModes \in [Lsts -> {"none", "single"}]
  BY <1>3 DEF FeedModes
<1>5. FeedValues \in [Lsts -> {q \in Payloads : IsValid(q)} \cup {ZeroPayload}]
  BY <1>3 DEF FeedValues
<1>6. Ballots = [k \in Lsts \X Rounds |-> Feed!NoBallot]
  <2>1. \A k \in RoundKeys : pending[k] = NoPending
    BY DEF Init
  <2>2. BallotOf(NoPending) = Feed!NoBallot
    BY DEF BallotOf, NoPending, Feed!NoBallot
  <2> QED
    BY <2>1, <2>2 DEF Ballots, RoundKeys
<1> QED
  BY <1>1, <1>4, <1>5, <1>6 DEF Feed!FeedInit

\* The program is a bonded threshold feed: under the mapping each instruction is
\* one operation on the bonds or one on a feed or its ballots, or is invisible to
\* both, so a value is published by its one authority or in the very step in
\* which a quorum of seats has voted for it.
THEOREM ProgramImplementsThresholdFeed == Spec => ImplementsThresholdFeed
<1>1. Init => Feed!EscrowInit /\ Feed!FeedInit
  BY ProgramInitImplements
<1>2. ProgramInv /\ ProgramInv' /\ [Next]_vars
        => [\/ Feed!EscrowNext /\ UNCHANGED Feed!feedVars
            \/ Feed!FeedNext /\ UNCHANGED Feed!escrowVars]_<<Feed!escrowVars, Feed!feedVars>>
  BY ProgramStepImplements
<1> QED
  BY <1>1, <1>2, ProgramInvariant, PTL DEF Spec, ImplementsThresholdFeed, Feed!BondedFeedSpec

=============================================================================
