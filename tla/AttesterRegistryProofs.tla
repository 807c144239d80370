----------------------- MODULE AttesterRegistryProofs -----------------------
(***************************************************************************)
(* The registry's invariants, for every registry of up to five slots, every *)
(* set of attesters, threshold, bond and cooldown.                         *)
(***************************************************************************)
EXTENDS AttesterRegistry, FiniteSetTheorems, TLAPS

\* The inductive invariant.  Solvency and the counter are not inductive by
\* themselves: both need an inactive slot to hold no bond and an active one no
\* empty key, and initialize_registry, which resets the total and the slots but
\* not the lamports, needs that nothing was registered before it.
RegistryInv ==
    /\ RegistryTypeOK
    /\ BondsBacked
    /\ CountMatchesSlots
    /\ OneSlotPerAttester
    /\ threshold = 0 => ActiveSlots = {}

-----------------------------------------------------------------------------
(* Lemmas about the operators. *)

\* A slash takes no more than the bond.
LEMMA SlashBounded ==
    ASSUME NEW bond \in Nat
    PROVE  SlashAmount(bond) \in 0..bond
<1>1. PICK p \in 0..100 : p = SLASH_PERCENT
  BY BondAssumption
<1>2. bond * p <= bond * 100 /\ bond * p >= 0 /\ bond * p \in Nat
  OBVIOUS
<1>3. \A x \in Nat : x <= bond * 100 => x \div 100 \in 0..bond
  OBVIOUS
<1> QED
  BY <1>1, <1>2, <1>3 DEF SlashAmount

\* The slots are finitely many, so their active part has a cardinality.
LEMMA SlotsFinite ==
    /\ IsFiniteSet(Slots)
    /\ \A S : S \subseteq Slots => IsFiniteSet(S) /\ Cardinality(S) \in Nat
<1>1. IsFiniteSet(Slots)
  BY FS_Interval, SlotAssumption DEF Slots
<1> QED
  BY <1>1, FS_Subset, FS_CardinalityType

\* Every term of the sum is a natural number.
LEMMA BondInNat ==
    ASSUME NEW f \in [Slots -> Entry], NEW j
    PROVE  BondIn(f, j) \in Nat
<1>1. CASE j \in Slots
  <2>1. f[j] \in Entry
    BY <1>1
  <2> QED
    BY <1>1, <2>1 DEF Entry, BondIn
<1>2. CASE j \notin Slots
  BY <1>2 DEF BondIn
<1> QED
  BY <1>1, <1>2

\* Changing the bond of one slot changes the sum of the bonds by as much.
LEMMA SumAfterOneSlot ==
    ASSUME NEW f \in [Slots -> Entry], NEW g \in [Slots -> Entry], NEW i \in Slots,
           \A j \in Slots \ {i} : g[j].bond = f[j].bond
    PROVE  BondSum(g) = BondSum(f) - f[i].bond + g[i].bond
<1>1. i \in 1..5 /\ \A j \in 1..5 : BondIn(f, j) \in Nat /\ BondIn(g, j) \in Nat
  BY SlotAssumption, BondInNat DEF Slots
<1>2. \A j \in 1..5 : j # i => BondIn(g, j) = BondIn(f, j)
  BY DEF BondIn
<1>3. BondIn(f, i) = f[i].bond /\ BondIn(g, i) = g[i].bond
  BY DEF BondIn
<1> HIDE DEF BondIn
<1>4. BondSum(g) = BondSum(f) - BondIn(f, i) + BondIn(g, i)
  <2>1. CASE i = 1  BY <1>1, <1>2, <2>1 DEF BondSum
  <2>2. CASE i = 2  BY <1>1, <1>2, <2>2 DEF BondSum
  <2>3. CASE i = 3  BY <1>1, <1>2, <2>3 DEF BondSum
  <2>4. CASE i = 4  BY <1>1, <1>2, <2>4 DEF BondSum
  <2>5. CASE i = 5  BY <1>1, <1>2, <2>5 DEF BondSum
  <2> QED  BY <1>1, <2>1, <2>2, <2>3, <2>4, <2>5
<1> QED
  BY <1>3, <1>4

\* No bond exceeds the sum.
LEMMA SumBoundsBond ==
    ASSUME NEW f \in [Slots -> Entry], NEW i \in Slots
    PROVE  /\ BondSum(f) \in Nat
           /\ f[i].bond \in 0..BondSum(f)
<1>1. i \in 1..5 /\ \A j \in 1..5 : BondIn(f, j) \in Nat
  BY SlotAssumption, BondInNat DEF Slots
<1>2. BondIn(f, i) = f[i].bond
  BY DEF BondIn
<1> QED
  BY <1>1, <1>2 DEF BondSum
-----------------------------------------------------------------------------
(* The invariant holds initially and is kept by every instruction. *)

\* Before initialize_registry there is no slot in use, no bond and no lamport.
LEMMA RegistryInitEstablishes == RegistryInit => RegistryInv
<1> SUFFICES ASSUME RegistryInit PROVE RegistryInv
  OBVIOUS
<1>1. RegistryTypeOK
  BY SlotAssumption DEF RegistryInit, RegistryTypeOK, EmptyEntry, Entry
<1>2. BondsBacked
  BY DEF RegistryInit, BondsBacked, BondSum, BondIn, EmptyEntry
<1>3. ActiveSlots = {}
  BY DEF RegistryInit, ActiveSlots, EmptyEntry
<1>4. CountMatchesSlots
  BY <1>3, FS_EmptySet DEF CountMatchesSlots, RegistryInit
<1>5. OneSlotPerAttester
  BY <1>3 DEF OneSlotPerAttester, RegistryInit, EmptyEntry
<1> QED
  BY <1>1, <1>2, <1>3, <1>4, <1>5 DEF RegistryInv

\* initialize_registry finds no bond and no lamports to lose.
LEMMA InitializeRegistryKeeps ==
    ASSUME RegistryInv, NEW m \in ThresholdArgs, NEW minimum \in MinBondArgs,
           InitializeRegistry(m, minimum)
    PROVE  RegistryInv'
<1> USE DEF InitializeRegistry, IsValidThreshold
<1>1. vault = 0
  <2>1. \A i \in Slots : attesters[i].bond = 0
    BY DEF RegistryInv, OneSlotPerAttester
  <2> QED
    BY <2>1 DEF RegistryInv, BondsBacked, BondSum, BondIn
<1>2. RegistryTypeOK'
  BY SlotAssumption, BondAssumption
  DEF RegistryInv, RegistryTypeOK, EmptyEntry, Entry
<1>3. BondsBacked'
  BY <1>1 DEF BondsBacked, BondSum, BondIn, EmptyEntry
<1>4. ActiveSlots' = {}
  BY DEF ActiveSlots, EmptyEntry
<1>5. CountMatchesSlots'
  BY <1>4, FS_EmptySet DEF CountMatchesSlots
<1>6. OneSlotPerAttester'
  BY <1>4 DEF OneSlotPerAttester, EmptyEntry
<1> QED
  BY <1>2, <1>3, <1>4, <1>5, <1>6 DEF RegistryInv

\* register_attester fills an empty slot with a key no active slot holds.
LEMMA RegisterAttesterKeeps ==
    ASSUME RegistryInv, NEW a \in Attesters, NEW amount \in BondArgs,
           RegisterAttester(a, amount)
    PROVE  RegistryInv'
<1>1. PICK i \in Slots :
        IsEmptySlot(i) /\ attesters' = [attesters EXCEPT ![i] = NewEntry(a, amount)]
  BY DEF RegisterAttester
<1>2. amount \in Nat /\ a # NoKey
  BY BondAssumption, AttesterAssumption
<1>3. i \notin ActiveSlots /\ attesters[i].bond = 0
  BY <1>1 DEF IsEmptySlot, IsFirst, RegistryInv, OneSlotPerAttester
<1>4. NewEntry(a, amount) \in Entry
  BY <1>2 DEF NewEntry, Entry, RegistryInv, RegistryTypeOK
<1>5. RegistryTypeOK'
  BY <1>1, <1>2, <1>4 DEF RegistryInv, RegistryTypeOK, RegisterAttester
<1>6. BondsBacked'
  <2>1. BondSum(attesters') = BondSum(attesters) - attesters[i].bond + attesters'[i].bond
    BY <1>1, <1>4, SumAfterOneSlot DEF RegistryInv, RegistryTypeOK
  <2>2. attesters'[i].bond = amount
    BY <1>1 DEF RegistryInv, RegistryTypeOK, NewEntry
  <2> QED
    BY <1>2, <1>3, <2>1, <2>2
    DEF RegistryInv, RegistryTypeOK, BondsBacked, RegisterAttester
<1>7. ActiveSlots' = ActiveSlots \cup {i}
  BY <1>1 DEF ActiveSlots, NewEntry, RegistryInv, RegistryTypeOK
<1>8. CountMatchesSlots'
  <2>1. IsFiniteSet(ActiveSlots)
    BY SlotsFinite DEF ActiveSlots
  <2> QED
    BY <1>3, <1>7, <2>1, FS_AddElement
    DEF CountMatchesSlots, RegistryInv, RegisterAttester
<1>9. OneSlotPerAttester'
  <2>1. \A j \in ActiveSlots : attesters[j].pubkey # a
    BY DEF RegisterAttester, SlotsOf
  <2>2. \A j \in Slots \ {i} : attesters'[j] = attesters[j]
    BY <1>1 DEF RegistryInv, RegistryTypeOK
  <2>3. attesters'[i].pubkey = a
    BY <1>1 DEF NewEntry, RegistryInv, RegistryTypeOK
  <2>4. ActiveSlots \subseteq Slots
    BY DEF ActiveSlots
  <2> QED
    BY <1>2, <1>3, <1>7, <2>1, <2>2, <2>3, <2>4 DEF RegistryInv, OneSlotPerAttester
<1> QED
  BY <1>5, <1>6, <1>8, <1>9 DEF RegistryInv, RegisterAttester

\* An update of a slot that keeps its bond, its key and whether it is active
\* keeps the invariant: initiate_unregister and the proposer's counter.
LEMMA StatisticsUpdateKeeps ==
    ASSUME RegistryInv, RegistryTypeOK',
           \A j \in Slots : /\ attesters'[j].bond = attesters[j].bond
                            /\ attesters'[j].pubkey = attesters[j].pubkey
                            /\ attesters'[j].is_active = attesters[j].is_active,
           UNCHANGED <<attester_count, threshold, total_bonded, vault>>
    PROVE  RegistryInv'
<1>1. BondSum(attesters') = BondSum(attesters)
  BY DEF BondSum, BondIn
<1>2. ActiveSlots' = ActiveSlots /\ ActiveSlots \subseteq Slots
  BY DEF ActiveSlots
<1>3. BondsBacked' /\ CountMatchesSlots'
  BY <1>1, <1>2 DEF RegistryInv, BondsBacked, CountMatchesSlots
<1>4. OneSlotPerAttester'
  BY <1>2 DEF RegistryInv, OneSlotPerAttester
<1> QED
  BY <1>2, <1>3, <1>4 DEF RegistryInv

\* initiate_unregister stamps the time on the slot of its signer.
LEMMA InitiateUnregisterKeeps ==
    ASSUME RegistryInv, NEW a \in Attesters, InitiateUnregister(a)
    PROVE  RegistryInv'
<1>1. PICK i \in Slots :
        attesters' = [attesters EXCEPT ![i].unregister_initiated_at = now]
  BY DEF InitiateUnregister
<1>2. attesters[i] \in Entry /\ now \in Nat
  BY DEF RegistryInv, RegistryTypeOK
<1>3. RegistryTypeOK'
  BY <1>1, <1>2 DEF RegistryInv, RegistryTypeOK, InitiateUnregister, Entry
<1>4. \A j \in Slots : /\ attesters'[j].bond = attesters[j].bond
                       /\ attesters'[j].pubkey = attesters[j].pubkey
                       /\ attesters'[j].is_active = attesters[j].is_active
  BY <1>1 DEF RegistryInv, RegistryTypeOK, Entry
<1> QED
  BY <1>3, <1>4, StatisticsUpdateKeeps DEF InitiateUnregister

\* A finalizing confirm_update counts an update for the proposer, if still there.
LEMMA CreditProposerKeeps ==
    ASSUME RegistryInv, NEW a \in Attesters, CreditProposer(a)
    PROVE  RegistryInv'
<1>1. CASE attesters' = attesters
  BY <1>1, StatisticsUpdateKeeps DEF RegistryInv, RegistryTypeOK, CreditProposer
<1>2. CASE attesters' # attesters
  <2>1. PICK i \in Slots :
          attesters' = [attesters EXCEPT ![i].updates_submitted = @ + 1]
    BY <1>2 DEF CreditProposer
  <2>2. attesters[i] \in Entry /\ attesters[i].updates_submitted \in Nat
    BY DEF RegistryInv, RegistryTypeOK, Entry
  <2>3. RegistryTypeOK'
    BY <2>1, <2>2 DEF RegistryInv, RegistryTypeOK, CreditProposer, Entry
  <2>4. \A j \in Slots : /\ attesters'[j].bond = attesters[j].bond
                         /\ attesters'[j].pubkey = attesters[j].pubkey
                         /\ attesters'[j].is_active = attesters[j].is_active
    BY <2>1 DEF RegistryInv, RegistryTypeOK, Entry
  <2> QED
    BY <2>3, <2>4, StatisticsUpdateKeeps DEF CreditProposer
<1> QED
  BY <1>1, <1>2

\* withdraw_bond empties an active slot and returns exactly its bond.
LEMMA WithdrawBondKeeps ==
    ASSUME RegistryInv, NEW a \in Attesters, WithdrawBond(a)
    PROVE  RegistryInv'
<1>1. PICK i \in Slots :
        /\ IsAttesterAt(a, i)
        /\ attesters[i].bond <= vault
        /\ attesters' = [attesters EXCEPT ![i].is_active = FALSE,
                                          ![i].pubkey = NoKey,
                                          ![i].bond = 0]
        /\ total_bonded' = total_bonded - attesters[i].bond
        /\ vault' = vault - attesters[i].bond
  BY DEF WithdrawBond
<1>2. i \in ActiveSlots
  BY <1>1 DEF IsAttesterAt, IsFirst, SlotsOf
<1>3. attesters[i] \in Entry /\ attesters[i].bond \in Nat /\ attesters \in [Slots -> Entry]
  BY DEF RegistryInv, RegistryTypeOK, Entry
<1>4. /\ attesters' \in [Slots -> Entry]
      /\ attesters'[i].bond = 0 /\ attesters'[i].pubkey = NoKey
      /\ ~attesters'[i].is_active
      /\ \A j \in Slots \ {i} : attesters'[j] = attesters[j]
  BY <1>1, <1>3 DEF Entry
<1>5. total_bonded = BondSum(attesters) /\ vault = total_bonded
  BY DEF RegistryInv, BondsBacked
<1>6. attesters[i].bond \in 0..BondSum(attesters) /\ BondSum(attesters) \in Nat
  BY <1>3, SumBoundsBond
<1>7. attester_count > threshold /\ attester_count \in Nat /\ threshold \in Nat
  BY DEF WithdrawBond, CanRemoveAttester, RegistryInv, RegistryTypeOK
<1>8. RegistryTypeOK'
  BY <1>1, <1>4, <1>5, <1>6, <1>7 DEF RegistryInv, RegistryTypeOK, WithdrawBond
<1>9. BondsBacked'
  <2>1. BondSum(attesters') = BondSum(attesters) - attesters[i].bond + attesters'[i].bond
    BY <1>3, <1>4, SumAfterOneSlot
  <2> QED
    BY <1>1, <1>4, <1>5, <1>6, <2>1 DEF BondsBacked
<1>10. ActiveSlots' = ActiveSlots \ {i} /\ ActiveSlots \subseteq Slots
  BY <1>4 DEF ActiveSlots
<1>11. CountMatchesSlots'
  <2>1. IsFiniteSet(ActiveSlots)
    BY SlotsFinite DEF ActiveSlots
  <2> QED
    BY <1>2, <1>10, <2>1, FS_RemoveElement
    DEF CountMatchesSlots, RegistryInv, WithdrawBond
<1>12. OneSlotPerAttester'
  BY <1>4, <1>10 DEF RegistryInv, OneSlotPerAttester
<1> QED
  BY <1>7, <1>8, <1>9, <1>10, <1>11, <1>12 DEF RegistryInv, WithdrawBond

\* A slash takes from one bond, the total and the account the same amount.
LEMMA SlashAttesterKeeps ==
    ASSUME RegistryInv, NEW a \in Attesters, SlashAttester(a)
    PROVE  RegistryInv'
<1>1. PICK i \in Slots :
        /\ attesters[i].is_active
        /\ SlashAmount(attesters[i].bond) <= vault
        /\ attesters' = [attesters EXCEPT
              ![i].bond = @ - SlashAmount(attesters[i].bond),
              ![i].disputes_lost = IF @ < MaxCounter THEN @ + 1 ELSE @]
        /\ total_bonded' = SaturatingSub(total_bonded, SlashAmount(attesters[i].bond))
        /\ vault' = vault - SlashAmount(attesters[i].bond)
  BY DEF SlashAttester
<1>2. attesters[i] \in Entry /\ attesters[i].bond \in Nat /\ attesters \in [Slots -> Entry]
  BY DEF RegistryInv, RegistryTypeOK, Entry
<1> DEFINE slash == SlashAmount(attesters[i].bond)
<1>3. slash \in 0..attesters[i].bond
  BY <1>2, SlashBounded
<1> HIDE DEF slash
<1>4. attesters' = [attesters EXCEPT
              ![i].bond = @ - slash,
              ![i].disputes_lost = IF @ < MaxCounter THEN @ + 1 ELSE @]
  BY <1>1 DEF slash
<1>5. /\ attesters' \in [Slots -> Entry]
      /\ attesters'[i].bond = attesters[i].bond - slash
      /\ attesters'[i].pubkey = attesters[i].pubkey
      /\ attesters'[i].is_active = attesters[i].is_active
      /\ \A j \in Slots \ {i} : attesters'[j] = attesters[j]
  <2>1. attesters[i].bond - slash \in Nat
    BY <1>2, <1>3
  <2>2. (IF attesters[i].disputes_lost < MaxCounter
           THEN attesters[i].disputes_lost + 1 ELSE attesters[i].disputes_lost) \in Nat
    BY <1>2 DEF Entry
  <2> QED
    BY <1>2, <1>4, <2>1, <2>2 DEF Entry
<1>6. total_bonded = BondSum(attesters) /\ vault = total_bonded
  BY DEF RegistryInv, BondsBacked
<1>7. attesters[i].bond \in 0..BondSum(attesters) /\ BondSum(attesters) \in Nat
  BY <1>2, SumBoundsBond
<1>8. total_bonded' = total_bonded - slash /\ vault' = vault - slash
  BY <1>1, <1>3, <1>6, <1>7 DEF SaturatingSub, slash
<1>9. RegistryTypeOK'
  BY <1>3, <1>5, <1>6, <1>7, <1>8 DEF RegistryInv, RegistryTypeOK, SlashAttester
<1>10. BondsBacked'
  <2>1. BondSum(attesters') = BondSum(attesters) - attesters[i].bond + attesters'[i].bond
    BY <1>2, <1>5, SumAfterOneSlot
  <2> QED
    BY <1>3, <1>5, <1>6, <1>7, <1>8, <2>1 DEF BondsBacked
<1>11. ActiveSlots' = ActiveSlots /\ ActiveSlots \subseteq Slots
  BY <1>5 DEF ActiveSlots
<1>12. CountMatchesSlots'
  BY <1>11 DEF RegistryInv, CountMatchesSlots, SlashAttester
<1>13. i \in ActiveSlots
  BY <1>1 DEF ActiveSlots
<1>14. OneSlotPerAttester'
  BY <1>5, <1>11, <1>13 DEF RegistryInv, OneSlotPerAttester
<1> QED
  BY <1>9, <1>10, <1>11, <1>12, <1>14 DEF RegistryInv, SlashAttester

\* The clock only moves away from the recorded times.
LEMMA TickKeeps ==
    ASSUME RegistryInv, now' \in Nat \ {0}, UNCHANGED registryVars
    PROVE  RegistryInv'
<1>1. RegistryTypeOK'
  BY DEF registryVars, RegistryInv, RegistryTypeOK
<1> QED
  BY <1>1, StatisticsUpdateKeeps DEF registryVars

-----------------------------------------------------------------------------
(* Theorems. *)

\* No instruction of the registry, and no tick, breaks the invariant.
THEOREM RegistryStepKeeps ==
    RegistryInv /\ [RegistryNext]_clockedRegistryVars => RegistryInv'
<1> SUFFICES ASSUME RegistryInv, [RegistryNext]_clockedRegistryVars
             PROVE  RegistryInv'
  OBVIOUS
<1>1. ASSUME NEW m \in ThresholdArgs, NEW minimum \in MinBondArgs,
             InitializeRegistry(m, minimum)
      PROVE  RegistryInv'
  BY <1>1, InitializeRegistryKeeps
<1>2. ASSUME NEW a \in Attesters, NEW amount \in BondArgs, RegisterAttester(a, amount)
      PROVE  RegistryInv'
  BY <1>2, RegisterAttesterKeeps
<1>3. ASSUME NEW a \in Attesters, InitiateUnregister(a)
      PROVE  RegistryInv'
  BY <1>3, InitiateUnregisterKeeps
<1>4. ASSUME NEW a \in Attesters, WithdrawBond(a)
      PROVE  RegistryInv'
  BY <1>4, WithdrawBondKeeps
<1>5. ASSUME NEW a \in Attesters, SlashAttester(a)
      PROVE  RegistryInv'
  BY <1>5, SlashAttesterKeeps
<1>6. ASSUME NEW a \in Attesters, CreditProposer(a)
      PROVE  RegistryInv'
  BY <1>6, CreditProposerKeeps
<1>7. CASE Tick
  BY <1>7, TickKeeps DEF Tick, RegistryInv, RegistryTypeOK
<1>8. CASE UNCHANGED clockedRegistryVars
  BY <1>8, TickKeeps DEF clockedRegistryVars, RegistryInv, RegistryTypeOK
<1> QED
  BY <1>1, <1>2, <1>3, <1>4, <1>5, <1>6, <1>7, <1>8 DEF RegistryNext

\* Types, solvency, the counter and one slot per attester hold in every
\* reachable state.
THEOREM RegistryInvariant == RegistrySpec => []RegistryInv
<1>1. RegistryInit => RegistryInv
  BY RegistryInitEstablishes
<1>2. RegistryInv /\ [RegistryNext]_clockedRegistryVars => RegistryInv'
  BY RegistryStepKeeps
<1> QED
  BY <1>1, <1>2, PTL DEF RegistrySpec

\* Solvency, for every registry and every order of instructions.
THEOREM RegistrySolvent == RegistrySpec => []BondsBacked
<1>1. RegistryInv => BondsBacked
  BY DEF RegistryInv
<1> QED
  BY <1>1, RegistryInvariant, PTL

\* Every slot holds a key or none, a bond and times that are natural numbers,
\* and the threshold, once set, fits the registry.
THEOREM RegistryWellTyped == RegistrySpec => []RegistryTypeOK
<1>1. RegistryInv => RegistryTypeOK
  BY DEF RegistryInv
<1> QED
  BY <1>1, RegistryInvariant, PTL

\* The counter the threshold guards read is the number of active slots.
THEOREM RegistryCounts == RegistrySpec => []CountMatchesSlots
<1>1. RegistryInv => CountMatchesSlots
  BY DEF RegistryInv
<1> QED
  BY <1>1, RegistryInvariant, PTL

\* No attester holds two slots, and a cleared slot holds neither key nor bond.
THEOREM RegistryKeysUnique == RegistrySpec => []OneSlotPerAttester
<1>1. RegistryInv => OneSlotPerAttester
  BY DEF RegistryInv
<1> QED
  BY <1>1, RegistryInvariant, PTL

\* The clock does not run backwards, a threshold is set once, and once enough
\* attesters are registered for it, no step leaves fewer.
LEMMA RegistryMonotone ==
    ASSUME RegistryInv, [RegistryNext]_clockedRegistryVars
    PROVE  /\ now' \in Nat /\ now' >= now
           /\ threshold > 0 => threshold' = threshold
           /\ threshold > 0 /\ attester_count >= threshold => attester_count' >= threshold'
<1>1. attester_count \in Nat /\ threshold \in Nat /\ now \in Nat
  BY SlotAssumption DEF RegistryInv, RegistryTypeOK
<1>2. CASE RegistryNext
  <2>1. ASSUME NEW m \in ThresholdArgs, NEW minimum \in MinBondArgs,
               InitializeRegistry(m, minimum)
        PROVE  threshold = 0 /\ now' = now
    BY <2>1 DEF InitializeRegistry
  <2>2. ASSUME NEW a \in Attesters, NEW amount \in BondArgs, RegisterAttester(a, amount)
        PROVE  attester_count' = attester_count + 1 /\ threshold' = threshold /\ now' = now
    BY <2>2 DEF RegisterAttester
  <2>3. ASSUME NEW a \in Attesters, WithdrawBond(a)
        PROVE  /\ attester_count > threshold /\ attester_count' = attester_count - 1
               /\ threshold' = threshold /\ now' = now
    BY <2>3 DEF WithdrawBond, CanRemoveAttester
  <2>4. ASSUME NEW a \in Attesters, InitiateUnregister(a) \/ SlashAttester(a) \/ CreditProposer(a)
        PROVE  attester_count' = attester_count /\ threshold' = threshold /\ now' = now
    BY <2>4 DEF InitiateUnregister, SlashAttester, CreditProposer
  <2>5. Tick => attester_count' = attester_count /\ threshold' = threshold /\ now' = now + 1
    BY DEF Tick, registryVars
  <2> QED
    BY <1>1, <1>2, <2>1, <2>2, <2>3, <2>4, <2>5 DEF RegistryNext
<1>3. CASE UNCHANGED clockedRegistryVars
  BY <1>1, <1>3 DEF clockedRegistryVars, registryVars
<1> QED
  BY <1>2, <1>3

\* A registry with enough attesters for its threshold keeps enough of them.
THEOREM RegistryKeepsThreshold == RegistrySpec => ThresholdStaysReachable
<1>1. RegistryInv /\ [RegistryNext]_clockedRegistryVars =>
        [threshold > 0 /\ attester_count >= threshold =>
            attester_count' >= threshold']_clockedRegistryVars
  BY RegistryMonotone
<1> QED
  BY <1>1, RegistryInvariant, PTL DEF RegistrySpec, ThresholdStaysReachable

-----------------------------------------------------------------------------
(* The cooldown. *)

\* A cooldown is never older than the registration it belongs to: this is what
\* the reset of unregister_initiated_at in register_attester is for.
CooldownFollowsRegistration ==
    \A i \in Slots :
        attesters[i].is_active =>
            /\ attesters[i].registered_at <= now
            /\ \/ attesters[i].unregister_initiated_at = 0
               \/ attesters[i].registered_at <= attesters[i].unregister_initiated_at

\* The slots an instruction may touch, one at a time.
LEMMA OneSlotChanges ==
    ASSUME RegistryInv, RegistryNext, NEW j \in Slots
    PROVE  \/ attesters'[j] = attesters[j]
           \/ ~attesters'[j].is_active
           \/ /\ attesters'[j].registered_at = now
              /\ attesters'[j].unregister_initiated_at = 0
           \/ /\ attesters'[j].is_active = attesters[j].is_active
              /\ attesters'[j].registered_at = attesters[j].registered_at
              /\ attesters'[j].unregister_initiated_at
                    \in {attesters[j].unregister_initiated_at, now}
<1>1. attesters \in [Slots -> Entry] /\ attesters[j] \in Entry
  BY DEF RegistryInv, RegistryTypeOK
<1>2. ASSUME NEW m \in ThresholdArgs, NEW minimum \in MinBondArgs,
             InitializeRegistry(m, minimum)
      PROVE  ~attesters'[j].is_active
  BY <1>2 DEF InitializeRegistry, IsValidThreshold, EmptyEntry
<1>3. ASSUME NEW a \in Attesters, NEW amount \in BondArgs, RegisterAttester(a, amount)
      PROVE  \/ attesters'[j] = attesters[j]
             \/ /\ attesters'[j].registered_at = now
                /\ attesters'[j].unregister_initiated_at = 0
  BY <1>1, <1>3 DEF RegisterAttester, NewEntry
<1>4. ASSUME NEW a \in Attesters, InitiateUnregister(a)
      PROVE  /\ attesters'[j].is_active = attesters[j].is_active
             /\ attesters'[j].registered_at = attesters[j].registered_at
             /\ attesters'[j].unregister_initiated_at
                   \in {attesters[j].unregister_initiated_at, now}
  BY <1>1, <1>4 DEF InitiateUnregister, Entry
<1>5. ASSUME NEW a \in Attesters, WithdrawBond(a)
      PROVE  attesters'[j] = attesters[j] \/ ~attesters'[j].is_active
  BY <1>1, <1>5 DEF WithdrawBond, Entry
<1>6. ASSUME NEW a \in Attesters, SlashAttester(a)
      PROVE  /\ attesters'[j].is_active = attesters[j].is_active
             /\ attesters'[j].registered_at = attesters[j].registered_at
             /\ attesters'[j].unregister_initiated_at = attesters[j].unregister_initiated_at
  BY <1>1, <1>6 DEF SlashAttester, Entry
<1>7. ASSUME NEW a \in Attesters, CreditProposer(a)
      PROVE  /\ attesters'[j].is_active = attesters[j].is_active
             /\ attesters'[j].registered_at = attesters[j].registered_at
             /\ attesters'[j].unregister_initiated_at = attesters[j].unregister_initiated_at
  BY <1>1, <1>7 DEF CreditProposer, Entry
<1>8. Tick => attesters'[j] = attesters[j]
  BY DEF Tick, registryVars
<1> QED
  BY <1>2, <1>3, <1>4, <1>5, <1>6, <1>7, <1>8 DEF RegistryNext

\* A slot's unregister time belongs to its present occupant: register_attester
\* resets it, so it is never older than the registration.
LEMMA CooldownStepKeeps ==
    RegistryInv /\ CooldownFollowsRegistration /\ [RegistryNext]_clockedRegistryVars
        => CooldownFollowsRegistration'
<1> SUFFICES ASSUME RegistryInv, CooldownFollowsRegistration, RegistryNext,
                    NEW j \in Slots, attesters'[j].is_active
             PROVE  /\ attesters'[j].registered_at <= now'
                    /\ \/ attesters'[j].unregister_initiated_at = 0
                       \/ attesters'[j].registered_at <= attesters'[j].unregister_initiated_at
  BY DEF CooldownFollowsRegistration, clockedRegistryVars, registryVars
<1>1. /\ now \in Nat /\ attesters[j].registered_at \in Nat
      /\ attesters[j].unregister_initiated_at \in Nat
  BY DEF RegistryInv, RegistryTypeOK, Entry
<1>2. now' = now \/ now' = now + 1
  BY DEF RegistryNext, InitializeRegistry, RegisterAttester, InitiateUnregister,
         WithdrawBond, SlashAttester, CreditProposer, Tick
<1>3. now <= now'
  BY <1>1, <1>2
<1>4. CASE attesters'[j] = attesters[j]
  BY <1>1, <1>2, <1>4 DEF CooldownFollowsRegistration
<1>5. CASE /\ attesters'[j].registered_at = now
           /\ attesters'[j].unregister_initiated_at = 0
  BY <1>3, <1>5
<1>6. CASE /\ attesters'[j].is_active = attesters[j].is_active
           /\ attesters'[j].registered_at = attesters[j].registered_at
           /\ attesters'[j].unregister_initiated_at
                 \in {attesters[j].unregister_initiated_at, now}
  BY <1>1, <1>2, <1>6 DEF CooldownFollowsRegistration
<1> QED
  BY <1>4, <1>5, <1>6, OneSlotChanges

\* Nobody recovers a bond before the cooldown after the registration that
\* locked it, however often keys and slots are reused.
THEOREM RegistryLocksBonds == RegistrySpec => BondLockedForCooldown
<1>1. RegistryInit => CooldownFollowsRegistration
  BY DEF RegistryInit, CooldownFollowsRegistration, EmptyEntry
<1>2. RegistrySpec => []CooldownFollowsRegistration
  BY <1>1, CooldownStepKeeps, RegistryInvariant, PTL DEF RegistrySpec
<1>3. RegistryInv /\ CooldownFollowsRegistration /\ [RegistryNext]_clockedRegistryVars =>
        [\A i \in Slots :
            attesters[i].is_active /\ ~attesters'[i].is_active =>
                now >= attesters[i].registered_at + UNREGISTER_COOLDOWN_SECS]_clockedRegistryVars
  <2> SUFFICES ASSUME RegistryInv, CooldownFollowsRegistration, RegistryNext,
                      NEW i \in Slots, attesters[i].is_active, ~attesters'[i].is_active
               PROVE  now >= attesters[i].registered_at + UNREGISTER_COOLDOWN_SECS
    OBVIOUS
  <2>1. /\ now \in Nat /\ attesters[i] \in Entry /\ attesters \in [Slots -> Entry]
        /\ attesters[i].registered_at \in Nat
        /\ attesters[i].unregister_initiated_at \in Nat
    BY DEF RegistryInv, RegistryTypeOK, Entry
  <2>2. ASSUME NEW a \in Attesters, WithdrawBond(a)
        PROVE  CooldownOver(attesters[i])
    BY <2>1, <2>2 DEF WithdrawBond
  <2>3. CooldownOver(attesters[i])
    <3>1. ~Tick
      BY <2>1 DEF Tick, registryVars
    <3>2. ASSUME NEW m \in ThresholdArgs, NEW minimum \in MinBondArgs,
                 InitializeRegistry(m, minimum)
          PROVE  FALSE
      BY <3>2 DEF InitializeRegistry, IsValidThreshold, RegistryInv, ActiveSlots
    <3>3. ASSUME NEW a \in Attesters, NEW amount \in BondArgs, RegisterAttester(a, amount)
          PROVE  FALSE
      BY <2>1, <3>3 DEF RegisterAttester, NewEntry
    <3>4. ASSUME NEW a \in Attesters, InitiateUnregister(a) \/ SlashAttester(a) \/ CreditProposer(a)
          PROVE  FALSE
      BY <2>1, <3>4 DEF InitiateUnregister, SlashAttester, CreditProposer, Entry
    <3> QED
      BY <2>2, <3>1, <3>2, <3>3, <3>4 DEF RegistryNext
  <2> QED
    BY <2>1, <2>3, CooldownAssumption DEF CooldownOver, CooldownFollowsRegistration
<1> QED
  BY <1>2, <1>3, RegistryInvariant, PTL DEF RegistrySpec, BondLockedForCooldown
=============================================================================
