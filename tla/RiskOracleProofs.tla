-------------------------- MODULE RiskOracleProofs --------------------------
(***************************************************************************)
(* The invariants and action properties of the whole program, for all sets *)
(* of attesters, feeds, rounds and payloads and all values of the periods  *)
(* that satisfy the assumptions of RiskOracle.                             *)
(***************************************************************************)
EXTENDS RiskOracle, AttesterRegistryProofs

FeedsTyped ==
    /\ oracle \in [Lsts -> RiskState]
    /\ pending \in [RoundKeys -> PendingUpdate]
    /\ dispute \in [RoundKeys -> [Attesters -> DisputeRecord]]
    /\ signers \in [RoundKeys -> SUBSET Attesters]

\* What a round's account says is true: the count is the size of the bitmap, the
\* proposer was an attester, and a finalized round was so in time.
RoundsSound ==
    \A k \in RoundKeys :
        /\ pending[k].confirmation_count = Cardinality(pending[k].confirmations)
        /\ pending[k].status # "absent" =>
              /\ pending[k].proposer \in Attesters
              /\ threshold > 0
              /\ IsValid(pending[k].params)
        /\ pending[k].status = "finalized" =>
              /\ pending[k].confirmation_count >= threshold
              /\ pending[k].finalized_at < pending[k].expires_at
              /\ pending[k].finalized_at \in 1..now

\* What a feed's account says is true: a written value is valid, multi-attester
\* mode has its quorum and single-attester mode only the authority's value.
FeedSound(l) ==
    /\ oracle[l].timestamp > 0 => IsValid(oracle[l].params)
    /\ IsMultiAttester(l) => threshold > 0 /\ attester_count >= threshold
    /\ oracle[l].update_mode = 0 => oracle[l].last_updater = oracle[l].authority
    /\ oracle[l].status # "current" => oracle[l].update_mode = 0

FeedsSound == \A l \in Lsts : FeedSound(l)

\* The part of CanonicalValueAttested that concerns one feed.
FeedAttested(l) ==
    IsMultiAttester(l) /\ oracle[l].last_updater # oracle[l].authority =>
        \E r \in Rounds :
            /\ pending[<<l, r>>].status = "finalized"
            /\ pending[<<l, r>>].finalized_at = oracle[l].timestamp
            /\ pending[<<l, r>>].params = oracle[l].params

\* A dispute concerns a finalized round and outlives its dispute window.
DisputesSound ==
    \A k \in RoundKeys, a \in Attesters :
        dispute[k][a].status # "absent" =>
            /\ pending[k].status = "finalized"
            /\ dispute[k][a].resolution_deadline
                  >= pending[k].finalized_at + RESOLUTION_DEADLINE_SECS

\* The rounds an attester was slashed for, by the dispute accounts d.
SlashRecords(d, a) == {k \in RoundKeys : d[k][a].status = "slashed"}

SlashesRecorded ==
    /\ \A a \in Attesters : IsFiniteSet(SlashRecords(dispute, a))
    /\ \A i \in ActiveSlots :
          attesters[i].disputes_lost <= Cardinality(SlashRecords(dispute, attesters[i].pubkey))

\* The inductive invariant.  TypeOK needs RegistryInv for the bonds;
\* RegistryInv's step needs a round's proposer to be an attester; the quorum
\* and the disputes rest on each other's accounts as the parts say.
ProgramInv ==
    /\ RegistryInv
    /\ FeedsTyped
    /\ RoundsSound
    /\ FeedsSound
    /\ CanonicalValueAttested
    /\ DisputesSound
    /\ SlashesRecorded

\* A round stays open for less than its time-to-live, counted from its proposal.
RoundsTimed ==
    \A k \in RoundKeys :
        /\ pending[k].status = "open" => pending[k].expires_at <= now + PENDING_UPDATE_TTL_SECS
        /\ pending[k].status = "finalized" =>
              pending[k].expires_at <= pending[k].finalized_at + PENDING_UPDATE_TTL_SECS

\* The part of ReorderingBounded that is kept by itself: no round of a feed was
\* finalized after the one whose value it shows.
LastRoundShown ==
    \A l \in Lsts, r \in Rounds :
        /\ IsMultiAttester(l) /\ oracle[l].last_updater # oracle[l].authority
        /\ pending[<<l, r>>].status = "finalized"
        => pending[<<l, r>>].finalized_at <= oracle[l].timestamp

\* The order of the rounds needs the program's invariant; nothing else needs it.
OrderInv == ProgramInv /\ RoundsTimed /\ LastRoundShown

-----------------------------------------------------------------------------
(* Frames: which accounts a step leaves alone. *)

\* The instructions on a feed write that feed only.
LEMMA OracleStepFrame ==
    OracleStep => UNCHANGED <<clockedRegistryVars, pending, dispute, signers>>
BY DEF OracleStep, InitializeOracle, UpdateRiskState, CloseOracle, MigrateRiskState,
       EnableMultiAttester

\* The instructions on a round leave the disputes alone, and the registry but for
\* the counter of one attester.
LEMMA RoundStepFrame ==
    RoundStep => /\ UNCHANGED <<dispute, now, attester_count, threshold, total_bonded,
                               min_bond, vault>>
BY DEF RoundStep, ProposeUpdate, ConfirmUpdate, CancelExpired, Finalize, CreditProposer,
       clockedRegistryVars, registryVars

\* The instructions on a dispute leave feeds and rounds alone.
LEMMA DisputeStepFrame == DisputeStep => UNCHANGED <<oracle, pending, signers>>
BY DEF DisputeStep, DisputeUpdate, ResolveDispute, CloseExpiredDispute

-----------------------------------------------------------------------------
(* The registry within the program. *)

\* Every step of the program is a step of the registry's specification or
\* leaves the registry and the clock alone.
LEMMA NextDrivesRegistry ==
    ASSUME RoundsSound, [Next]_vars
    PROVE  [RegistryNext]_clockedRegistryVars
<1>1. CASE RegistryStep
  BY <1>1 DEF RegistryStep, RegistryNext
<1>2. CASE OracleStep
  BY <1>2, OracleStepFrame
<1>3. ASSUME NEW k \in RoundKeys, NEW a \in Attesters, ConfirmUpdate(a, k)
      PROVE  RegistryNext \/ UNCHANGED clockedRegistryVars
  <2>1. pending[k].proposer \in Attesters
    BY <1>3 DEF RoundsSound, ConfirmUpdate
  <2>2. PICK i \in Slots :
           \/ Finalize(a, k, AddConfirmation(pending[k], i))
           \/ UNCHANGED clockedRegistryVars
    BY <1>3 DEF ConfirmUpdate
  <2>3. AddConfirmation(pending[k], i).proposer = pending[k].proposer
    BY DEF AddConfirmation
  <2> QED
    BY <2>1, <2>2, <2>3 DEF Finalize, RegistryNext
<1>4. CASE RoundStep
  BY <1>3, <1>4 DEF RoundStep, ProposeUpdate, CancelExpired
<1>5. CASE DisputeStep
  BY <1>5 DEF DisputeStep, DisputeUpdate, ResolveDispute, CloseExpiredDispute, RegistryNext
<1>6. CASE UNCHANGED vars
  BY <1>6 DEF vars
<1> QED
  BY <1>1, <1>2, <1>4, <1>5, <1>6 DEF Next

-----------------------------------------------------------------------------
(* Account values have their types. *)

\* The two values an account is created or cleared with.
LEMMA FreshAccountsTyped ==
    /\ ZeroPayload \in Payload
    /\ NoOracle \in RiskState
    /\ NoPending \in PendingUpdate
    /\ NoDispute \in DisputeRecord
    /\ \A auth \in Authorities : FreshOracle(auth) \in RiskState
<1>1. ZeroPayload \in Payload
  BY DEF ZeroPayload, Payload
<1>2. NoOracle \in RiskState
  BY <1>1 DEF NoOracle, RiskState
<1>3. NoPending \in PendingUpdate
  <2>1. {} \in SUBSET Slots
    OBVIOUS
  <2> QED
    BY <1>1, <2>1 DEF NoPending, PendingUpdate
<1>4. NoDispute \in DisputeRecord
  BY DEF NoDispute, DisputeRecord
<1>5. ASSUME NEW auth \in Authorities
      PROVE  FreshOracle(auth) \in RiskState
  BY <1>1 DEF FreshOracle, NoOracle, RiskState
<1> QED
  BY <1>1, <1>2, <1>3, <1>4, <1>5

\* Writing parameters changes the parameters, the time and the updater only.
LEMMA WrittenFields ==
    ASSUME NEW state \in RiskState, NEW p \in Payload,
           NEW u \in Authorities \cup Attesters \cup {NoKey}, now \in Nat
    PROVE  /\ Written(state, p, u) \in RiskState
           /\ Written(state, p, u) =
                 [status |-> state.status, params |-> p, timestamp |-> now,
                  authority |-> state.authority, last_updater |-> u,
                  update_mode |-> state.update_mode]
<1>1. Written(state, p, u) =
         [status |-> state.status, params |-> p, timestamp |-> now,
          authority |-> state.authority, last_updater |-> u,
          update_mode |-> state.update_mode]
  <2>1. state = [status |-> state.status, params |-> state.params,
                 timestamp |-> state.timestamp, authority |-> state.authority,
                 last_updater |-> state.last_updater, update_mode |-> state.update_mode]
    BY DEF RiskState
  <2> DEFINE w == Written(state, p, u)
  <2>2. w = [[[state EXCEPT !.params = p] EXCEPT !.timestamp = now] EXCEPT !.last_updater = u]
    BY <2>1 DEF Written
  <2> QED
    BY <2>1, <2>2
<1>2. /\ state.status \in {"absent", "legacy", "current"}
      /\ state.authority \in Authorities \cup {NoKey}
      /\ state.update_mode \in {0, 1}
  BY DEF RiskState
<1>3. Written(state, p, u) \in RiskState
  BY <1>1, <1>2 DEF RiskState
<1> QED
  BY <1>1, <1>3

\* A confirmation adds one slot to the bitmap and one to the count.
LEMMA ConfirmationFields ==
    ASSUME NEW p \in PendingUpdate, NEW i \in Slots
    PROVE  /\ AddConfirmation(p, i) \in PendingUpdate
           /\ AddConfirmation(p, i) =
                 [status |-> p.status, params |-> p.params, proposer |-> p.proposer,
                  expires_at |-> p.expires_at,
                  confirmation_count |-> p.confirmation_count + 1,
                  confirmations |-> p.confirmations \cup {i},
                  finalized_at |-> p.finalized_at]
<1>1. p = [status |-> p.status, params |-> p.params, proposer |-> p.proposer,
           expires_at |-> p.expires_at, confirmation_count |-> p.confirmation_count,
           confirmations |-> p.confirmations, finalized_at |-> p.finalized_at]
  BY DEF PendingUpdate
<1>2. AddConfirmation(p, i) =
         [[p EXCEPT !.confirmations = p.confirmations \cup {i}]
             EXCEPT !.confirmation_count = p.confirmation_count + 1]
  BY <1>1 DEF AddConfirmation
<1>3. p.confirmations \cup {i} \in SUBSET Slots /\ p.confirmation_count + 1 \in Nat
  BY DEF PendingUpdate
<1> QED
  BY <1>1, <1>2, <1>3 DEF PendingUpdate

-----------------------------------------------------------------------------
(* The initial states. *)

\* Nothing is registered, no round or dispute exists, and an account of the old
\* layout holds a valid value of its authority.
LEMMA InitEstablishes == Init => ProgramInv
<1> SUFFICES ASSUME Init
             PROVE  ProgramInv
  OBVIOUS
<1>1. RegistryInv
  BY RegistryInitEstablishes DEF Init
<1>2. PICK auth \in [LegacyLsts -> Authorities],
           p \in [LegacyLsts -> {q \in Payloads : IsValid(q)}] :
         oracle = [l \in Lsts |->
             IF l \in LegacyLsts
             THEN [FreshOracle(auth[l]) EXCEPT !.status = "legacy", !.params = p[l],
                                               !.timestamp = now]
             ELSE NoOracle]
  BY DEF Init
<1>3. now = 1
  BY DEF Init, RegistryInit
<1>4. ASSUME NEW l \in Lsts
      PROVE  /\ oracle[l] \in RiskState
             /\ oracle[l].status # "current" /\ oracle[l].update_mode = 0
             /\ oracle[l].last_updater = oracle[l].authority
             /\ oracle[l].timestamp > 0 => IsValid(oracle[l].params)
  <2>1. CASE l \in LegacyLsts
    <3>1. auth[l] \in Authorities /\ p[l] \in Payloads /\ IsValid(p[l])
      BY <2>1
    <3>2. p[l] \in Payload
      BY <3>1, OracleAssumption
    <3>3. oracle[l] = [status |-> "legacy", params |-> p[l], timestamp |-> 1,
                       authority |-> auth[l], last_updater |-> auth[l], update_mode |-> 0]
      BY <1>2, <1>3, <2>1 DEF FreshOracle, NoOracle
    <3> QED
      BY <3>1, <3>2, <3>3 DEF RiskState
  <2>2. CASE l \notin LegacyLsts
    <3>1. oracle[l] = NoOracle
      BY <1>2, <2>2
    <3> QED
      BY <3>1, FreshAccountsTyped DEF NoOracle
  <2> QED
    BY <2>1, <2>2
<1>5. FeedsTyped
  <2>1. oracle \in [Lsts -> RiskState]
    BY <1>2, <1>4
  <2> QED
    BY <2>1, FreshAccountsTyped DEF Init, FeedsTyped
<1>6. RoundsSound
  BY FS_EmptySet DEF Init, RoundsSound, NoPending
<1>7. FeedsSound /\ CanonicalValueAttested
  BY <1>4 DEF FeedSound, FeedsSound, CanonicalValueAttested, IsMultiAttester
<1>8. DisputesSound
  BY DEF Init, DisputesSound, NoDispute
<1>9. SlashesRecorded
  <2>1. \A a \in Attesters : SlashRecords(dispute, a) = {}
    BY DEF Init, SlashRecords, NoDispute
  <2>2. ActiveSlots = {}
    BY DEF Init, RegistryInit, ActiveSlots, EmptyEntry
  <2> QED
    BY <2>1, <2>2, FS_EmptySet DEF SlashesRecorded
<1> QED
  BY <1>1, <1>5, <1>6, <1>7, <1>8, <1>9 DEF ProgramInv

-----------------------------------------------------------------------------
(* What a step does to one account: the ways a round, a feed and a dispute   *)
(* can change, each with what the instruction checked.                       *)

RoundProposed(k) ==
    \E a \in Attesters, p \in Payloads, i \in Slots :
        /\ pending[k].status = "absent"
        /\ IsMultiAttester(k[1])
        /\ IsValid(p)
        /\ pending'[k] =
              [status |-> "open", params |-> p, proposer |-> a,
               expires_at |-> now + PENDING_UPDATE_TTL_SECS, confirmation_count |-> 1,
               confirmations |-> {i}, finalized_at |-> 0]

RoundConfirmed(k) ==
    /\ pending[k].status = "open"
    /\ \E i \in Slots \ pending[k].confirmations :
          pending'[k] = AddConfirmation(pending[k], i)

RoundFinalized(k) ==
    /\ IsMultiAttester(k[1])
    /\ pending[k].status = "open"
    /\ now < pending[k].expires_at
    /\ \E i \in Slots \ pending[k].confirmations :
          /\ pending[k].confirmation_count + 1 >= threshold
          /\ pending'[k] = [AddConfirmation(pending[k], i)
                               EXCEPT !.status = "finalized", !.finalized_at = now]
    /\ \E a \in Attesters : oracle'[k[1]] = Written(oracle[k[1]], pending[k].params, a)

RoundDropped(k) == pending[k].status = "open" /\ pending'[k] = NoPending

\* A confirmation adds a slot to its round, and finalizes it and writes the feed if
\* that makes the threshold.
LEMMA ConfirmChanges ==
    ASSUME ProgramInv, NEW r \in RoundKeys, NEW a \in Attesters, ConfirmUpdate(a, r)
    PROVE  /\ \A k \in RoundKeys \ {r} : pending'[k] = pending[k]
           /\ \A l \in Lsts \ {r[1]} : oracle'[l] = oracle[l]
           /\ RoundFinalized(r) \/ (RoundConfirmed(r) /\ UNCHANGED oracle)
<1> DEFINE c(i) == AddConfirmation(pending[r], i)
<1>1. /\ pending \in [RoundKeys -> PendingUpdate] /\ oracle \in [Lsts -> RiskState]
      /\ now \in Nat
  BY DEF ProgramInv, FeedsTyped, RegistryInv, RegistryTypeOK
<1>2. PICK i \in Slots \ pending[r].confirmations :
         \/ c(i).confirmation_count >= threshold /\ Finalize(a, r, c(i))
         \/ pending' = [pending EXCEPT ![r] = c(i)] /\ UNCHANGED oracle
  BY DEF ConfirmUpdate
<1>3. pending[r] \in PendingUpdate /\ r[1] \in Lsts
  BY <1>1 DEF RoundKeys
<1>4. /\ c(i).confirmation_count = pending[r].confirmation_count + 1
      /\ c(i).params = pending[r].params
  BY <1>3 DEF AddConfirmation, PendingUpdate
<1>5. /\ IsMultiAttester(r[1]) /\ pending[r].status = "open"
      /\ now < pending[r].expires_at
  <2>1. now \in Nat /\ pending[r].expires_at \in Nat
    BY <1>1, <1>3 DEF PendingUpdate
  <2> QED
    BY <2>1 DEF ConfirmUpdate, IsExpired
<1>6. CASE c(i).confirmation_count >= threshold /\ Finalize(a, r, c(i))
  <2>1. pending' = [pending EXCEPT ![r] =
                       [c(i) EXCEPT !.status = "finalized", !.finalized_at = now]]
    BY <1>6 DEF Finalize
  <2>2. oracle' = [oracle EXCEPT ![r[1]] = Written(oracle[r[1]], pending[r].params, a)]
    BY <1>4, <1>6 DEF Finalize
  <2>3. RoundFinalized(r)
    BY <1>1, <1>2, <1>3, <1>4, <1>5, <1>6, <2>1, <2>2 DEF RoundFinalized
  <2> QED
    BY <1>1, <2>1, <2>2, <2>3
<1>7. CASE pending' = [pending EXCEPT ![r] = c(i)] /\ UNCHANGED oracle
  BY <1>1, <1>2, <1>5, <1>7 DEF RoundConfirmed
<1> QED
  BY <1>2, <1>6, <1>7

\* A round is proposed, confirmed, finalized or cancelled, or stays as it is.
LEMMA RoundChanges ==
    ASSUME ProgramInv, [Next]_vars, NEW k \in RoundKeys
    PROVE  \/ pending'[k] = pending[k]
           \/ /\ RoundProposed(k) \/ RoundConfirmed(k) \/ RoundFinalized(k) \/ RoundDropped(k)
              /\ UNCHANGED <<now, threshold>>
<1>1. /\ pending \in [RoundKeys -> PendingUpdate] /\ oracle \in [Lsts -> RiskState]
      /\ now \in Nat
  BY DEF ProgramInv, FeedsTyped, RegistryInv, RegistryTypeOK
<1>2. CASE UNCHANGED pending
  BY <1>2
<1>3. CASE RoundStep
  <2>1. PICK r \in RoundKeys :
           \/ \E a \in Attesters, p \in Payloads : ProposeUpdate(a, r, p)
           \/ \E a \in Attesters : ConfirmUpdate(a, r)
           \/ CancelExpired(r)
    BY <1>3 DEF RoundStep
  <2>2. UNCHANGED <<now, threshold>>
    BY <1>3, RoundStepFrame
  <2>3. ASSUME NEW a \in Attesters, NEW p \in Payloads, ProposeUpdate(a, r, p)
        PROVE  pending'[k] = pending[k] \/ RoundProposed(k)
    <3>1. PICK i \in Slots : pending' = [pending EXCEPT ![r] =
               [status |-> "open", params |-> p, proposer |-> a,
                expires_at |-> now + PENDING_UPDATE_TTL_SECS,
                confirmation_count |-> 1, confirmations |-> {i}, finalized_at |-> 0]]
      BY <2>3 DEF ProposeUpdate
    <3>2. CASE k = r
      BY <1>1, <2>3, <3>1, <3>2 DEF ProposeUpdate, RoundProposed
    <3>3. CASE k # r
      BY <1>1, <3>1, <3>3
    <3> QED
      BY <3>2, <3>3
  <2>4. ASSUME NEW a \in Attesters, ConfirmUpdate(a, r)
        PROVE  pending'[k] = pending[k] \/ RoundConfirmed(k) \/ RoundFinalized(k)
    BY <2>4, ConfirmChanges
  <2>5. ASSUME CancelExpired(r)
        PROVE  pending'[k] = pending[k] \/ RoundDropped(k)
    BY <1>1, <2>5 DEF CancelExpired, RoundDropped
  <2> QED
    BY <2>1, <2>2, <2>3, <2>4, <2>5
<1> QED
  BY <1>2, <1>3, OracleStepFrame, DisputeStepFrame
  DEF Next, RegistryStep, vars, oracleVars

FeedCreated(l) ==
    oracle[l].status = "absent" /\ \E auth \in Authorities : oracle'[l] = FreshOracle(auth)

FeedWritten(l) ==
    /\ IsSingleAttester(l)
    /\ \E p \in Payloads :
          IsValid(p) /\ oracle'[l] = Written(oracle[l], p, oracle[l].authority)

FeedMigrated(l) ==
    /\ oracle[l].status = "legacy"
    /\ oracle'[l] = [oracle[l] EXCEPT !.status = "current", !.update_mode = 0]

FeedEnabled(l) ==
    /\ IsSingleAttester(l)
    /\ threshold > 0 /\ attester_count >= threshold
    /\ oracle'[l] = [oracle[l] EXCEPT !.update_mode = 1]

FeedClosed(l) == oracle'[l] = NoOracle

FeedFinalized(l) == \E r \in Rounds : RoundFinalized(<<l, r>>)

\* A feed is created, written by its authority, migrated, enabled or closed while
\* registry and rounds stay as they are, or it takes the value of a round.
LEMMA FeedChanges ==
    ASSUME ProgramInv, [Next]_vars, NEW l \in Lsts
    PROVE  \/ oracle'[l] = oracle[l]
           \/ /\ \/ FeedCreated(l) \/ FeedWritten(l) \/ FeedMigrated(l)
                 \/ FeedEnabled(l) \/ FeedClosed(l)
              /\ UNCHANGED <<clockedRegistryVars, pending>>
           \/ /\ FeedFinalized(l)
              /\ UNCHANGED <<now, attester_count, threshold>>
<1>1. oracle \in [Lsts -> RiskState] /\ pending \in [RoundKeys -> PendingUpdate]
  BY DEF ProgramInv, FeedsTyped
<1>2. CASE UNCHANGED oracle
  BY <1>2
<1>3. CASE OracleStep
  <2>1. PICK f \in Lsts :
           \/ \E auth \in Authorities : InitializeOracle(f, auth)
           \/ \E p \in Payloads : UpdateRiskState(f, p)
           \/ CloseOracle(f)
           \/ MigrateRiskState(f)
           \/ EnableMultiAttester(f)
    BY <1>3 DEF OracleStep
  <2>2. CASE f = l
    <3>1. UNCHANGED <<clockedRegistryVars, pending>>
      BY <1>3, OracleStepFrame
    <3>2. ASSUME NEW auth \in Authorities, InitializeOracle(l, auth)
          PROVE  FeedCreated(l)
      BY <1>1, <3>2 DEF InitializeOracle, FeedCreated
    <3>3. ASSUME NEW p \in Payloads, UpdateRiskState(l, p)
          PROVE  FeedWritten(l)
      BY <1>1, <3>3 DEF UpdateRiskState, FeedWritten
    <3>4. ASSUME CloseOracle(l)
          PROVE  FeedClosed(l)
      BY <1>1, <3>4 DEF CloseOracle, FeedClosed
    <3>5. ASSUME MigrateRiskState(l)
          PROVE  FeedMigrated(l) \/ oracle'[l] = oracle[l]
      BY <1>1, <3>5 DEF MigrateRiskState, FeedMigrated
    <3>6. ASSUME EnableMultiAttester(l)
          PROVE  FeedEnabled(l)
      BY <1>1, <3>6 DEF EnableMultiAttester, FeedEnabled
    <3> QED
      BY <2>1, <2>2, <3>1, <3>2, <3>3, <3>4, <3>5, <3>6
  <2>3. CASE f # l
    BY <1>1, <2>1, <2>3 DEF InitializeOracle, UpdateRiskState, CloseOracle,
                            MigrateRiskState, EnableMultiAttester
  <2> QED
    BY <2>2, <2>3
<1>4. CASE RoundStep
  <2>1. PICK k \in RoundKeys :
           \/ \E a \in Attesters, p \in Payloads : ProposeUpdate(a, k, p)
           \/ \E a \in Attesters : ConfirmUpdate(a, k)
           \/ CancelExpired(k)
    BY <1>4 DEF RoundStep
  <2>2. UNCHANGED <<now, attester_count, threshold>>
    BY <1>4, RoundStepFrame
  <2>3. ASSUME NEW a \in Attesters, ConfirmUpdate(a, k), oracle' # oracle
        PROVE  RoundFinalized(k) /\ \A f \in Lsts \ {k[1]} : oracle'[f] = oracle[f]
    BY <2>3, ConfirmChanges
  <2>4. CASE k[1] # l
    BY <1>1, <2>1, <2>3, <2>4 DEF ProposeUpdate, CancelExpired
  <2>5. CASE k[1] = l /\ oracle'[l] # oracle[l]
    <3>1. RoundFinalized(k)
      BY <2>1, <2>3, <2>5 DEF ProposeUpdate, CancelExpired
    <3>2. k = <<l, k[2]>> /\ k[2] \in Rounds
      BY <2>5 DEF RoundKeys
    <3> QED
      BY <2>2, <3>1, <3>2 DEF FeedFinalized
  <2> QED
    BY <2>4, <2>5
<1> QED
  BY <1>2, <1>3, <1>4, DisputeStepFrame DEF Next, RegistryStep, vars, oracleVars

DisputeFiled(k, a) ==
    /\ DisputeWindowOpen(pending[k])
    /\ dispute[k][a].status = "absent"
    /\ dispute'[k][a] = [status |-> "filed",
                         resolution_deadline |-> now + RESOLUTION_DEADLINE_SECS]

DisputeResolved(k, a) ==
    /\ dispute[k][a].status = "filed"
    /\ \E slash \in BOOLEAN :
          /\ ResolveDispute(k, a, slash)
          /\ dispute'[k][a] = [status |-> IF slash THEN "slashed" ELSE "rejected",
                               resolution_deadline |-> dispute[k][a].resolution_deadline]

DisputeClosed(k, a) ==
    /\ dispute[k][a].status = "filed"
    /\ dispute'[k][a] = NoDispute

\* A dispute is filed, resolved once, or closed unresolved, and stays as it is
\* otherwise; only the instruction on it changes it.
LEMMA DisputeChanges ==
    ASSUME ProgramInv, [Next]_vars, NEW k \in RoundKeys, NEW a \in Attesters
    PROVE  \/ dispute'[k][a] = dispute[k][a]
           \/ /\ DisputeFiled(k, a) \/ DisputeResolved(k, a) \/ DisputeClosed(k, a)
              /\ UNCHANGED <<now, pending>>
<1>1. dispute \in [RoundKeys -> [Attesters -> DisputeRecord]]
  BY DEF ProgramInv, FeedsTyped
<1>2. CASE UNCHANGED dispute
  BY <1>2
<1>3. ASSUME NEW r \in RoundKeys, NEW b \in Attesters, r # k \/ b # a,
             NEW v, dispute' = [dispute EXCEPT ![r][b] = v]
      PROVE  dispute'[k][a] = dispute[k][a]
  BY <1>1, <1>3
<1>4. ASSUME NEW r \in RoundKeys, NEW b \in Attesters, DisputeUpdate(r, b)
      PROVE  dispute'[k][a] = dispute[k][a] \/ DisputeFiled(k, a)
  BY <1>1, <1>3, <1>4 DEF DisputeUpdate, DisputeFiled
<1>5. ASSUME NEW r \in RoundKeys, NEW b \in Attesters, NEW slash \in BOOLEAN,
             ResolveDispute(r, b, slash)
      PROVE  (dispute'[k][a] = dispute[k][a] \/ DisputeResolved(k, a)) /\ now' = now
  <2> DEFINE verdict == IF slash THEN "slashed" ELSE "rejected"
  <2>1. dispute' = [dispute EXCEPT ![r][b].status = verdict]
    BY <1>5 DEF ResolveDispute
  <2>2. now' = now
    BY <1>5 DEF ResolveDispute, SlashAttester, clockedRegistryVars
  <2>3. CASE r = k /\ b = a
    <3>1. dispute[k][a].status = "filed"
      BY <1>5, <2>3 DEF ResolveDispute
    <3>2. dispute'[k][a] = [dispute[k][a] EXCEPT !.status = verdict]
      BY <1>1, <2>1, <2>3
    <3>3. dispute'[k][a] = [status |-> verdict,
                            resolution_deadline |-> dispute[k][a].resolution_deadline]
      BY <1>1, <3>2 DEF DisputeRecord
    <3> QED
      BY <1>5, <2>1, <2>2, <2>3, <3>1, <3>3 DEF DisputeResolved
  <2>4. CASE r # k
    BY <1>1, <2>1, <2>2, <2>4
  <2>5. CASE r = k /\ b # a
    BY <1>1, <2>1, <2>2, <2>5
  <2> QED
    BY <2>3, <2>4, <2>5
<1>6. ASSUME NEW r \in RoundKeys, NEW b \in Attesters, CloseExpiredDispute(r, b)
      PROVE  dispute'[k][a] = dispute[k][a] \/ DisputeClosed(k, a)
  BY <1>1, <1>3, <1>6 DEF CloseExpiredDispute, DisputeClosed
<1>7. CASE DisputeStep
  BY <1>4, <1>5, <1>6, <1>7
  DEF DisputeStep, DisputeUpdate, CloseExpiredDispute, ResolveDispute, clockedRegistryVars
<1> QED
  BY <1>2, <1>7, OracleStepFrame, RoundStepFrame DEF Next, RegistryStep, vars, oracleVars

-----------------------------------------------------------------------------
(* The accounts stay functions of their seeds with values of their types. *)

\* Every account that a step writes is one of the modelled ones.
LEMMA AccountsStayFunctions ==
    ASSUME ProgramInv, [Next]_vars
    PROVE  /\ oracle' = [l \in Lsts |-> oracle'[l]]
           /\ pending' = [k \in RoundKeys |-> pending'[k]]
           /\ dispute' = [k \in RoundKeys |-> [a \in Attesters |-> dispute'[k][a]]]
           /\ signers' \in [RoundKeys -> SUBSET Attesters]
<1>1. FeedsTyped
  BY DEF ProgramInv
<1>2. CASE OracleStep
  <2>1. oracle' = [l \in Lsts |-> oracle'[l]]
    BY <1>1, <1>2 DEF OracleStep, InitializeOracle, UpdateRiskState, CloseOracle,
                      MigrateRiskState, EnableMultiAttester, FeedsTyped
  <2> QED
    BY <1>1, <1>2, <2>1, OracleStepFrame DEF FeedsTyped
<1>3. CASE RoundStep
  <2>1. PICK k \in RoundKeys :
           \/ \E a \in Attesters, p \in Payloads : ProposeUpdate(a, k, p)
           \/ \E a \in Attesters : ConfirmUpdate(a, k)
           \/ CancelExpired(k)
    BY <1>3 DEF RoundStep
  <2>2. /\ \E x : pending' = [pending EXCEPT ![k] = x]
        /\ oracle' = oracle \/ \E x : oracle' = [oracle EXCEPT ![k[1]] = x]
        /\ \E S \in SUBSET Attesters : signers' = [signers EXCEPT ![k] = S]
    <3>1. ASSUME NEW a \in Attesters, NEW p \in Payloads, ProposeUpdate(a, k, p)
          PROVE  /\ \E x : pending' = [pending EXCEPT ![k] = x]
                 /\ oracle' = oracle
                 /\ \E S \in SUBSET Attesters : signers' = [signers EXCEPT ![k] = S]
      BY <3>1 DEF ProposeUpdate
    <3>2. ASSUME NEW a \in Attesters, ConfirmUpdate(a, k)
          PROVE  /\ \E x : pending' = [pending EXCEPT ![k] = x]
                 /\ oracle' = oracle \/ \E x : oracle' = [oracle EXCEPT ![k[1]] = x]
                 /\ \E S \in SUBSET Attesters : signers' = [signers EXCEPT ![k] = S]
      <4>1. signers[k] \cup {a} \in SUBSET Attesters
        BY <1>1 DEF FeedsTyped
      <4>2. \E S \in SUBSET Attesters : signers' = [signers EXCEPT ![k] = S]
        BY <3>2, <4>1 DEF ConfirmUpdate
      <4>3. /\ \E x : pending' = [pending EXCEPT ![k] = x]
            /\ oracle' = oracle \/ \E x : oracle' = [oracle EXCEPT ![k[1]] = x]
        BY <3>2 DEF ConfirmUpdate, Finalize
      <4> QED
        BY <4>2, <4>3
    <3>3. ASSUME CancelExpired(k)
          PROVE  /\ \E x : pending' = [pending EXCEPT ![k] = x]
                 /\ oracle' = oracle
                 /\ \E S \in SUBSET Attesters : signers' = [signers EXCEPT ![k] = S]
      BY <3>3 DEF CancelExpired
    <3> QED
      BY <2>1, <3>1, <3>2, <3>3
  <2>3. oracle' = [l \in Lsts |-> oracle'[l]]
    BY <1>1, <2>2 DEF FeedsTyped
  <2>4. pending' = [q \in RoundKeys |-> pending'[q]]
    BY <1>1, <2>2 DEF FeedsTyped
  <2>5. signers' \in [RoundKeys -> SUBSET Attesters]
    BY <1>1, <2>2 DEF FeedsTyped
  <2>6. dispute' = [q \in RoundKeys |-> [a \in Attesters |-> dispute'[q][a]]]
    BY <1>1, <1>3, RoundStepFrame DEF FeedsTyped
  <2> QED
    BY <2>3, <2>4, <2>5, <2>6
<1>4. CASE DisputeStep
  <2>1. dispute' = [k \in RoundKeys |-> [a \in Attesters |-> dispute'[k][a]]]
    BY <1>1, <1>4
    DEF DisputeStep, DisputeUpdate, ResolveDispute, CloseExpiredDispute, FeedsTyped
  <2> QED
    BY <1>1, <1>4, <2>1, DisputeStepFrame DEF FeedsTyped
<1>5. CASE UNCHANGED oracleVars
  BY <1>1, <1>5 DEF FeedsTyped, oracleVars
<1> QED
  BY <1>2, <1>3, <1>4, <1>5 DEF Next, RegistryStep, vars

\* Every step of the program keeps the types of the four families of accounts.
LEMMA FeedsTypedKept ==
    ASSUME ProgramInv, [Next]_vars
    PROVE  FeedsTyped'
<1>1. /\ FeedsTyped /\ now \in Nat /\ RoundsSound
  BY DEF ProgramInv, RegistryInv, RegistryTypeOK
<1>2. Payloads \subseteq Payload /\ \A x \in Nat : /\ x + PENDING_UPDATE_TTL_SECS \in Nat
                                                  /\ x + RESOLUTION_DEADLINE_SECS \in Nat
  BY OracleAssumption
<1>3. ASSUME NEW k \in RoundKeys
      PROVE  pending'[k] \in PendingUpdate
  <2>1. pending[k] \in PendingUpdate
    BY <1>1 DEF FeedsTyped
  <2>2. CASE RoundProposed(k)
    <3>1. PICK a \in Attesters, p \in Payloads, i \in Slots :
             pending'[k] =
              [status |-> "open", params |-> p, proposer |-> a,
               expires_at |-> now + PENDING_UPDATE_TTL_SECS, confirmation_count |-> 1,
               confirmations |-> {i}, finalized_at |-> 0]
      BY <2>2 DEF RoundProposed
    <3>2. p \in Payload /\ {i} \in SUBSET Slots /\ now + PENDING_UPDATE_TTL_SECS \in Nat
      BY <1>1, <1>2
    <3> QED
      BY <3>1, <3>2 DEF PendingUpdate
  <2>3. CASE RoundConfirmed(k)
    BY <2>1, <2>3, ConfirmationFields DEF RoundConfirmed
  <2>4. CASE RoundFinalized(k)
    <3>1. PICK i \in Slots :
             pending'[k] = [AddConfirmation(pending[k], i)
                               EXCEPT !.status = "finalized", !.finalized_at = now]
      BY <2>4 DEF RoundFinalized
    <3>2. AddConfirmation(pending[k], i) \in PendingUpdate
      BY <2>1, ConfirmationFields
    <3> QED
      BY <1>1, <3>1, <3>2 DEF PendingUpdate
  <2>5. CASE RoundDropped(k)
    BY <2>5, FreshAccountsTyped DEF RoundDropped
  <2> QED
    BY <2>1, <2>2, <2>3, <2>4, <2>5, RoundChanges
<1>4. ASSUME NEW l \in Lsts
      PROVE  oracle'[l] \in RiskState
  <2>1. oracle[l] \in RiskState /\ oracle[l].authority \in Authorities \cup {NoKey}
    BY <1>1 DEF FeedsTyped, RiskState
  <2>2. CASE FeedCreated(l) \/ FeedClosed(l)
    BY <2>2, FreshAccountsTyped DEF FeedCreated, FeedClosed
  <2>3. CASE FeedWritten(l)
    BY <1>1, <1>2, <2>1, <2>3, WrittenFields DEF FeedWritten
  <2>4. CASE FeedMigrated(l) \/ FeedEnabled(l)
    BY <2>1, <2>4 DEF FeedMigrated, FeedEnabled, RiskState
  <2>5. CASE FeedFinalized(l)
    <3>1. PICK r \in Rounds : RoundFinalized(<<l, r>>)
      BY <2>5 DEF FeedFinalized
    <3>2. pending[<<l, r>>] \in PendingUpdate
      BY <1>1 DEF FeedsTyped, RoundKeys
    <3>3. pending[<<l, r>>].params \in Payload
      BY <3>2 DEF PendingUpdate
    <3>4. \E a \in Attesters : oracle'[l] = Written(oracle[l], pending[<<l, r>>].params, a)
      BY <3>1 DEF RoundFinalized
    <3> QED
      BY <1>1, <2>1, <3>3, <3>4, WrittenFields
  <2> QED
    BY <2>1, <2>2, <2>3, <2>4, <2>5, FeedChanges
<1>5. ASSUME NEW k \in RoundKeys, NEW a \in Attesters
      PROVE  dispute'[k][a] \in DisputeRecord
  <2>1. dispute[k][a] \in DisputeRecord
    BY <1>1 DEF FeedsTyped
  <2>2. CASE DisputeFiled(k, a)
    BY <1>1, <1>2, <2>2 DEF DisputeFiled, DisputeRecord
  <2>3. CASE DisputeResolved(k, a)
    BY <2>1, <2>3 DEF DisputeResolved, DisputeRecord
  <2>4. CASE DisputeClosed(k, a)
    BY <2>4, FreshAccountsTyped DEF DisputeClosed
  <2> QED
    BY <2>1, <2>2, <2>3, <2>4, DisputeChanges
<1>6. oracle' \in [Lsts -> RiskState]
  BY <1>4, AccountsStayFunctions
<1>7. pending' \in [RoundKeys -> PendingUpdate]
  BY <1>3, AccountsStayFunctions
<1>8. dispute' \in [RoundKeys -> [Attesters -> DisputeRecord]]
  BY <1>5, AccountsStayFunctions
<1> QED
  BY <1>6, <1>7, <1>8, AccountsStayFunctions DEF FeedsTyped

-----------------------------------------------------------------------------
(* The rounds, the feeds and the disputes keep what they say. *)

\* The registry within the program keeps its invariant, and a threshold once set,
\* and the quorum.
LEMMA RegistryKept ==
    ASSUME ProgramInv, [Next]_vars
    PROVE  /\ RegistryInv'
           /\ now \in Nat /\ now' \in Nat /\ now' >= now
           /\ threshold \in Nat /\ attester_count \in Nat
           /\ threshold > 0 => threshold' = threshold
           /\ threshold > 0 /\ attester_count >= threshold => attester_count' >= threshold'
<1>1. RegistryInv /\ RoundsSound
  BY DEF ProgramInv
<1>2. [RegistryNext]_clockedRegistryVars
  BY <1>1, NextDrivesRegistry
<1>3. now \in Nat /\ threshold \in Nat /\ attester_count \in Nat
  BY <1>1, SlotAssumption DEF RegistryInv, RegistryTypeOK
<1> QED
  BY <1>1, <1>2, <1>3, RegistryStepKeeps, RegistryMonotone

\* The count of a round is the size of its bitmap after every step, and a round is
\* finalized with the threshold, in time and with a valid value.
LEMMA RoundsSoundKept ==
    ASSUME ProgramInv, [Next]_vars
    PROVE  RoundsSound'
<1> DEFINE Sound(p, m, t) ==
        /\ p.confirmation_count = Cardinality(p.confirmations)
        /\ p.status # "absent" => p.proposer \in Attesters /\ m > 0 /\ IsValid(p.params)
        /\ p.status = "finalized" => /\ p.confirmation_count >= m
                                     /\ p.finalized_at < p.expires_at
                                     /\ p.finalized_at \in 1..t
<1>1. SUFFICES ASSUME NEW k \in RoundKeys
               PROVE  Sound(pending'[k], threshold', now')
  BY DEF RoundsSound
<1>2. /\ pending[k] \in PendingUpdate
      /\ Sound(pending[k], threshold, now)
      /\ k[1] \in Lsts
      /\ now > 0
  BY DEF ProgramInv, FeedsTyped, RoundsSound, RoundKeys, RegistryInv, RegistryTypeOK
<1>3. ASSUME NEW i \in Slots \ pending[k].confirmations
      PROVE  Cardinality(pending[k].confirmations \cup {i})
                = Cardinality(pending[k].confirmations) + 1
  <2>1. IsFiniteSet(pending[k].confirmations)
    BY <1>2, SlotsFinite DEF PendingUpdate
  <2> QED
    BY <2>1, FS_AddElement
<1>4. CASE pending'[k] = pending[k]
  <2>1. pending[k].finalized_at \in Nat
    BY <1>2 DEF PendingUpdate
  <2> QED
    BY <1>2, <1>4, <2>1, RegistryKept
<1>5. CASE RoundProposed(k) /\ UNCHANGED <<now, threshold>>
  <2>1. threshold > 0
    BY <1>2, <1>5 DEF FeedSound, RoundProposed, ProgramInv, FeedsSound
  <2>2. PICK a \in Attesters, p \in Payloads, i \in Slots :
           /\ IsValid(p)
           /\ pending'[k] =
                 [status |-> "open", params |-> p, proposer |-> a,
                  expires_at |-> now + PENDING_UPDATE_TTL_SECS, confirmation_count |-> 1,
                  confirmations |-> {i}, finalized_at |-> 0]
    BY <1>5 DEF RoundProposed
  <2>3. Cardinality({i}) = 1
    BY FS_Singleton
  <2> QED
    BY <1>5, <2>1, <2>2, <2>3
<1>6. CASE RoundConfirmed(k) /\ UNCHANGED <<now, threshold>>
  <2>1. PICK i \in Slots \ pending[k].confirmations :
           pending'[k] = AddConfirmation(pending[k], i)
    BY <1>6 DEF RoundConfirmed
  <2>2. /\ pending'[k].status = "open"
        /\ pending'[k].params = pending[k].params
        /\ pending'[k].proposer = pending[k].proposer
        /\ pending'[k].confirmations = pending[k].confirmations \cup {i}
        /\ pending'[k].confirmation_count = pending[k].confirmation_count + 1
    BY <1>2, <1>6, <2>1, ConfirmationFields DEF RoundConfirmed
  <2> QED
    BY <1>2, <1>3, <1>6, <2>2 DEF RoundConfirmed
<1>7. CASE RoundFinalized(k) /\ UNCHANGED <<now, threshold>>
  <2>1. PICK i \in Slots \ pending[k].confirmations :
          /\ pending[k].confirmation_count + 1 >= threshold
          /\ pending'[k] = [AddConfirmation(pending[k], i)
                               EXCEPT !.status = "finalized", !.finalized_at = now]
    BY <1>7 DEF RoundFinalized
  <2>2. /\ pending'[k].status = "finalized"
        /\ pending'[k].finalized_at = now
        /\ pending'[k].params = pending[k].params
        /\ pending'[k].proposer = pending[k].proposer
        /\ pending'[k].expires_at = pending[k].expires_at
        /\ pending'[k].confirmations = pending[k].confirmations \cup {i}
        /\ pending'[k].confirmation_count = pending[k].confirmation_count + 1
    <3> DEFINE c == AddConfirmation(pending[k], i)
    <3>1. pending'[k] = [[c EXCEPT !.status = "finalized"] EXCEPT !.finalized_at = now]
      BY <2>1
    <3> QED
      BY <1>2, <3>1, ConfirmationFields
  <2>3. now < pending[k].expires_at /\ pending[k].status = "open"
    BY <1>7 DEF RoundFinalized
  <2>4. now \in 1..now /\ now' = now /\ threshold' = threshold
    BY <1>2, <1>7, RegistryKept
  <2> QED
    BY <1>2, <1>3, <2>1, <2>2, <2>3, <2>4
<1>8. CASE RoundDropped(k)
  BY <1>8, FS_EmptySet DEF RoundDropped, NoPending
<1> QED
  BY <1>4, <1>5, <1>6, <1>7, <1>8, RoundChanges

\* No instruction changes a finalized round.
LEMMA FinalizedStays ==
    ASSUME ProgramInv, [Next]_vars, NEW k \in RoundKeys, pending[k].status = "finalized"
    PROVE  pending'[k] = pending[k]
BY RoundChanges DEF RoundProposed, RoundConfirmed, RoundFinalized, RoundDropped

\* The feed of a round that is finalized takes the round's value and stays a
\* multi-attester feed.
LEMMA FinalizedFeed ==
    ASSUME ProgramInv, NEW l \in Lsts, FeedFinalized(l)
    PROVE  /\ IsMultiAttester(l)
           /\ oracle'[l].status = "current" /\ oracle'[l].update_mode = 1
           /\ \E r \in Rounds :
                 /\ pending[<<l, r>>].status = "open"
                 /\ pending'[<<l, r>>].status = "finalized"
                 /\ pending'[<<l, r>>].finalized_at = oracle'[l].timestamp
                 /\ pending'[<<l, r>>].params = oracle'[l].params
                 /\ IsValid(oracle'[l].params)
<1>0. oracle[l] \in RiskState /\ now \in Nat /\ RoundsSound
  BY DEF ProgramInv, FeedsTyped, RegistryInv, RegistryTypeOK
<1>1. PICK r \in Rounds : RoundFinalized(<<l, r>>)
  BY DEF FeedFinalized
<1> DEFINE k == <<l, r>>
<1>2. k \in RoundKeys /\ k[1] = l
  BY DEF RoundKeys
<1>3. PICK a \in Attesters : oracle'[l] = Written(oracle[l], pending[k].params, a)
  BY <1>1, <1>2 DEF RoundFinalized
<1>4. pending[k] \in PendingUpdate /\ pending[k].status = "open" /\ IsMultiAttester(l)
  BY <1>1, <1>2 DEF ProgramInv, FeedsTyped, RoundFinalized
<1>5. pending[k].params \in Payload /\ IsValid(pending[k].params)
  BY <1>0, <1>2, <1>4 DEF RoundsSound, PendingUpdate
<1>6. /\ oracle'[l].params = pending[k].params /\ oracle'[l].timestamp = now
      /\ oracle'[l].status = "current" /\ oracle'[l].update_mode = 1
  BY <1>0, <1>3, <1>4, <1>5, WrittenFields DEF IsMultiAttester
<1>7. PICK i \in Slots :
        pending'[k] = [AddConfirmation(pending[k], i)
                          EXCEPT !.status = "finalized", !.finalized_at = now]
  BY <1>1 DEF RoundFinalized
<1>8. /\ pending'[k].status = "finalized" /\ pending'[k].finalized_at = now
      /\ pending'[k].params = pending[k].params
  <2>1. pending'[k] = [[AddConfirmation(pending[k], i) EXCEPT !.status = "finalized"]
                          EXCEPT !.finalized_at = now]
    BY <1>7
  <2> QED
    BY <1>4, <2>1, ConfirmationFields
<1> HIDE DEF k
<1> QED
  BY <1>4, <1>5, <1>6, <1>8 DEF k

\* The value, the mode and the updater of a feed after each of the ways it changes.
LEMMA FeedFieldsAfter ==
    ASSUME ProgramInv, [Next]_vars, NEW l \in Lsts, oracle'[l] # oracle[l]
    PROVE  \/ /\ oracle'[l].update_mode = 0
              /\ oracle'[l].last_updater = oracle'[l].authority
              /\ oracle'[l].timestamp > 0 => IsValid(oracle'[l].params)
           \/ /\ IsSingleAttester(l)
              /\ oracle'[l].status = "current" /\ oracle'[l].update_mode = 1
              /\ oracle'[l].last_updater = oracle'[l].authority
              /\ oracle'[l].timestamp = oracle[l].timestamp
              /\ oracle'[l].params = oracle[l].params
              /\ threshold' > 0 /\ attester_count' >= threshold'
           \/ /\ IsMultiAttester(l) /\ FeedFinalized(l)
              /\ oracle'[l].status = "current" /\ oracle'[l].update_mode = 1
              /\ \E r \in Rounds :
                    /\ pending[<<l, r>>].status = "open"
                    /\ pending'[<<l, r>>].status = "finalized"
                    /\ pending'[<<l, r>>].finalized_at = oracle'[l].timestamp
                    /\ pending'[<<l, r>>].params = oracle'[l].params
                    /\ IsValid(oracle'[l].params)
<1>1. /\ oracle[l] \in RiskState /\ now \in Nat /\ FeedsSound /\ RoundsSound
      /\ oracle[l].authority \in Authorities \cup {NoKey}
  BY DEF ProgramInv, FeedsTyped, RegistryInv, RegistryTypeOK, RiskState
<1>2. /\ oracle[l].timestamp > 0 => IsValid(oracle[l].params)
      /\ oracle[l].update_mode = 0 => oracle[l].last_updater = oracle[l].authority
      /\ oracle[l].status # "current" => oracle[l].update_mode = 0
  BY <1>1 DEF FeedSound, FeedsSound
<1>3. CASE FeedCreated(l) \/ FeedClosed(l)
  <2>1. ASSUME NEW auth \in Authorities
        PROVE  /\ FreshOracle(auth).update_mode = 0
               /\ FreshOracle(auth).last_updater = FreshOracle(auth).authority
               /\ FreshOracle(auth).timestamp = 0
    BY DEF FreshOracle, NoOracle
  <2> QED
    BY <1>3, <2>1 DEF FeedCreated, FeedClosed, NoOracle
<1>4. CASE FeedWritten(l)
  <2>1. PICK p \in Payloads :
           IsValid(p) /\ oracle'[l] = Written(oracle[l], p, oracle[l].authority)
    BY <1>4 DEF FeedWritten
  <2>2. p \in Payload
    BY OracleAssumption
  <2> QED
    BY <1>1, <1>4, <2>1, <2>2, WrittenFields DEF FeedWritten, IsSingleAttester
<1>5. CASE FeedMigrated(l)
  BY <1>1, <1>2, <1>5 DEF FeedMigrated, RiskState
<1>6. CASE FeedEnabled(l) /\ UNCHANGED clockedRegistryVars
  <2>1. threshold' > 0 /\ attester_count' >= threshold'
    BY <1>6 DEF FeedEnabled, clockedRegistryVars, registryVars
  <2> QED
    BY <1>1, <1>2, <1>6, <2>1 DEF FeedEnabled, IsSingleAttester, RiskState
<1>7. CASE FeedFinalized(l)
  BY <1>7, FinalizedFeed
<1> QED
  BY <1>3, <1>4, <1>5, <1>6, <1>7, FeedChanges

\* A feed's value stays valid and attested, and multi-attester mode keeps its quorum.
LEMMA FeedsKept ==
    ASSUME ProgramInv, [Next]_vars
    PROVE  FeedsSound' /\ CanonicalValueAttested'
<1>1. FeedsSound /\ CanonicalValueAttested
  BY DEF ProgramInv
<1>2. ASSUME NEW l \in Lsts, oracle'[l] = oracle[l]
      PROVE  FeedSound(l)' /\ FeedAttested(l)'
  <2>1. FeedSound(l) /\ FeedAttested(l)
    BY <1>1 DEF FeedsSound, CanonicalValueAttested, FeedAttested
  <2>2. ASSUME NEW r \in Rounds, pending[<<l, r>>].status = "finalized"
        PROVE  pending'[<<l, r>>] = pending[<<l, r>>]
    BY <2>2, FinalizedStays DEF RoundKeys
  <2>3. IsMultiAttester(l)' <=> IsMultiAttester(l)
    BY <1>2 DEF IsMultiAttester
  <2>4. FeedSound(l)'
    BY <1>2, <2>1, <2>3, RegistryKept DEF FeedSound
  <2>5. FeedAttested(l)'
    BY <1>2, <2>1, <2>2, <2>3 DEF FeedAttested
  <2> QED
    BY <2>4, <2>5
<1>3. ASSUME NEW l \in Lsts, oracle'[l] # oracle[l]
      PROVE  FeedSound(l)' /\ FeedAttested(l)'
  <2>1. FeedSound(l)
    BY <1>1 DEF FeedsSound
  <2>2. CASE /\ oracle'[l].update_mode = 0
             /\ oracle'[l].last_updater = oracle'[l].authority
             /\ oracle'[l].timestamp > 0 => IsValid(oracle'[l].params)
    BY <2>2 DEF FeedSound, FeedAttested, IsMultiAttester
  <2>3. CASE /\ oracle'[l].status = "current" /\ oracle'[l].update_mode = 1
             /\ oracle'[l].last_updater = oracle'[l].authority
             /\ oracle'[l].timestamp = oracle[l].timestamp
             /\ oracle'[l].params = oracle[l].params
             /\ threshold' > 0 /\ attester_count' >= threshold'
    BY <2>1, <2>3 DEF FeedSound, FeedAttested, IsMultiAttester
  <2>4. CASE /\ IsMultiAttester(l)
             /\ oracle'[l].status = "current" /\ oracle'[l].update_mode = 1
             /\ \E r \in Rounds :
                   /\ pending'[<<l, r>>].status = "finalized"
                   /\ pending'[<<l, r>>].finalized_at = oracle'[l].timestamp
                   /\ pending'[<<l, r>>].params = oracle'[l].params
                   /\ IsValid(oracle'[l].params)
    <3>1. threshold' > 0 /\ attester_count' >= threshold'
      BY <2>1, <2>4, RegistryKept DEF FeedSound
    <3> QED
      BY <2>4, <3>1 DEF FeedSound, FeedAttested, IsMultiAttester
  <2> QED
    BY <1>3, <2>2, <2>3, <2>4, FeedFieldsAfter
<1>4. FeedsSound'
  BY <1>2, <1>3 DEF FeedSound, FeedsSound
<1>5. CanonicalValueAttested'
  BY <1>2, <1>3 DEF CanonicalValueAttested, FeedAttested
<1> QED
  BY <1>4, <1>5

\* A round that is finalized in a step is so now, and so is its feed's value.
LEMMA FinalizedNow ==
    ASSUME ProgramInv, [Next]_vars, NEW k \in RoundKeys,
           pending[k].status # "finalized", pending'[k].status = "finalized"
    PROVE  /\ pending[k].status = "open" /\ now' = now
           /\ pending'[k].finalized_at = now
           /\ pending'[k].expires_at = pending[k].expires_at
           /\ oracle'[k[1]].timestamp = now
<1>1. /\ pending[k] \in PendingUpdate /\ oracle[k[1]] \in RiskState /\ now \in Nat
      /\ (pending[k].status # "absent" => IsValid(pending[k].params))
  BY DEF ProgramInv, FeedsTyped, RoundsSound, RoundKeys, RegistryInv, RegistryTypeOK
<1>2. RoundFinalized(k) /\ now' = now
  <2>1. ASSUME NEW i \in Slots, pending[k].status = "open"
        PROVE  AddConfirmation(pending[k], i).status = "open"
    BY <1>1, <2>1, ConfirmationFields
  <2>2. ~RoundConfirmed(k)
    BY <2>1 DEF RoundConfirmed
  <2>3. ~RoundProposed(k)
    <3> SUFFICES ASSUME RoundProposed(k)
                 PROVE  FALSE
      OBVIOUS
    <3>1. PICK a \in Attesters, p \in Payloads, i \in Slots :
             pending'[k] =
                 [status |-> "open", params |-> p, proposer |-> a,
                  expires_at |-> now + PENDING_UPDATE_TTL_SECS, confirmation_count |-> 1,
                  confirmations |-> {i}, finalized_at |-> 0]
      BY DEF RoundProposed
    <3>2. pending'[k].status = "open"
      BY <3>1
    <3> QED
      BY <3>2
  <2>4. ~RoundDropped(k)
    BY DEF RoundDropped, NoPending
  <2>5. pending'[k] # pending[k]
    OBVIOUS
  <2> QED
    BY <2>2, <2>3, <2>4, <2>5, RoundChanges
<1>3. PICK i \in Slots :
        pending'[k] = [AddConfirmation(pending[k], i)
                          EXCEPT !.status = "finalized", !.finalized_at = now]
  BY <1>2 DEF RoundFinalized
<1>4. pending'[k] = [[AddConfirmation(pending[k], i) EXCEPT !.status = "finalized"]
                        EXCEPT !.finalized_at = now]
  BY <1>3
<1>5. pending[k].status = "open"
  BY <1>2 DEF RoundFinalized
<1>6. pending'[k].finalized_at = now /\ pending'[k].expires_at = pending[k].expires_at
  BY <1>1, <1>4, <1>5, ConfirmationFields
<1>7. pending[k].params \in Payload
  BY <1>1 DEF PendingUpdate
<1>8. PICK a \in Attesters : oracle'[k[1]] = Written(oracle[k[1]], pending[k].params, a)
  BY <1>2 DEF RoundFinalized
<1>9. oracle'[k[1]].timestamp = now
  BY <1>1, <1>7, <1>8, WrittenFields
<1> QED
  BY <1>2, <1>5, <1>6, <1>9

\* The deadlines of the rounds stay within the time-to-live.
LEMMA RoundsTimedKept ==
    ASSUME ProgramInv, RoundsTimed, [Next]_vars
    PROVE  RoundsTimed'
<1> SUFFICES ASSUME NEW k \in RoundKeys
             PROVE  /\ pending'[k].status = "open" =>
                           pending'[k].expires_at <= now' + PENDING_UPDATE_TTL_SECS
                    /\ pending'[k].status = "finalized" =>
                           pending'[k].expires_at
                               <= pending'[k].finalized_at + PENDING_UPDATE_TTL_SECS
  BY DEF RoundsTimed
<1>1. /\ pending[k] \in PendingUpdate /\ PENDING_UPDATE_TTL_SECS \in Nat
      /\ pending[k].expires_at \in Nat /\ now \in Nat /\ now' \in Nat /\ now <= now'
  BY RegistryKept, OracleAssumption DEF ProgramInv, FeedsTyped, PendingUpdate
<1>2. pending[k].status = "open" => pending[k].expires_at <= now + PENDING_UPDATE_TTL_SECS
  BY DEF RoundsTimed
<1>3. CASE pending'[k] = pending[k]
  BY <1>1, <1>2, <1>3 DEF RoundsTimed
<1>4. CASE RoundProposed(k) /\ now' = now
  BY <1>1, <1>4 DEF RoundProposed
<1>5. CASE RoundConfirmed(k) /\ now' = now
  BY <1>1, <1>2, <1>5, ConfirmationFields DEF RoundConfirmed
<1>6. CASE RoundFinalized(k) /\ now' = now
  <2>1. pending[k].status = "open" /\ pending'[k].status = "finalized"
    BY <1>1, <1>6, ConfirmationFields DEF RoundFinalized
  <2> QED
    BY <1>1, <1>2, <2>1, FinalizedNow
<1>7. CASE RoundDropped(k)
  BY <1>7 DEF RoundDropped, NoPending
<1> QED
  BY <1>3, <1>4, <1>5, <1>6, <1>7, RoundChanges

\* The value a feed shows stays the one of the round finalized last.
LEMMA LastRoundShownKept ==
    ASSUME ProgramInv, LastRoundShown, [Next]_vars
    PROVE  LastRoundShown'
<1> SUFFICES ASSUME NEW l \in Lsts, NEW r \in Rounds,
                    IsMultiAttester(l)', oracle'[l].last_updater # oracle'[l].authority,
                    pending'[<<l, r>>].status = "finalized"
             PROVE  pending'[<<l, r>>].finalized_at <= oracle'[l].timestamp
  BY DEF LastRoundShown
<1> DEFINE k == <<l, r>>
<1>1. k \in RoundKeys /\ k[1] = l
  BY DEF RoundKeys
<1>2. now \in Nat
  BY RegistryKept
<1> HIDE DEF k
<1>3. CASE pending[k].status # "finalized"
  BY <1>1, <1>2, <1>3, FinalizedNow DEF k
<1>4. CASE pending[k].status = "finalized"
  <2>1. pending'[k] = pending[k] /\ pending[k].finalized_at \in 1..now
    BY <1>1, <1>4, FinalizedStays DEF ProgramInv, RoundsSound
  <2>2. CASE oracle'[l] = oracle[l]
    BY <1>4, <2>1, <2>2 DEF LastRoundShown, IsMultiAttester, k
  <2>3. CASE oracle'[l] # oracle[l]
    <3>1. FeedFinalized(l)
      BY <2>3, FeedFieldsAfter DEF IsMultiAttester
    <3>2. PICK q \in Rounds : RoundFinalized(<<l, q>>)
      BY <3>1 DEF FeedFinalized
    <3>3. PICK a \in Attesters : oracle'[l] = Written(oracle[l], pending[<<l, q>>].params, a)
      BY <3>2 DEF RoundFinalized
    <3>4. oracle[l] \in RiskState /\ pending[<<l, q>>].params \in Payload
      BY DEF ProgramInv, FeedsTyped, PendingUpdate, RoundKeys
    <3>5. oracle'[l].timestamp = now
      BY <1>2, <3>3, <3>4, WrittenFields
    <3> QED
      BY <1>2, <2>1, <3>5 DEF k
  <2> QED
    BY <2>2, <2>3
<1> QED
  BY <1>3, <1>4

\* A dispute is filed on a finalized round, which nothing changes any more.
LEMMA DisputesSoundKept ==
    ASSUME ProgramInv, [Next]_vars
    PROVE  DisputesSound'
<1>1. SUFFICES ASSUME NEW k \in RoundKeys, NEW a \in Attesters,
                      dispute'[k][a].status # "absent"
               PROVE  /\ pending'[k].status = "finalized"
                      /\ dispute'[k][a].resolution_deadline
                            >= pending'[k].finalized_at + RESOLUTION_DEADLINE_SECS
  BY DEF DisputesSound
<1>2. DisputesSound /\ RoundsSound /\ dispute[k][a] \in DisputeRecord
  BY DEF ProgramInv, FeedsTyped
<1>3. CASE dispute[k][a].status # "absent"
  <2>1. pending[k].status = "finalized" /\ pending'[k] = pending[k]
    BY <1>2, <1>3, FinalizedStays DEF DisputesSound
  <2>2. dispute'[k][a].resolution_deadline = dispute[k][a].resolution_deadline
    <3>1. CASE DisputeResolved(k, a)
      BY <3>1 DEF DisputeResolved
    <3>2. ~DisputeFiled(k, a) /\ ~DisputeClosed(k, a)
      BY <1>1, <1>3 DEF DisputeFiled, DisputeClosed, NoDispute
    <3> QED
      BY <3>1, <3>2, DisputeChanges
  <2> QED
    BY <1>2, <1>3, <2>1, <2>2 DEF DisputesSound
<1>4. CASE dispute[k][a].status = "absent"
  <2>1. DisputeFiled(k, a) /\ pending'[k] = pending[k]
    BY <1>1, <1>4, DisputeChanges DEF DisputeResolved, DisputeClosed
  <2>2. pending[k].finalized_at \in 1..now /\ now \in Nat
    BY <1>2, <2>1, RegistryKept DEF DisputeFiled, DisputeWindowOpen, RoundsSound
  <2> QED
    BY <2>1, <2>2, OracleAssumption DEF DisputeFiled, DisputeWindowOpen
<1> QED
  BY <1>3, <1>4

-----------------------------------------------------------------------------
(* Slashes and the records of them. *)

\* An attester that is active after a step of another instruction has lost no more
\* disputes than before it, or none if it registered in the step.
LEMMA LossesKept ==
    ASSUME RegistryInv, NEW i \in Slots, attesters'[i].is_active,
           \/ \E m \in ThresholdArgs, minimum \in MinBondArgs : InitializeRegistry(m, minimum)
           \/ \E a \in Attesters, amount \in BondArgs : RegisterAttester(a, amount)
           \/ \E a \in Attesters : InitiateUnregister(a)
           \/ \E a \in Attesters : WithdrawBond(a)
           \/ \E a \in Attesters : CreditProposer(a)
           \/ Tick
           \/ UNCHANGED clockedRegistryVars
    PROVE  \/ attesters'[i].disputes_lost = 0
           \/ /\ attesters[i].is_active
              /\ attesters'[i].pubkey = attesters[i].pubkey
              /\ attesters'[i].disputes_lost = attesters[i].disputes_lost
<1>1. attesters \in [Slots -> Entry] /\ attesters[i] \in Entry
  BY DEF RegistryInv, RegistryTypeOK
<1>2. ASSUME NEW m \in ThresholdArgs, NEW minimum \in MinBondArgs
      PROVE  ~InitializeRegistry(m, minimum)
  BY DEF InitializeRegistry, EmptyEntry
<1>3. ASSUME NEW a \in Attesters, NEW amount \in BondArgs, RegisterAttester(a, amount)
      PROVE  attesters'[i].disputes_lost = 0 \/ attesters'[i] = attesters[i]
  BY <1>1, <1>3 DEF RegisterAttester, NewEntry
<1>4. ASSUME NEW a \in Attesters, InitiateUnregister(a)
      PROVE  /\ attesters'[i].is_active = attesters[i].is_active
             /\ attesters'[i].pubkey = attesters[i].pubkey
             /\ attesters'[i].disputes_lost = attesters[i].disputes_lost
  <2>1. PICK j \in Slots : attesters' = [attesters EXCEPT ![j].unregister_initiated_at = now]
    BY <1>4 DEF InitiateUnregister
  <2>2. CASE j = i
    BY <1>1, <2>1, <2>2 DEF Entry
  <2>3. CASE j # i
    BY <1>1, <2>1, <2>3
  <2> QED
    BY <2>2, <2>3
<1>5. ASSUME NEW a \in Attesters, CreditProposer(a)
      PROVE  /\ attesters'[i].is_active = attesters[i].is_active
             /\ attesters'[i].pubkey = attesters[i].pubkey
             /\ attesters'[i].disputes_lost = attesters[i].disputes_lost
  <2>1. CASE UNCHANGED attesters
    BY <2>1
  <2>2. ASSUME NEW j \in Slots,
               attesters' = [attesters EXCEPT ![j].updates_submitted = @ + 1]
        PROVE  /\ attesters'[i].is_active = attesters[i].is_active
               /\ attesters'[i].pubkey = attesters[i].pubkey
               /\ attesters'[i].disputes_lost = attesters[i].disputes_lost
    <3>1. CASE j = i
      BY <1>1, <2>2, <3>1 DEF Entry
    <3>2. CASE j # i
      BY <1>1, <2>2, <3>2
    <3> QED
      BY <3>1, <3>2
  <2> QED
    BY <1>5, <2>1, <2>2 DEF CreditProposer
<1>6. ASSUME NEW a \in Attesters, WithdrawBond(a)
      PROVE  attesters'[i] = attesters[i]
  <2>1. PICK j \in Slots : attesters' = [attesters EXCEPT ![j].is_active = FALSE,
                                                         ![j].pubkey = NoKey,
                                                         ![j].bond = 0]
    BY <1>6 DEF WithdrawBond
  <2>2. CASE j = i
    BY <1>1, <2>1, <2>2 DEF Entry
  <2>3. CASE j # i
    BY <1>1, <2>1, <2>3
  <2> QED
    BY <2>2, <2>3
<1>7. Tick \/ UNCHANGED clockedRegistryVars => attesters' = attesters
  BY DEF Tick, registryVars, clockedRegistryVars
<1> QED
  BY <1>2, <1>3, <1>4, <1>5, <1>6, <1>7

\* A slash counts one lost dispute at most, and only for the attester slashed.
LEMMA LossCounted ==
    ASSUME RegistryInv, NEW i \in Slots, attesters'[i].is_active,
           NEW a \in Attesters, SlashAttester(a)
    PROVE  /\ attesters[i].is_active
           /\ attesters'[i].pubkey = attesters[i].pubkey
           /\ \/ attesters'[i].disputes_lost = attesters[i].disputes_lost
              \/ /\ attesters'[i].disputes_lost = attesters[i].disputes_lost + 1
                 /\ attesters[i].pubkey = a
<1>1. attesters \in [Slots -> Entry] /\ attesters[i] \in Entry
  BY DEF RegistryInv, RegistryTypeOK
<1>2. PICK j \in Slots :
        /\ attesters[j].pubkey = a
        /\ attesters[j].is_active
        /\ attesters' = [attesters EXCEPT
              ![j].bond = @ - SlashAmount(attesters[j].bond),
              ![j].disputes_lost = IF @ < MaxCounter THEN @ + 1 ELSE @]
  BY DEF SlashAttester, IsFirst
<1>3. CASE j = i
  BY <1>1, <1>2, <1>3 DEF Entry
<1>4. CASE j # i
  BY <1>1, <1>2, <1>4
<1> QED
  BY <1>3, <1>4

\* A resolution that slashes adds a record that was not there before.
LEMMA SlashRecorded ==
    ASSUME ProgramInv, NEW k \in RoundKeys, NEW a \in Attesters, ResolveDispute(k, a, TRUE)
    PROVE  /\ k \notin SlashRecords(dispute, a)
           /\ SlashRecords(dispute', a) = SlashRecords(dispute, a) \cup {k}
<1>1. dispute \in [RoundKeys -> [Attesters -> DisputeRecord]]
  BY DEF ProgramInv, FeedsTyped
<1>2. /\ dispute[k][a].status = "filed"
      /\ dispute' = [dispute EXCEPT ![k][a].status = "slashed"]
  BY DEF ResolveDispute
<1>3. dispute'[k][a].status = "slashed"
  BY <1>1, <1>2 DEF DisputeRecord
<1>4. \A r \in RoundKeys \ {k} : dispute'[r][a] = dispute[r][a]
  BY <1>1, <1>2
<1> QED
  BY <1>2, <1>3, <1>4 DEF SlashRecords

\* No other step adds or takes away a record.
LEMMA RecordsStay ==
    ASSUME ProgramInv, [Next]_vars, NEW a \in Attesters,
           \A k \in RoundKeys : ~ResolveDispute(k, a, TRUE)
    PROVE  SlashRecords(dispute', a) = SlashRecords(dispute, a)
<1>1. ASSUME NEW k \in RoundKeys
      PROVE  dispute'[k][a].status = "slashed" <=> dispute[k][a].status = "slashed"
  <2>1. DisputeFiled(k, a) => dispute[k][a].status = "absent" /\ dispute'[k][a].status = "filed"
    BY DEF DisputeFiled
  <2>2. DisputeResolved(k, a) =>
           dispute[k][a].status = "filed" /\ dispute'[k][a].status = "rejected"
    <3>1. SUFFICES ASSUME NEW slash \in BOOLEAN, ResolveDispute(k, a, slash),
                          dispute[k][a].status = "filed",
                          dispute'[k][a].status = IF slash THEN "slashed" ELSE "rejected"
                   PROVE  dispute'[k][a].status = "rejected"
      BY DEF DisputeResolved
    <3>2. slash = FALSE
      BY <3>1, Zenon
    <3> QED
      BY <3>1, <3>2
  <2>3. DisputeClosed(k, a) => dispute[k][a].status = "filed" /\ dispute'[k][a].status = "absent"
    BY DEF DisputeClosed, NoDispute
  <2> QED
    BY <2>1, <2>2, <2>3, DisputeChanges
<1> QED
  BY <1>1 DEF SlashRecords

\* How many rounds an attester was slashed for, by the dispute accounts d.
SlashCount(d, a) == Cardinality(SlashRecords(d, a))

\* The number of records grows by one with a slash, and never shrinks.
LEMMA SlashCountGrows ==
    ASSUME ProgramInv, [Next]_vars, NEW a \in Attesters
    PROVE  /\ IsFiniteSet(SlashRecords(dispute', a))
           /\ SlashCount(dispute, a) \in Nat
           /\ SlashCount(dispute', a) \in {SlashCount(dispute, a), SlashCount(dispute, a) + 1}
           /\ (\E k \in RoundKeys : ResolveDispute(k, a, TRUE)) =>
                 SlashCount(dispute', a) = SlashCount(dispute, a) + 1
<1>1. IsFiniteSet(SlashRecords(dispute, a))
  BY DEF ProgramInv, SlashesRecorded
<1>2. SlashCount(dispute, a) \in Nat
  BY <1>1, FS_CardinalityType DEF SlashCount
<1>3. ASSUME NEW k \in RoundKeys, ResolveDispute(k, a, TRUE)
      PROVE  /\ IsFiniteSet(SlashRecords(dispute', a))
             /\ SlashCount(dispute', a) = SlashCount(dispute, a) + 1
  <2>1. /\ k \notin SlashRecords(dispute, a)
        /\ SlashRecords(dispute', a) = SlashRecords(dispute, a) \cup {k}
    BY <1>3, SlashRecorded
  <2>2. /\ IsFiniteSet(SlashRecords(dispute, a) \cup {k})
        /\ Cardinality(SlashRecords(dispute, a) \cup {k})
              = Cardinality(SlashRecords(dispute, a)) + 1
    BY <1>1, <2>1, FS_AddElement
  <2> QED
    BY <2>1, <2>2, Zenon DEF SlashCount
<1>4. CASE \A k \in RoundKeys : ~ResolveDispute(k, a, TRUE)
  <2>1. SlashRecords(dispute', a) = SlashRecords(dispute, a)
    BY <1>4, RecordsStay
  <2>2. /\ IsFiniteSet(SlashRecords(dispute', a))
        /\ SlashCount(dispute', a) = SlashCount(dispute, a)
    BY <1>1, <2>1, Zenon DEF SlashCount
  <2> QED
    BY <1>2, <1>4, <2>2, Zenon
<1> QED
  BY <1>2, <1>3, <1>4, Zenon

\* A step of the program slashes by resolving a dispute, or is one of the steps
\* that count no loss.
LEMMA SlashOrNot ==
    ASSUME ProgramInv, [Next]_vars
    PROVE  \/ \E k \in RoundKeys, a \in Attesters :
                 ResolveDispute(k, a, TRUE) /\ SlashAttester(a)
           \/ \E m \in ThresholdArgs, minimum \in MinBondArgs : InitializeRegistry(m, minimum)
           \/ \E a \in Attesters, amount \in BondArgs : RegisterAttester(a, amount)
           \/ \E a \in Attesters : InitiateUnregister(a)
           \/ \E a \in Attesters : WithdrawBond(a)
           \/ \E a \in Attesters : CreditProposer(a)
           \/ Tick
           \/ UNCHANGED clockedRegistryVars
<1>1. ASSUME NEW k \in RoundKeys, NEW a \in Attesters, ConfirmUpdate(a, k)
      PROVE  (\E b \in Attesters : CreditProposer(b)) \/ UNCHANGED clockedRegistryVars
  <2>1. pending[k].proposer \in Attesters
    BY <1>1 DEF ProgramInv, RoundsSound, ConfirmUpdate
  <2>2. PICK i \in Slots :
           \/ Finalize(a, k, AddConfirmation(pending[k], i))
           \/ UNCHANGED clockedRegistryVars
    BY <1>1 DEF ConfirmUpdate
  <2>3. AddConfirmation(pending[k], i).proposer = pending[k].proposer
    BY DEF AddConfirmation
  <2> QED
    BY <2>1, <2>2, <2>3 DEF Finalize
<1>2. ASSUME NEW k \in RoundKeys, NEW a \in Attesters, NEW slash \in BOOLEAN,
             ResolveDispute(k, a, slash)
      PROVE  \/ ResolveDispute(k, a, TRUE) /\ SlashAttester(a)
             \/ UNCHANGED clockedRegistryVars
  <2>1. CASE slash = TRUE
    <3>1. ResolveDispute(k, a, TRUE)
      BY <1>2, <2>1
    <3>2. SlashAttester(a)
      BY <3>1 DEF ResolveDispute
    <3> QED
      BY <3>1, <3>2
  <2>2. CASE slash = FALSE
    <3>1. ResolveDispute(k, a, FALSE)
      BY <1>2, <2>2
    <3> QED
      BY <3>1 DEF ResolveDispute
  <2> QED
    BY <2>1, <2>2
<1>3. CASE RoundStep
  BY <1>1, <1>3 DEF RoundStep, ProposeUpdate, CancelExpired
<1>4. CASE DisputeStep
  BY <1>2, <1>4 DEF DisputeStep, DisputeUpdate, CloseExpiredDispute
<1>5. CASE RegistryStep
  BY <1>5 DEF RegistryStep
<1> QED
  BY <1>3, <1>4, <1>5, OracleStepFrame DEF Next, vars

\* An attester's losses stay within the records of them.
LEMMA SlashesRecordedKept ==
    ASSUME ProgramInv, [Next]_vars
    PROVE  SlashesRecorded'
<1>1. RegistryInv /\ RegistryInv' /\ SlashesRecorded
  BY RegistryKept DEF ProgramInv
<1>2. ASSUME NEW a \in Attesters
      PROVE  /\ IsFiniteSet(SlashRecords(dispute', a))
             /\ SlashCount(dispute, a) \in Nat /\ SlashCount(dispute', a) \in Nat
             /\ SlashCount(dispute', a) >= SlashCount(dispute, a)
  <2>1. SlashCount(dispute, a) \in Nat
        /\ SlashCount(dispute', a) \in {SlashCount(dispute, a), SlashCount(dispute, a) + 1}
    BY SlashCountGrows
  <2>2. IsFiniteSet(SlashRecords(dispute', a))
    BY SlashCountGrows
  <2> QED
    BY <2>1, <2>2
<1>3. ASSUME NEW i \in Slots, attesters'[i].is_active
      PROVE  attesters'[i].disputes_lost <= SlashCount(dispute', attesters'[i].pubkey)
  <2> DEFINE b == attesters'[i].pubkey
  <2>1. b \in Attesters /\ attesters'[i].disputes_lost \in Nat
    BY <1>1, <1>3 DEF RegistryInv, RegistryTypeOK, OneSlotPerAttester, ActiveSlots, Entry
  <2>2. attesters[i].disputes_lost \in Nat
    BY <1>1 DEF RegistryInv, RegistryTypeOK, Entry
  <2>3. attesters[i].is_active =>
           attesters[i].disputes_lost <= SlashCount(dispute, attesters[i].pubkey)
    BY <1>1 DEF SlashesRecorded, ActiveSlots, SlashCount
  <2>4. CASE \E k \in RoundKeys, a \in Attesters :
                ResolveDispute(k, a, TRUE) /\ SlashAttester(a)
    <3>1. PICK k \in RoundKeys, a \in Attesters :
             ResolveDispute(k, a, TRUE) /\ SlashAttester(a)
      BY <2>4
    <3>2. /\ attesters[i].is_active
          /\ attesters'[i].pubkey = attesters[i].pubkey
          /\ \/ attesters'[i].disputes_lost = attesters[i].disputes_lost
             \/ /\ attesters'[i].disputes_lost = attesters[i].disputes_lost + 1
                /\ attesters[i].pubkey = a
      BY <1>1, <1>3, <3>1, LossCounted
    <3>3. SlashCount(dispute', a) = SlashCount(dispute, a) + 1
      BY <3>1, SlashCountGrows, Zenon
    <3>4. /\ SlashCount(dispute', b) \in Nat /\ SlashCount(dispute, b) \in Nat
          /\ SlashCount(dispute', b) >= SlashCount(dispute, b)
      BY <1>2, <2>1
    <3> QED
      BY <2>2, <2>3, <3>2, <3>3, <3>4
  <2>5. CASE \/ attesters'[i].disputes_lost = 0
             \/ /\ attesters[i].is_active
                /\ attesters'[i].pubkey = attesters[i].pubkey
                /\ attesters'[i].disputes_lost = attesters[i].disputes_lost
    BY <1>2, <2>1, <2>2, <2>3, <2>5
  <2> QED
    BY <1>1, <1>3, <2>4, <2>5, SlashOrNot, LossesKept
<1>4. \A a \in Attesters : IsFiniteSet(SlashRecords(dispute', a))
  BY <1>2
<1> QED
  BY <1>3, <1>4 DEF SlashesRecorded, ActiveSlots, SlashCount

-----------------------------------------------------------------------------
(* Theorems. *)

\* No instruction of the program breaks the invariant.
THEOREM ProgramStepKeeps == ProgramInv /\ [Next]_vars => ProgramInv'
BY RegistryKept, FeedsTypedKept, RoundsSoundKept, FeedsKept, DisputesSoundKept,
   SlashesRecordedKept DEF ProgramInv

\* The inductive invariant of the whole program.
THEOREM ProgramInvariant == Spec => []ProgramInv
<1>1. Init => ProgramInv
  BY InitEstablishes
<1>2. ProgramInv /\ [Next]_vars => ProgramInv'
  BY ProgramStepKeeps
<1> QED
  BY <1>1, <1>2, PTL DEF Spec

\* Every account has its type in every reachable state.
THEOREM ProgramTypes == Spec => []TypeOK
<1>1. ProgramInv => TypeOK
  BY DEF ProgramInv, RegistryInv, FeedsTyped, TypeOK
<1> QED
  BY <1>1, ProgramInvariant, PTL

\* Within the program the registry behaves as its own specification says.
THEOREM ProgramImplementsRegistry == Spec => ImplementsRegistry
<1>1. Init => RegistryInit
  BY DEF Init
<1>2. ProgramInv /\ [Next]_vars => [RegistryNext]_clockedRegistryVars
  BY NextDrivesRegistry DEF ProgramInv
<1> QED
  BY <1>1, <1>2, ProgramInvariant, PTL DEF Spec, RegistrySpec, ImplementsRegistry

\* The bonds are backed also when rounds and disputes change the registry.
THEOREM ProgramSolvent == Spec => [](BondsBacked /\ CountMatchesSlots /\ OneSlotPerAttester)
<1>1. RegistryInv => BondsBacked /\ CountMatchesSlots /\ OneSlotPerAttester
  BY DEF RegistryInv
<1>2. ImplementsRegistry => []RegistryInv
  BY RegistryInvariant DEF ImplementsRegistry
<1> QED
  BY <1>1, <1>2, ProgramImplementsRegistry, PTL

\* confirm_update finalizes a round on as many slots as the threshold, in time.
THEOREM RoundsFinalizedByThreshold == Spec => []RoundsReachThreshold
<1>1. ProgramInv => RoundsReachThreshold
  BY DEF ProgramInv, RoundsSound, RoundsReachThreshold
<1> QED
  BY <1>1, ProgramInvariant, PTL

\* A multi-attester feed that was ever written since enable_multi_attester shows the
\* value of a finalized round.
THEOREM ValuesAttested == Spec => []CanonicalValueAttested
<1>1. ProgramInv => CanonicalValueAttested
  BY DEF ProgramInv
<1> QED
  BY <1>1, ProgramInvariant, PTL

\* Whatever the order in which the rounds of a feed are finalized, its value is
\* replaced by one proposed less than the time-to-live before it at worst.
THEOREM RoundsBarelyReordered == Spec => []ReorderingBounded
<1>1. Init => OrderInv
  <2> SUFFICES ASSUME Init
               PROVE  OrderInv
    OBVIOUS
  <2>1. \A k \in RoundKeys : pending[k].status = "absent"
    BY DEF Init, NoPending
  <2>2. RoundsTimed /\ LastRoundShown
    BY <2>1 DEF RoundsTimed, LastRoundShown, RoundKeys
  <2> QED
    BY <2>2, InitEstablishes DEF OrderInv
<1>2. OrderInv /\ [Next]_vars => OrderInv'
  BY ProgramStepKeeps, RoundsTimedKept, LastRoundShownKept DEF OrderInv
<1>3. OrderInv => ReorderingBounded
  <2> SUFFICES ASSUME OrderInv, NEW l \in Lsts,
                      IsMultiAttester(l), oracle[l].last_updater # oracle[l].authority,
                      NEW r \in Rounds, pending[<<l, r>>].status = "finalized",
                      NEW t \in Rounds, pending[<<l, t>>].status = "finalized",
                      NEW ttl, ttl = PENDING_UPDATE_TTL_SECS
               PROVE  /\ pending[<<l, r>>].finalized_at <= oracle[l].timestamp
                      /\ pending[<<l, t>>].finalized_at = oracle[l].timestamp =>
                             pending[<<l, r>>].expires_at < pending[<<l, t>>].expires_at + ttl
    BY DEF ReorderingBounded, FinalizedRounds
  <2>1. <<l, r>> \in RoundKeys /\ <<l, t>> \in RoundKeys
    BY DEF RoundKeys
  <2> DEFINE q == pending[<<l, r>>]
             shown == pending[<<l, t>>]
  <2>2. /\ q.finalized_at \in Nat /\ q.expires_at \in Nat /\ shown.finalized_at \in Nat
        /\ shown.expires_at \in Nat /\ ttl \in Nat
    BY <2>1, OracleAssumption DEF OrderInv, ProgramInv, FeedsTyped, PendingUpdate
  <2>3. q.finalized_at <= oracle[l].timestamp
    BY DEF OrderInv, LastRoundShown
  <2>4. q.expires_at <= q.finalized_at + ttl
    BY <2>1 DEF OrderInv, RoundsTimed
  <2>5. shown.finalized_at < shown.expires_at
    BY <2>1 DEF OrderInv, ProgramInv, RoundsSound
  <2> HIDE DEF q, shown
  <2>6. shown.finalized_at = oracle[l].timestamp => q.expires_at < shown.expires_at + ttl
    BY <2>2, <2>3, <2>4, <2>5
  <2> QED
    BY <2>3, <2>6 DEF q, shown
<1> QED
  BY <1>1, <1>2, <1>3, PTL DEF Spec

\* A published value passed RiskParams::validate, although confirm_update and
\* migrate_risk_state do not call it.
THEOREM PublishedValuesValid == Spec => []PublishedParamsValid
<1>1. ProgramInv => PublishedParamsValid
  BY DEF ProgramInv, FeedsSound, FeedSound, IsValid, PublishedParamsValid
<1> QED
  BY <1>1, ProgramInvariant, PTL

\* withdraw_bond keeps enough attesters for a feed in multi-attester mode.
THEOREM MultiModeKeepsQuorum == Spec => []MultiModeHasQuorum
<1>1. ProgramInv => MultiModeHasQuorum
  BY DEF ProgramInv, FeedsSound, FeedSound, MultiModeHasQuorum
<1> QED
  BY <1>1, ProgramInvariant, PTL

\* close_expired_dispute finds the round's dispute window shut: it frees the address
\* of a record nobody can file again.  The proof needs WindowAssumption.
THEOREM LapsedDisputesAreOver == Spec => []LapsedDisputeIsOver
<1>1. ProgramInv => LapsedDisputeIsOver
  <2> SUFFICES ASSUME ProgramInv, NEW k \in RoundKeys, NEW a \in Attesters,
                      dispute[k][a].status # "absent",
                      now > dispute[k][a].resolution_deadline
               PROVE  ~DisputeWindowOpen(pending[k])
    BY DEF LapsedDisputeIsOver
  <2>1. /\ pending[k].finalized_at \in Nat
        /\ dispute[k][a].resolution_deadline \in Nat
        /\ now \in Nat
    BY DEF ProgramInv, FeedsTyped, PendingUpdate, DisputeRecord, RegistryInv, RegistryTypeOK
  <2>2. dispute[k][a].resolution_deadline
           >= pending[k].finalized_at + RESOLUTION_DEADLINE_SECS
    BY DEF ProgramInv, DisputesSound
  <2> QED
    BY <2>1, <2>2, OracleAssumption, WindowAssumption DEF DisputeWindowOpen
<1> QED
  BY <1>1, ProgramInvariant, PTL

\* resolve_dispute never slashes an attester twice for one round.
THEOREM SlashesCountedOnce == Spec => []SlashedOncePerRound
<1>1. ProgramInv => SlashedOncePerRound
  BY DEF ProgramInv, SlashesRecorded, SlashRecords, SlashedOncePerRound
<1> QED
  BY <1>1, ProgramInvariant, PTL

\* No instruction touches a finalized round again, neither confirm_update nor
\* cancel_expired.
THEOREM RoundsFrozen == Spec => FinalizedRoundsFrozen
<1>1. ProgramInv /\ [Next]_vars =>
        [\A k \in RoundKeys :
            pending[k].status = "finalized" => pending'[k] = pending[k]]_vars
  BY FinalizedStays
<1> QED
  BY <1>1, ProgramInvariant, PTL DEF Spec, FinalizedRoundsFrozen

\* Neither resolve_dispute nor close_expired_dispute touches a resolved record.
THEOREM VerdictsStay == Spec => VerdictsFinal
<1>1. ProgramInv /\ [Next]_vars =>
        [\A k \in RoundKeys, a \in Attesters :
            dispute[k][a].status \in {"rejected", "slashed"} =>
                dispute'[k][a] = dispute[k][a]]_vars
  BY DisputeChanges DEF DisputeFiled, DisputeResolved, DisputeClosed
<1> QED
  BY <1>1, ProgramInvariant, PTL DEF Spec, VerdictsFinal

\* Only confirm_update writes a multi-attester feed, and only with the value of the
\* round it finalizes; close_oracle may remove it.
THEOREM MultiModeWritesAttested == Spec => MultiModeWritesAreRounds
<1>1. ProgramInv /\ [Next]_vars =>
        [\A l \in Lsts :
            IsMultiAttester(l) /\ oracle'[l].status # "absent" =>
                /\ oracle'[l].update_mode = 1
                /\ oracle'[l] # oracle[l] =>
                      \E r \in Rounds :
                          /\ pending[<<l, r>>].status = "open"
                          /\ pending'[<<l, r>>].status = "finalized"
                          /\ pending'[<<l, r>>].params = oracle'[l].params]_vars
  <2> SUFFICES ASSUME ProgramInv, [Next]_vars, NEW l \in Lsts,
                      IsMultiAttester(l), oracle'[l].status # "absent",
                      oracle'[l] # oracle[l]
               PROVE  /\ oracle'[l].update_mode = 1
                      /\ \E r \in Rounds :
                            /\ pending[<<l, r>>].status = "open"
                            /\ pending'[<<l, r>>].status = "finalized"
                            /\ pending'[<<l, r>>].params = oracle'[l].params
    BY DEF IsMultiAttester
  <2>1. ~FeedCreated(l) /\ ~FeedWritten(l) /\ ~FeedMigrated(l) /\ ~FeedEnabled(l)
    BY DEF FeedCreated, FeedWritten, FeedMigrated, FeedEnabled, IsMultiAttester,
           IsSingleAttester
  <2>2. ~FeedClosed(l)
    BY DEF FeedClosed, NoOracle
  <2>3. FeedFinalized(l)
    BY <2>1, <2>2, FeedChanges
  <2> QED
    BY <2>3, FinalizedFeed
<1> QED
  BY <1>1, ProgramInvariant, PTL DEF Spec, MultiModeWritesAreRounds
=============================================================================
