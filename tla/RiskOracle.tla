----------------------------- MODULE RiskOracle -----------------------------
(***************************************************************************)
(* The risk-oracle program: one RiskState account per LST, written by one  *)
(* authority or by rounds of the attester registry, and the disputes over  *)
(* finalized rounds.  Every instruction is one action.                     *)
(*                                                                         *)
(* Account addresses are derived from their seeds, so an account is a      *)
(* function's value at its seeds: oracle[l], pending[<<l, r>>],            *)
(* dispute[<<l, r>>][a].  The field "status" says whether the account      *)
(* exists, and stands for is_finalized, is_resolved and attester_slashed.  *)
(* Slots, rent, evidence hashes, the copies of the parameters kept for the *)
(* record and the identity of the disputer decide nothing and are left     *)
(* out.  A registry exists once, so the checks that two accounts name the  *)
(* same registry always pass.                                              *)
(***************************************************************************)
EXTENDS AttesterRegistry

CONSTANTS
    Lsts,                      \* valid lst_ids
    LegacyLsts,                \* those whose account predates the current layout
    Rounds,                    \* round ids, chosen by proposers
    Authorities,               \* keys an oracle may be initialized with
    Payloads,                  \* parameter values submitted
    MIN_UPDATE_INTERVAL_SECS,
    PENDING_UPDATE_TTL_SECS,
    DISPUTE_WINDOW_SECS,
    RESOLUTION_DEADLINE_SECS,
    MAX_LTV_BPS

Payload == [theta_scaled : Int, sigma_scaled : Int, regime_flag : Nat,
            suggested_ltv_bps : Nat]

ASSUME OracleAssumption ==
    /\ LegacyLsts \subseteq Lsts
    /\ Rounds \subseteq Nat
    /\ Payloads \subseteq Payload
    /\ MIN_UPDATE_INTERVAL_SECS \in Nat
    /\ PENDING_UPDATE_TTL_SECS \in Nat \ {0}
    /\ DISPUTE_WINDOW_SECS \in Nat
    /\ RESOLUTION_DEADLINE_SECS \in Nat
    /\ MAX_LTV_BPS \in Nat
\* One hour and twenty-four hours in the source: a record outlives the window
\* in which it could be filed.
ASSUME WindowAssumption == DISPUTE_WINDOW_SECS < RESOLUTION_DEADLINE_SECS

VARIABLES
    oracle,     \* the RiskState accounts
    pending,    \* the PendingUpdate accounts
    dispute,    \* the DisputeRecord accounts
    signers     \* history: the attesters whose signature made each round

oracleVars == <<oracle, pending, dispute, signers>>
vars == <<clockedRegistryVars, oracleVars>>

RoundKeys == Lsts \X Rounds

ZeroPayload == [theta_scaled |-> 0, sigma_scaled |-> 0, regime_flag |-> 0,
                suggested_ltv_bps |-> 0]

SlipIsValidAnyLtv(p) == p.theta_scaled >= 0 /\ p.sigma_scaled > 0

IsValid(p) ==
    /\ p.theta_scaled >= 0
    /\ p.sigma_scaled > 0
    /\ p.suggested_ltv_bps <= MAX_LTV_BPS

-----------------------------------------------------------------------------
(* Account values. *)

RiskState == [status : {"absent", "legacy", "current"}, params : Payload,
              timestamp : Nat, authority : Authorities \cup {NoKey},
              last_updater : Authorities \cup Attesters \cup {NoKey},
              update_mode : {0, 1}]

NoOracle == [status |-> "absent", params |-> ZeroPayload, timestamp |-> 0,
             authority |-> NoKey, last_updater |-> NoKey, update_mode |-> 0]

FreshOracle(auth) ==
    [NoOracle EXCEPT !.status = "current", !.authority = auth, !.last_updater = auth]

PendingUpdate == [status : {"absent", "open", "finalized"}, params : Payload,
                  proposer : Attesters \cup {NoKey}, expires_at : Nat,
                  confirmation_count : Nat, confirmations : SUBSET Slots,
                  finalized_at : Nat]

NoPending == [status |-> "absent", params |-> ZeroPayload, proposer |-> NoKey,
              expires_at |-> 0, confirmation_count |-> 0, confirmations |-> {},
              finalized_at |-> 0]

DisputeRecord == [status : {"absent", "filed", "rejected", "slashed"},
                  resolution_deadline : Nat]

NoDispute == [status |-> "absent", resolution_deadline |-> 0]

IsMultiAttester(l) == oracle[l].status = "current" /\ oracle[l].update_mode = 1

SlipIsAnyMode(l) == oracle[l].status = "current"

IsSingleAttester(l) == oracle[l].status = "current" /\ oracle[l].update_mode = 0

SlipIsExpiredLate(p) == now > p.expires_at

IsExpired(p) == now >= p.expires_at

SlipWindowNeverShuts(p) == p.status = "finalized" /\ p.finalized_at > 0

DisputeWindowOpen(p) ==
    /\ p.status = "finalized"
    /\ p.finalized_at > 0
    /\ now <= p.finalized_at + DISPUTE_WINDOW_SECS

SlipWrittenUndated(state, p, updater) ==
    [state EXCEPT !.params = p, !.last_updater = updater]

\* The value confirm_update and update_risk_state leave in a RiskState.
Written(state, p, updater) ==
    [state EXCEPT !.params = p, !.timestamp = now, !.last_updater = updater]

-----------------------------------------------------------------------------
(* The RiskState account. *)

Init ==
    /\ RegistryInit
    /\ \E auth \in [LegacyLsts -> Authorities],
          p \in [LegacyLsts -> {q \in Payloads : IsValid(q)}] :
         oracle = [l \in Lsts |->
             IF l \in LegacyLsts
             THEN [FreshOracle(auth[l]) EXCEPT !.status = "legacy", !.params = p[l],
                                               !.timestamp = now]
             ELSE NoOracle]
    /\ pending = [k \in RoundKeys |-> NoPending]
    /\ dispute = [k \in RoundKeys |-> [a \in Attesters |-> NoDispute]]
    /\ signers = [k \in RoundKeys |-> {}]

\* Any payer may create the account and name its authority.
InitializeOracle(l, auth) ==
    /\ oracle[l].status = "absent"
    /\ oracle' = [oracle EXCEPT ![l] = FreshOracle(auth)]
    /\ UNCHANGED <<clockedRegistryVars, pending, dispute, signers>>

UpdateRiskState(l, p) ==
    /\ IsSingleAttester(l)
    /\ IsValid(p)
    /\ \/ oracle[l].timestamp = 0
       \/ now - oracle[l].timestamp >= MIN_UPDATE_INTERVAL_SECS
    /\ oracle' = [oracle EXCEPT ![l] = Written(@, p, @.authority)]
    /\ UNCHANGED <<clockedRegistryVars, pending, dispute, signers>>

\* The mode is not looked at.
CloseOracle(l) ==
    /\ oracle[l].status = "current"
    /\ oracle' = [oracle EXCEPT ![l] = NoOracle]
    /\ UNCHANGED <<clockedRegistryVars, pending, dispute, signers>>

\* An account of the current layout is left alone.
MigrateRiskState(l) ==
    /\ oracle[l].status # "absent"
    /\ oracle' = IF oracle[l].status = "legacy"
                 THEN [oracle EXCEPT ![l] = [@ EXCEPT !.status = "current",
                                                      !.update_mode = 0]]
                 ELSE oracle
    /\ UNCHANGED <<clockedRegistryVars, pending, dispute, signers>>

EnableMultiAttester(l) ==
    /\ IsSingleAttester(l)
    /\ threshold > 0
    /\ attester_count >= threshold
    /\ oracle' = [oracle EXCEPT ![l].update_mode = 1]
    /\ UNCHANGED <<clockedRegistryVars, pending, dispute, signers>>

-----------------------------------------------------------------------------
(* Rounds. *)

ProposeUpdate(a, k, p) ==
    /\ IsMultiAttester(k[1])
    /\ pending[k].status = "absent"
    /\ IsValid(p)
    /\ \E i \in Slots :
         /\ IsAttesterAt(a, i)
         /\ pending' = [pending EXCEPT ![k] =
               [status |-> "open", params |-> p, proposer |-> a,
                expires_at |-> now + PENDING_UPDATE_TTL_SECS,
                confirmation_count |-> 1, confirmations |-> {i}, finalized_at |-> 0]]
    /\ signers' = [signers EXCEPT ![k] = {a}]
    /\ UNCHANGED <<clockedRegistryVars, oracle, dispute>>

SlipAddUnrecorded(p, i) == [p EXCEPT !.confirmation_count = @ + 1]

\* confirmations is the bitmap: a confirmation is recorded by slot, not by key.
AddConfirmation(p, i) ==
    [p EXCEPT !.confirmations = @ \cup {i}, !.confirmation_count = @ + 1]

SlipFinalizeCreditsAll(a, k, confirmed) ==
    /\ oracle' = [oracle EXCEPT ![k[1]] = Written(@, confirmed.params, a)]
    /\ pending' = [pending EXCEPT ![k] =
          [confirmed EXCEPT !.status = "finalized", !.finalized_at = now]]
    /\ attesters' = [i \in Slots |->
          IF i \in confirmed.confirmations
          THEN [attesters[i] EXCEPT !.updates_submitted = @ + 1] ELSE attesters[i]]
    /\ UNCHANGED <<now, attester_count, threshold, total_bonded, min_bond, vault>>

Finalize(a, k, confirmed) ==
    /\ oracle' = [oracle EXCEPT ![k[1]] = Written(@, confirmed.params, a)]
    /\ pending' = [pending EXCEPT ![k] =
          [confirmed EXCEPT !.status = "finalized", !.finalized_at = now]]
    /\ CreditProposer(confirmed.proposer)

ConfirmUpdate(a, k) ==
    /\ IsMultiAttester(k[1])
    /\ pending[k].status = "open"
    /\ ~IsExpired(pending[k])
    /\ \E i \in Slots :
         LET confirmed == AddConfirmation(pending[k], i) IN
         /\ IsAttesterAt(a, i)
         /\ i \notin pending[k].confirmations
         /\ \/ /\ confirmed.confirmation_count >= threshold
               /\ Finalize(a, k, confirmed)
            \/ /\ confirmed.confirmation_count < threshold
               /\ pending' = [pending EXCEPT ![k] = confirmed]
               /\ UNCHANGED <<clockedRegistryVars, oracle>>
    /\ signers' = [signers EXCEPT ![k] = @ \cup {a}]
    /\ UNCHANGED dispute

SlipCancelAny(k) ==
    /\ pending[k].status # "absent"
    /\ IsExpired(pending[k])
    /\ pending' = [pending EXCEPT ![k] = NoPending]
    /\ signers' = [signers EXCEPT ![k] = {}]
    /\ UNCHANGED <<clockedRegistryVars, oracle, dispute>>

SlipCancelEarly(k) ==
    /\ pending[k].status = "open"
    /\ pending' = [pending EXCEPT ![k] = NoPending]
    /\ signers' = [signers EXCEPT ![k] = {}]
    /\ UNCHANGED <<clockedRegistryVars, oracle, dispute>>

\* Closing the account frees its address: the round id may be proposed again.
CancelExpired(k) ==
    /\ pending[k].status = "open"
    /\ IsExpired(pending[k])
    /\ pending' = [pending EXCEPT ![k] = NoPending]
    /\ signers' = [signers EXCEPT ![k] = {}]
    /\ UNCHANGED <<clockedRegistryVars, oracle, dispute>>

-----------------------------------------------------------------------------
(* Disputes. *)

\* The attester is looked up in the registry of today, the round's bitmap was
\* written against the registry of its finalization.
DisputeUpdate(k, a) ==
    /\ DisputeWindowOpen(pending[k])
    /\ dispute[k][a].status = "absent"
    /\ \E i \in pending[k].confirmations : IsAttesterAt(a, i)
    /\ dispute' = [dispute EXCEPT ![k][a] =
          [status |-> "filed",
           resolution_deadline |-> now + RESOLUTION_DEADLINE_SECS]]
    /\ UNCHANGED <<clockedRegistryVars, oracle, pending, signers>>

SlipResolveAgain(k, a, slash) ==
    /\ dispute[k][a].status # "absent"
    /\ now <= dispute[k][a].resolution_deadline
    /\ IF slash THEN SlashAttester(a) ELSE UNCHANGED clockedRegistryVars
    /\ dispute' = [dispute EXCEPT ![k][a].status = IF slash THEN "slashed" ELSE "rejected"]
    /\ UNCHANGED <<oracle, pending, signers>>

ResolveDispute(k, a, slash) ==
    /\ dispute[k][a].status = "filed"
    /\ now <= dispute[k][a].resolution_deadline
    /\ \/ slash /\ SlashAttester(a)
       \/ ~slash /\ UNCHANGED clockedRegistryVars
    /\ dispute' = [dispute EXCEPT ![k][a].status = IF slash THEN "slashed" ELSE "rejected"]
    /\ UNCHANGED <<oracle, pending, signers>>

SlipCloseResolved(k, a) ==
    /\ dispute[k][a].status # "absent"
    /\ now > dispute[k][a].resolution_deadline
    /\ dispute' = [dispute EXCEPT ![k][a] = NoDispute]
    /\ UNCHANGED <<clockedRegistryVars, oracle, pending, signers>>

CloseExpiredDispute(k, a) ==
    /\ dispute[k][a].status = "filed"
    /\ now > dispute[k][a].resolution_deadline
    /\ dispute' = [dispute EXCEPT ![k][a] = NoDispute]
    /\ UNCHANGED <<clockedRegistryVars, oracle, pending, signers>>

-----------------------------------------------------------------------------
(* The program. *)

\* The instructions that change the registry alone, and the clock.
RegistryStep ==
    /\ \/ \E m \in ThresholdArgs, minimum \in MinBondArgs : InitializeRegistry(m, minimum)
       \/ \E a \in Attesters, amount \in BondArgs : RegisterAttester(a, amount)
       \/ \E a \in Attesters : InitiateUnregister(a)
       \/ \E a \in Attesters : WithdrawBond(a)
       \/ Tick
    /\ UNCHANGED oracleVars

OracleStep ==
    \E l \in Lsts :
        \/ \E auth \in Authorities : InitializeOracle(l, auth)
        \/ \E p \in Payloads : UpdateRiskState(l, p)
        \/ CloseOracle(l)
        \/ MigrateRiskState(l)
        \/ EnableMultiAttester(l)

RoundStep ==
    \E k \in RoundKeys :
        \/ \E a \in Attesters, p \in Payloads : ProposeUpdate(a, k, p)
        \/ \E a \in Attesters : ConfirmUpdate(a, k)
        \/ CancelExpired(k)

DisputeStep ==
    \E k \in RoundKeys, a \in Attesters :
        \/ DisputeUpdate(k, a)
        \/ \E slash \in BOOLEAN : ResolveDispute(k, a, slash)
        \/ CloseExpiredDispute(k, a)

Next == RegistryStep \/ OracleStep \/ RoundStep \/ DisputeStep

Spec == Init /\ [][Next]_vars

-----------------------------------------------------------------------------
(* Invariants. *)

TypeOK ==
    /\ RegistryTypeOK
    /\ oracle \in [Lsts -> RiskState]
    /\ pending \in [RoundKeys -> PendingUpdate]
    /\ dispute \in [RoundKeys -> [Attesters -> DisputeRecord]]
    /\ signers \in [RoundKeys -> SUBSET Attesters]

FinalizedRounds(l) == {p \in {pending[<<l, r>>] : r \in Rounds} : p.status = "finalized"}

\* The count a round is finalized on is the number of slots that confirmed it,
\* and a finalized round reached the threshold before it expired.
RoundsReachThreshold ==
    \A k \in RoundKeys :
        LET p == pending[k] IN
        /\ p.confirmation_count = Cardinality(p.confirmations)
        /\ p.status = "finalized" =>
              /\ p.confirmation_count >= threshold
              /\ p.finalized_at < p.expires_at

\* What a reader of a multi-attester RiskState sees is the value of a finalized
\* round, written when that round was finalized; only a state no round has
\* written yet still shows its authority as the last updater.
CanonicalValueAttested ==
    \A l \in Lsts :
        IsMultiAttester(l) /\ oracle[l].last_updater # oracle[l].authority =>
            \E r \in Rounds :
                /\ pending[<<l, r>>].status = "finalized"
                /\ pending[<<l, r>>].finalized_at = oracle[l].timestamp
                /\ pending[<<l, r>>].params = oracle[l].params

\* The rounds of a feed finalize in any order, so an older value may replace a
\* newer one; but it is older by less than the time a round stays open.  The
\* round shown is the last one finalized, and none that was finalized before it,
\* in this life of the account or an earlier one, was proposed as much as
\* PENDING_UPDATE_TTL_SECS after it.
ReorderingBounded ==
    \A l \in Lsts :
        IsMultiAttester(l) /\ oracle[l].last_updater # oracle[l].authority =>
            \A q \in FinalizedRounds(l) :
                /\ q.finalized_at <= oracle[l].timestamp
                /\ \A shown \in FinalizedRounds(l) :
                      shown.finalized_at = oracle[l].timestamp =>
                          q.expires_at < shown.expires_at + PENDING_UPDATE_TTL_SECS

\* No path puts invalid parameters where a consumer reads them: confirm_update
\* copies them unchecked, so the check at the proposal has to be enough, and
\* so has the one that an account of the old layout passed before its migration.
PublishedParamsValid ==
    \A l \in Lsts :
        oracle[l].status = "current" /\ oracle[l].timestamp > 0 =>
            /\ oracle[l].params.theta_scaled >= 0 /\ oracle[l].params.sigma_scaled > 0
            /\ oracle[l].params.suggested_ltv_bps <= MAX_LTV_BPS

\* While a feed is in multi-attester mode the registry has enough attesters to
\* reach the threshold, although they may leave at any time.
MultiModeHasQuorum ==
    \A l \in Lsts : IsMultiAttester(l) => attester_count >= threshold

\* A dispute that lapsed can not be filed a second time: when the record can be
\* closed, the round's dispute window is shut.
LapsedDisputeIsOver ==
    \A k \in RoundKeys, a \in Attesters :
        dispute[k][a].status # "absent" /\ now > dispute[k][a].resolution_deadline =>
            ~DisputeWindowOpen(pending[k])

\* An attester loses part of its bond at most once per round: it has lost no
\* more disputes than there are records that say so.
SlashedOncePerRound ==
    \A i \in ActiveSlots :
        attesters[i].disputes_lost <=
            Cardinality({k \in RoundKeys : dispute[k][attesters[i].pubkey].status = "slashed"})

-----------------------------------------------------------------------------
(* Action properties. *)

\* A finalized round is never changed, cancelled or finalized again.
FinalizedRoundsFrozen ==
    [][\A k \in RoundKeys :
          pending[k].status = "finalized" => pending'[k] = pending[k]]_vars

\* The verdict on a dispute is never changed and its record never closed.
VerdictsFinal ==
    [][\A k \in RoundKeys, a \in Attesters :
          dispute[k][a].status \in {"rejected", "slashed"} =>
              dispute'[k][a] = dispute[k][a]]_vars

\* As long as its account lives, a multi-attester feed stays one, and the value
\* in it only changes in the step that finalizes a round with that value.
MultiModeWritesAreRounds ==
    [][\A l \in Lsts :
          IsMultiAttester(l) /\ oracle'[l].status # "absent" =>
              /\ oracle'[l].update_mode = 1
              /\ oracle'[l] # oracle[l] =>
                    \E r \in Rounds :
                        /\ pending[<<l, r>>].status = "open"
                        /\ pending'[<<l, r>>].status = "finalized"
                        /\ pending'[<<l, r>>].params = oracle'[l].params]_vars

\* The whole program changes the registry only as the registry's own
\* specification allows: its theorems hold of the program.
ImplementsRegistry == RegistrySpec

-----------------------------------------------------------------------------
(* Statements of the repository's documents that the program does not keep. *)

\* docs/MULTI_ATTESTER.md: an update is accepted on at least m unique signatures.
DistinctSigners ==
    \A k \in RoundKeys :
        pending[k].status = "finalized" => Cardinality(signers[k]) >= threshold

\* errors.rs: an attester that did not take part in a round is not disputed.
DisputedTookPart ==
    \A k \in RoundKeys, a \in Attesters :
        dispute[k][a].status # "absent" => a \in signers[k]

=============================================================================
