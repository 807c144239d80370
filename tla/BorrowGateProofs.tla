-------------------------- MODULE BorrowGateProofs --------------------------
(***************************************************************************)
(* What a borrow decision promises, for every policy, feed, collateral and *)
(* request, whatever the risk-oracle program does between two assessments. *)
(***************************************************************************)
EXTENDS ConsumerPolicy, RiskOracleProofs

-----------------------------------------------------------------------------
(* The arithmetic of mul_div_u64. *)

\* A larger factor makes a larger product.
LEMMA ProductMonotone ==
    ASSUME NEW x \in Nat, NEW y \in Nat, NEW z \in Nat, y <= z
    PROVE  x * y <= x * z /\ x * y \in Nat
<1>1. z - y \in Nat /\ x * (z - y) >= 0
  OBVIOUS
<1>2. x * (z - y) = x * z - x * y
  OBVIOUS
<1>3. x * y \in Nat /\ x * z \in Nat
  OBVIOUS
<1> QED
  BY <1>1, <1>2, <1>3

\* The quotient times the divisor does not exceed the product, and an LTV within
\* FULL_BPS gives a limit within the collateral.
LEMMA QuotientBounded ==
    ASSUME NEW c \in Nat, NEW ltv \in 0..FULL_BPS
    PROVE  /\ MaxSafeBorrow(c, ltv) \in 0..c
           /\ MaxSafeBorrow(c, ltv) * FULL_BPS <= c * ltv
<1> DEFINE q == MaxSafeBorrow(c, ltv)
<1>1. FULL_BPS \in Nat \ {0} /\ ltv \in Nat
  BY GateAssumption
<1>2. c * ltv \in Nat /\ c * ltv <= c * FULL_BPS
  BY <1>1, ProductMonotone
<1>3. q \in Nat /\ q * FULL_BPS <= c * ltv
  <2>1. \A n \in Nat, d \in Nat \ {0} : n \div d \in Nat /\ (n \div d) * d <= n
    OBVIOUS
  <2> QED
    BY <1>1, <1>2, <2>1 DEF MaxSafeBorrow
<1>4. q <= c
  <2>1. SUFFICES ASSUME c + 1 <= q
                 PROVE  FALSE
    BY <1>3
  <2>2. FULL_BPS * (c + 1) <= FULL_BPS * q
    BY <1>1, <1>3, <2>1, ProductMonotone
  <2>3. FULL_BPS * (c + 1) = c * FULL_BPS + FULL_BPS /\ FULL_BPS * q = q * FULL_BPS
    BY <1>1, <1>3
  <2>4. c * FULL_BPS \in Nat /\ q * FULL_BPS \in Nat
    BY <1>1, <1>3
  <2> QED
    BY <1>1, <1>2, <1>3, <2>2, <2>3, <2>4
<1> QED
  BY <1>3, <1>4

-----------------------------------------------------------------------------
(* One assessment. *)

\* The applied LTV is within the policy's cap; above the fallback it is the feed's
\* own, or the cap below it, and the feed is fresh and not critical.
LEMMA AppliedLtvBounded ==
    ASSUME NEW p \in PolicyParams, IsValidPolicy(p), NEW state \in RiskState
    PROVE  /\ AppliedLtv(p, state) \in 0..p.max_ltv_bps
           /\ \/ AppliedLtv(p, state) <= p.fallback_ltv_bps
              \/ /\ AppliedLtv(p, state) <= state.params.suggested_ltv_bps
                 /\ state.params.regime_flag = 0
                 /\ ~(OracleAge(state) > p.max_oracle_age_secs)
<1>1. /\ p.max_ltv_bps \in Nat /\ p.fallback_ltv_bps \in Nat
      /\ p.fallback_ltv_bps <= p.max_ltv_bps
      /\ state.params.suggested_ltv_bps \in Nat
  BY DEF PolicyParams, IsValidPolicy, RiskState, Payload
<1>2. CASE IsHalted(p, Verdict(p, state))
  BY <1>1, <1>2 DEF AppliedLtv
<1>3. CASE /\ ~IsHalted(p, Verdict(p, state))
           /\ Verdict(p, state) \in {"StaleOracle", "CriticalRegime"}
  BY <1>1, <1>3 DEF AppliedLtv
<1>4. CASE /\ ~IsHalted(p, Verdict(p, state))
           /\ Verdict(p, state) \notin {"StaleOracle", "CriticalRegime"}
  <2>1. ~p.paused
    BY <1>4 DEF IsHalted, Verdict
  <2>2. state.params.regime_flag = 0 /\ ~(OracleAge(state) > p.max_oracle_age_secs)
    BY <1>4, <2>1 DEF Verdict
  <2>3. AppliedLtv(p, state) =
           IF state.params.suggested_ltv_bps <= p.max_ltv_bps
           THEN state.params.suggested_ltv_bps ELSE p.max_ltv_bps
    BY <1>4 DEF AppliedLtv
  <2> QED
    BY <1>1, <2>2, <2>3
<1> QED
  BY <1>2, <1>3, <1>4

\* A decision is typed, its limit is within the collateral, and an allowed request is
\* within the applied LTV, hence within the cap.
LEMMA AssessmentSound ==
    ASSUME NEW p \in PolicyParams, IsValidPolicy(p),
           NEW state \in RiskState, state.timestamp <= now, now \in Nat,
           NEW c \in Nat, NEW r \in Nat, NEW d, d = Assessment(p, state, c, r)
    PROVE  /\ d \in Decision
           /\ d.max_safe_borrow <= d.collateral
           /\ d.allowed => /\ d.requested * FULL_BPS <= d.collateral * d.max_policy_ltv_bps
                           /\ d.requested * FULL_BPS <= d.collateral * AppliedLtv(p, state)
           /\ d.collateral = c /\ d.requested = r
<1> DEFINE ltv  == AppliedLtv(p, state)
           safe == MaxSafeBorrow(c, ltv)
<1>1. /\ FULL_BPS \in Nat \ {0} /\ p.max_ltv_bps \in 0..FULL_BPS
      /\ state.timestamp \in Nat /\ state.params.suggested_ltv_bps \in Nat
      /\ state.params.regime_flag \in Nat
  BY GateAssumption DEF PolicyParams, IsValidPolicy, RiskState, Payload
<1>2. ltv \in 0..p.max_ltv_bps /\ ltv \in 0..FULL_BPS
  BY <1>1, AppliedLtvBounded
<1>3. safe \in 0..c /\ safe * FULL_BPS <= c * ltv
  BY <1>2, QuotientBounded
<1>4. c * ltv <= c * p.max_ltv_bps /\ c * ltv \in Nat /\ c * p.max_ltv_bps \in Nat
  BY <1>1, <1>2, ProductMonotone
<1>5. ASSUME r <= safe
      PROVE  r * FULL_BPS <= c * ltv /\ r * FULL_BPS <= c * p.max_ltv_bps
  <2>1. FULL_BPS * r <= FULL_BPS * safe
    BY <1>1, <1>3, <1>5, ProductMonotone
  <2>2. FULL_BPS * r = r * FULL_BPS /\ FULL_BPS * safe = safe * FULL_BPS
    BY <1>1, <1>3
  <2>3. r * FULL_BPS \in Nat /\ safe * FULL_BPS \in Nat
    BY <1>1, <1>3
  <2> QED
    BY <1>3, <1>4, <2>1, <2>2, <2>3
<1>6. /\ d.collateral = c /\ d.requested = r /\ d.max_safe_borrow = safe
      /\ d.max_policy_ltv_bps = p.max_ltv_bps
      /\ d.allowed => r <= safe
  <2>1. d.allowed => ~(r > safe)
    BY DEF Assessment
  <2>2. ~(r > safe) => r <= safe
    BY <1>3
  <2> QED
    BY <2>1, <2>2 DEF Assessment
<1>7. d \in Decision
  <2>1. OracleAge(state) \in Nat
    BY <1>1, GateAssumption DEF OracleAge
  <2>2. Verdict(p, state) \in Reasons
    BY DEF Verdict, Reasons
  <2> QED
    BY <1>1, <1>2, <1>3, <2>1, <2>2 DEF Assessment, Decision, Reasons
<1> QED
  BY <1>3, <1>5, <1>6, <1>7

-----------------------------------------------------------------------------
(* The inductive invariant: that of the oracle program, that a feed is never   *)
(* dated ahead and suggests nothing before it is written, and that a market    *)
(* has at most one policy, a valid one.                                        *)

FeedDated(l) ==
    /\ oracle[l].timestamp <= now
    /\ oracle[l].timestamp = 0 => oracle[l].params.suggested_ltv_bps = 0

PolicySound(l) ==
    /\ policy[l] \in SUBSET Policy
    /\ \A pol \in policy[l] : IsValidPolicy(pol.params)
    /\ \A pol, other \in policy[l] : pol = other

GateInv ==
    /\ ProgramInv
    /\ \A l \in Lsts : FeedDated(l)
    /\ policy \in [Lsts -> SUBSET Policy]
    /\ \A l \in Lsts : PolicySound(l)
    /\ decision \in [Borrowers -> [Lsts -> SUBSET Decision]]
    /\ ApprovedWithinCap

\* A market starts without a policy and without decisions.
LEMMA GateInitEstablishes == GateInit => GateInv
<1> SUFFICES ASSUME GateInit
             PROVE  GateInv
  OBVIOUS
<1>1. ProgramInv
  BY InitEstablishes DEF GateInit
<1>2. ASSUME NEW l \in Lsts
      PROVE  FeedDated(l)
  <2>1. now = 1
    BY DEF GateInit, Init, RegistryInit
  <2>2. PICK auth \in [LegacyLsts -> Authorities],
             p \in [LegacyLsts -> {q \in Payloads : IsValid(q)}] :
           oracle = [f \in Lsts |->
               IF f \in LegacyLsts
               THEN [FreshOracle(auth[f]) EXCEPT !.status = "legacy", !.params = p[f],
                                                 !.timestamp = now]
               ELSE NoOracle]
    BY DEF GateInit, Init
  <2>3. CASE l \in LegacyLsts
    <3>1. oracle[l].timestamp = 1
      BY <2>1, <2>2, <2>3 DEF FreshOracle, NoOracle
    <3> QED
      BY <2>1, <3>1 DEF FeedDated
  <2>4. CASE l \notin LegacyLsts
    <3>1. oracle[l] = NoOracle
      BY <2>2, <2>4
    <3>2. NoOracle.timestamp = 0 /\ NoOracle.params.suggested_ltv_bps = 0
      BY DEF NoOracle, ZeroPayload
    <3> QED
      BY <2>1, <3>1, <3>2 DEF FeedDated
  <2> QED
    BY <2>3, <2>4
<1>3. policy = [l \in Lsts |-> {}] /\ decision = [b \in Borrowers |-> [l \in Lsts |-> {}]]
  BY DEF GateInit
<1> QED
  BY <1>1, <1>2, <1>3 DEF GateInv, PolicySound, ApprovedWithinCap

\* No step dates a feed ahead of the clock or writes one without a date.
LEMMA FeedDatedKept ==
    ASSUME ProgramInv, [Next]_vars, NEW l \in Lsts, FeedDated(l)
    PROVE  FeedDated(l)'
<1>1. /\ oracle[l] \in RiskState /\ oracle[l].timestamp \in Nat
      /\ oracle[l].authority \in Authorities \cup {NoKey}
      /\ now \in Nat /\ now > 0
  BY DEF ProgramInv, FeedsTyped, RiskState, RegistryInv, RegistryTypeOK
<1>2. now' \in Nat /\ now' >= now
  BY RegistryKept
<1>3. CASE oracle'[l] = oracle[l]
  BY <1>1, <1>2, <1>3 DEF FeedDated
<1>4. CASE FeedCreated(l) \/ FeedClosed(l)
  <2>1. ASSUME NEW auth \in Authorities
        PROVE  /\ FreshOracle(auth).timestamp = 0
               /\ FreshOracle(auth).params.suggested_ltv_bps = 0
    BY DEF FreshOracle, NoOracle, ZeroPayload
  <2>2. NoOracle.timestamp = 0 /\ NoOracle.params.suggested_ltv_bps = 0
    BY DEF NoOracle, ZeroPayload
  <2>3. oracle'[l].timestamp = 0 /\ oracle'[l].params.suggested_ltv_bps = 0
    BY <1>4, <2>1, <2>2 DEF FeedCreated, FeedClosed
  <2> QED
    BY <1>2, <2>3 DEF FeedDated
<1>5. CASE FeedWritten(l)
  <2>1. PICK p \in Payloads : oracle'[l] = Written(oracle[l], p, oracle[l].authority)
    BY <1>5 DEF FeedWritten
  <2>2. p \in Payload
    BY OracleAssumption
  <2>3. oracle'[l].timestamp = now
    BY <1>1, <2>1, <2>2, WrittenFields
  <2> QED
    BY <1>1, <1>2, <2>3 DEF FeedDated
<1>6. CASE FeedMigrated(l) \/ FeedEnabled(l)
  <2>1. oracle'[l].timestamp = oracle[l].timestamp /\ oracle'[l].params = oracle[l].params
    BY <1>1, <1>6 DEF FeedMigrated, FeedEnabled, RiskState
  <2> QED
    BY <1>1, <1>2, <2>1 DEF FeedDated
<1>7. CASE FeedFinalized(l)
  <2>1. oracle'[l].timestamp = now
    <3>1. PICK r \in Rounds : RoundFinalized(<<l, r>>)
      BY <1>7 DEF FeedFinalized
    <3>2. pending[<<l, r>>] \in PendingUpdate
      BY DEF ProgramInv, FeedsTyped, RoundKeys
    <3>3. pending[<<l, r>>].params \in Payload
      BY <3>2 DEF PendingUpdate
    <3>4. \E a \in Attesters : oracle'[l] = Written(oracle[l], pending[<<l, r>>].params, a)
      BY <3>1 DEF RoundFinalized
    <3> QED
      BY <1>1, <3>3, <3>4, WrittenFields
  <2> QED
    BY <1>1, <1>2, <2>1 DEF FeedDated
<1> QED
  BY <1>3, <1>4, <1>5, <1>6, <1>7, FeedChanges

\* assess_borrow writes a decision that is sound, from the market's one policy.
LEMMA DecisionWritten ==
    ASSUME GateInv, NEW b \in Borrowers, NEW l \in Lsts, NEW c \in CollateralArgs,
           NEW r \in RequestArgs, AssessBorrow(b, l, c, r)
    PROVE  \E pol \in policy[l], d \in Decision :
              /\ decision' = [decision EXCEPT ![b][l] = {d}]
              /\ pol.params \in PolicyParams /\ IsValidPolicy(pol.params)
              /\ oracle[l] \in RiskState
              /\ d.max_safe_borrow <= d.collateral
              /\ d.allowed =>
                    /\ d.requested * FULL_BPS <= d.collateral * d.max_policy_ltv_bps
                    /\ d.requested * FULL_BPS
                          <= d.collateral * AppliedLtv(pol.params, oracle[l])
              /\ d.collateral = c /\ d.requested = r
<1>1. PICK pol \in policy[l] :
         decision' = [decision EXCEPT ![b][l] =
             {Assessment(pol.params, oracle[l], c, r)}]
  BY DEF AssessBorrow
<1>2. pol.params \in PolicyParams /\ IsValidPolicy(pol.params)
  BY DEF GateInv, PolicySound, Policy
<1>3. oracle[l] \in RiskState /\ oracle[l].timestamp <= now /\ now \in Nat
  BY DEF GateInv, FeedDated, ProgramInv, FeedsTyped, RegistryInv, RegistryTypeOK
<1>4. c \in Nat /\ r \in Nat
  BY GateAssumption
<1>5. PICK d : d = Assessment(pol.params, oracle[l], c, r)
  OBVIOUS
<1>6. /\ d \in Decision
      /\ d.max_safe_borrow <= d.collateral
      /\ d.allowed =>
            /\ d.requested * FULL_BPS <= d.collateral * d.max_policy_ltv_bps
            /\ d.requested * FULL_BPS <= d.collateral * AppliedLtv(pol.params, oracle[l])
      /\ d.collateral = c /\ d.requested = r
  BY <1>2, <1>3, <1>4, <1>5, AssessmentSound
<1> QED
  BY <1>1, <1>2, <1>3, <1>5, <1>6

\* The admin's instructions leave every market with one valid policy.
LEMMA PolicyWrittenSound ==
    ASSUME GateInv, NEW l \in Lsts, NEW p \in PolicyArgs,
           InitializeBorrowPolicy(l, p) \/ UpdateBorrowPolicy(l, p)
    PROVE  /\ policy' \in [Lsts -> SUBSET Policy]
           /\ \A f \in Lsts : PolicySound(f)'
<1>1. /\ policy' = [policy EXCEPT ![l] = {[params |-> p, updated_at |-> now]}]
      /\ IsValidPolicy(p)
  BY DEF InitializeBorrowPolicy, UpdateBorrowPolicy
<1>2. [params |-> p, updated_at |-> now] \in Policy
  BY GateAssumption DEF GateInv, ProgramInv, RegistryInv, RegistryTypeOK, Policy
<1>3. policy \in [Lsts -> SUBSET Policy] /\ \A f \in Lsts : PolicySound(f)
  BY DEF GateInv
<1>4. ASSUME NEW f \in Lsts
      PROVE  PolicySound(f)'
  <2>1. CASE f = l
    <3>1. policy'[f] = {[params |-> p, updated_at |-> now]}
      BY <1>1, <1>3, <2>1
    <3> QED
      BY <1>1, <1>2, <3>1 DEF PolicySound
  <2>2. CASE f # l
    <3>1. policy'[f] = policy[f]
      BY <1>1, <1>3, <2>2
    <3> QED
      BY <1>3, <3>1 DEF PolicySound
  <2> QED
    BY <2>1, <2>2
<1> QED
  BY <1>1, <1>2, <1>3, <1>4

\* A step changes a decision by assess_borrow only.
LEMMA GateStepKeeps == GateInv /\ [GateNext]_allVars => GateInv'
<1> SUFFICES ASSUME GateInv, [GateNext]_allVars
             PROVE  GateInv'
  OBVIOUS
<1>1. [Next]_vars
  BY DEF GateNext, GateStep, InitializeBorrowPolicy, UpdateBorrowPolicy, AssessBorrow, allVars
<1>2. ProgramInv'
  BY <1>1, ProgramStepKeeps DEF GateInv
<1>3. \A l \in Lsts : FeedDated(l)'
  BY <1>1, FeedDatedKept DEF GateInv
<1>4. ASSUME NEW l \in Lsts, NEW p \in PolicyArgs,
             InitializeBorrowPolicy(l, p) \/ UpdateBorrowPolicy(l, p)
      PROVE  UNCHANGED decision
  BY <1>4 DEF InitializeBorrowPolicy, UpdateBorrowPolicy
<1>5. ASSUME NEW b \in Borrowers, NEW l \in Lsts, NEW c \in CollateralArgs,
             NEW r \in RequestArgs, AssessBorrow(b, l, c, r)
      PROVE  /\ UNCHANGED policy
             /\ decision' \in [Borrowers -> [Lsts -> SUBSET Decision]]
             /\ ApprovedWithinCap'
  <2>1. PICK d \in Decision :
           /\ decision' = [decision EXCEPT ![b][l] = {d}]
           /\ d.max_safe_borrow <= d.collateral
           /\ d.allowed => d.requested * FULL_BPS <= d.collateral * d.max_policy_ltv_bps
    BY <1>5, DecisionWritten
  <2>2. decision \in [Borrowers -> [Lsts -> SUBSET Decision]] /\ ApprovedWithinCap
    BY DEF GateInv
  <2>3. ASSUME NEW borrower \in Borrowers, NEW f \in Lsts
        PROVE  decision'[borrower][f] = decision[borrower][f] \/ decision'[borrower][f] = {d}
    BY <2>1, <2>2
  <2>4. decision' \in [Borrowers -> [Lsts -> SUBSET Decision]]
    BY <2>1, <2>2
  <2>5. ApprovedWithinCap'
    BY <2>1, <2>2, <2>3 DEF ApprovedWithinCap
  <2>6. UNCHANGED policy
    BY <1>5 DEF AssessBorrow
  <2> QED
    BY <2>4, <2>5, <2>6
<1>6. ASSUME UNCHANGED policy
      PROVE  policy' \in [Lsts -> SUBSET Policy] /\ \A l \in Lsts : PolicySound(l)'
  BY <1>6 DEF GateInv, PolicySound
<1>7. ASSUME UNCHANGED decision
      PROVE  decision' \in [Borrowers -> [Lsts -> SUBSET Decision]] /\ ApprovedWithinCap'
  BY <1>7 DEF GateInv, ApprovedWithinCap
<1>8. CASE GateStep
  <2>1. policy' \in [Lsts -> SUBSET Policy] /\ \A l \in Lsts : PolicySound(l)'
    BY <1>5, <1>6, <1>8, PolicyWrittenSound DEF GateStep
  <2>2. decision' \in [Borrowers -> [Lsts -> SUBSET Decision]] /\ ApprovedWithinCap'
    BY <1>4, <1>5, <1>7, <1>8 DEF GateStep
  <2> QED
    BY <1>2, <1>3, <2>1, <2>2 DEF GateInv
<1>9. CASE UNCHANGED gateVars
  BY <1>2, <1>3, <1>6, <1>7, <1>9 DEF GateInv, gateVars
<1> QED
  BY <1>8, <1>9 DEF GateNext, allVars

-----------------------------------------------------------------------------
(* Theorems. *)

\* The inductive invariant of the gate beside the oracle program.
THEOREM GateInvariant == GateSpec => []GateInv
<1>1. GateInit => GateInv
  BY GateInitEstablishes
<1>2. GateInv /\ [GateNext]_allVars => GateInv'
  BY GateStepKeeps
<1> QED
  BY <1>1, <1>2, PTL DEF GateSpec

\* The gate only reads the oracle program: that program behaves beside it as alone,
\* so that its theorems hold of both together.
THEOREM GateImplementsOracle == GateSpec => Spec
<1>1. GateInit => Init
  BY DEF GateInit
<1>2. [GateNext]_allVars => [Next]_vars
  BY DEF GateNext, GateStep, InitializeBorrowPolicy, UpdateBorrowPolicy, AssessBorrow, allVars
<1> QED
  BY <1>1, <1>2, PTL DEF GateSpec, Spec

\* Policies and decisions have their types.
THEOREM GateTypes == GateSpec => []GateTypeOK
<1>1. GateInv /\ TypeOK => GateTypeOK
  BY DEF GateInv, GateTypeOK
<1> QED
  BY <1>1, GateInvariant, GateImplementsOracle, ProgramTypes, PTL

\* An allowed borrow is within the cap of the policy it was assessed under.
THEOREM BorrowsWithinCap == GateSpec => []ApprovedWithinCap
<1>1. GateInv => ApprovedWithinCap
  BY DEF GateInv
<1> QED
  BY <1>1, GateInvariant, PTL

\* More than the fallback is lent only on a feed that is written, fresh and not
\* critical, and within what it suggests.
THEOREM LendingNeedsFeed == GateSpec => AboveFallbackNeedsFeed
<1>1. GateInv /\ [GateNext]_allVars =>
        [\A b \in Borrowers, l \in Lsts :
            \A d \in decision'[b][l] \ decision[b][l], pol \in policy[l] :
                d.allowed /\ d.requested * FULL_BPS > d.collateral * pol.params.fallback_ltv_bps =>
                    /\ oracle[l].timestamp > 0
                    /\ now - oracle[l].timestamp <= pol.params.max_oracle_age_secs
                    /\ oracle[l].params.regime_flag = 0
                    /\ d.requested * FULL_BPS
                          <= d.collateral * oracle[l].params.suggested_ltv_bps
                    /\ IsMultiAttester(l) /\ oracle[l].last_updater # oracle[l].authority =>
                          \E r \in Rounds : AnswersFor(l, r, d, pol.params)]_allVars
  <2> SUFFICES ASSUME GateInv, [GateNext]_allVars, NEW b \in Borrowers, NEW l \in Lsts,
                      NEW d \in decision'[b][l] \ decision[b][l], NEW pol \in policy[l],
                      d.allowed,
                      d.requested * FULL_BPS > d.collateral * pol.params.fallback_ltv_bps
               PROVE  /\ oracle[l].timestamp > 0
                      /\ now - oracle[l].timestamp <= pol.params.max_oracle_age_secs
                      /\ oracle[l].params.regime_flag = 0
                      /\ d.requested * FULL_BPS
                            <= d.collateral * oracle[l].params.suggested_ltv_bps
                      /\ IsMultiAttester(l) /\ oracle[l].last_updater # oracle[l].authority =>
                            \E n \in Rounds : AnswersFor(l, n, d, pol.params)
    OBVIOUS
  <2> DEFINE ltv == AppliedLtv(pol.params, oracle[l])
  <2>1. decision \in [Borrowers -> [Lsts -> SUBSET Decision]] /\ decision'[b][l] # decision[b][l]
    BY DEF GateInv
  <2>2. PICK c \in CollateralArgs, r \in RequestArgs : AssessBorrow(b, l, c, r)
    <3>1. decision' # decision
      BY <2>1
    <3>2. GateStep
      BY <3>1 DEF GateNext, gateVars, allVars
    <3>3. \A f \in Lsts, p \in PolicyArgs :
             ~InitializeBorrowPolicy(f, p) /\ ~UpdateBorrowPolicy(f, p)
      BY <3>1 DEF InitializeBorrowPolicy, UpdateBorrowPolicy
    <3>4. PICK f \in Lsts, who \in Borrowers, c \in CollateralArgs, r \in RequestArgs :
             AssessBorrow(who, f, c, r)
      BY <3>2, <3>3 DEF GateStep
    <3>5. PICK e : decision' = [decision EXCEPT ![who][f] = {e}]
      BY <3>4 DEF AssessBorrow
    <3>6. who = b /\ f = l
      BY <2>1, <3>5
    <3> QED
      BY <3>4, <3>6
  <2>3. /\ pol.params \in PolicyParams /\ IsValidPolicy(pol.params)
        /\ oracle[l] \in RiskState
        /\ d.collateral = c /\ d.requested = r
        /\ d.requested * FULL_BPS <= d.collateral * ltv
    <3>1. \A other \in policy[l] : other = pol
      BY DEF GateInv, PolicySound
    <3>2. PICK e : /\ decision' = [decision EXCEPT ![b][l] = {e}]
                   /\ pol.params \in PolicyParams /\ IsValidPolicy(pol.params)
                   /\ oracle[l] \in RiskState
                   /\ e.allowed => e.requested * FULL_BPS <= e.collateral * ltv
                   /\ e.collateral = c /\ e.requested = r
      BY <2>2, <3>1, DecisionWritten
    <3>3. d = e
      BY <2>1, <3>2
    <3> QED
      BY <3>2, <3>3
  <2>4. /\ FULL_BPS \in Nat /\ c \in Nat /\ r \in Nat
        /\ pol.params.fallback_ltv_bps \in Nat /\ pol.params.max_oracle_age_secs \in Int
        /\ ltv \in Nat
        /\ oracle[l].timestamp \in Nat /\ now \in Nat
        /\ oracle[l].params.suggested_ltv_bps \in Nat
    BY <2>3, GateAssumption, AppliedLtvBounded
    DEF PolicyParams, RiskState, Payload, GateInv, ProgramInv, RegistryInv, RegistryTypeOK
  <2>5. ~(ltv <= pol.params.fallback_ltv_bps)
    <3>1. SUFFICES ASSUME ltv <= pol.params.fallback_ltv_bps
                   PROVE  FALSE
      OBVIOUS
    <3>2. c * ltv <= c * pol.params.fallback_ltv_bps
      BY <2>4, <3>1, ProductMonotone
    <3> QED
      BY <2>3, <2>4, <3>2
  <2>6. /\ ltv <= oracle[l].params.suggested_ltv_bps
        /\ oracle[l].params.regime_flag = 0
        /\ ~(OracleAge(oracle[l]) > pol.params.max_oracle_age_secs)
    BY <2>3, <2>5, AppliedLtvBounded
  <2>7. oracle[l].timestamp > 0
    <3>1. oracle[l].params.suggested_ltv_bps > 0
      BY <2>4, <2>5, <2>6
    <3> QED
      BY <2>4, <3>1 DEF GateInv, FeedDated
  <2>8. now - oracle[l].timestamp <= pol.params.max_oracle_age_secs
    BY <2>4, <2>6, <2>7 DEF OracleAge
  <2>9. c * ltv <= c * oracle[l].params.suggested_ltv_bps
    BY <2>4, <2>6, ProductMonotone
  <2>10. d.requested * FULL_BPS <= d.collateral * oracle[l].params.suggested_ltv_bps
    BY <2>3, <2>4, <2>9
  <2>11. ASSUME IsMultiAttester(l), oracle[l].last_updater # oracle[l].authority
         PROVE  \E n \in Rounds : AnswersFor(l, n, d, pol.params)
    <3>1. PICK n \in Rounds :
             /\ pending[<<l, n>>].status = "finalized"
             /\ pending[<<l, n>>].finalized_at = oracle[l].timestamp
             /\ pending[<<l, n>>].params = oracle[l].params
      BY <2>11 DEF GateInv, ProgramInv, CanonicalValueAttested
    <3>2. <<l, n>> \in RoundKeys
      BY DEF RoundKeys
    <3>3. Cardinality(pending[<<l, n>>].confirmations) >= threshold
      BY <3>1, <3>2 DEF GateInv, ProgramInv, RoundsSound
    <3> QED
      BY <2>8, <2>10, <3>1, <3>3 DEF AnswersFor
  <2> QED
    BY <2>6, <2>7, <2>8, <2>10, <2>11
<1> QED
  BY <1>1, GateInvariant, PTL DEF GateSpec, AboveFallbackNeedsFeed, AnswersFor

-----------------------------------------------------------------------------
(* The readers of a RiskState account agree, for every account the program   *)
(* can write, every time and every policy.                                   *)

\* The gate counts an age, the readers compare times: they draw the same line,
\* for a limit below the age of a feed that was never written.
LEMMA SameAge ==
    ASSUME NEW state \in RiskState, state.timestamp <= now, now \in Nat,
           NEW limit \in Int, limit < MAX_AGE
    PROVE  OracleAge(state) > limit <=> IsStale(DecodeRiskState(state), limit)
<1>1. state.timestamp \in Nat /\ MAX_AGE \in Nat
  BY GateAssumption DEF RiskState
<1>2. DecodeRiskState(state).timestamp = state.timestamp
  BY DEF DecodeRiskState
<1>3. CASE state.timestamp = 0
  BY <1>1, <1>2, <1>3 DEF OracleAge, IsStale
<1>4. CASE state.timestamp # 0
  BY <1>1, <1>2, <1>4 DEF OracleAge, IsStale
<1> QED
  BY <1>3, <1>4

\* A typed feed is never dated ahead of the clock.
LEMMA FeedTyped ==
    ASSUME GateInv, TypeOK, NEW l \in Lsts
    PROVE  /\ oracle[l] \in RiskState
           /\ oracle[l].timestamp \in Nat /\ now \in Nat /\ oracle[l].timestamp <= now
           /\ oracle[l].params.suggested_ltv_bps \in Nat
<1>1. oracle[l] \in RiskState /\ now \in Nat
  BY DEF TypeOK, RegistryTypeOK
<1>2. oracle[l].timestamp \in Nat /\ oracle[l].params.suggested_ltv_bps \in Nat
  BY <1>1 DEF RiskState, Payload
<1> QED
  BY <1>1, <1>2 DEF GateInv, FeedDated

-----------------------------------------------------------------------------
(* The gate and safeLtv. *)

\* Policies have the parameters an admin submitted.
PoliciesSubmitted == \A l \in Lsts : \A pol \in policy[l] : pol.params \in PolicyArgs

\* Only initialize_borrow_policy and update_borrow_policy write one.
LEMMA PoliciesSubmittedKept ==
    GateInv /\ PoliciesSubmitted /\ [GateNext]_allVars => PoliciesSubmitted'
<1> SUFFICES ASSUME GateInv, PoliciesSubmitted, [GateNext]_allVars
             PROVE  PoliciesSubmitted'
  OBVIOUS
<1>1. policy \in [Lsts -> SUBSET Policy]
  BY DEF GateInv
<1>2. ASSUME NEW l \in Lsts, NEW p \in PolicyArgs,
             InitializeBorrowPolicy(l, p) \/ UpdateBorrowPolicy(l, p)
      PROVE  PoliciesSubmitted'
  <2>1. policy' = [policy EXCEPT ![l] = {[params |-> p, updated_at |-> now]}]
    BY <1>2 DEF InitializeBorrowPolicy, UpdateBorrowPolicy
  <2>2. \A f \in Lsts : policy'[f] = IF f = l THEN {[params |-> p, updated_at |-> now]}
                                     ELSE policy[f]
    BY <1>1, <2>1
  <2> QED
    BY <2>2 DEF PoliciesSubmitted
<1>3. CASE UNCHANGED policy
  BY <1>3 DEF PoliciesSubmitted
<1> QED
  BY <1>2, <1>3 DEF GateNext, GateStep, AssessBorrow, gateVars, allVars

\* One feed, one policy: the two verdicts by the cases of the feed.
LEMMA GateAgreesWithSafeLtv ==
    ASSUME NEW p \in PolicyParams, NEW state \in RiskState,
           state.timestamp <= now, now \in Nat,
           p.max_oracle_age_secs < MAX_AGE,
           state.params.regime_flag \in {0, 1}
    PROVE  AppliedLtv(p, state) =
             IF IsHalted(p, Verdict(p, state)) THEN 0
             ELSE SafeLtv(DecodeRiskState(state), p.max_oracle_age_secs, p.fallback_ltv_bps,
                          p.max_ltv_bps)
<1> DEFINE s == DecodeRiskState(state)
           stale == IsStale(s, p.max_oracle_age_secs)
<1>1. OracleAge(state) > p.max_oracle_age_secs <=> stale
  BY SameAge DEF PolicyParams
<1>2. s.suggested_ltv_bps = state.params.suggested_ltv_bps
  BY DEF DecodeRiskState
<1>3. IsCritical(s) <=> state.params.regime_flag # 0
  BY DEF DecodeRiskState, IsCritical
<1>4. SafeLtv(s, p.max_oracle_age_secs, p.fallback_ltv_bps, p.max_ltv_bps) =
        IF stale \/ state.params.regime_flag # 0 THEN p.fallback_ltv_bps
        ELSE IF state.params.suggested_ltv_bps <= p.max_ltv_bps
             THEN state.params.suggested_ltv_bps ELSE p.max_ltv_bps
  BY <1>2, <1>3 DEF SafeLtv
<1> HIDE DEF s, stale
<1>5. Verdict(p, state) = IF p.paused THEN "PolicyPaused"
                          ELSE IF stale THEN "StaleOracle"
                          ELSE IF state.params.regime_flag # 0 THEN "CriticalRegime"
                          ELSE "Approved"
  BY <1>1 DEF Verdict
<1>6. CASE IsHalted(p, Verdict(p, state))
  BY <1>6 DEF AppliedLtv
<1>7. CASE ~IsHalted(p, Verdict(p, state))
  <2>1. ~p.paused
    BY <1>5, <1>7 DEF IsHalted
  <2>2. Verdict(p, state) \in {"StaleOracle", "CriticalRegime"}
          <=> stale \/ state.params.regime_flag # 0
    BY <1>5, <2>1
  <2> QED
    BY <1>4, <1>7, <2>2 DEF AppliedLtv, s
<1> QED
  BY <1>6, <1>7

\* With policies whose limits are below the age of a feed that was never
\* written, the gate and safeLtv apply the same LTV to every feed.
THEOREM GateAgreesWithSdk ==
    ASSUME \A p \in PolicyArgs : p.max_oracle_age_secs < MAX_AGE
    PROVE  GateSpec => []GateWithinSafeLtv
<1>1. GateInit => PoliciesSubmitted
  BY DEF GateInit, PoliciesSubmitted
<1>2. GateInv /\ TypeOK /\ PoliciesSubmitted => GateWithinSafeLtv
  <2> SUFFICES ASSUME GateInv, TypeOK, PoliciesSubmitted, NEW l \in Lsts,
                      NEW pol \in policy[l], NEW s \in FetchRiskState(l),
                      oracle[l].params.regime_flag \in {0, 1}
               PROVE  AppliedLtv(pol.params, oracle[l]) =
                        IF IsHalted(pol.params, Verdict(pol.params, oracle[l])) THEN 0
                        ELSE SafeLtv(s, pol.params.max_oracle_age_secs,
                                     pol.params.fallback_ltv_bps, pol.params.max_ltv_bps)
    BY DEF GateWithinSafeLtv
  <2>1. s = DecodeRiskState(oracle[l])
    BY DEF FetchRiskState
  <2>2. pol.params \in PolicyParams /\ pol.params.max_oracle_age_secs < MAX_AGE
    BY GateAssumption DEF PoliciesSubmitted
  <2> QED
    BY <2>1, <2>2, FeedTyped, GateAgreesWithSafeLtv
<1> QED
  BY <1>1, <1>2, PoliciesSubmittedKept, GateInvariant, GateImplementsOracle, ProgramTypes,
     PTL DEF GateSpec

-----------------------------------------------------------------------------
(* The readers off chain. *)

\* The example, the dashboard, the reference consumer and the SDK tell the same
\* feeds apart, whatever is in the account.
THEOREM AllReadersAgree == GateSpec => []ReadersAgree
<1>1. GateInv /\ TypeOK => ReadersAgree
  <2> SUFFICES ASSUME GateInv, TypeOK, NEW l \in Lsts, NEW s \in FetchRiskState(l)
               PROVE  /\ ReferenceAction(s) = "allow" <=> DeriveStatus(s) = "healthy"
                      /\ ConsumerReference(oracle[l]).is_stale <=> IsStale(s, MAX_STALENESS_SECS)
                      /\ s.suggested_ltv_bps <= DEFAULT_MAX_LTV =>
                            GuardLtv(s) = SafeLtv(s, MAX_STALENESS_SECS, DEFAULT_FALLBACK_LTV,
                                                  DEFAULT_MAX_LTV)
    BY DEF ReadersAgree
  <2>1. s = DecodeRiskState(oracle[l])
    BY DEF FetchRiskState
  <2>2. ReferenceAction(s) = "allow" <=> DeriveStatus(s) = "healthy"
    BY DEF ReferenceAction, DeriveStatus, IsCritical, IsStale
  <2>3. ConsumerReference(oracle[l]).is_stale <=> IsStale(s, MAX_STALENESS_SECS)
    <3>1. OracleAge(oracle[l]) > MAX_STALENESS_SECS <=> IsStale(s, MAX_STALENESS_SECS)
      BY <2>1, FeedTyped, SameAge, ReaderAssumption
    <3>2. ConsumerReference(oracle[l]).is_stale <=> OracleAge(oracle[l]) > MAX_STALENESS_SECS
      BY DEF ConsumerReference
    <3> QED
      BY <3>1, <3>2
  <2>4. s.suggested_ltv_bps <= DEFAULT_MAX_LTV =>
          GuardLtv(s) = SafeLtv(s, MAX_STALENESS_SECS, DEFAULT_FALLBACK_LTV, DEFAULT_MAX_LTV)
    <3>1. DeriveStatus(s) = "stale" <=> IsStale(s, MAX_STALENESS_SECS)
      BY DEF DeriveStatus, IsStale
    <3>2. GuardLtv(s) = IF IsStale(s, MAX_STALENESS_SECS) \/ s.regime_flag = 1
                        THEN DEFAULT_FALLBACK_LTV ELSE s.suggested_ltv_bps
      BY <3>1 DEF GuardLtv
    <3> HIDE DEF IsStale
    <3> QED
      BY <3>2 DEF SafeLtv, IsCritical
  <2> QED
    BY <2>2, <2>3, <2>4
<1> QED
  BY <1>1, GateInvariant, GateImplementsOracle, ProgramTypes, PTL
=============================================================================
