------------------------- MODULE OperatorCliProofs -------------------------
(***************************************************************************)
(* What the operators' commands may rely on, for every set of attesters,   *)
(* feeds, rounds and files: the command line is a client of the program,   *)
(* so the program's theorems hold beside it, and what multi-status and     *)
(* pending read stays true enough to act on.                               *)
(***************************************************************************)
EXTENDS OperatorCli, RefinementProofs

\* The quorum a verdict promises: once there, RegistryMonotone keeps it.
Quorum == threshold >= 2 /\ attester_count >= threshold

FinalizedAt(k, t) == pending[k].status = "finalized" /\ pending[k].finalized_at = t

\* A session is the record MultiStatus made.
IsSession(s) ==
    /\ s = [lst |-> s.lst, round |-> s.round, flagged |-> s.flagged, reads |-> s.reads,
            feed |-> s.feed, pending |-> s.pending, blockers |-> s.blockers]
    /\ s.lst \in Lsts
    /\ s.reads \in 0..3

\* An attested value has its round, and not one that was read as open.
FeedExplained(l, feed) ==
    \A f \in feed : f.attested => \E r \in Rounds : FinalizedAt(<<l, r>>, f.timestamp)

RoundExplained(l, round, feed, read) ==
    \A f \in feed, p \in read :
        f.attested /\ ~p.is_finalized =>
            \E r \in Rounds \ {round} : FinalizedAt(<<l, r>>, f.timestamp)

SessionSound(s) ==
    /\ IsSession(s)
    /\ s.reads >= 2 /\ s.blockers = {} => Quorum
    /\ s.reads = 0 => s.pending = {}
    /\ FeedExplained(s.lst, s.feed)
    /\ RoundExplained(s.lst, s.round, s.feed, s.pending)

ReportSound(rep) ==
    /\ rep.lst \in Lsts
    /\ rep.ready => Quorum
    /\ RoundExplained(rep.lst, rep.round, rep.feed, rep.pending)

\* Until it expires, a round that was shown is there and unchanged.
SeenSound(s) ==
    /\ s.key \in RoundKeys
    /\ s.expires_at \in Nat
    /\ now < s.expires_at =>
          /\ pending[s.key].status # "absent"
          /\ pending[s.key].params = s.params
          /\ pending[s.key].expires_at = s.expires_at

\* An account that does not exist shows nothing.
AbsentRoundsEmpty ==
    \A k \in RoundKeys : pending[k].status = "absent" => pending[k] = NoPending

\* What is on the terminal is sound, for as long as it stays there.
CliInv ==
    /\ ProgramInv
    /\ AbsentRoundsEmpty
    /\ \A s \in session : SessionSound(s)
    /\ \A rep \in report : ReportSound(rep)
    /\ \A s \in seen : SeenSound(s)

-----------------------------------------------------------------------------
(* The commands are the program's instructions. *)

\* A command submits a transaction or reads, never both.
LEMMA CommandIsClient ==
    CliNext => (UNCHANGED cliVars /\ Next) \/ (UNCHANGED vars /\ ReadingCommand)
<1> SUFFICES ASSUME CliNext
             PROVE  (UNCHANGED cliVars /\ Next) \/ (UNCHANGED vars /\ ReadingCommand)
  OBVIOUS
<1>1. CASE AdminCommand
  <2>1. ASSUME NEW l \in Lsts, NEW auth \in Authorities,
               InitOracle(l, auth) \/ InitOracleScript(l, auth)
        PROVE  UNCHANGED cliVars /\ OracleStep
    BY <2>1 DEF InitOracle, InitOracleScript, OracleStep
  <2>2. ASSUME NEW m \in ThresholdArgs, NEW minimum \in MinBondArgs, InitRegistry(m, minimum)
        PROVE  UNCHANGED cliVars /\ RegistryStep
    BY <2>2 DEF InitRegistry, RegistryStep
  <2>3. ASSUME NEW l \in Lsts, EnableMulti(l) \/ CloseScript(l)
        PROVE  UNCHANGED cliVars /\ OracleStep
    BY <2>3 DEF EnableMulti, CloseScript, OracleStep
  <2>4. ASSUME NEW file \in Files, Submit(file)
        PROVE  UNCHANGED cliVars /\ OracleStep
    <3>1. file.lst_id \in Lsts /\ ParamsOf(file) \in Payloads
      BY CliAssumption, FilesAssumption DEF File
    <3> QED
      BY <2>4, <3>1 DEF Submit, OracleStep
  <2> QED
    BY <1>1, <2>1, <2>2, <2>3, <2>4 DEF AdminCommand, Next
<1>2. CASE AttesterCommand
  <2>1. PICK a \in Attesters :
           \/ \E bond \in BondArgs : Register(a, bond)
           \/ Unregister(a)
           \/ Withdraw(a)
           \/ \E r \in Rounds, file \in Files : Propose(a, r, file)
           \/ \E k \in RoundKeys : Confirm(a, k)
    BY <1>2 DEF AttesterCommand
  <2>2. CASE (\E bond \in BondArgs : Register(a, bond)) \/ Unregister(a) \/ Withdraw(a)
    BY <2>2 DEF Register, Unregister, Withdraw, RegistryStep, Next
  <2>3. ASSUME NEW r \in Rounds, NEW file \in Files, Propose(a, r, file)
        PROVE  UNCHANGED cliVars /\ RoundStep
    <3>1. <<file.lst_id, r>> \in RoundKeys /\ ParamsOf(file) \in Payloads
      BY CliAssumption, FilesAssumption DEF File, RoundKeys
    <3> QED
      BY <2>3, <3>1 DEF Propose, RoundStep
  <2>4. ASSUME NEW k \in RoundKeys, Confirm(a, k)
        PROVE  UNCHANGED cliVars /\ RoundStep
    BY <2>4 DEF Confirm, RoundStep
  <2> QED
    BY <2>1, <2>2, <2>3, <2>4 DEF Next
<1>3. CASE DisputeCommand
  <2>1. PICK k \in RoundKeys, a \in Suspects :
           \/ Dispute(k, a)
           \/ \E reject \in {"absent", "bare", "valued"} : Resolve(k, a, reject)
    BY <1>3 DEF DisputeCommand
  <2>2. a \in Attesters
    BY CliAssumption
  <2>3. \A reject : SlashUnless(reject) \in BOOLEAN
    BY DEF SlashUnless
  <2> QED
    BY <2>1, <2>2, <2>3 DEF Dispute, Resolve, DisputeStep, Next
<1>4. CASE ReadingCommand
  BY <1>4 DEF ReadingCommand, Pending, MultiStatus, MultiStatusReads, MultiStatusPrints,
              MultiStatusFails
<1>5. ASSUME NEW k \in RoundKeys, Cancel(k)
      PROVE  UNCHANGED cliVars /\ Next
  BY <1>5 DEF Cancel, RoundStep, Next
<1>6. CASE Tick /\ UNCHANGED <<oracleVars, cliVars>>
  BY <1>6 DEF RegistryStep, Next
<1> QED
  BY <1>1, <1>2, <1>3, <1>4, <1>5, <1>6 DEF CliNext

\* So no command does what RiskOracle does not.
LEMMA CommandsDriveProgram == [CliNext]_cliAllVars => [Next]_vars
BY CommandIsClient DEF cliAllVars

\* The program behaves under the command line as it does by itself: all its
\* theorems hold of a deployment that is operated with it.
THEOREM CliImplementsProgram == CliSpec => Spec
<1>1. CliInit(Init) => Init
  BY DEF CliInit
<1>2. [CliNext]_cliAllVars => [Next]_vars
  BY CommandsDriveProgram
<1> QED
  BY <1>1, <1>2, PTL DEF CliSpec, Spec

-----------------------------------------------------------------------------
(* What transactions leave of what was read. *)

\* A round goes away only after it expired, and otherwise keeps its parameters.
LEMMA ShownRoundStays ==
    ASSUME ProgramInv, [Next]_vars, NEW k \in RoundKeys,
           pending[k].status # "absent", now < pending[k].expires_at
    PROVE  /\ pending'[k].status # "absent"
           /\ pending'[k].params = pending[k].params
           /\ pending'[k].expires_at = pending[k].expires_at
<1>1. /\ pending \in [RoundKeys -> PendingUpdate] /\ pending[k] \in PendingUpdate
      /\ now \in Nat /\ pending[k].expires_at \in Nat
  BY DEF ProgramInv, FeedsTyped, RegistryInv, RegistryTypeOK, PendingUpdate
<1>2. ~RoundProposed(k)
  BY DEF RoundProposed
<1>3. CASE RoundConfirmed(k) \/ RoundFinalized(k)
  BY <1>1, <1>3 DEF RoundConfirmed, RoundFinalized, AddConfirmation, PendingUpdate
<1>4. CASE RoundDropped(k)
  <2>1. pending[k].status = "open" /\ pending'[k].status = "absent"
    BY <1>4 DEF RoundDropped, NoPending
  <2>2. pending' # pending
    BY <2>1
  <2>3. RoundStep
    BY <2>2, OracleStepFrame, DisputeStepFrame DEF Next, RegistryStep, oracleVars, vars
  <2>4. PICK r \in RoundKeys :
           \/ \E a \in Attesters, p \in Payloads : ProposeUpdate(a, r, p)
           \/ \E a \in Attesters : ConfirmUpdate(a, r)
           \/ CancelExpired(r)
    BY <2>3 DEF RoundStep
  <2>5. ASSUME NEW a \in Attesters, NEW p \in Payloads, ProposeUpdate(a, r, p)
        PROVE  FALSE
    BY <1>1, <2>1, <2>5 DEF ProposeUpdate, PendingUpdate
  <2>6. ASSUME NEW a \in Attesters, ConfirmUpdate(a, r)
        PROVE  FALSE
    <3>1. k = r /\ (RoundFinalized(r) \/ RoundConfirmed(r))
      BY <2>1, <2>6, ConfirmChanges
    <3> QED
      BY <1>1, <2>1, <3>1 DEF RoundConfirmed, RoundFinalized, AddConfirmation, PendingUpdate
  <2>7. CASE CancelExpired(r)
    <3>1. pending' = [pending EXCEPT ![r] = NoPending] /\ now >= pending[r].expires_at
      BY <2>7 DEF CancelExpired, IsExpired
    <3>2. k = r
      BY <1>1, <2>1, <3>1
    <3> QED
      BY <1>1, <3>1, <3>2
  <2> QED
    BY <2>4, <2>5, <2>6, <2>7
<1> QED
  BY <1>2, <1>3, <1>4, RoundChanges

\* A round that is finalized stays so, at its time.
LEMMA FinalizedAtStays ==
    ASSUME ProgramInv, [Next]_vars, NEW k \in RoundKeys, NEW t, FinalizedAt(k, t)
    PROVE  FinalizedAt(k, t)'
BY FinalizedStays DEF FinalizedAt

\* No transaction takes a quorum away.
LEMMA QuorumStays ==
    ASSUME ProgramInv, [Next]_vars
    PROVE  /\ now \in Nat /\ now' \in Nat /\ now' >= now
           /\ Quorum => Quorum'
<1>1. [RegistryNext]_clockedRegistryVars /\ RegistryInv
  BY NextDrivesRegistry DEF ProgramInv
<1>2. threshold \in Nat /\ now \in Nat
  BY <1>1, SlotAssumption DEF RegistryInv, RegistryTypeOK
<1> QED
  BY <1>1, <1>2, RegistryMonotone DEF Quorum

LEMMA AbsentRoundsStayEmpty ==
    ASSUME ProgramInv, [Next]_vars, AbsentRoundsEmpty
    PROVE  AbsentRoundsEmpty'
<1> SUFFICES ASSUME NEW k \in RoundKeys, pending'[k].status = "absent"
             PROVE  pending'[k] = NoPending
  BY DEF AbsentRoundsEmpty
<1>1. pending[k] \in PendingUpdate
  BY DEF ProgramInv, FeedsTyped
<1>2. ASSUME RoundProposed(k) PROVE FALSE
  <2>1. PICK p, a, t, i :
           pending'[k] = [status |-> "open", params |-> p, proposer |-> a, expires_at |-> t,
                          confirmation_count |-> 1, confirmations |-> {i}, finalized_at |-> 0]
    BY <1>2, Zenon DEF RoundProposed
  <2>2. pending'[k].status = "open"
    BY <2>1
  <2> QED
    BY <2>2
<1>3. ~RoundConfirmed(k)
  BY <1>1, ConfirmationFields DEF RoundConfirmed
<1>4. ASSUME RoundFinalized(k) PROVE FALSE
  <2>1. PICK i \in Slots :
           pending'[k] = [AddConfirmation(pending[k], i)
                             EXCEPT !.status = "finalized", !.finalized_at = now]
    BY <1>4 DEF RoundFinalized
  <2>2. AddConfirmation(pending[k], i) \in PendingUpdate
    BY <1>1, ConfirmationFields
  <2> QED
    BY <2>1, <2>2 DEF PendingUpdate
<1> QED
  BY <1>2, <1>3, <1>4, RoundChanges DEF AbsentRoundsEmpty, RoundDropped

\* What is on the terminal stays sound whatever lands on the chain.
LEMMA TerminalStaysSound ==
    ASSUME CliInv, [Next]_vars, UNCHANGED cliVars
    PROVE  CliInv'
<1>1. ProgramInv /\ ProgramInv'
  BY ProgramStepKeeps DEF CliInv
<1>2. seen' = seen /\ session' = session /\ report' = report
  BY DEF cliVars
<1>3. (Quorum => Quorum') /\ now \in Nat /\ now' \in Nat /\ now' >= now
  BY <1>1, QuorumStays
<1>4. \A l \in Lsts, r \in Rounds : \A t : FinalizedAt(<<l, r>>, t) => FinalizedAt(<<l, r>>, t)'
  BY <1>1, FinalizedAtStays DEF RoundKeys
<1>5. ASSUME NEW l \in Lsts, NEW feed, FeedExplained(l, feed)
      PROVE  FeedExplained(l, feed)'
  BY <1>4, <1>5 DEF FeedExplained
<1>6. ASSUME NEW l \in Lsts, NEW round, NEW feed, NEW read, RoundExplained(l, round, feed, read)
      PROVE  RoundExplained(l, round, feed, read)'
  BY <1>4, <1>6 DEF RoundExplained
<1>7. ASSUME NEW s \in session PROVE SessionSound(s)'
  <2>1. SessionSound(s) /\ s.lst \in Lsts
    BY DEF CliInv, SessionSound, IsSession
  <2> QED
    BY <1>3, <1>5, <1>6, <2>1 DEF SessionSound, IsSession
<1>8. ASSUME NEW rep \in report PROVE ReportSound(rep)'
  <2>1. ReportSound(rep)
    BY DEF CliInv
  <2> QED
    BY <1>3, <1>6, <2>1 DEF ReportSound
<1>9. ASSUME NEW s \in seen PROVE SeenSound(s)'
  <2>1. SeenSound(s)
    BY DEF CliInv
  <2>2. CASE now' < s.expires_at
    <3>1. /\ s.key \in RoundKeys /\ pending[s.key].status # "absent"
          /\ pending[s.key].params = s.params
          /\ pending[s.key].expires_at = s.expires_at
          /\ now < pending[s.key].expires_at
      BY <1>3, <2>1, <2>2 DEF SeenSound
    <3>2. /\ pending'[s.key].status # "absent"
          /\ pending'[s.key].params = s.params
          /\ pending'[s.key].expires_at = s.expires_at
      BY <1>1, <3>1, ShownRoundStays
    <3> QED
      BY <2>1, <3>2 DEF SeenSound
  <2>3. CASE ~(now' < s.expires_at)
    BY <2>1, <2>3 DEF SeenSound
  <2> QED
    BY <2>2, <2>3
<1>10. AbsentRoundsEmpty'
  BY AbsentRoundsStayEmpty DEF CliInv
<1> QED
  BY <1>1, <1>2, <1>7, <1>8, <1>9, <1>10 DEF CliInv

-----------------------------------------------------------------------------
(* What the reading commands put on the terminal. *)

\* Nothing blocks only with a quorum.
LEMMA NoBlockerMeansQuorum ==
    ASSUME RegistryTypeOK, RegistryBlockers = {}
    PROVE  Quorum
<1>1. threshold \in Nat /\ attester_count \in Nat
  BY SlotAssumption DEF RegistryTypeOK
<1>2. /\ Blocker(threshold < 2, "threshold below 2") = {}
      /\ Blocker(attester_count < threshold, "too few attesters") = {}
  BY DEF RegistryBlockers
<1>3. ~(threshold < 2) /\ ~(attester_count < threshold)
  BY <1>2 DEF Blocker
<1> QED
  BY <1>1, <1>3 DEF Quorum

\* A value of an attester, not of the authority, is that of a finalized round.
LEMMA FetchedFeedExplained ==
    ASSUME ProgramInv, NEW l \in Lsts, FetchableFeed(l)
    PROVE  FeedExplained(l, FetchFeed(l))
<1> SUFFICES ASSUME NEW f \in FetchFeed(l), f.attested
             PROVE  \E r \in Rounds : FinalizedAt(<<l, r>>, f.timestamp)
  BY DEF FeedExplained
<1>1. /\ f.timestamp = oracle[l].timestamp
      /\ oracle[l].last_updater # oracle[l].authority
  <2> DEFINE attested == oracle[l].last_updater # oracle[l].authority
  <2>1. f = [timestamp |-> oracle[l].timestamp, update_mode |-> oracle[l].update_mode,
             attested |-> attested]
    BY DEF FetchFeed
  <2> HIDE DEF attested
  <2>2. f.timestamp = oracle[l].timestamp /\ f.attested = attested
    BY <2>1
  <2> QED
    BY <2>2 DEF attested
<1>2. oracle[l] \in RiskState /\ FeedSound(l)
  BY DEF ProgramInv, FeedsTyped, FeedsSound
<1>3. IsMultiAttester(l)
  BY <1>1, <1>2 DEF FeedSound, RiskState, IsMultiAttester
<1> QED
  BY <1>1, <1>3 DEF ProgramInv, CanonicalValueAttested, FinalizedAt

\* Read after the feed, an open round is not the one the feed's value is from.
LEMMA FetchedRoundExplained ==
    ASSUME NEW l \in Lsts, NEW round, NEW feed, FeedExplained(l, feed)
    PROVE  /\ RoundExplained(l, round, feed, FetchRound(<<l, round>>))
           /\ RoundExplained(l, round, feed, {})
<1>1. ASSUME NEW p \in FetchRound(<<l, round>>), ~p.is_finalized
      PROVE  pending[<<l, round>>].status # "finalized"
  <2> DEFINE finalized == pending[<<l, round>>].status = "finalized"
  <2>1. p = [expires_at |-> pending[<<l, round>>].expires_at, is_finalized |-> finalized]
    BY DEF FetchRound
  <2> HIDE DEF finalized
  <2>2. p.is_finalized = finalized
    BY <2>1
  <2> QED
    BY <1>1, <2>2 DEF finalized
<1> QED
  BY <1>1 DEF FeedExplained, RoundExplained, FinalizedAt

\* A session whose next answer has arrived.
Answered(s, feed, read, found) ==
    [lst |-> s.lst, round |-> s.round, flagged |-> s.flagged, reads |-> s.reads,
     feed |-> feed, pending |-> read, blockers |-> found]

Counted(s) == [s EXCEPT !.reads = @ + 1]

LEMMA CountedRead ==
    ASSUME NEW s, s.lst \in Lsts, s.reads \in 0..2, NEW feed, NEW read, NEW found,
           NEW t, t = Counted(Answered(s, feed, read, found))
    PROVE  /\ IsSession(t) /\ t.reads = s.reads + 1 /\ t.lst = s.lst /\ t.round = s.round
           /\ t.feed = feed /\ t.pending = read /\ t.blockers = found
<1>1. t = [lst |-> s.lst, round |-> s.round, flagged |-> s.flagged, reads |-> s.reads + 1,
           feed |-> feed, pending |-> read, blockers |-> found]
  BY DEF Answered, Counted
<1>2. /\ t.reads = s.reads + 1 /\ t.lst = s.lst /\ t.round = s.round /\ t.flagged = s.flagged
      /\ t.feed = feed /\ t.pending = read /\ t.blockers = found
  BY <1>1
<1>3. t = [lst |-> t.lst, round |-> t.round, flagged |-> t.flagged, reads |-> t.reads,
           feed |-> t.feed, pending |-> t.pending, blockers |-> t.blockers]
  BY <1>1, <1>2
<1>4. t.reads \in 0..3 /\ t.lst \in Lsts
  BY <1>2
<1> QED
  BY <1>2, <1>3, <1>4 DEF IsSession

\* The three reads, one after the other.
LEMMA ReadsAre ==
    ASSUME NEW s, IsSession(s), s.reads < Len(ReadOrder),
           NEW t, t = Counted(Read(s, ReadOrder[s.reads + 1]))
    PROVE  /\ s.reads \in 0..2 /\ t.reads = s.reads + 1
           /\ IsSession(t) /\ t.lst = s.lst /\ t.round = s.round
           /\ s.reads = 0 => /\ ReadOrder[s.reads + 1] = "feed"
                             /\ t.feed = FetchFeed(s.lst)
                             /\ t.pending = s.pending /\ t.blockers = s.blockers
           /\ s.reads = 1 => /\ t.blockers = RegistryBlockers
                             /\ t.feed = s.feed /\ t.pending = s.pending
           /\ s.reads = 2 => /\ t.blockers = s.blockers \cup FeedBlockers(s.feed)
                             /\ t.feed = s.feed
                             /\ t.pending \in {FetchRound(<<s.lst, s.round>>), {}}
<1>1. s.reads \in 0..2 /\ s.lst \in Lsts
  BY DEF IsSession, ReadOrder
<1>2. /\ ReadOrder[1] = "feed" /\ ReadOrder[2] = "registry" /\ ReadOrder[3] = "round"
  BY DEF ReadOrder
<1>3. s = [lst |-> s.lst, round |-> s.round, flagged |-> s.flagged, reads |-> s.reads,
           feed |-> s.feed, pending |-> s.pending, blockers |-> s.blockers]
  BY DEF IsSession
<1>4. CASE s.reads = 0
  <2>1. ReadOrder[s.reads + 1] = "feed"
    BY <1>2, <1>4
  <2>2. Read(s, "feed") = [s EXCEPT !.feed = FetchFeed(s.lst)]
    BY DEF Read
  <2>3. Read(s, "feed") = Answered(s, FetchFeed(s.lst), s.pending, s.blockers)
    BY <1>3, <2>2 DEF Answered
  <2>4. t = Counted(Answered(s, FetchFeed(s.lst), s.pending, s.blockers))
    BY <2>1, <2>3
  <2>5. /\ IsSession(t) /\ t.reads = s.reads + 1 /\ t.lst = s.lst /\ t.round = s.round
        /\ t.feed = FetchFeed(s.lst) /\ t.pending = s.pending /\ t.blockers = s.blockers
    BY <1>1, <2>4, CountedRead
  <2> QED
    BY <1>1, <1>4, <2>1, <2>5
<1>5. CASE s.reads = 1
  <2>1. ReadOrder[s.reads + 1] = "registry"
    BY <1>2, <1>5
  <2>2. Read(s, "registry") = [s EXCEPT !.blockers = RegistryBlockers]
    BY DEF Read
  <2>3. Read(s, "registry") = Answered(s, s.feed, s.pending, RegistryBlockers)
    BY <1>3, <2>2 DEF Answered
  <2>4. t = Counted(Answered(s, s.feed, s.pending, RegistryBlockers))
    BY <2>1, <2>3
  <2>5. /\ IsSession(t) /\ t.reads = s.reads + 1 /\ t.lst = s.lst /\ t.round = s.round
        /\ t.feed = s.feed /\ t.pending = s.pending /\ t.blockers = RegistryBlockers
    BY <1>1, <2>4, CountedRead
  <2> QED
    BY <1>1, <1>5, <2>5
<1>6. CASE s.reads = 2
  <2> DEFINE read == IF s.flagged THEN FetchRound(<<s.lst, s.round>>) ELSE {}
             found == s.blockers \cup FeedBlockers(s.feed)
  <2>1. ReadOrder[s.reads + 1] = "round"
    BY <1>2, <1>6
  <2>2. Read(s, "round") = [s EXCEPT !.blockers = found, !.pending = read]
    BY DEF Read
  <2>3. read \in {FetchRound(<<s.lst, s.round>>), {}}
    OBVIOUS
  <2>4. found = s.blockers \cup FeedBlockers(s.feed)
    OBVIOUS
  <2> HIDE DEF read, found
  <2>5. Read(s, "round") = Answered(s, s.feed, read, found)
    BY <1>3, <2>2 DEF Answered
  <2>6. t = Counted(Answered(s, s.feed, read, found))
    BY <2>1, <2>5
  <2>7. /\ IsSession(t) /\ t.reads = s.reads + 1 /\ t.lst = s.lst /\ t.round = s.round
        /\ t.feed = s.feed /\ t.pending = read /\ t.blockers = found
    BY <1>1, <2>6, CountedRead
  <2> QED
    BY <1>1, <1>6, <2>3, <2>4, <2>7
<1> QED
  BY <1>1, <1>4, <1>5, <1>6

\* A read keeps the session sound: what it found is still true after it.
LEMMA ReadKeepsSound ==
    ASSUME CliInv, MultiStatusReads
    PROVE  \A t \in session' : SessionSound(t)
<1>1. PICK s \in session :
         /\ s.reads < Len(ReadOrder)
         /\ ReadOrder[s.reads + 1] = "feed" => FetchableFeed(s.lst)
         /\ session' = {[Read(s, ReadOrder[s.reads + 1]) EXCEPT !.reads = @ + 1]}
  BY DEF MultiStatusReads
<1> DEFINE t == [Read(s, ReadOrder[s.reads + 1]) EXCEPT !.reads = @ + 1]
<1>2. SessionSound(s) /\ IsSession(s) /\ s.lst \in Lsts
  BY DEF CliInv, SessionSound, IsSession
<1>3. /\ s.reads \in 0..2 /\ t.reads = s.reads + 1
      /\ IsSession(t) /\ t.lst = s.lst /\ t.round = s.round
      /\ s.reads = 0 => /\ ReadOrder[s.reads + 1] = "feed"
                        /\ t.feed = FetchFeed(s.lst)
                        /\ t.pending = s.pending /\ t.blockers = s.blockers
      /\ s.reads = 1 => /\ t.blockers = RegistryBlockers
                        /\ t.feed = s.feed /\ t.pending = s.pending
      /\ s.reads = 2 => /\ t.blockers = s.blockers \cup FeedBlockers(s.feed)
                        /\ t.feed = s.feed
                        /\ t.pending \in {FetchRound(<<s.lst, s.round>>), {}}
  <2>1. t = Counted(Read(s, ReadOrder[s.reads + 1]))
    BY DEF Counted
  <2> HIDE DEF t
  <2> QED
    BY <1>1, <1>2, <2>1, ReadsAre
<1> HIDE DEF t
<1>4. t.reads >= 2 /\ t.blockers = {} => Quorum
  BY <1>2, <1>3, NoBlockerMeansQuorum DEF SessionSound, CliInv, ProgramInv, RegistryInv
<1>5. FeedExplained(t.lst, t.feed)
  BY <1>1, <1>2, <1>3, FetchedFeedExplained DEF SessionSound, CliInv
<1>6. RoundExplained(t.lst, t.round, t.feed, t.pending)
  <2>1. CASE s.reads = 0
    <3>1. s.pending = {}
      BY <1>2, <2>1 DEF SessionSound
    <3> QED
      BY <1>3, <2>1, <3>1 DEF RoundExplained
  <2>2. CASE s.reads = 1
    BY <1>2, <1>3, <2>2 DEF SessionSound
  <2>3. CASE s.reads = 2
    BY <1>2, <1>3, <1>5, <2>3, FetchedRoundExplained
  <2> QED
    BY <1>3, <2>1, <2>2, <2>3
<1>7. t.reads = 0 => t.pending = {}
  BY <1>3
<1>8. SessionSound(t)
  BY <1>3, <1>4, <1>5, <1>6, <1>7 DEF SessionSound
<1> QED
  BY <1>1, <1>8 DEF t

\* The reading commands keep what is on the terminal sound.
LEMMA ReadingKeepsSound ==
    ASSUME CliInv, ReadingCommand, UNCHANGED vars
    PROVE  CliInv'
<1>1. /\ ProgramInv' /\ UNCHANGED <<now, threshold, attester_count, pending>>
      /\ pending \in [RoundKeys -> PendingUpdate]
  BY ProgramStepKeeps DEF CliInv, vars, oracleVars, clockedRegistryVars, registryVars, ProgramInv,
     FeedsTyped
<1>2. /\ \A s : SessionSound(s) => SessionSound(s)'
      /\ \A rep : ReportSound(rep) => ReportSound(rep)'
      /\ \A s : SeenSound(s) => SeenSound(s)'
  BY <1>1 DEF SessionSound, ReportSound, SeenSound, IsSession, FeedExplained, RoundExplained,
     FinalizedAt, Quorum
<1>3. /\ \A s \in session : SessionSound(s)
      /\ \A rep \in report : ReportSound(rep)
      /\ \A s \in seen : SeenSound(s)
  BY DEF CliInv
<1>4. /\ \A s \in session' : SessionSound(s)
      /\ \A rep \in report' : ReportSound(rep)
      /\ \A s \in seen' : SeenSound(s)
  <2>1. ASSUME NEW a \in Reviewers, NEW k \in RoundKeys, Pending(a, k)
        PROVE  /\ session' = {} /\ report' = {}
               /\ \A s \in seen' : SeenSound(s)
    <3>1. session' = {} /\ report' = {}
      BY <2>1 DEF Pending
    <3>2. ASSUME NEW s \in seen' PROVE SeenSound(s)
      <4>1. /\ s.key = k /\ s.params = pending[k].params
            /\ s.expires_at = pending[k].expires_at /\ pending[k] # NoPending
        BY <2>1 DEF Pending
      <4>2. pending[k] \in PendingUpdate /\ pending[k].expires_at \in Nat
        BY <1>1 DEF PendingUpdate
      <4>3. now < pending[k].expires_at => pending[k].status # "absent"
        BY <4>1 DEF CliInv, AbsentRoundsEmpty
      <4> QED
        BY <4>1, <4>2, <4>3 DEF SeenSound
    <3> QED
      BY <3>1, <3>2
  <2>2. ASSUME NEW l \in Watched, NEW r \in Rounds, NEW flagged \in BOOLEAN,
               MultiStatus(l, r, flagged)
        PROVE  seen' = {} /\ report' = {} /\ \A s \in session' : SessionSound(s)
    <3>1. seen' = {} /\ report' = {} /\ l \in Lsts
      BY <2>2, CliAssumption DEF MultiStatus
    <3>2. ASSUME NEW s \in session' PROVE SessionSound(s)
      <4>1. s = [lst |-> l, round |-> r, flagged |-> flagged, reads |-> 0,
                 feed |-> {}, pending |-> {}, blockers |-> {}]
        BY <2>2 DEF MultiStatus
      <4> QED
        BY <3>1, <4>1 DEF SessionSound, IsSession, FeedExplained, RoundExplained
    <3> QED
      BY <3>1, <3>2
  <2>3. CASE MultiStatusReads
    BY <1>3, <2>3, ReadKeepsSound DEF MultiStatusReads
  <2>4. CASE MultiStatusPrints
    <3>1. PICK s \in session :
             /\ s.reads = Len(ReadOrder)
             /\ report' = {[lst |-> s.lst, round |-> s.round, feed |-> s.feed,
                            pending |-> s.pending,
                            ready |-> s.blockers = {} /\ ~IsExpiredUnfinalized(s.pending)]}
             /\ session' = {} /\ seen' = seen
      BY <2>4 DEF MultiStatusPrints
    <3>2. SessionSound(s) /\ s.lst \in Lsts /\ s.reads = 3
      BY <1>3, <3>1 DEF SessionSound, IsSession, ReadOrder
    <3>3. ASSUME NEW rep \in report' PROVE ReportSound(rep)
      <4> DEFINE verdict == s.blockers = {} /\ ~IsExpiredUnfinalized(s.pending)
      <4>1. rep = [lst |-> s.lst, round |-> s.round, feed |-> s.feed,
                   pending |-> s.pending, ready |-> verdict]
        BY <3>1, <3>3
      <4>2. verdict => s.blockers = {}
        OBVIOUS
      <4> HIDE DEF verdict
      <4>3. /\ rep.lst = s.lst /\ rep.round = s.round /\ rep.feed = s.feed
            /\ rep.pending = s.pending
        BY <4>1
      <4>4. rep.ready = verdict
        BY <4>1
      <4>5. s.blockers = {} => Quorum
        BY <3>2 DEF SessionSound
      <4>6. rep.ready => Quorum
        BY <4>2, <4>4, <4>5, Zenon
      <4>7. RoundExplained(rep.lst, rep.round, rep.feed, rep.pending)
        BY <3>2, <4>3 DEF SessionSound
      <4> QED
        BY <3>2, <4>3, <4>6, <4>7 DEF ReportSound
    <3> QED
      BY <1>3, <3>1, <3>3
  <2>5. CASE MultiStatusFails
    BY <1>3, <2>5 DEF MultiStatusFails
  <2> QED
    BY <2>1, <2>2, <2>3, <2>4, <2>5 DEF ReadingCommand
<1>5. AbsentRoundsEmpty'
  BY <1>1 DEF CliInv, AbsentRoundsEmpty
<1> QED
  BY <1>1, <1>2, <1>4, <1>5 DEF CliInv

-----------------------------------------------------------------------------
(* Theorems. *)

\* The inductive invariant of the command line beside the program.
THEOREM CliInvariant == CliSpec => []CliInv
<1>1. CliInit(Init) => CliInv
  <2> SUFFICES ASSUME CliInit(Init) PROVE CliInv
    OBVIOUS
  <2>1. Init /\ seen = {} /\ session = {} /\ report = {}
    BY DEF CliInit
  <2>2. ProgramInv
    BY <2>1, InitEstablishes
  <2>3. AbsentRoundsEmpty
    BY <2>1 DEF Init, AbsentRoundsEmpty
  <2> QED
    BY <2>1, <2>2, <2>3 DEF CliInv
<1>2. CliInv /\ [CliNext]_cliAllVars => CliInv'
  <2> SUFFICES ASSUME CliInv, [CliNext]_cliAllVars PROVE CliInv'
    OBVIOUS
  <2>1. CASE UNCHANGED cliAllVars
    BY <2>1, TerminalStaysSound DEF cliAllVars
  <2>2. CASE CliNext
    BY <2>2, CommandIsClient, TerminalStaysSound, ReadingKeepsSound
  <2> QED
    BY <2>1, <2>2
<1> QED
  BY <1>1, <1>2, PTL DEF CliSpec

\* "ready" on the terminal means a quorum, for as long as it stands there, whoever
\* left between the reads or leaves after them.
THEOREM ReadyStaysTrue == CliSpec => []ReadyMeansQuorum
<1>1. CliInv => ReadyMeansQuorum
  <2> SUFFICES ASSUME CliInv, NEW rep \in report, rep.ready
               PROVE  /\ threshold >= 2
                      /\ Cardinality({attesters[i].pubkey : i \in ActiveSlots}) >= threshold
    BY DEF ReadyMeansQuorum
  <2>1. Quorum
    BY DEF CliInv, ReportSound
  <2>2. Cardinality(Members) = attester_count
    BY InvariantMaps DEF CliInv, ProgramInv
  <2> QED
    BY <2>1, <2>2 DEF Quorum, Members
<1> QED
  BY <1>1, CliInvariant, PTL

\* The feed and the round of a report fit together, whatever landed in between.
THEOREM ReportsFit == CliSpec => []ReportNotTorn
<1>1. CliInv => ReportNotTorn
  BY DEF CliInv, ReportSound, RoundExplained, FinalizedAt, ReportNotTorn
<1> QED
  BY <1>1, CliInvariant, PTL

\* Until the round expires, confirm's round id stands for the parameters that
\* pending showed: nobody puts others under it.
THEOREM ConfirmationsAreInformed == CliSpec => ConfirmsWhatItSaw
<1>1. CliInv => [\A s \in seen :
                    /\ s.by \in signers'[s.key] \ signers[s.key]
                    /\ pending[s.key].status = "open"
                    /\ now < s.expires_at
                    => pending[s.key].params = s.params]_cliAllVars
  BY DEF CliInv, SeenSound
<1> QED
  BY <1>1, CliInvariant, PTL DEF CliSpec, ConfirmsWhatItSaw

=============================================================================
