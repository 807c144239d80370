---------------------------- MODULE OperatorCli ----------------------------
(***************************************************************************)
(* The operators' command line, cli/src, and the updater's one-shot        *)
(* scripts, as the clients of the risk-oracle program.  A command that     *)
(* sends a transaction is one action: it converts its arguments and the    *)
(* instruction does the rest, or the command fails and nothing changes.    *)
(* A transaction that lands although the command reports an error is the   *)
(* same step; running the command again is another.                        *)
(*                                                                         *)
(* A command that reads several accounts reads them one after the other,   *)
(* with any number of transactions in between: multi-status takes a step   *)
(* per read.  pending is modelled for what its reader does next, confirm.  *)
(* The other reading commands print one account, or what is in a file.     *)
(* The operators' clock and the chain's are one.  No client sends           *)
(* close_expired_dispute or migrate_risk_state: they are not here.          *)
(***************************************************************************)
EXTENDS RiskOracle, Sequences

CONSTANTS
    Reviewers,             \* attesters who look at a round before they confirm it
    Watched,               \* feeds whose multi-status is asked for
    Suspects,              \* attesters named in dispute commands
    Files,                 \* payload files, and the same values given as flags
    PRECISION,             \* steps of a file's numbers per unit stored on chain
    MAX_STALENESS_SECS     \* decodeRiskState's freshness limit

File == [lst_id : Lsts, theta : Int, sigma : Int, regime_flag : Nat, suggested_ltv : Int]

ASSUME CliAssumption ==
    /\ Reviewers \subseteq Attesters
    /\ Watched \subseteq Lsts
    /\ Suspects \subseteq Attesters
    /\ Files \subseteq File
    /\ PRECISION \in Nat \ {0}
    /\ MAX_STALENESS_SECS \in Nat

\* What is on one operator's terminal, each at most one: a command replaces the
\* output of the one before.
VARIABLES
    seen,       \* the round that pending showed, and to whom
    session,    \* the multi-status command that is running
    report      \* what multi-status printed

cliVars == <<seen, session, report>>
cliAllVars == <<vars, cliVars>>

-----------------------------------------------------------------------------
(* Arguments. *)

\* Math.round of a file's number in units of the chain.
Rounded(x) == (2 * x + PRECISION) \div (2 * PRECISION)

ToScaled(x) == Rounded(x)

ToLtvBps(x) ==
    Rounded(IF x < 0 THEN 0 ELSE IF x > MAX_LTV_BPS * PRECISION THEN MAX_LTV_BPS * PRECISION ELSE x)

\* A positive sigma below half a unit becomes 0, which the program refuses; an
\* LTV out of range is clamped, so the program never sees it.
ParamsOf(file) ==
    [theta_scaled |-> ToScaled(file.theta), sigma_scaled |-> ToScaled(file.sigma),
     regime_flag |-> file.regime_flag, suggested_ltv_bps |-> ToLtvBps(file.suggested_ltv)]

\* What RiskOracle calls the submitted payloads is what the clients make of the files.
ASSUME FilesAssumption == \A file \in Files : ParamsOf(file) \in Payloads

\* A flag followed by another word takes it as its value, and then it is not
\* the boolean flag: "--reject yes" slashes.
SlashUnless(reject) == reject # "bare"

-----------------------------------------------------------------------------
(* Accounts as the reading commands show them. *)

\* An account that does not exist is null; an account of the old layout does
\* not decode, an error that ends the command.
FetchableFeed(l) == oracle[l].status # "legacy"

IsFeedOld(s) == s.timestamp = 0 \/ now - s.timestamp > MAX_STALENESS_SECS

FetchFeed(l) ==
    {[timestamp |-> s.timestamp, update_mode |-> s.update_mode,
      attested |-> s.last_updater # s.authority] : s \in {oracle[l]} \ {NoOracle}}

FetchRound(k) ==
    {[expires_at |-> p.expires_at, is_finalized |-> p.status = "finalized"] :
        p \in {pending[k]} \ {NoPending}}

Blocker(holds, name) == IF holds THEN {name} ELSE {}

FeedBlockers(feed) ==
    Blocker(feed = {}, "risk state missing") \cup
    UNION {Blocker(s.update_mode # 1, "single mode") \cup Blocker(IsFeedOld(s), "stale") :
              s \in feed}

\* decodeRegistry drops the slots that are not active.
RegistryBlockers ==
    IF threshold = 0 THEN {"registry missing"}
    ELSE Blocker(threshold < 2, "threshold below 2") \cup
         Blocker(attester_count < threshold, "too few attesters") \cup
         Blocker(Cardinality({i \in ActiveSlots : attesters[i].bond >= min_bond}) < threshold,
                 "too few bonds") \cup
         Blocker(total_bonded < min_bond * threshold, "too little bonded")

IsExpiredUnfinalized(round) ==
    \E p \in round : ~p.is_finalized /\ p.expires_at <= now

-----------------------------------------------------------------------------
(* Commands that send a transaction.  cancel and resolve first read whom to
   refund or where to send a slash; the program refuses anybody else. *)

CliInit(chain) ==
    /\ chain
    /\ seen = {}
    /\ session = {}
    /\ report = {}

InitOracle(l, auth)      == InitializeOracle(l, auth) /\ UNCHANGED cliVars
InitRegistry(m, minimum) == InitializeRegistry(m, minimum) /\ UNCHANGED <<oracleVars, cliVars>>
EnableMulti(l)           == EnableMultiAttester(l) /\ UNCHANGED cliVars
Register(a, bond)        == RegisterAttester(a, bond) /\ UNCHANGED <<oracleVars, cliVars>>
Unregister(a)            == InitiateUnregister(a) /\ UNCHANGED <<oracleVars, cliVars>>
Withdraw(a)              == WithdrawBond(a) /\ UNCHANGED <<oracleVars, cliVars>>
Submit(file)             == UpdateRiskState(file.lst_id, ParamsOf(file)) /\ UNCHANGED cliVars
Cancel(k)                == CancelExpired(k) /\ UNCHANGED cliVars
Dispute(k, a)            == DisputeUpdate(k, a) /\ UNCHANGED cliVars
Resolve(k, a, reject)    == ResolveDispute(k, a, SlashUnless(reject)) /\ UNCHANGED cliVars

Propose(a, r, file) ==
    ProposeUpdate(a, <<file.lst_id, r>>, ParamsOf(file)) /\ UNCHANGED cliVars

\* The command names the round, not the parameters the attester looked at.
Confirm(a, k) == ConfirmUpdate(a, k) /\ UNCHANGED cliVars

\* init_oracle.ts takes the authority from the environment; whoever runs it pays.
InitOracleScript(l, auth) == InitializeOracle(l, auth) /\ UNCHANGED cliVars

\* close.ts does nothing for an account that is already gone.
CloseScript(l) == CloseOracle(l) /\ UNCHANGED cliVars

-----------------------------------------------------------------------------
(* Commands that read. *)

Pending(a, k) ==
    /\ seen' = {[by |-> a, key |-> k, params |-> p.params, expires_at |-> p.expires_at] :
                   p \in {pending[k]} \ {NoPending}}
    /\ session' = {}
    /\ report' = {}
    /\ UNCHANGED vars

\* The round is only read when --round names one.
MultiStatus(l, r, flagged) ==
    /\ session = {}
    /\ session' = {[lst |-> l, round |-> r, flagged |-> flagged, reads |-> 0,
                    feed |-> {}, pending |-> {}, blockers |-> {}]}
    /\ seen' = {}
    /\ report' = {}
    /\ UNCHANGED vars

SlipReadOrder == <<"round", "registry", "feed">>

\* The order in which the accounts are awaited.
ReadOrder == <<"feed", "registry", "round">>

\* Whether the feed is old is decided before the round is read.
Read(s, what) ==
    CASE what = "feed"     -> [s EXCEPT !.feed = FetchFeed(s.lst)]
      [] what = "registry" -> [s EXCEPT !.blockers = RegistryBlockers]
      [] what = "round"    -> [s EXCEPT
            !.blockers = @ \cup FeedBlockers(s.feed),
            !.pending = IF s.flagged THEN FetchRound(<<s.lst, s.round>>) ELSE {}]

MultiStatusReads ==
    \E s \in session :
        /\ s.reads < Len(ReadOrder)
        /\ ReadOrder[s.reads + 1] = "feed" => FetchableFeed(s.lst)
        /\ session' = {[Read(s, ReadOrder[s.reads + 1]) EXCEPT !.reads = @ + 1]}
        /\ UNCHANGED <<vars, seen, report>>

\* The verdict is computed when the last answer has arrived.
MultiStatusPrints ==
    \E s \in session :
        /\ s.reads = Len(ReadOrder)
        /\ report' = {[lst |-> s.lst, round |-> s.round, feed |-> s.feed, pending |-> s.pending,
                       ready |-> s.blockers = {} /\ ~IsExpiredUnfinalized(s.pending)]}
        /\ session' = {}
        /\ UNCHANGED <<vars, seen>>

\* A read fails for another reason than a missing account.
MultiStatusFails ==
    /\ session # {}
    /\ session' = {}
    /\ UNCHANGED <<vars, seen, report>>

-----------------------------------------------------------------------------
(* The dispatch on the command's name. *)

AdminCommand ==
    \/ \E l \in Lsts, auth \in Authorities : InitOracle(l, auth) \/ InitOracleScript(l, auth)
    \/ \E m \in ThresholdArgs, minimum \in MinBondArgs : InitRegistry(m, minimum)
    \/ \E l \in Lsts : EnableMulti(l) \/ CloseScript(l)
    \/ \E file \in Files : Submit(file)

AttesterCommand ==
    \E a \in Attesters :
        \/ \E bond \in BondArgs : Register(a, bond)
        \/ Unregister(a)
        \/ Withdraw(a)
        \/ \E r \in Rounds, file \in Files : Propose(a, r, file)
        \/ \E k \in RoundKeys : Confirm(a, k)

DisputeCommand ==
    \E k \in RoundKeys, a \in Suspects :
        \/ Dispute(k, a)
        \/ \E reject \in {"absent", "bare", "valued"} : Resolve(k, a, reject)

ReadingCommand ==
    \/ \E a \in Reviewers, k \in RoundKeys : Pending(a, k)
    \/ \E l \in Watched, r \in Rounds, flagged \in BOOLEAN : MultiStatus(l, r, flagged)
    \/ MultiStatusReads
    \/ MultiStatusPrints
    \/ MultiStatusFails

CliNext ==
    \/ AdminCommand
    \/ AttesterCommand
    \/ DisputeCommand
    \/ ReadingCommand
    \/ \E k \in RoundKeys : Cancel(k)
    \/ Tick /\ UNCHANGED <<oracleVars, cliVars>>

CliSpec == CliInit(Init) /\ [][CliNext]_cliAllVars

-----------------------------------------------------------------------------
(* Properties. *)

\* The operators' gate is sound although it judges accounts read at different
\* times: once multi-status has printed "ready", the registry has a threshold of
\* at least two and that many attesters with different keys, then and for good,
\* whoever leaves between its reads or after them.
ReadyMeansQuorum ==
    \A rep \in report : rep.ready =>
        /\ threshold >= 2
        /\ Cardinality({attesters[i].pubkey : i \in ActiveSlots}) >= threshold

\* The feed is read before the round, so the two fit together: an attested value
\* is never printed beside the round it came from as still open.
ReportNotTorn ==
    \A rep \in report : \A s \in rep.feed, p \in rep.pending :
        s.attested /\ ~p.is_finalized =>
            \E r \in Rounds \ {rep.round} :
                LET other == pending[<<rep.lst, r>>] IN
                /\ other.status = "finalized"
                /\ other.finalized_at = s.timestamp

\* A confirmation names a round and not its parameters, yet until the round an
\* attester looked at expires, nothing else can be proposed under its id: what
\* it then confirms is what it saw.
ConfirmsWhatItSaw ==
    [][\A s \in seen :
          /\ s.by \in signers'[s.key] \ signers[s.key]
          /\ pending[s.key].status = "open"
          /\ now < s.expires_at
          => pending[s.key].params = s.params]_cliAllVars
=============================================================================
