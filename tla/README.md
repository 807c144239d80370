# PegShield in TLA+

PegShield publishes a risk feed for Solana liquid-staking tokens (LSTs): an off-chain
pipeline estimates parameters and a suggested loan-to-value (LTV) ratio, an on-chain
program stores them, lenders, tools and a website read them. This directory holds TLA+
modules that model the on-chain programs and the programs around them, TLC configurations
that check them on small instances, and TLAPS proofs of the results that hold for every
instance. `PROJECT.json` lists the components, the runs, the lines of source each
definition models, the hazards and the theorems.

Paths below are relative to `src/`; RO stands for
`solana-program/programs/risk-oracle/src` and ML for
`solana-program/programs/mock-lender/src/lib.rs`.

## 1. Inventory

### Components

| Component | State | Operations | What makes it correct |
|---|---|---|---|
| Attester registry (RO `state/attester_registry.rs`, `initialize_registry`, `register_attester`, `unregister_attester`) | one account: five slots with key, bond, timestamps, statistics; `attester_count`, `threshold`, `total_bonded`, `min_bond`; the account's lamports | initialize, register, initiate unregister, withdraw; slashed by `resolve_dispute`, credited by `confirm_update` | bonds equal lamports; the count equals the slots; one slot per attester; the threshold stays reachable; bonds stay locked for the cooldown |
| RiskState (RO `state/risk_state.rs`, `initialize_oracle`, `update_risk_state`, `close_oracle`, `migrate_risk_state`, `enable_multi_attester`) | one account per LST in one of two layouts, in single- or multi-attester mode | initialize, update by the authority, close, migrate, switch mode | only valid parameters are readable; in multi-attester mode only rounds write |
| Threshold rounds (RO `state/pending_update.rs`, `propose_update`, `confirm_update`, `cancel_expired`) | one account per LST and round id: parameters, bitmap, count, expiry, finalization | propose, confirm (and finalize), cancel | finalized on the threshold, before expiry, once; the published value is a finalized one |
| Disputes (RO `state/dispute_record.rs`, `dispute_update`, `resolve_dispute`, `close_expired_dispute`) | one record per LST, round and attester | file, resolve (and slash), close | at most one slash per round and attester; verdicts are final; a lapsed dispute is over |
| PegShield Gate (ML) | one policy per LST, one decision per borrower and LST | initialize policy, update policy, assess | the protocol's cap always holds; only a fresh healthy feed raises lending above the fallback |
| SDK (`sdk/src`), lending example (`examples/`) | none | decode, `isStale`, `isCritical`, `safeLtv`; one decision | the same account gets the same verdict as from the gate |
| Price bridge (`bridge/fetch_pyth.py`) | the cached history file | fetch rates and prices, extend or reuse the history | points in the window, in order, once; fallbacks are labelled |
| Risk engine (`core-engine/`) | none | regression, regime, LTV, haircuts | LTV in range; penalties only lower it |
| Updater (`updater/`) | none; reads the engine's files | submit one or all, close, init, read | one update per LST and cycle, reported as what happened |
| Workflow (`.github/workflows/oracle-updater.yml`, `scripts/`, `web/scripts/build-data.mjs`) | a checkout, artifacts on the main branch, the site's copy of them | per LST: restore cache, fetch, compute, sync, simulate, submit; then count, commit and push | what is committed and shown was published; the LSTs fail independently as far as intended; untrusted history is not submitted |
| Operator CLI (`cli/src`) | what is on the terminal | a command per instruction; `pending`, `multi-status`; `policy-proof`, `scenario-lab`, `snapshot-status` | a verdict from several reads is still true when it is printed |
| Web dashboard (`web/`) | the page's last response, the poll's timer, a clock of the card's own | poll, fall back to a snapshot, reload, hide and show | what is offered as usable is live, healthy and fresh; reading ends; the page recovers |
| Stress simulation (`simulation/stress_test.py`) | none | replay a path against two lending rules | its readers draw the same conclusions from its rows |

### Interactions

* `confirm_update` reads and writes three accounts in one transaction: the round, the
  feed and the registry. `resolve_dispute` writes the registry from a dispute record.
* A round stores slot **indices** of the registry; the registry reuses its slots. Every
  later reader of the bitmap (`confirm_update`, `dispute_update`) joins an old bitmap with
  today's registry.
* The gate, the SDK, the example, the dashboard and the reference consumer read `RiskState`
  without writing it, each with its own code for staleness and regime.
* The commands submit transactions, or read accounts one after the other while others
  submit transactions.
* The workflow chains bridge, engine, sync and updater through files; what it submits is
  public at once, what it writes only with the push at the end.
* The stress artifact passes through `build-data.mjs` to the chart, the stress card, the
  borrow demo and three commands, which derive their own statements from it.

### Hard behaviours

Transactions of independent signers in every order; accounts that are closed and created
again under the same address (rounds, disputes, feeds, registry slots); deadlines at which
two instructions race (expiry against the last confirmation, the dispute window against
the resolution deadline, the cooldown against everything else); counters kept beside the
data they count; parameters checked in one transaction and used in a later one; values
that grow stale between writer and reader; verdicts from reads that no transaction holds
together. Off chain: a runner killed between any two commands, a transaction that lands
without being confirmed, a push that loses a race, a fetch cancelled when its answer has
arrived, a clock that is refreshed more slowly than what it judges. The list with source
lines is `hazards` in `PROJECT.json`.

## 2. Modules

| Module | Role |
|---|---|
| `AttesterRegistry` | the registry as a state machine, one action per instruction, plus the clock |
| `BondEscrow` | abstract specification: a set of members with bonds, an escrow and a quorum; no slots, counters or clock |
| `AttesterRegistryRefinement` | the mapping under which the registry implements `BondEscrow` |
| `RiskOracle` | the whole program: `AttesterRegistry` composed with feeds, rounds and disputes |
| `ThresholdFeed` | abstract specification of a feed beside that escrow: one writer or ballots that a quorum of seats decides; no accounts, clock, counters or disputes |
| `RiskOracleRefinement` | the mapping under which the program implements `ThresholdFeed` |
| `BorrowGate` | the gate beside the whole risk-oracle program |
| `ConsumerPolicy` | the off-chain readers of an account, as operators over the gate's behaviours |
| `OperatorCli` | the commands as clients of the whole program |
| `UpdaterCycle` | workflow, updater, artifact sync and the site's data |
| `Dashboard` | provider, route and live card |
| `StressReplay` | the LTV of the engine, the replay, and everything that reads its result |
| `MCAttesterRegistry`, `MCRiskOracle`, `MCEstablished`, `MCBorrowGate`, `MCOperatorCli`, `MCUpdaterCycle`, `MCStressReplay` | instances for TLC |
| `AttesterRegistryProofs`, `RiskOracleProofs`, `RefinementProofs`, `BorrowGateProofs` (gate and readers), `OperatorCliProofs`, `UpdaterCycleProofs`, `DashboardProofs`, `StressReplayProofs` | TLAPS proofs |

`RiskOracle` extends `AttesterRegistry`, `ThresholdFeed` extends `BondEscrow`; `BorrowGate`
and `OperatorCli` extend `RiskOracle`, `ConsumerPolicy` extends `BorrowGate`.
`UpdaterCycle`, `Dashboard` and `StressReplay` stand alone: the first two see the program
only through the account that they write or read, the last not at all.

### How state and actions correspond to the code

A Solana instruction is atomic and an instruction that fails changes nothing, so each
instruction is one action whose guard collects the account constraints and the
`require!`s, and whose primed variables are all its writes, in whatever account they are.
`lib.rs` only dispatches: `RegistryNext` and `Next` are its tables.

| TLA+ | Code |
|---|---|
| `attesters`, `attester_count`, `threshold`, `total_bonded`, `min_bond` | fields of the `AttesterRegistry` account; `threshold = 0` means it does not exist |
| `vault` | the account's lamports above the rent reserve |
| `oracle[l]` | the account at seeds `("risk", l)`; `status` is absent, legacy or current layout |
| `pending[<<l, r>>]` | the account at `("pending_update", l, r)`; `status` stands for existence and `is_finalized` |
| `dispute[<<l, r>>][a]` | the account at `("dispute_record", l, r, a)`; `status` stands for existence, `is_resolved` and `attester_slashed` |
| `confirmations` | `confirmations_bitmap`, as the set of slots |
| `signers` | history variable: the keys that signed a round. No guard reads it |
| `policy[l]`, `decision[b][l]` | the gate's accounts, as sets of at most one element |
| `now` | `Clock::get()?.unix_timestamp`; `Tick` is external |

Amounts, timestamps and LTVs are natural numbers. The release profile aborts on overflow;
amounts stay below the supply of lamports, and where the code saturates or a counter could
run full (`disputes_lost`, `updates_submitted`) the limit is the constant `MaxCounter`.
Data that decides nothing is left out: slots, rent, evidence hashes, the z-score, the
record copies in disputes and decisions, event logs. `admin`, `slash_destination` and
`market_admin` are written once, so an instruction they guard is simply one only they
take. Anchor's account checks that compare two names of the one registry always pass.

**Commands** (`OperatorCli`). A command that sends a transaction is the instruction, with
its arguments converted as the command converts them: `Math.round` of a file's number, an
LTV clamped into its range, a sigma that rounds to zero and is refused, a `--reject` that
swallows the next word. A command that is run again, or whose transaction lands although
its confirmation is lost, is the same action again. `multi-status` takes one step per account
read, in the order in which the code awaits them, and `session` is what it has read so
far; `report` is what it printed and `seen` what `pending` showed to an attester that may
confirm. A feed in the old layout, or any failing read, ends the command.

**Workflow** (`UpdaterCycle`). `run` is the position in the job: the phase, the index in
the list of LSTs, where the current history came from, the number of submissions and of
push attempts. One action per command of the loop and one for each way it can fail, as
`set -e` makes every failure the end of the job; `Killed` stops it anywhere, and what it
had not pushed is lost. `SubmitUnacknowledged` is a transaction that landed without its
confirmation. `tree`, `repo` and `site` are the three copies of the artifacts. Values are
abstracted to their provenance: new in this run, computed from trusted history, published.

**Dashboard** (`Dashboard`). Each `useEffect`, timer and promise callback is an action. A
render that changes an effect's dependencies and the effect are two steps (`Reload`,
`FlushEffect`), and a fetch whose answer arrives after its cleanup is `orphan`. Times are
relative: a read carries the age of the publish it shows. `exposed` is a history variable.

**Stress replay** (`StressReplay`). The state is the path of rows; the operators compute
from it what each program derives, in fixed point with the rounding the code applies.

Definitions whose name starts with `Slip` are distorted copies of the definition that
follows them: a dropped guard, a stale field, a swapped order, an off-by-one. No
specification uses them. `PROJECT.json` (`mutants`) says which property rejects which, so
every property is known to be able to fail.

## 3. Runs

| Run | Module, configuration | Question | Bounds |
|---|---|---|---|
| `registry` | `MCAttesterRegistry` | solvency, counting, cooldown, threshold, refinement of `BondEscrow` under every order of registry steps | 3 attesters on 2 slots, bonds 1 to 3, all thresholds (valid or not), times 1 to 5 with a cooldown of 2 |
| `lifecycle` | `MCRiskOracle`, `MCLifecycle.cfg` | the whole program from an empty chain with a legacy account, refinement of `ThresholdFeed` | 2 attesters, 2 slots, one feed, one round id, 3 payloads (2 invalid), times 1 to 4 |
| `rounds` | `MCEstablished`, `MCRounds.cfg` | rounds against the life of the feed's account and against each other | 3 attesters, threshold 2, 2 round ids, 2 payloads, times 1 to 5, time-to-live 2 |
| `disputes` | `MCOperatorCli`, `MCDisputes.cfg` | disputes, filed and resolved with the commands, against turnover of attesters | 3 attesters on 2 slots, threshold 1, one round, times 1 to 5, window 1, deadline 2, cooldown 2 |
| `gate` | `MCBorrowGate` | assessments against feed, policy and time; the gate and the other readers on one account | one borrower with 2 requests, one feed that starts in the old layout or with a standing registry of 2 attesters and threshold 2, one round id, 3 payloads, 6 policies (3 invalid), times 1 to 4 |
| `cli` | `MCOperatorCli` | what `multi-status` and `pending` show, with any transactions between and after the reads | 3 attesters on 3 slots, thresholds 1 and 2, one feed, one round id, times 1 to 2, time-to-live and cooldown 1; files whose LTV is rounded or clamped and whose sigma vanishes; from an empty chain and from running deployments with one attester to spare |
| `updater` | `MCUpdaterCycle` | what is published, committed and shown under every failure; what keeps happening | the 3 LSTs of the workflow, 3 push attempts |
| `dashboard` | `Dashboard`, `MCDashboard.cfg` | what the card offers, and that it recovers | poll 3, RPC timeout 1, answer delay 1, card clock 2, staleness limit 4 ticks |
| `stress` | `MCStressReplay` | whether the readers of a replay agree with it and with each other | every path of up to 4 rows over 3 prices, 2 regimes and 3 unclamped LTVs; 9 pairs of haircuts, 3 requests |
| `find_*` | `MCEstablished`, `MCBorrowGate` | one statement of the documents each, which the code does not keep | as small as the counterexample allows |

`MCEstablished` starts from a deployment that is already running (registry filled, feeds
in multi-attester mode). That state is reachable in `RiskOracle` within one clock value;
starting there spends the states on rounds and disputes. `gate` starts there or from
`GateInit`, and leaves out the registry's instructions and the disputes, which write nothing
that the gate or a round of the two attesters reads.

Why the bounds are enough. On chain every interaction needs at most two attesters beside
the one concerned, two rounds of a feed, and one expiry of each deadline; each instance
lets every deadline lapse and leaves time to act afterwards, slots and round ids are fewer
than their users so that reuse happens, and the invalid inputs are offered to every
validation. In `cli` one attester can leave between two reads with the quorum still
there, and a round can be finalized, or expire and be proposed again, between being shown and
being confirmed. `updater` has an LST before, at and after the failing one, and the primary
one is first, as in the list; nothing in it is bounded but the attempts, whose number is
the code's. `dashboard` keeps the order of the real periods (a request is over before the
next poll, the staleness limit exceeds a poll) and every period is more than one tick where
two things can happen in it. In `stress` a second drop after a recovery and a path that
ends in either regime need three and four rows. Attesters are interchangeable (no
instruction orders keys), hence the symmetry sets; they are used with safety properties
only. The largest runs, `cli`, `disputes`, `gate` and `lifecycle`, have one to two million states
and take up to about two minutes.

Deadlock is not checked. On chain the clock is bounded by `MaxTime` and in `stress` the
path by `MAX_ROWS`, so those instances stop. In `updater` and `dashboard` the environment
can always take a step, which makes the check vacuous; that they get anywhere is what the
liveness properties say.

### Fairness

On chain nothing is scheduled: each instruction is a voluntary transaction of an outside
party, so no fairness is assumed for any and no liveness is stated. `OperatorCli` follows
the same rule: nobody has to run a command.

`UpdaterCycle`: weak fairness of `RunStep` (cron starts a run when none is running, and the
shell goes on to the next command) and of `IntervalPasses` (time passes). Killing, failures
of sources and endpoint, other pushes and the site's build are the environment's; the
liveness properties assume of it what they name, from some time on.

`Dashboard`: weak fairness of the clock, the poll's interval, the card's interval, React's
effects, the route's answer (it has a timeout, so it always gives one), the settling of a
fetch and of a cancelled one. Clicks, hiding and showing the page, publishing and the
endpoint are nobody's duty.

### What the passing runs show

* The registry never loses a lamport or miscounts, and is an escrow of bonds.
* A feed in multi-attester mode keeps a quorum and changes only in the step that finalizes a
  round with that value; rounds finalize on the threshold and in time, and stay frozen;
  disputes cannot be filed again after they lapse, nor cost a bond twice. Whoever only sees
  feeds, bonds and votes sees a threshold feed: the vote that completes the quorum publishes,
  and nothing else does.
* The gate never lends above its cap, and above its fallback only on a fresh, healthy feed
  and, where attesters have written it, on a recent round that reached its threshold;
  it applies the LTV that the SDK computes for the same limits, and all readers draw the
  lines of staleness and regime in the same place (for the two flags the engine writes).
* "ready" from `multi-status` is a quorum of at least two different keys and stays one; its
  feed and its round are not torn apart; an attester confirms what it saw.
* Whatever fails in the workflow, what lenders read comes from trusted history, what is
  committed was published, all LSTs of one run are committed together, and the site's
  "verified" snapshot is a published one. An LST is published again and again although a
  later one fails for good or an earlier one is rate limited, and runs that died do not
  keep the artifacts from being pushed by a later one.
* The card offers an LTV only from a live, healthy read within the limit plus its own
  clock's interval; a feed that turns critical is noticed within one poll and one request;
  answers never take the page back in time; "Reading..." ends, and live data return.
* Five programs in three languages say the same of one path, to the last rounding.

### Disagreements between documents and code

Each of the first three is a run whose counterexample shows the behaviour; `findings` in
`PROJECT.json` quotes the lines.

1. `DistinctSigners`: the bitmap counts slots, not keys; an attester that serves its
   cooldown, proposes, withdraws and returns in another slot confirms its own proposal.
2. `DisputedTookPart`: the disputed attester's slot of today is looked up in the round's
   bitmap, so a newcomer in a vacated slot can be disputed for its predecessor's signature.
3. `StalenessNeverLoosens`: the gate tests staleness before the regime, so a halted
   critical feed allows borrowing again once it is stale.

Observed while reading, each visible in the definition named, without a run of its own:

* Nothing compares round ids, so an older round can finalize last (`ConfirmUpdate`;
  `docs/MULTI_ATTESTER.md:108`). Only the expiry limits how much older it can be
  (`ReorderingBounded`).
* With threshold 1 a proposal has its confirmations and is still not final, and its proposer
  cannot confirm it (`ProposeUpdate`); `multi-status` therefore asks for two.
* `close_oracle` works on feeds in multi-attester mode (`CloseOracle`; `SECURITY.md:89`).
* `scenario_lab.ts:95` calls a cut temporary although only the regime is known to recover.
* `stress_test.py:292` lends at the lowest LTV of the whole path, known only at its end, and
  only once, at the first price. The loss it calls prevented still bounds what a lender that
  follows the feed saves on each loan it takes at no more than that price
  (`LossWithinPath`), but not on loans taken after the price has risen: on the prices 4, 10,
  4 with LTVs of 0.4 throughout it is 0, and a loan taken at 10 saves 4.
* `artifact_status.ts:54` names the clamp as a reason although a later haircut decided.
* `multi_attester_proof.ts:84` prints a finalized round of two confirmations whatever
  `--threshold` says.
* `docs/ARCHITECTURE.md:110` says the bridge rejects stale or zero prices. `fetch_pyth.py`
  never compares a `publish_time`, and a zero SOL price only leaves the ratio and the
  deviation empty (`normalize_price`, `compute_peg_deviation`).
* `docs/ARCHITECTURE.md:159` says no stale reference rate is substituted silently. The source
  a payload names is that of its own run; points extended from the cache keep the deviation
  of the run that fetched them (`fetch_pyth.py:454`).
* `BorrowDemo.tsx:71` shows the regime as normal whatever the artifact says.
* `multi_attester_readiness.ts:94` can report as expired a round that was finalized since
  it was read.
* `cli/src/index.ts:191`: `--reject yes` is not the flag `--reject`, and slashes
  (`SlashUnless`).

## 4. Proofs

TLC checks instances; TLAPS proves the following for every set of attesters, feeds, round
ids, payloads, files, borrowers, policies and tracked LSTs and every value of the periods
and limits that meets the assumptions, and for paths of any length. All proofs are of safety.
Every safety property of the runs is a theorem.

### Assumptions

Each is a named `ASSUME` of the module that declares the constants, and TLC evaluates it in
every run. `AttesterAssumption`: the empty key is nobody's. `SlotAssumption`: one to five
slots (the source has five; the sum of the bonds is written out over them, so that no
recursion is needed). `BondAssumption`, `CooldownAssumption`, `OracleAssumption`,
`GateAssumption`: types, a positive minimum bond, cooldown, time-to-live and divisor, a
slash of at most 100 percent. `WindowAssumption`: the dispute window is shorter than the
resolution deadline (one hour and 24 hours in `constants.rs`); only
`LapsedDisputesAreOver` uses it. `ReaderAssumption`: the readers' own age limit is below
the largest timestamp. `CliAssumption`: those who use the commands are attesters and feeds
of the program. `FilesAssumption`: the payloads that `RiskOracle` is offered include
what the commands make of the files. `UpdaterAssumption`: the list of LSTs is not empty and
names none twice, and a push is tried. `DashboardAssumption`: a request is over before the
next poll (8 and 30 seconds in the code), and the card's clock has a period.
`StressAssumption`: the scalars are natural numbers, floor below base below one, haircuts
within their limits, and an odd grain, so that no LTV is exactly halfway between two steps:
of the doubles only odd multiples of 1/32 are, where `round` would take the even step.

### The registry (`AttesterRegistryProofs`)

`RegistryInv` is inductive. Solvency and the count are not so by themselves:
`withdraw_bond` and `resolve_dispute` keep them only if an inactive slot holds neither a
key nor a bond and no attester holds two slots (`OneSlotPerAttester`), and
`initialize_registry`, which resets total and slots but not the lamports, only if nothing
was registered before (`threshold = 0 => ActiveSlots = {}`). One lemma per instruction
shows that it keeps the invariant; they rest on lemmas about the sum of the bonds
(`SumAfterOneSlot`, `SumBoundsBond`) and the slash (`SlashBounded`). From it follow
solvency (`RegistrySolvent`), counting (`RegistryCounts`), types (`RegistryWellTyped`),
keys without duplicates (`RegistryKeysUnique`), the threshold that stays reachable
(`RegistryKeepsThreshold`) and, with the further invariant that a cooldown is not older
than its registration, the locked bonds (`RegistryLocksBonds`).

### The program (`RiskOracleProofs`)

`ProgramInv` adds to `RegistryInv` what the other accounts say. Its parts need each other:

* a step of the program is a step of the registry's specification only if a round's
  proposer is an attester (`RoundsSound`), because `confirm_update` credits that key;
* a round exists only if the threshold is set, which the quorum of its feed gives when it
  is proposed (`FeedsSound`); from then on the threshold cannot change under its count;
* the published value of a multi-attester feed is that of a finalized round
  (`CanonicalValueAttested`) because such rounds stay, and is valid because the round's
  was when it was proposed;
* an older round overtakes a newer one only while both are open (`ReorderingBounded`); for
  this `OrderInv` adds that a finalized round lived within its time-to-live
  (`RoundsTimed`) and that the feed shows the last one finalized (`LastRoundShown`);
* a dispute keeps pointing to a finalized round and outlives its window
  (`DisputesSound`), again because such rounds stay;
* an attester's losses stay within the records of them (`SlashesRecorded`), because a
  record becomes "slashed" once and is then never closed.

`RoundChanges`, `FeedChanges` and `DisputeChanges` state the few ways in which a step
changes one round, one feed or one dispute, each with what the instruction checked; the
part that concerns the account is then kept case by case. All invariants and action
properties of the runs `lifecycle`, `rounds` and `disputes` are theorems, and
`ProgramImplementsRegistry` carries the registry's theorems over to the program
(`ProgramSolvent` uses it).

### The two refinements (`RefinementProofs`)

`RegistryImplementsEscrow`: the registry implements `BondEscrow`. Under `RegistryInv` the
slots in use and the keys of the members correspond one to one, which turns the counter into
the number of members (`InvariantMaps`) and a change of one slot into a change of one
member's bond; each instruction is then one operation of the escrow or a stutter.
`ProgramImplementsEscrow` composes this with `ProgramImplementsRegistry`: rounds and disputes
move bonds in no other way.

`ProgramImplementsThresholdFeed`: the whole program implements `ThresholdFeed`. A round's
account is a ballot and its bitmap the set of votes, so the counter on which `confirm_update`
decides has to be the size of the bitmap (`RoundsSound`), and the registry's counter the
number of members that `enable_multi_attester` hands the feed over to. One lemma per
instruction names the operation it is: a confirmation is a vote or, when it completes the
quorum, a decision that also publishes; the credit to the proposer, a migration, every
dispute and every departure are invisible to the ballots, and no vote moves money. The
abstraction counts seats and not keys, because the program does: a specification with one
vote per member is what `DistinctSigners` refutes. An open ballot does not record who opened
the feed it belongs to either: a feed that is deleted and created again keeps the rounds of
its former life, and the quorum of its new one can decide them.

### The gate and its fellow readers (`BorrowGateProofs`)

`GateImplementsOracle` shows that the gate only reads. `GateInv` adds to `ProgramInv` that
a feed is not dated ahead of the clock and suggests nothing before it is written, and that
a market has at most one policy, a valid one. `AppliedLtvBounded` and `AssessmentSound`
are about one assessment: the limit is within the collateral, an allowed request within the
applied LTV, the applied LTV within the cap, and above the fallback only on a fresh,
uncritical feed; `QuotientBounded` is the arithmetic of `mul_div_u64`. They give
`BorrowsWithinCap` and `LendingNeedsFeed`. The latter joins the two programs: the round
behind an attested value (`CanonicalValueAttested`), with its count equal to its bitmap and
at the threshold (`RoundsSound`), is as recent and suggests as much as the gate saw in the
feed, so it answers for the loan. It covers a policy that accepts any age
(`max_oracle_age_secs = i64::MAX`): a feed that was never written then counts as fresh,
but it suggests an LTV of 0. `GateAgreesWithSdk` and `AllReadersAgree` compare the readers
on any reachable account. `GateAgreesWithSdk` excludes just that policy: `safeLtv` calls a
feed that was never written stale whatever the limit, the gate dates it infinitely old.

### The command line (`OperatorCliProofs`)

`CliImplementsProgram`: every command is an instruction of the program or a read
(`CommandIsClient`), so every theorem about the program holds beside the command line.
`CliInv` says of each thing on the terminal why it stays true. A session whose registry was
read without a blocker stands on a quorum, which no instruction takes away
(`RegistryMonotone`); an attested value it read has a finalized round, which stays
(`FinalizedStays`), and because the round is read after the feed, one that was read as open
is another; a round that was shown is there, with its parameters, until it expires
(`ShownRoundStays`), as only `cancel_expired` removes one. `ReadsAre` is the order of the
reads; with the feed read last, `CliInv` is not inductive.

### The cycle (`UpdaterCycleProofs`)

What is committed must have been published, although the commit looks only at a counter.
`CycleInv` says why that is enough: the counter is at most the number of LSTs passed, and if
it equals it, every LST passed has a new, trusted and published snapshot in the checkout,
with its cache live; an LST skipped keeps the counter below for good. `repo` and `site`
change only from such a checkout. `CommittedTogether` needs in addition that the primary's
second copy is written with every write of its snapshot.

### The dashboard (`DashboardProofs`)

`DashboardInv` orders the ages: the account is at most as old as an answer under way, that
at most as old as what is shown, and the card's clock is at most one interval behind. A
cancelled answer is dropped, so it needs no place in the order. `CardWithinWindow` and
`CardNeverBackInTime` follow.

`CriticalFeedNoticed` needs to know where the page is in its cycle of timer, effect and
request. `NoticeInv` adds it: while a critical feed is shown as healthy, either the exposure
began less than a poll ago, or the last poll's request is about to be sent, with the route,
or answered with a critical read. It rests on one request being over before the next poll
(`RPC_TIMEOUT + ANSWER_DELAY < POLL_INTERVAL`).

### The stress replay (`StressReplayProofs`)

The state is a path, and the invariant its type (`PathInvariant`); the work is in the
operators, for paths of any length and rows of any values.

* Arithmetic: `RoundedIsNearest`, `RoundedMonotone` and `RoundedShift` are about the
  rounding to steps. `HaircutCommutes` shows from them that an engine that clamps twice and
  rounds last and a verifier that rounds first and clamps once get the same LTV, because a
  haircut is a whole number of steps. `SnapshotsExplainThemselves` follows.
* Least and greatest elements: `Min` and `Max` over the values of a column are elements of
  it, by the well-foundedness of `<` on the natural numbers (`MinIsLeast`,
  `MaxIsGreatest`), without induction over the path. The replay lends at the least LTV of
  the path (`DynamicIsLowest`).
* Loans: a smaller cut on a smaller loan saves no more than a deeper cut on a larger one,
  whatever the price falls to (`LossSaved`), so the replay's single loan at the first price
  answers for every loan below it (`LossBounded`).
* `ProgramsAgree` adds one lemma per reader: `VerifierAccepts`, `DefaultAccepts`,
  `ProofAgrees`, `LabAgrees`, `DemoAgrees`, `SiteAgrees`. For the chart, every critical row lies in one stretch of
  critical rows that cannot be extended (`RunAround`: its ends are a least and a greatest
  row), the bands drawn are those of the stretches (`BandsAreRuns`), and a point under the
  pointer is in a band exactly if its row is critical (`ShadedIsCritical`).

### Only model-checked

Liveness: `PublishedDespiteOthers`, `ArtifactsKeepUp`, `ReadingEnds`, `LiveReturns`. Liveness
under fairness is out of the prover's reach.

## 5. Not modelled, and why

* The statistics of engine and simulation (regression, stationarity tests, calibration,
  Monte Carlo paths): real arithmetic without state. What they decide, a regime and an
  unclamped LTV per row, is a free choice in `StressReplay`.
* The points of the bridge's history: `fetch_pyth.py` is one batch program over numbers.
  `UpdaterCycle` keeps where a history comes from (live, cached after a 429, none), which
  is what the workflow decides on; the reuse of deviations computed with a fallback rate
  (`fetch_pyth.py:431`) needs the points and is not covered.
* `run_oracle_cycle.sh`: the same chain for one LST by hand, without the commit.
* `multi-proof`, which prints constants, and the commands that print one account.
* The choice of another LST on the page: the page's reads are of one account.
* Rendering, wording, IDL, lock files, generated artifacts, error texts and events.
* Migration of a legacy account and the closing of lapsed disputes have no command; they
  are in `RiskOracle`, and the run `disputes` adds the latter beside the commands.

## 6. Plan

Done: registry, escrow, program, threshold feed, gate, readers, commands, cycle, dashboard,
stress replay; the proofs of section 4. Left, in order of importance:

1. `Bridge`: history window, incremental extension and the reference rate recorded with each
   point; ordering, uniqueness and provenance of points, composed with `UpdaterCycle`.
2. A page that changes its LST, as a second account in `Dashboard`.
