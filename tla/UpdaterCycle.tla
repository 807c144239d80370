---------------------------- MODULE UpdaterCycle ----------------------------
(***************************************************************************)
(* The scheduled workflow (.github/workflows/oracle-updater.yml): for each *)
(* tracked LST it fetches prices, computes a snapshot, writes artifacts    *)
(* into its own checkout, and publishes the value on chain with the        *)
(* updater's submit.ts; after the loop it commits the artifacts, which the *)
(* website's build-data.mjs copies.                                        *)
(*                                                                         *)
(* What is published on chain is public at once, what is written into the  *)
(* checkout only with the last step, and a run can stop anywhere in        *)
(* between.  The concurrency group lets one run at a time have the         *)
(* checkout.                                                               *)
(*                                                                         *)
(* Numbers are abstracted to where they come from: a snapshot is new in    *)
(* this run or not, computed from trusted history or not, on chain or not. *)
(***************************************************************************)
EXTENDS Naturals, Sequences

CONSTANTS
    TRACKED,         \* the LSTs in the order of the workflow's list
    PUSH_ATTEMPTS    \* how often a rejected push is tried

Lsts == {TRACKED[i] : i \in 1..Len(TRACKED)}

ASSUME UpdaterAssumption ==
    /\ TRACKED \in Seq(Lsts) /\ Len(TRACKED) > 0
    /\ \A i, j \in 1..Len(TRACKED) : TRACKED[i] = TRACKED[j] => i = j
    /\ PUSH_ATTEMPTS \in Nat \ {0}

VARIABLES
    env,       \* price sources, RPC endpoint, runner and main branch
    chain,     \* the value each RiskState account holds
    recent,    \* accounts written less than MIN_UPDATE_INTERVAL_SECS ago
    repo,      \* artifacts/ on the main branch
    tree,      \* artifacts/ in the run's checkout
    run,       \* where the run is
    site       \* the snapshots of web/data

vars == <<env, chain, recent, repo, tree, run, site>>

Snapshot == [fresh : BOOLEAN, trusted : BOOLEAN, published : BOOLEAN]
Cache    == {"none", "live", "cache_fallback"}

Artifacts == [snapshots : [Lsts -> Snapshot], primary : Snapshot, cache : [Lsts -> Cache]]

\* Sources answer, answer 429, or neither; the runner may be killed (its time
\* limit included) when it is not reliable; others push to main when it is busy.
Env == [source : [Lsts -> {"up", "limited", "down"}], rpc : BOOLEAN, reliable : BOOLEAN,
        busy : BOOLEAN]

NoRun == [phase |-> "idle", index |-> 1, source |-> "none", submitted |-> 0, attempt |-> 0]

PRIMARY_LST_ID == TRACKED[1]

Current == TRACKED[run.index]

-----------------------------------------------------------------------------
(* Start and end of a run. *)

Init ==
    LET old == [fresh |-> FALSE, trusted |-> TRUE, published |-> TRUE] IN
    /\ env \in Env
    /\ chain = [l \in Lsts |-> old]
    /\ recent = {}
    /\ repo \in [snapshots : {[l \in Lsts |-> old]}, primary : {old},
                 cache : [Lsts -> {"none", "live"}]]
    /\ tree = repo
    /\ run = NoRun
    /\ site = repo.snapshots

\* Snapshots are new or not from the point of view of the last run.
Aged(s) == [s EXCEPT !.fresh = FALSE]

AgedArtifacts ==
    [repo EXCEPT !.snapshots = [l \in Lsts |-> Aged(@[l])], !.primary = Aged(@)]

\* cron, or somebody dispatches the workflow.
StartRun ==
    /\ run.phase = "idle"
    /\ run' = [NoRun EXCEPT !.phase = "fetch"]
    /\ repo' = AgedArtifacts
    /\ tree' = AgedArtifacts
    /\ chain' = [l \in Lsts |-> Aged(chain[l])]
    /\ UNCHANGED <<env, recent, site>>

\* The runner is gone, and what it had not pushed with it.
StopRun == run' = NoRun /\ tree' = repo

SlipRunFails ==
    /\ run' = [run EXCEPT !.phase = "commit"]
    /\ UNCHANGED <<env, chain, recent, repo, tree, site>>

\* set -e: the first command that fails ends the job.
RunFails == StopRun /\ UNCHANGED <<env, chain, recent, repo, site>>

Killed ==
    /\ run.phase # "idle"
    /\ ~env.reliable
    /\ StopRun
    /\ UNCHANGED <<env, chain, recent, repo, site>>

-----------------------------------------------------------------------------
(* One LST. *)

\* fetch_pyth.py, with the committed cache as its starting point: rate limited
\* with a cache it goes on with the cache, otherwise it raises.
HistorySource(l) ==
    CASE env.source[l] = "up" -> "live"
      [] env.source[l] = "limited" /\ tree.cache[l] # "none" -> "cache_fallback"
      [] OTHER -> "none"

Fetch ==
    /\ run.phase = "fetch"
    /\ HistorySource(Current) # "none"
    /\ run' = [run EXCEPT !.phase = "sync", !.source = HistorySource(Current)]
    /\ UNCHANGED <<env, chain, recent, repo, tree, site>>

FetchFails ==
    /\ run.phase = "fetch"
    /\ HistorySource(Current) = "none"
    /\ RunFails

TrustedHistory(source) == source # "cache_fallback"

AfterLst == IF run.index < Len(TRACKED) THEN "fetch" ELSE "count"

WriteSnapshot(s) ==
    tree' = [tree EXCEPT !.snapshots[Current] = s,
                         !.primary = IF Current = PRIMARY_LST_ID THEN s ELSE @,
                         !.cache[Current] = run.source]

\* pipeline.py, the new cache, sync_artifacts.py, and the test on the history.
SlipSyncSubmitsFallback ==
    /\ run.phase = "sync"
    /\ WriteSnapshot([fresh |-> TRUE, trusted |-> TrustedHistory(run.source),
                      published |-> FALSE])
    /\ run' = [run EXCEPT !.phase = "simulate"]
    /\ UNCHANGED <<env, chain, recent, repo, site>>

SlipSyncEndsRun ==
    /\ run.phase = "sync"
    /\ IF TrustedHistory(run.source)
       THEN /\ WriteSnapshot([fresh |-> TRUE, trusted |-> TRUE, published |-> FALSE])
            /\ run' = [run EXCEPT !.phase = "simulate"]
       ELSE StopRun
    /\ UNCHANGED <<env, chain, recent, repo, site>>

Sync ==
    /\ run.phase = "sync"
    /\ WriteSnapshot([fresh |-> TRUE, trusted |-> TrustedHistory(run.source),
                      published |-> FALSE])
    /\ run' = IF TrustedHistory(run.source)
              THEN [run EXCEPT !.phase = "simulate"]
              ELSE [run EXCEPT !.phase = AfterLst, !.index = @ + 1]
    /\ UNCHANGED <<env, chain, recent, repo, site>>

\* update_risk_state asks for MIN_UPDATE_INTERVAL_SECS between two updates.
Accepted(l) == env.rpc /\ l \notin recent

Simulate ==
    /\ run.phase = "simulate"
    /\ Accepted(Current)
    /\ run' = [run EXCEPT !.phase = "submit"]
    /\ UNCHANGED <<env, chain, recent, repo, tree, site>>

\* The transaction is on chain: the snapshot it was made from is the published one.
Publish(l) ==
    LET s == [tree.snapshots[l] EXCEPT !.published = TRUE] IN
    /\ chain' = [chain EXCEPT ![l] = s]
    /\ recent' = recent \cup {l}

Submit ==
    /\ run.phase = "submit"
    /\ Accepted(Current)
    /\ Publish(Current)
    /\ tree' = [tree EXCEPT !.snapshots[Current] = chain'[Current],
                            !.primary = IF Current = PRIMARY_LST_ID
                                        THEN chain'[Current] ELSE @]
    /\ run' = [run EXCEPT !.phase = "read"]
    /\ UNCHANGED <<env, repo, site>>

\* It landed, and its confirmation did not arrive in time: submit.ts exits with 1.
SubmitUnacknowledged ==
    /\ run.phase = "submit"
    /\ ~env.rpc /\ Current \notin recent
    /\ Publish(Current)
    /\ StopRun
    /\ UNCHANGED <<env, repo, site>>

SubmitFails ==
    /\ run.phase \in {"simulate", "submit"}
    /\ ~Accepted(Current)
    /\ RunFails

SlipReadBack ==
    /\ run.phase = "read"
    /\ env.rpc
    /\ run' = [run EXCEPT !.phase = AfterLst, !.index = @ + 1,
                          !.submitted = IF Current = PRIMARY_LST_ID THEN @ ELSE @ + 1]
    /\ UNCHANGED <<env, chain, recent, repo, tree, site>>

\* read_state.ts, then the counter.
ReadBack ==
    /\ run.phase = "read"
    /\ env.rpc
    /\ run' = [run EXCEPT !.phase = AfterLst, !.index = @ + 1, !.submitted = @ + 1]
    /\ UNCHANGED <<env, chain, recent, repo, tree, site>>

ReadBackFails ==
    /\ run.phase = "read"
    /\ ~env.rpc
    /\ RunFails

-----------------------------------------------------------------------------
(* After the loop. *)

SlipCountSubmitted ==
    /\ run.phase = "count"
    /\ run' = [run EXCEPT !.phase = "commit"]
    /\ UNCHANGED <<env, chain, recent, repo, tree, site>>

CountSubmitted ==
    /\ run.phase = "count"
    /\ run.submitted = Len(TRACKED)
    /\ run' = [run EXCEPT !.phase = "commit"]
    /\ UNCHANGED <<env, chain, recent, repo, tree, site>>

CountTooLow ==
    /\ run.phase = "count"
    /\ run.submitted # Len(TRACKED)
    /\ RunFails

\* The primary's artifacts are written again, from the same two files, and
\* everything is committed locally.
Commit ==
    /\ run.phase = "commit"
    /\ tree' = [tree EXCEPT !.snapshots[PRIMARY_LST_ID] = tree.primary]
    /\ run' = [run EXCEPT !.phase = "push", !.attempt = 1]
    /\ UNCHANGED <<env, chain, recent, repo, site>>

Push ==
    /\ run.phase = "push"
    /\ ~env.busy
    /\ repo' = tree
    /\ run' = NoRun
    /\ UNCHANGED <<env, chain, recent, tree, site>>

\* Somebody pushed between the rebase and the push.
PushRejected ==
    /\ run.phase = "push"
    /\ env.busy
    /\ IF run.attempt < PUSH_ATTEMPTS
       THEN run' = [run EXCEPT !.attempt = @ + 1] /\ UNCHANGED tree
       ELSE StopRun
    /\ UNCHANGED <<env, chain, recent, repo, site>>

\* The rebase fails: the step ends and the job stays green.
RebaseFails ==
    /\ run.phase = "push"
    /\ env.busy
    /\ RunFails

-----------------------------------------------------------------------------
(* The rest of the world. *)

IntervalPasses(l) ==
    /\ l \in recent
    /\ recent' = recent \ {l}
    /\ UNCHANGED <<env, chain, repo, tree, run, site>>

EnvChanges ==
    /\ env' \in UNION {{[env EXCEPT !.source[l] = s] : s \in {"up", "limited", "down"}} :
                          l \in Lsts}
               \cup {[env EXCEPT !.rpc = ~@], [env EXCEPT !.reliable = ~@],
                     [env EXCEPT !.busy = ~@]}
    /\ UNCHANGED <<chain, recent, repo, tree, run, site>>

SlipBuildData ==
    /\ site' = tree.snapshots
    /\ UNCHANGED <<env, chain, recent, repo, tree, run>>

\* build-data.mjs before the site is built, in a checkout of main.
BuildData ==
    /\ site' = repo.snapshots
    /\ UNCHANGED <<env, chain, recent, repo, tree, run>>

-----------------------------------------------------------------------------
RunStep ==
    \/ StartRun
    \/ Fetch \/ FetchFails
    \/ Sync
    \/ Simulate
    \/ Submit \/ SubmitUnacknowledged \/ SubmitFails
    \/ ReadBack \/ ReadBackFails
    \/ CountSubmitted \/ CountTooLow
    \/ Commit
    \/ Push \/ PushRejected \/ RebaseFails

Next ==
    \/ RunStep
    \/ Killed
    \/ \E l \in Lsts : IntervalPasses(l)
    \/ EnvChanges
    \/ BuildData

\* cron starts a run when there is none and the shell goes on to the next
\* command; time passes.
Fairness ==
    /\ WF_vars(RunStep)
    /\ \A l \in Lsts : WF_vars(IntervalPasses(l))

Spec == Init /\ [][Next]_vars /\ Fairness

-----------------------------------------------------------------------------
(* Properties. *)

\* Nothing reaches a lender's account that was computed from the fallback cache.
ChainTrusted == \A l \in Lsts : chain[l].trusted

\* Whatever fails and whenever, every snapshot on main was computed from trusted
\* history and published on chain, and no committed cache is a fallback's.
CommittedPublished ==
    \A l \in Lsts :
        /\ repo.snapshots[l].published
        /\ repo.snapshots[l].trusted
        /\ repo.cache[l] # "cache_fallback"

\* The artifacts on main are of one run, all of them: a run that fails half-way
\* leaves no new snapshot beside old ones.
CommittedTogether == \A l \in Lsts : repo.snapshots[l].fresh = repo.primary.fresh

\* The site, which calls it an offline verified snapshot, never shows a snapshot
\* that is only in a running workflow's checkout.
SiteShowsPublished == \A l \in Lsts : site[l].published /\ site[l].trusted

\* The LST can be processed, or is skipped.
Passes(l) ==
    \/ env.source[l] = "up"
    \/ env.source[l] = "limited" /\ repo.cache[l] # "none"

\* An LST that works is published again and again although a later one fails for
\* good and an earlier one is rate limited for good.
PublishedDespiteOthers ==
    \A i \in 1..Len(TRACKED) :
        <>[](/\ env.rpc /\ env.reliable
             /\ env.source[TRACKED[i]] = "up"
             /\ \A j \in 1..(i - 1) : Passes(TRACKED[j]))
        => []<><<TRACKED[i] \in recent' \ recent>>_vars

\* When everything works the artifacts are pushed again and again: a run that was
\* killed, rejected or left half done does not keep the next one from finishing.
ArtifactsKeepUp ==
    <>[](/\ env.rpc /\ env.reliable /\ ~env.busy
         /\ \A l \in Lsts : env.source[l] = "up")
    => []<><<repo' = tree /\ tree # repo>>_vars
=============================================================================
