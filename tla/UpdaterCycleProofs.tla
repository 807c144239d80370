------------------------- MODULE UpdaterCycleProofs -------------------------
(***************************************************************************)
(* The workflow for every list of tracked LSTs and every number of push    *)
(* attempts: what it publishes and what it commits is computed from        *)
(* trusted history, and what it commits is published and of one run.       *)
(*                                                                         *)
(* The argument is the workflow's counter.  A run counts an LST only after *)
(* it was computed, published and read back, and an LST it skips is not    *)
(* counted: so a counter that equals the number of LSTs passed says of     *)
(* every one of them what CommittedPublished asks, and the test before the *)
(* commit is that equality at the end of the list.                         *)
(***************************************************************************)
EXTENDS UpdaterCycle, TLAPS

Phases == {"idle", "fetch", "sync", "simulate", "submit", "read", "count", "commit", "push"}

Run == [phase : Phases, index : 1..(Len(TRACKED) + 1), source : Cache,
        submitted : Nat, attempt : Nat]

\* env and recent need no type: nothing below depends on them.
CycleTypeOK ==
    /\ chain \in [Lsts -> Snapshot]
    /\ repo \in Artifacts
    /\ tree \in Artifacts
    /\ run \in Run
    /\ site \in [Lsts -> Snapshot]

OnAnLst == run.phase \in {"fetch", "sync", "simulate", "submit", "read"}

PassedAll == run.phase \in {"count", "commit", "push"}

\* Where the run is agrees with what it has counted.
CounterInStep ==
    /\ OnAnLst => run.index <= Len(TRACKED)
    /\ PassedAll => run.index = Len(TRACKED) + 1
    /\ run.submitted <= run.index - 1
    /\ run.phase \in {"commit", "push"} => run.submitted = Len(TRACKED)

Good(artifacts, l) ==
    /\ artifacts.snapshots[l].fresh
    /\ artifacts.snapshots[l].trusted
    /\ artifacts.snapshots[l].published
    /\ artifacts.cache[l] # "cache_fallback"

GoodPrimary(artifacts) ==
    /\ artifacts.primary.fresh
    /\ artifacts.primary.trusted
    /\ artifacts.primary.published

\* A counter that missed nothing vouches for every LST passed.
CountedIsPublished ==
    run.submitted = run.index - 1 =>
        /\ \A j \in 1..(run.index - 1) : Good(tree, TRACKED[j])
        /\ run.index > 1 => GoodPrimary(tree)

\* The LST the run is at, once its snapshot is written.
InHandIsTrusted ==
    run.phase \in {"simulate", "submit", "read"} =>
        /\ tree.snapshots[Current].fresh
        /\ tree.snapshots[Current].trusted
        /\ run.phase = "read" => tree.snapshots[Current].published
        /\ tree.cache[Current] # "cache_fallback"
        /\ run.index = 1 => tree.primary = tree.snapshots[Current]

CycleInv ==
    /\ CycleTypeOK
    /\ CounterInStep
    /\ CountedIsPublished
    /\ InHandIsTrusted
    /\ ChainTrusted
    /\ CommittedPublished
    /\ CommittedTogether
    /\ SiteShowsPublished

-----------------------------------------------------------------------------
(* The list. *)

\* Every index is the place of one LST, and of another one for another index.
LEMMA TrackedList ==
    /\ Len(TRACKED) \in Nat /\ Len(TRACKED) > 0
    /\ \A i \in 1..Len(TRACKED) : TRACKED[i] \in Lsts
    /\ \A i, j \in 1..Len(TRACKED) : TRACKED[i] = TRACKED[j] => i = j
    /\ \A l \in Lsts : \E i \in 1..Len(TRACKED) : l = TRACKED[i]
  BY UpdaterAssumption DEF Lsts

-----------------------------------------------------------------------------
(* Steps that end a run, or leave it and its files alone. *)

LEMMA InitEstablishes == Init => CycleInv
<1> SUFFICES ASSUME Init PROVE CycleInv
  OBVIOUS
<1> DEFINE old == [fresh |-> FALSE, trusted |-> TRUE, published |-> TRUE]
<1>1. /\ chain = [l \in Lsts |-> old]
      /\ repo \in [snapshots : {[l \in Lsts |-> old]}, primary : {old},
                   cache : [Lsts -> {"none", "live"}]]
      /\ tree = repo /\ run = NoRun /\ site = repo.snapshots
  BY DEF Init
<1>2. /\ repo.snapshots = [l \in Lsts |-> old]
      /\ repo.primary = old
      /\ repo.cache \in [Lsts -> {"none", "live"}]
  BY <1>1
<1>3. old \in Snapshot
  BY DEF Snapshot
<1>4. repo \in Artifacts
  BY <1>1, <1>2, <1>3 DEF Artifacts, Cache
<1>5. run \in Run
  BY <1>1, TrackedList DEF NoRun, Run, Phases, Cache
<1>6. CycleTypeOK
  BY <1>1, <1>2, <1>3, <1>4, <1>5 DEF CycleTypeOK
<1>7. CounterInStep /\ CountedIsPublished /\ InHandIsTrusted
  BY <1>1 DEF NoRun, CounterInStep, OnAnLst, PassedAll, CountedIsPublished, InHandIsTrusted
<1>8. \A l \in Lsts : /\ chain[l] = old /\ site[l] = old
                      /\ repo.snapshots[l] = old /\ repo.cache[l] # "cache_fallback"
  BY <1>1, <1>2
<1>9. old.published /\ old.trusted
  OBVIOUS
<1>10. ChainTrusted /\ CommittedPublished /\ SiteShowsPublished
  BY <1>8, <1>9 DEF ChainTrusted, CommittedPublished, SiteShowsPublished
<1>11. CommittedTogether
  BY <1>2, <1>8 DEF CommittedTogether
<1> QED
  BY <1>6, <1>7, <1>10, <1>11 DEF CycleInv

\* With no run, nothing is promised about the checkout.
LEMMA NoRunKeeps ==
    ASSUME CycleInv, run' = NoRun, tree' \in Artifacts
    PROVE  run' \in Run /\ CounterInStep' /\ CountedIsPublished' /\ InHandIsTrusted'
<1>1. run' \in Run
  BY TrackedList DEF NoRun, Run, Phases, Cache
<1>2. CounterInStep' /\ CountedIsPublished' /\ InHandIsTrusted'
  BY DEF NoRun, CounterInStep, OnAnLst, PassedAll, CountedIsPublished, InHandIsTrusted
<1> QED
  BY <1>1, <1>2

\* A run that fails, or is killed, takes its checkout with it.
LEMMA StopRunKeeps ==
    ASSUME CycleInv, StopRun, UNCHANGED <<chain, repo, site>>
    PROVE  CycleInv'
<1>1. run' = NoRun /\ tree' = repo
  BY DEF StopRun
<1>2. run' \in Run /\ CounterInStep' /\ CountedIsPublished' /\ InHandIsTrusted'
  BY <1>1, NoRunKeeps DEF CycleInv, CycleTypeOK
<1>3. CycleTypeOK'
  BY <1>1, <1>2 DEF CycleInv, CycleTypeOK
<1>4. ChainTrusted' /\ CommittedPublished' /\ CommittedTogether' /\ SiteShowsPublished'
  BY DEF CycleInv, ChainTrusted, CommittedPublished, CommittedTogether, SiteShowsPublished
<1> QED
  BY <1>2, <1>3, <1>4 DEF CycleInv

\* The aged artifacts are the old ones, none of them new.
LEMMA AgedKeeps ==
    ASSUME repo \in Artifacts, chain \in [Lsts -> Snapshot], NEW l \in Lsts
    PROVE  /\ AgedArtifacts \in Artifacts
           /\ AgedArtifacts.cache = repo.cache
           /\ AgedArtifacts.snapshots[l].published = repo.snapshots[l].published
           /\ AgedArtifacts.snapshots[l].trusted = repo.snapshots[l].trusted
           /\ AgedArtifacts.snapshots[l].fresh = FALSE
           /\ AgedArtifacts.primary.fresh = FALSE
           /\ Aged(chain[l]) \in Snapshot
           /\ Aged(chain[l]).trusted = chain[l].trusted
<1>1. \A s \in Snapshot : /\ Aged(s) \in Snapshot
                          /\ Aged(s).published = s.published
                          /\ Aged(s).trusted = s.trusted
                          /\ Aged(s).fresh = FALSE
  BY DEF Aged, Snapshot
<1>2. repo.snapshots \in [Lsts -> Snapshot] /\ repo.primary \in Snapshot
      /\ repo.cache \in [Lsts -> Cache]
  BY DEF Artifacts
<1> DEFINE agedSnapshots == [k \in Lsts |-> Aged(repo.snapshots[k])]
<1>3. AgedArtifacts = [repo EXCEPT !.snapshots = agedSnapshots, !.primary = Aged(repo.primary)]
  BY DEF AgedArtifacts
<1>4. agedSnapshots \in [Lsts -> Snapshot] /\ agedSnapshots[l] = Aged(repo.snapshots[l])
  BY <1>1, <1>2
<1> HIDE DEF agedSnapshots
<1>5. /\ AgedArtifacts \in Artifacts
      /\ AgedArtifacts.snapshots = agedSnapshots
      /\ AgedArtifacts.primary = Aged(repo.primary)
      /\ AgedArtifacts.cache = repo.cache
  BY <1>1, <1>2, <1>3, <1>4 DEF Artifacts
<1> QED
  BY <1>1, <1>2, <1>4, <1>5

\* A new run starts from main, with nothing done yet.
LEMMA StartRunKeeps ==
    ASSUME CycleInv, StartRun
    PROVE  CycleInv'
<1>1. /\ run' = [NoRun EXCEPT !.phase = "fetch"]
      /\ repo' = AgedArtifacts /\ tree' = AgedArtifacts
      /\ chain' = [l \in Lsts |-> Aged(chain[l])]
      /\ site' = site
  BY DEF StartRun
<1>2. repo \in Artifacts /\ chain \in [Lsts -> Snapshot] /\ site \in [Lsts -> Snapshot]
  BY DEF CycleInv, CycleTypeOK
<1>3. /\ run' \in Run /\ run'.phase = "fetch" /\ run'.index = 1 /\ run'.submitted = 0
  BY <1>1, TrackedList DEF NoRun, Run, Phases, Cache
<1>4. repo' \in Artifacts
  <2>1. PICK l \in Lsts : TRUE
    BY TrackedList
  <2>2. AgedArtifacts \in Artifacts
    BY <1>2, AgedKeeps
  <2> QED
    BY <1>1, <2>2
<1>5. CycleTypeOK'
  BY <1>1, <1>2, <1>3, <1>4, AgedKeeps DEF CycleTypeOK
<1>6. CounterInStep' /\ CountedIsPublished' /\ InHandIsTrusted'
  BY <1>3, TrackedList DEF CounterInStep, OnAnLst, PassedAll, CountedIsPublished, InHandIsTrusted
<1>7. ChainTrusted'
  BY <1>1, <1>2, AgedKeeps DEF CycleInv, ChainTrusted
<1>8. CommittedPublished' /\ CommittedTogether'
  BY <1>1, <1>2, AgedKeeps DEF CycleInv, CommittedPublished, CommittedTogether
<1>9. SiteShowsPublished'
  BY <1>1 DEF CycleInv, SiteShowsPublished
<1> QED
  BY <1>5, <1>6, <1>7, <1>8, <1>9 DEF CycleInv

\* A step that changes only the run and its checkout keeps what is public.
LEMMA FilesKeep ==
    ASSUME CycleInv, run' \in Run, tree' \in Artifacts, UNCHANGED <<chain, repo, site>>
    PROVE  /\ CycleTypeOK'
           /\ ChainTrusted' /\ CommittedPublished' /\ CommittedTogether' /\ SiteShowsPublished'
  BY DEF CycleInv, CycleTypeOK, ChainTrusted, CommittedPublished, CommittedTogether,
         SiteShowsPublished

-----------------------------------------------------------------------------
(* One LST. *)

\* The LST a run is at.
LEMMA CurrentTracked ==
    ASSUME CycleInv, OnAnLst
    PROVE  /\ run.index \in 1..Len(TRACKED)
           /\ Current \in Lsts
           /\ Current = PRIMARY_LST_ID <=> run.index = 1
           /\ \A j \in 1..(run.index - 1) : TRACKED[j] \in Lsts \ {Current}
<1>1. run.index \in 1..Len(TRACKED)
  BY TrackedList DEF CycleInv, CycleTypeOK, Run, CounterInStep
<1> QED
  BY <1>1, TrackedList DEF Current, PRIMARY_LST_ID

LEMMA FetchKeeps ==
    ASSUME CycleInv, Fetch
    PROVE  CycleInv'
<1>1. /\ run' = [run EXCEPT !.phase = "sync", !.source = HistorySource(Current)]
      /\ run.phase = "fetch" /\ UNCHANGED <<chain, repo, tree, site>>
  BY DEF Fetch
<1>2. run \in Run
  BY DEF CycleInv, CycleTypeOK
<1>3. HistorySource(Current) \in Cache
  BY DEF HistorySource, Cache
<1>4. /\ run' \in Run /\ run'.phase = "sync"
      /\ run'.index = run.index /\ run'.submitted = run.submitted
  BY <1>1, <1>2, <1>3 DEF Run, Phases
<1>5. CounterInStep' /\ CountedIsPublished' /\ InHandIsTrusted'
  BY <1>1, <1>4 DEF CycleInv, CounterInStep, OnAnLst, PassedAll, CountedIsPublished, Good,
                    GoodPrimary, InHandIsTrusted
<1> QED
  BY <1>1, <1>4, <1>5, FilesKeep DEF CycleInv, CycleTypeOK

\* sync_artifacts.py writes one LST, and the primary's files for the first one.
LEMMA WriteSnapshotWrites ==
    ASSUME tree \in Artifacts, Current \in Lsts, run.source \in Cache,
           NEW s \in Snapshot, WriteSnapshot(s)
    PROVE  /\ tree' \in Artifacts
           /\ tree'.snapshots[Current] = s
           /\ tree'.cache[Current] = run.source
           /\ tree'.primary = IF Current = PRIMARY_LST_ID THEN s ELSE tree.primary
           /\ \A l \in Lsts \ {Current} : /\ tree'.snapshots[l] = tree.snapshots[l]
                                          /\ tree'.cache[l] = tree.cache[l]
<1> DEFINE primary   == IF Current = PRIMARY_LST_ID THEN s ELSE tree.primary
           snapshots == [tree.snapshots EXCEPT ![Current] = s]
           cache     == [tree.cache EXCEPT ![Current] = run.source]
<1>1. /\ tree.snapshots \in [Lsts -> Snapshot] /\ tree.primary \in Snapshot
      /\ tree.cache \in [Lsts -> Cache]
  BY DEF Artifacts
<1>2. tree' = [tree EXCEPT !.snapshots = snapshots, !.primary = primary, !.cache = cache]
  BY DEF WriteSnapshot
<1>3. primary \in Snapshot
  BY <1>1
<1>4. /\ snapshots \in [Lsts -> Snapshot] /\ snapshots[Current] = s
      /\ \A l \in Lsts \ {Current} : snapshots[l] = tree.snapshots[l]
  BY <1>1
<1>5. /\ cache \in [Lsts -> Cache] /\ cache[Current] = run.source
      /\ \A l \in Lsts \ {Current} : cache[l] = tree.cache[l]
  BY <1>1
<1> HIDE DEF primary, snapshots, cache
<1>6. /\ tree' \in Artifacts /\ tree'.primary = primary
      /\ tree'.snapshots = snapshots /\ tree'.cache = cache
  BY <1>2, <1>3, <1>4, <1>5 DEF Artifacts
<1> QED
  BY <1>4, <1>5, <1>6 DEF primary

\* What was counted is still in the checkout after another LST was written.
LEMMA CountedStays ==
    ASSUME CycleInv, OnAnLst,
           \A l \in Lsts \ {Current} : /\ tree'.snapshots[l] = tree.snapshots[l]
                                       /\ tree'.cache[l] = tree.cache[l],
           run.index > 1 => tree'.primary = tree.primary,
           run.submitted = run.index - 1
    PROVE  /\ \A j \in 1..(run.index - 1) : Good(tree', TRACKED[j])
           /\ run.index > 1 => GoodPrimary(tree')
<1>1. \A j \in 1..(run.index - 1) : TRACKED[j] \in Lsts \ {Current}
  BY CurrentTracked
<1>2. \A j \in 1..(run.index - 1) : Good(tree, TRACKED[j])
  BY DEF CycleInv, CountedIsPublished
<1>3. run.index > 1 => GoodPrimary(tree)
  BY DEF CycleInv, CountedIsPublished
<1>4. \A j \in 1..(run.index - 1) : Good(tree', TRACKED[j])
  BY <1>1, <1>2 DEF Good
<1> QED
  BY <1>3, <1>4 DEF GoodPrimary

LEMMA SyncKeeps ==
    ASSUME CycleInv, Sync
    PROVE  CycleInv'
<1> DEFINE trusted == TrustedHistory(run.source)
           s == [fresh |-> TRUE, trusted |-> trusted, published |-> FALSE]
<1>1. /\ run.phase = "sync" /\ WriteSnapshot(s)
      /\ run' = IF trusted THEN [run EXCEPT !.phase = "simulate"]
                ELSE [run EXCEPT !.phase = AfterLst, !.index = @ + 1]
      /\ UNCHANGED <<chain, repo, site>>
  BY DEF Sync
<1>2. run \in Run /\ tree \in Artifacts /\ run.source \in Cache /\ OnAnLst
  BY <1>1 DEF CycleInv, CycleTypeOK, Run, OnAnLst
<1>3. run.index \in 1..Len(TRACKED) /\ Current \in Lsts
  BY <1>2, CurrentTracked
<1>4. s \in Snapshot /\ s.fresh /\ s.trusted = trusted
  BY DEF Snapshot, TrustedHistory
<1> HIDE DEF s
<1>5. /\ tree' \in Artifacts /\ tree'.snapshots[Current] = s
      /\ tree'.cache[Current] = run.source
      /\ tree'.primary = IF Current = PRIMARY_LST_ID THEN s ELSE tree.primary
      /\ \A l \in Lsts \ {Current} : /\ tree'.snapshots[l] = tree.snapshots[l]
                                     /\ tree'.cache[l] = tree.cache[l]
  BY <1>1, <1>2, <1>3, <1>4, WriteSnapshotWrites
<1>6. run.index > 1 => tree'.primary = tree.primary
  BY <1>2, <1>3, <1>5, CurrentTracked
<1>7. run.submitted = run.index - 1 =>
        /\ \A j \in 1..(run.index - 1) : Good(tree', TRACKED[j])
        /\ run.index > 1 => GoodPrimary(tree')
  BY <1>2, <1>5, <1>6, CountedStays
<1>8. run.submitted <= run.index - 1 /\ run.submitted \in Nat
  BY <1>2 DEF CycleInv, CounterInStep, Run
<1>9. CASE trusted
  <2>1. /\ run' \in Run /\ run'.phase = "simulate"
        /\ run'.index = run.index /\ run'.submitted = run.submitted
    BY <1>1, <1>2, <1>9 DEF Run, Phases
  <2>2. Current' = Current
    BY <2>1 DEF Current
  <2>3. CounterInStep'
    BY <1>3, <1>8, <2>1 DEF CounterInStep, OnAnLst, PassedAll
  <2>4. CountedIsPublished'
    BY <1>7, <2>1 DEF CountedIsPublished
  <2>5. InHandIsTrusted'
    BY <1>2, <1>4, <1>5, <1>9, <2>1, <2>2, CurrentTracked DEF InHandIsTrusted, TrustedHistory
  <2> QED
    BY <1>1, <1>5, <2>1, <2>3, <2>4, <2>5, FilesKeep DEF CycleInv
<1>10. CASE ~trusted
  <2>1. /\ run' \in Run /\ run'.phase = AfterLst
        /\ run'.index = run.index + 1 /\ run'.submitted = run.submitted
    <3>1. run' = [run EXCEPT !.phase = AfterLst, !.index = run.index + 1]
      BY <1>1, <1>10
    <3>2. AfterLst \in Phases /\ run.index + 1 \in 1..(Len(TRACKED) + 1)
      BY <1>3, TrackedList DEF AfterLst, Phases
    <3> QED
      BY <1>2, <3>1, <3>2 DEF Run
  <2>2. run'.submitted # run'.index - 1
    BY <1>3, <1>8, <2>1
  <2>3. CounterInStep' /\ CountedIsPublished' /\ InHandIsTrusted'
    BY <1>3, <1>8, <2>1, <2>2, TrackedList
       DEF AfterLst, CounterInStep, OnAnLst, PassedAll, CountedIsPublished, InHandIsTrusted
  <2> QED
    BY <1>1, <1>5, <2>1, <2>3, FilesKeep DEF CycleInv
<1> QED
  BY <1>9, <1>10

LEMMA SimulateKeeps ==
    ASSUME CycleInv, Simulate
    PROVE  CycleInv'
<1>1. /\ run' = [run EXCEPT !.phase = "submit"]
      /\ run.phase = "simulate" /\ UNCHANGED <<chain, repo, tree, site>>
  BY DEF Simulate
<1>2. run \in Run
  BY DEF CycleInv, CycleTypeOK
<1>3. /\ run' \in Run /\ run'.phase = "submit"
      /\ run'.index = run.index /\ run'.submitted = run.submitted
  BY <1>1, <1>2 DEF Run, Phases
<1>4. CounterInStep' /\ CountedIsPublished' /\ InHandIsTrusted'
  BY <1>1, <1>3 DEF CycleInv, CounterInStep, OnAnLst, PassedAll, CountedIsPublished, Good,
                    GoodPrimary, InHandIsTrusted, Current
<1> QED
  BY <1>1, <1>3, <1>4, FilesKeep DEF CycleInv, CycleTypeOK

\* The transaction is on chain, with the snapshot that was computed for it.
LEMMA PublishPublishes ==
    ASSUME CycleInv, run.phase = "submit", Publish(Current)
    PROVE  /\ chain' \in [Lsts -> Snapshot]
           /\ ChainTrusted'
           /\ chain'[Current] \in Snapshot
           /\ chain'[Current].fresh /\ chain'[Current].trusted /\ chain'[Current].published
<1> DEFINE s == [tree.snapshots[Current] EXCEPT !.published = TRUE]
<1>1. chain' = [chain EXCEPT ![Current] = s]
  BY DEF Publish
<1>2. Current \in Lsts
  BY CurrentTracked DEF OnAnLst
<1>3. tree.snapshots[Current] \in Snapshot
  BY <1>2 DEF CycleInv, CycleTypeOK, Artifacts
<1>4. tree.snapshots[Current].fresh /\ tree.snapshots[Current].trusted
  BY DEF CycleInv, InHandIsTrusted
<1>5. s \in Snapshot /\ s.fresh /\ s.trusted /\ s.published
  BY <1>3, <1>4 DEF Snapshot
<1> HIDE DEF s
<1>6. chain \in [Lsts -> Snapshot]
  BY DEF CycleInv, CycleTypeOK
<1>7. chain' \in [Lsts -> Snapshot] /\ chain'[Current] = s
  BY <1>1, <1>2, <1>5, <1>6
<1>8. ChainTrusted'
  BY <1>1, <1>2, <1>5, <1>6 DEF CycleInv, ChainTrusted
<1> QED
  BY <1>5, <1>7, <1>8

LEMMA SubmitKeeps ==
    ASSUME CycleInv, Submit
    PROVE  CycleInv'
<1> DEFINE s == chain'[Current]
<1>1. /\ run.phase = "submit" /\ Publish(Current)
      /\ tree' = [tree EXCEPT !.snapshots[Current] = s,
                              !.primary = IF Current = PRIMARY_LST_ID THEN s ELSE @]
      /\ run' = [run EXCEPT !.phase = "read"]
      /\ UNCHANGED <<repo, site>>
  BY DEF Submit
<1>2. /\ chain' \in [Lsts -> Snapshot] /\ ChainTrusted'
      /\ s \in Snapshot /\ s.fresh /\ s.trusted /\ s.published
  BY <1>1, PublishPublishes
<1> HIDE DEF s
<1>3. run \in Run /\ tree \in Artifacts /\ OnAnLst /\ Current \in Lsts
  BY <1>1, CurrentTracked DEF CycleInv, CycleTypeOK, OnAnLst
<1>4. /\ run' \in Run /\ run'.phase = "read"
      /\ run'.index = run.index /\ run'.submitted = run.submitted
  BY <1>1, <1>3 DEF Run, Phases
<1>5. /\ tree' \in Artifacts /\ tree'.snapshots[Current] = s /\ tree'.cache = tree.cache
      /\ tree'.primary = IF Current = PRIMARY_LST_ID THEN s ELSE tree.primary
      /\ \A l \in Lsts \ {Current} : tree'.snapshots[l] = tree.snapshots[l]
  <2> DEFINE primary   == IF Current = PRIMARY_LST_ID THEN s ELSE tree.primary
             snapshots == [tree.snapshots EXCEPT ![Current] = s]
  <2>1. tree' = [tree EXCEPT !.snapshots = snapshots, !.primary = primary]
    BY <1>1
  <2>2. /\ tree.snapshots \in [Lsts -> Snapshot] /\ tree.primary \in Snapshot
    BY <1>3 DEF Artifacts
  <2>3. /\ snapshots \in [Lsts -> Snapshot] /\ snapshots[Current] = s
        /\ \A l \in Lsts \ {Current} : snapshots[l] = tree.snapshots[l]
    BY <1>2, <1>3, <2>2
  <2>4. primary \in Snapshot
    BY <1>2, <2>2
  <2> HIDE DEF primary, snapshots
  <2>5. /\ tree' \in Artifacts /\ tree'.primary = primary
        /\ tree'.snapshots = snapshots /\ tree'.cache = tree.cache
    BY <1>3, <2>1, <2>3, <2>4 DEF Artifacts
  <2> QED
    BY <2>3, <2>5 DEF primary
<1>6. run.index > 1 => tree'.primary = tree.primary
  BY <1>3, <1>5, CurrentTracked
<1>7. CountedIsPublished'
  BY <1>3, <1>4, <1>5, <1>6, CountedStays DEF CountedIsPublished
<1>8. Current' = Current
  BY <1>4 DEF Current
<1>9. tree.cache[Current] # "cache_fallback"
  BY <1>1 DEF CycleInv, InHandIsTrusted
<1>10. InHandIsTrusted'
  BY <1>2, <1>3, <1>4, <1>5, <1>8, <1>9, CurrentTracked DEF InHandIsTrusted
<1>11. CounterInStep'
  BY <1>1, <1>4 DEF CycleInv, CounterInStep, OnAnLst, PassedAll
<1>12. CycleTypeOK'
  BY <1>1, <1>2, <1>4, <1>5 DEF CycleInv, CycleTypeOK
<1>13. CommittedPublished' /\ CommittedTogether' /\ SiteShowsPublished'
  BY <1>1 DEF CycleInv, CommittedPublished, CommittedTogether, SiteShowsPublished
<1> QED
  BY <1>2, <1>7, <1>10, <1>11, <1>12, <1>13 DEF CycleInv

\* A submission whose answer is lost has still published a trusted value.
LEMMA SubmitUnacknowledgedKeeps ==
    ASSUME CycleInv, SubmitUnacknowledged
    PROVE  CycleInv'
<1>1. run.phase = "submit" /\ Publish(Current) /\ StopRun /\ UNCHANGED <<repo, site>>
  BY DEF SubmitUnacknowledged
<1>2. chain' \in [Lsts -> Snapshot] /\ ChainTrusted'
  BY <1>1, PublishPublishes
<1>3. run' = NoRun /\ tree' = repo /\ repo \in Artifacts
  BY <1>1 DEF StopRun, CycleInv, CycleTypeOK
<1>4. run' \in Run /\ CounterInStep' /\ CountedIsPublished' /\ InHandIsTrusted'
  BY <1>3, NoRunKeeps
<1>5. CycleTypeOK'
  BY <1>1, <1>2, <1>3, <1>4 DEF CycleInv, CycleTypeOK
<1>6. CommittedPublished' /\ CommittedTogether' /\ SiteShowsPublished'
  BY <1>1 DEF CycleInv, CommittedPublished, CommittedTogether, SiteShowsPublished
<1> QED
  BY <1>2, <1>4, <1>5, <1>6 DEF CycleInv

\* Only an LST that was computed, published and read back is counted.
LEMMA ReadBackKeeps ==
    ASSUME CycleInv, ReadBack
    PROVE  CycleInv'
<1>1. /\ run.phase = "read" /\ UNCHANGED <<chain, repo, tree, site>>
      /\ run' = [run EXCEPT !.phase = AfterLst, !.index = @ + 1, !.submitted = @ + 1]
  BY DEF ReadBack
<1>2. run \in Run /\ tree \in Artifacts /\ run.index \in 1..Len(TRACKED)
  BY <1>1, CurrentTracked DEF CycleInv, CycleTypeOK, OnAnLst
<1>3. AfterLst \in Phases /\ run.index + 1 \in 1..(Len(TRACKED) + 1)
  BY <1>2, TrackedList DEF AfterLst, Phases
<1>4. run.submitted <= run.index - 1 /\ run.submitted \in Nat
  BY <1>2 DEF CycleInv, CounterInStep, Run
<1>5. /\ run' \in Run /\ run'.phase = AfterLst
      /\ run'.index = run.index + 1 /\ run'.submitted = run.submitted + 1
  <2>1. run.submitted + 1 \in Nat
    BY <1>4
  <2> HIDE DEF AfterLst
  <2>2. run' = [run EXCEPT !.phase = AfterLst, !.index = run.index + 1,
                          !.submitted = run.submitted + 1]
    BY <1>1
  <2> QED
    BY <1>2, <1>3, <2>1, <2>2 DEF Run
<1>6. CounterInStep'
  BY <1>2, <1>4, <1>5, TrackedList DEF AfterLst, CounterInStep, OnAnLst, PassedAll
<1>7. CountedIsPublished'
  <2>1. SUFFICES ASSUME run.submitted = run.index - 1
                 PROVE  /\ \A j \in 1..run.index : Good(tree, TRACKED[j])
                        /\ GoodPrimary(tree)
    BY <1>1, <1>2, <1>5, <1>4 DEF CountedIsPublished, Good, GoodPrimary
  <2>2. Good(tree, TRACKED[run.index]) /\ (run.index = 1 => GoodPrimary(tree))
    BY <1>1 DEF CycleInv, InHandIsTrusted, Current, Good, GoodPrimary
  <2>3. /\ \A j \in 1..(run.index - 1) : Good(tree, TRACKED[j])
        /\ run.index > 1 => GoodPrimary(tree)
    BY <2>1 DEF CycleInv, CountedIsPublished
  <2> QED
    BY <1>2, <2>2, <2>3
<1>8. InHandIsTrusted'
  BY <1>5 DEF AfterLst, InHandIsTrusted
<1> QED
  BY <1>1, <1>2, <1>5, <1>6, <1>7, <1>8, FilesKeep DEF CycleInv

-----------------------------------------------------------------------------
(* After the loop. *)

LEMMA CountSubmittedKeeps ==
    ASSUME CycleInv, CountSubmitted
    PROVE  CycleInv'
<1>1. /\ run' = [run EXCEPT !.phase = "commit"] /\ run.submitted = Len(TRACKED)
      /\ run.phase = "count" /\ UNCHANGED <<chain, repo, tree, site>>
  BY DEF CountSubmitted
<1>2. run \in Run /\ tree \in Artifacts
  BY DEF CycleInv, CycleTypeOK
<1>3. /\ run' \in Run /\ run'.phase = "commit"
      /\ run'.index = run.index /\ run'.submitted = run.submitted
  BY <1>1, <1>2 DEF Run, Phases
<1>4. CounterInStep' /\ CountedIsPublished' /\ InHandIsTrusted'
  BY <1>1, <1>3 DEF CycleInv, CounterInStep, OnAnLst, PassedAll, CountedIsPublished, Good,
                    GoodPrimary, InHandIsTrusted
<1> QED
  BY <1>1, <1>2, <1>3, <1>4, FilesKeep DEF CycleInv

\* At the commit the counter vouches for the whole checkout.
LEMMA AllCounted ==
    ASSUME CycleInv, run.phase \in {"commit", "push"}
    PROVE  GoodPrimary(tree) /\ \A l \in Lsts : Good(tree, l)
<1>1. run.index = Len(TRACKED) + 1 /\ run.submitted = Len(TRACKED)
  BY DEF CycleInv, CounterInStep, PassedAll
<1>2. GoodPrimary(tree) /\ \A j \in 1..Len(TRACKED) : Good(tree, TRACKED[j])
  BY <1>1, TrackedList DEF CycleInv, CountedIsPublished
<1> QED
  BY <1>2, TrackedList

LEMMA CommitKeeps ==
    ASSUME CycleInv, Commit
    PROVE  CycleInv'
<1> DEFINE snapshots == [tree.snapshots EXCEPT ![PRIMARY_LST_ID] = tree.primary]
<1>1. /\ run' = [run EXCEPT !.phase = "push", !.attempt = 1]
      /\ tree' = [tree EXCEPT !.snapshots = snapshots]
      /\ run.phase = "commit" /\ UNCHANGED <<chain, repo, site>>
  BY DEF Commit
<1>2. run \in Run /\ tree \in Artifacts
  BY DEF CycleInv, CycleTypeOK
<1>3. /\ run' \in Run /\ run'.phase = "push"
      /\ run'.index = run.index /\ run'.submitted = run.submitted
  BY <1>1, <1>2 DEF Run, Phases
<1>4. GoodPrimary(tree) /\ \A l \in Lsts : Good(tree, l)
  BY <1>1, AllCounted
<1>5. /\ snapshots \in [Lsts -> Snapshot]
      /\ \A l \in Lsts : snapshots[l] = tree.snapshots[l] \/ snapshots[l] = tree.primary
  BY <1>2 DEF Artifacts
<1> HIDE DEF snapshots
<1>6. /\ tree' \in Artifacts /\ tree'.snapshots = snapshots
      /\ tree'.primary = tree.primary /\ tree'.cache = tree.cache
  BY <1>1, <1>2, <1>5 DEF Artifacts
<1>7. GoodPrimary(tree') /\ \A l \in Lsts : Good(tree', l)
  BY <1>4, <1>5, <1>6 DEF Good, GoodPrimary
<1>8. run.index = Len(TRACKED) + 1
  BY <1>1 DEF CycleInv, CounterInStep, PassedAll
<1>9. CountedIsPublished'
  BY <1>3, <1>7, <1>8, TrackedList DEF CountedIsPublished
<1>10. CounterInStep' /\ InHandIsTrusted'
  BY <1>1, <1>3 DEF CycleInv, CounterInStep, OnAnLst, PassedAll, InHandIsTrusted
<1> QED
  BY <1>1, <1>3, <1>6, <1>9, <1>10, FilesKeep DEF CycleInv

\* What reaches main is the checkout the counter vouched for.
LEMMA PushKeeps ==
    ASSUME CycleInv, Push
    PROVE  CycleInv'
<1>1. run.phase = "push" /\ repo' = tree /\ run' = NoRun /\ UNCHANGED <<chain, tree, site>>
  BY DEF Push
<1>2. tree \in Artifacts /\ GoodPrimary(tree) /\ \A l \in Lsts : Good(tree, l)
  BY <1>1, AllCounted DEF CycleInv, CycleTypeOK
<1>3. run' \in Run /\ CounterInStep' /\ CountedIsPublished' /\ InHandIsTrusted'
  BY <1>1, <1>2, NoRunKeeps
<1>4. CycleTypeOK'
  BY <1>1, <1>2, <1>3 DEF CycleInv, CycleTypeOK
<1>5. CommittedPublished'
  BY <1>1, <1>2 DEF CommittedPublished, Good
<1>6. CommittedTogether'
  <2>1. tree.primary.fresh \in BOOLEAN /\ \A l \in Lsts : tree.snapshots[l].fresh \in BOOLEAN
    BY <1>2 DEF Artifacts, Snapshot
  <2> QED
    BY <1>1, <1>2, <2>1 DEF CommittedTogether, Good, GoodPrimary
<1>7. ChainTrusted' /\ SiteShowsPublished'
  BY <1>1 DEF CycleInv, ChainTrusted, SiteShowsPublished
<1> QED
  BY <1>3, <1>4, <1>5, <1>6, <1>7 DEF CycleInv

LEMMA PushRejectedKeeps ==
    ASSUME CycleInv, PushRejected
    PROVE  CycleInv'
<1>1. /\ run.phase = "push" /\ UNCHANGED <<chain, repo, site>>
      /\ \/ run' = [run EXCEPT !.attempt = @ + 1] /\ UNCHANGED tree
         \/ StopRun
  BY DEF PushRejected
<1>2. CASE StopRun
  BY <1>1, <1>2, StopRunKeeps
<1>3. CASE run' = [run EXCEPT !.attempt = @ + 1] /\ UNCHANGED tree
  <2>1. run \in Run /\ tree \in Artifacts
    BY DEF CycleInv, CycleTypeOK
  <2>2. /\ run' \in Run /\ run'.phase = run.phase
        /\ run'.index = run.index /\ run'.submitted = run.submitted
    BY <1>3, <2>1 DEF Run
  <2>3. CounterInStep' /\ CountedIsPublished' /\ InHandIsTrusted'
    BY <1>1, <1>3, <2>2 DEF CycleInv, CounterInStep, OnAnLst, PassedAll, CountedIsPublished,
                            Good, GoodPrimary, InHandIsTrusted
  <2> QED
    BY <1>1, <1>3, <2>1, <2>2, <2>3, FilesKeep DEF CycleInv
<1> QED
  BY <1>1, <1>2, <1>3

\* The site is built from main.
LEMMA BuildDataKeeps ==
    ASSUME CycleInv, BuildData
    PROVE  CycleInv'
<1>1. site' = repo.snapshots /\ UNCHANGED <<chain, repo, tree, run>>
  BY DEF BuildData
<1>2. CycleTypeOK'
  BY <1>1 DEF CycleInv, CycleTypeOK, Artifacts
<1>3. SiteShowsPublished'
  BY <1>1 DEF CycleInv, CommittedPublished, SiteShowsPublished
<1> QED
  BY <1>1, <1>2, <1>3 DEF CycleInv, CounterInStep, OnAnLst, PassedAll, CountedIsPublished, Good,
       GoodPrimary, InHandIsTrusted, Current, ChainTrusted, CommittedPublished, CommittedTogether

\* Time and the outside world touch neither files nor values.
LEMMA WorldKeeps ==
    ASSUME CycleInv, UNCHANGED <<chain, repo, tree, run, site>>
    PROVE  CycleInv'
  BY DEF CycleInv, CycleTypeOK, CounterInStep, OnAnLst, PassedAll, CountedIsPublished, Good,
         GoodPrimary, InHandIsTrusted, Current, ChainTrusted, CommittedPublished,
         CommittedTogether, SiteShowsPublished

-----------------------------------------------------------------------------
(* The theorems. *)

LEMMA CycleStepKeeps == CycleInv /\ [Next]_vars => CycleInv'
<1> SUFFICES ASSUME CycleInv, [Next]_vars PROVE CycleInv'
  OBVIOUS
<1>1. CASE StartRun \/ Fetch \/ Sync \/ Simulate \/ Submit \/ SubmitUnacknowledged \/ ReadBack
  BY <1>1, StartRunKeeps, FetchKeeps, SyncKeeps, SimulateKeeps, SubmitKeeps,
     SubmitUnacknowledgedKeeps, ReadBackKeeps
<1>2. CASE CountSubmitted \/ Commit \/ Push \/ PushRejected \/ BuildData
  BY <1>2, CountSubmittedKeeps, CommitKeeps, PushKeeps, PushRejectedKeeps, BuildDataKeeps
<1>3. CASE FetchFails \/ SubmitFails \/ ReadBackFails \/ CountTooLow \/ RebaseFails \/ Killed
  <2>1. StopRun /\ UNCHANGED <<chain, repo, site>>
    BY <1>3 DEF FetchFails, SubmitFails, ReadBackFails, CountTooLow, RebaseFails, Killed, RunFails
  <2> QED
    BY <2>1, StopRunKeeps
<1>4. CASE (\E l \in Lsts : IntervalPasses(l)) \/ EnvChanges \/ UNCHANGED vars
  <2>1. UNCHANGED <<chain, repo, tree, run, site>>
    BY <1>4 DEF IntervalPasses, EnvChanges, vars
  <2> QED
    BY <2>1, WorldKeeps
<1> QED
  BY <1>1, <1>2, <1>3, <1>4 DEF Next, RunStep

\* The counter vouches for what a run has done, in every order of failures.
THEOREM CycleInvariant == Spec => []CycleInv
<1> QED
  BY InitEstablishes, CycleStepKeeps, PTL DEF Spec

\* Nothing computed from the fallback cache is ever published on chain.
THEOREM UpdaterPublishesTrusted == Spec => []ChainTrusted
<1>1. CycleInv => ChainTrusted
  BY DEF CycleInv
<1> QED
  BY <1>1, CycleInvariant, PTL

\* Every snapshot on main is trusted and on chain, and no committed cache is a
\* fallback's, wherever runs stop.
THEOREM UpdaterCommitsPublished == Spec => []CommittedPublished
<1>1. CycleInv => CommittedPublished
  BY DEF CycleInv
<1> QED
  BY <1>1, CycleInvariant, PTL

\* Main never mixes the snapshots of two runs.
THEOREM UpdaterCommitsTogether == Spec => []CommittedTogether
<1>1. CycleInv => CommittedTogether
  BY DEF CycleInv
<1> QED
  BY <1>1, CycleInvariant, PTL

\* The site shows published snapshots whenever it is built.
THEOREM SiteIsPublished == Spec => []SiteShowsPublished
<1>1. CycleInv => SiteShowsPublished
  BY DEF CycleInv
<1> QED
  BY <1>1, CycleInvariant, PTL
=============================================================================
