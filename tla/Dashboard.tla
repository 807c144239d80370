------------------------------ MODULE Dashboard ------------------------------
(***************************************************************************)
(* The website's live card: RiskStateProvider.tsx polls the route          *)
(* app/api/riskstate, which reads the RiskState account over RPC or falls  *)
(* back to the committed snapshot, and LiveRiskState.tsx renders what is   *)
(* there against a clock of its own that is refreshed slowly.              *)
(*                                                                         *)
(* Time is relative: a read carries the age of the publish it shows, and   *)
(* Tick makes everything older; ages above MAX_AGE_SHOWN are one.  A read  *)
(* goes to the account of one LST, the page's.  React runs an effect some  *)
(* time after the render that asked for it, and before the next one.  A    *)
(* hidden page's own clock is taken to run like a visible one's, and a     *)
(* card that has just been mounted to be as far behind as any.             *)
(***************************************************************************)
EXTENDS Naturals

CONSTANTS
    POLL_INTERVAL,       \* ticks between two polls of a visible page
    RPC_TIMEOUT,         \* ticks the route waits for the RPC endpoint
    ANSWER_DELAY,        \* ticks an answer is under way to the page, at most
    LABEL_INTERVAL,      \* ticks between two refreshes of the card's clock
    MAX_STALENESS_SECS   \* deriveStatus's limit, in ticks

\* A request is over before the next poll would cancel it.
ASSUME DashboardAssumption ==
    /\ {POLL_INTERVAL, RPC_TIMEOUT, ANSWER_DELAY, LABEL_INTERVAL, MAX_STALENESS_SECS} \subseteq Nat
    /\ RPC_TIMEOUT + ANSWER_DELAY < POLL_INTERVAL
    /\ LABEL_INTERVAL > 0

VARIABLES
    chain,       \* the account
    up,          \* the RPC endpoint and the site are reachable
    visible,     \* document.hidden, the other way round
    timer,       \* the ticks the poll's interval still runs, if there is one
    data,        \* what the provider holds, if anything
    loadState,
    refreshing,
    effect,      \* an effect to run: whether there was data when it was rendered
    request,     \* the fetch that is not cancelled, and its answer
    orphan,      \* an answer that arrived as its fetch was cancelled
    lag,         \* how far the card's clock is behind
    exposed      \* ticks a critical feed is shown as usable, while all works

vars == <<chain, up, visible, timer, data, loadState, refreshing, effect, request, orphan,
          lag, exposed>>

world == <<chain, up>>
page  == <<data, loadState, refreshing>>

MAX_AGE_SHOWN == MAX_STALENESS_SECS + LABEL_INTERVAL + 1
EXPOSED_LIMIT == POLL_INTERVAL + RPC_TIMEOUT + ANSWER_DELAY

AtMostOne(S) == {{}} \cup {{x} : x \in S}

LiveRead(age, critical) == [live |-> TRUE, age |-> age, critical |-> critical]

\* The committed snapshot is as old as can be; its regime only words a note.
OfflineSnapshot == [live |-> FALSE, age |-> MAX_AGE_SHOWN, critical |-> FALSE]

Older(n) == IF n < MAX_AGE_SHOWN THEN n + 1 ELSE n

-----------------------------------------------------------------------------
(* The card. *)

Status(d) ==
    IF ~d.live THEN "unknown"
    ELSE IF d.age > MAX_STALENESS_SECS + lag THEN "stale"
    ELSE IF d.critical THEN "critical" ELSE "healthy"

\* The LTV offered as the default SDK guard, and the note below it.
Card(d) ==
    [guard |-> IF ~d.live THEN "none"
               ELSE IF Status(d) = "stale" \/ d.critical THEN "fallback" ELSE "published",
     note |-> IF Status(d) = "stale" THEN "stale"
              ELSE IF d.critical THEN "critical"
              ELSE IF d.live THEN "fresh" ELSE "snapshot"]

\* The section renders the skeleton, the error card, or the card.
Rendered == IF loadState = "loading" THEN {} ELSE {Card(d) : d \in data}

ErrorShown == loadState = "error" /\ data = {}

Usable == \E card \in Rendered : card.guard = "published"

-----------------------------------------------------------------------------
(* The provider. *)

\* A new nonce: the page renders, the effect is still to run.
Reload == effect = {} /\ effect' = {data # {}}

Init ==
    /\ chain \in [age : 0..MAX_AGE_SHOWN, critical : BOOLEAN]
    /\ up \in BOOLEAN
    /\ visible \in BOOLEAN
    /\ timer = IF visible THEN {POLL_INTERVAL} ELSE {}
    /\ data = {} /\ loadState = "loading" /\ refreshing = FALSE
    /\ effect = {FALSE}
    /\ request = {} /\ orphan = {}
    /\ lag = 0
    /\ exposed = 0

Poll ==
    /\ timer = {0}
    /\ Reload
    /\ timer' = {POLL_INTERVAL}
    /\ UNCHANGED <<world, visible, page, request, orphan, lag, exposed>>

\* The card's button, disabled while a read is under way, and the error card's.
Click ==
    /\ visible
    /\ (Rendered # {} /\ ~refreshing) \/ ErrorShown
    /\ Reload
    /\ UNCHANGED <<world, visible, timer, page, request, orphan, lag, exposed>>

Hide ==
    /\ visible
    /\ visible' = FALSE
    /\ timer' = {}
    /\ exposed' = 0
    /\ UNCHANGED <<world, page, effect, request, orphan, lag>>

SlipShow ==
    /\ ~visible
    /\ visible' = TRUE
    /\ Reload
    /\ UNCHANGED <<world, timer, page, request, orphan, lag, exposed>>

Show ==
    /\ ~visible
    /\ visible' = TRUE
    /\ Reload
    /\ timer' = {POLL_INTERVAL}
    /\ UNCHANGED <<world, page, request, orphan, lag, exposed>>

\* The cleanup of the former effect, which cancels its fetch, and the effect:
\* the skeleton only if there was nothing to show when the effect was rendered.
FlushEffect ==
    \E hadData \in effect :
        /\ effect' = {}
        /\ orphan' = IF request = {} THEN orphan ELSE UNION {q.answer : q \in request}
        /\ request' = {[waited |-> 0, answer |-> {}]}
        /\ refreshing' = TRUE
        /\ loadState' = IF hadData THEN loadState ELSE "loading"
        /\ UNCHANGED <<world, visible, timer, data, lag, exposed>>

Deliver ==
    \E q \in request :
        /\ q.answer # {}
        /\ request' = {}
        /\ data' = q.answer /\ loadState' = "ready" /\ refreshing' = FALSE
        /\ UNCHANGED <<world, visible, timer, effect, orphan, lag, exposed>>

SlipFail ==
    /\ request # {} /\ ~up
    /\ request' = {}
    /\ loadState' = "error"
    /\ UNCHANGED <<world, visible, timer, data, refreshing, effect, orphan, lag, exposed>>

\* The fetch fails, or its answer is no success: what is shown stays.
Fail ==
    /\ request # {} /\ ~up
    /\ request' = {}
    /\ loadState' = "error" /\ refreshing' = FALSE
    /\ UNCHANGED <<world, visible, timer, data, effect, orphan, lag, exposed>>

SlipOrphan ==
    /\ orphan # {}
    /\ orphan' = {}
    /\ data' = orphan
    /\ UNCHANGED <<world, visible, timer, loadState, refreshing, effect, request, lag, exposed>>

\* cancelled is set: the answer is dropped.
Orphan ==
    /\ orphan # {}
    /\ orphan' = {}
    /\ UNCHANGED <<world, visible, timer, page, effect, request, lag, exposed>>

-----------------------------------------------------------------------------
(* The route. *)

Answer(read) ==
    \E q \in request :
        /\ q.answer = {}
        /\ request' = {[waited |-> 0, answer |-> {read}]}
        /\ UNCHANGED <<world, visible, timer, page, effect, orphan, lag, exposed>>

RouteLive == up /\ Answer(LiveRead(chain.age, chain.critical))

\* The RPC endpoint fails or does not answer in RPC_TIMEOUT.
RouteFallback == ~up /\ Answer(OfflineSnapshot)

-----------------------------------------------------------------------------
(* Time and the world. *)

SlipLabelDue == FALSE

LabelDue == lag = LABEL_INTERVAL

\* Nothing that is due waits for the clock.
NothingDue ==
    /\ effect = {} /\ orphan = {}
    /\ timer # {0}
    /\ ~LabelDue
    /\ \A q \in request : q.waited < (IF q.answer = {} THEN RPC_TIMEOUT ELSE ANSWER_DELAY)

AgedReads(S) == {[d EXCEPT !.age = Older(@)] : d \in S}

Tick ==
    /\ NothingDue
    /\ chain' = [chain EXCEPT !.age = Older(@)]
    /\ timer' = {n - 1 : n \in timer}
    /\ data' = AgedReads(data)
    /\ request' = {[waited |-> q.waited + 1, answer |-> AgedReads(q.answer)] : q \in request}
    /\ lag' = Older(lag)
    /\ exposed' = IF Usable /\ visible /\ up /\ chain.critical
                  THEN IF exposed <= EXPOSED_LIMIT THEN exposed + 1 ELSE exposed
                  ELSE 0
    /\ UNCHANGED <<up, visible, loadState, refreshing, effect, orphan>>

RefreshLabel ==
    /\ LabelDue
    /\ lag' = 0
    /\ UNCHANGED <<world, visible, timer, page, effect, request, orphan, exposed>>

Publish ==
    /\ \E critical \in BOOLEAN :
          /\ chain' = [age |-> 0, critical |-> critical]
          /\ exposed' = IF critical THEN exposed ELSE 0
    /\ UNCHANGED <<up, visible, timer, page, effect, request, orphan, lag>>

LinkChanges ==
    /\ up' = ~up
    /\ exposed' = 0
    /\ UNCHANGED <<chain, visible, timer, page, effect, request, orphan, lag>>

-----------------------------------------------------------------------------
Next ==
    \/ Poll \/ Click
    \/ Hide \/ Show
    \/ FlushEffect
    \/ RouteLive \/ RouteFallback
    \/ Deliver \/ Fail \/ Orphan
    \/ Tick \/ RefreshLabel
    \/ Publish \/ LinkChanges

\* Timers fire, React runs its effects, the route answers within its timeout and
\* the browser settles every fetch; users and the world owe nothing.
Fairness ==
    /\ WF_vars(Tick)
    /\ WF_vars(Poll)
    /\ WF_vars(RefreshLabel)
    /\ WF_vars(FlushEffect)
    /\ WF_vars(RouteLive \/ RouteFallback)
    /\ WF_vars(Deliver \/ Fail)
    /\ WF_vars(Orphan)

Spec == Init /\ [][Next]_vars /\ Fairness

-----------------------------------------------------------------------------
(* Properties. *)

\* Whatever was cancelled, failed or answered late, a published LTV is offered as
\* usable only if a live read found it healthy and it is at most as old as the
\* readers allow, up to the interval of the card's own clock.
UsableWithinWindow ==
    Usable => \E d \in data :
        d.live /\ ~d.critical /\ d.age <= MAX_STALENESS_SECS + LABEL_INTERVAL

\* On a visible page with a working endpoint a feed that turned critical is not
\* offered as usable for longer than one poll and one request take, however
\* often the page was hidden, its reads cancelled or its link lost before.
CriticalNoticed == exposed <= EXPOSED_LIMIT

\* A live read on the page is never replaced by a live read of an earlier state
\* of the account, whatever the order in which the answers arrive.
NeverBackInTime ==
    [][\A d \in data, e \in data' : d.live /\ e.live => e.age <= Older(d.age)]_vars

\* "Reading..." ends, although polls and returns to the page cancel reads.
ReadingEnds == visible /\ refreshing ~> ~refreshing \/ ~visible

\* A visible page whose endpoint has come back shows live reads again, without a
\* click, and then goes on to.
LiveReturns == <>[](visible /\ up) => <>[](\E d \in data : d.live)
=============================================================================
