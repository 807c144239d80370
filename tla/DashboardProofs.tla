-------------------------- MODULE DashboardProofs --------------------------
(***************************************************************************)
(* What the card shows, for every timeout, poll interval and limit: no      *)
(* usable LTV outside the readers' window, and no earlier state of the     *)
(* account after a later one.                                              *)
(*                                                                         *)
(* Both rest on ages that are in order: the account is the youngest, an    *)
(* answer on its way is no younger than the account, what the page shows   *)
(* no younger than the answer that will replace it.  A cancelled answer is *)
(* outside this order, which is why it must be dropped.                    *)
(***************************************************************************)
EXTENDS Dashboard, TLAPS

Ages == 0..MAX_AGE_SHOWN

Reading == [live : BOOLEAN, age : Ages, critical : BOOLEAN]

DashboardTypeOK ==
    /\ chain \in [age : Ages, critical : BOOLEAN]
    /\ data \subseteq Reading
    /\ request \subseteq [waited : Nat, answer : SUBSET Reading]
    /\ lag \in 0..LABEL_INTERVAL

\* The page has one reading and one request, and a request one answer.
OneOfEach ==
    /\ \A d, e \in data : d = e
    /\ \A q, r \in request : q = r
    /\ \A q \in request : \A d, e \in q.answer : d = e

AgesInOrder ==
    /\ \A d \in data : d.live => chain.age <= d.age
    /\ \A q \in request : \A e \in q.answer : e.live =>
           /\ chain.age <= e.age
           /\ \A d \in data : d.live => e.age <= d.age

DashboardInv == DashboardTypeOK /\ OneOfEach /\ AgesInOrder

-----------------------------------------------------------------------------
(* Getting older. *)

LEMMA Limits ==
    /\ MAX_AGE_SHOWN \in Nat /\ LABEL_INTERVAL \in Nat /\ MAX_STALENESS_SECS \in Nat
    /\ LABEL_INTERVAL < MAX_AGE_SHOWN /\ 0 < LABEL_INTERVAL
  BY DashboardAssumption DEF MAX_AGE_SHOWN

\* Ages keep their order, and the oldest are alike.
LEMMA OlderMonotone ==
    /\ \A m \in Ages : Older(m) \in Ages /\ m <= Older(m)
    /\ \A m, n \in Ages : m <= n => Older(m) <= Older(n)
  BY Limits DEF Older, Ages

\* The readings a step of time leaves are those it found, older.
LEMMA AgedReadings ==
    ASSUME NEW S, S \subseteq Reading
    PROVE  /\ AgedReads(S) \subseteq Reading
           /\ \A e \in AgedReads(S) : \E d \in S : e.live = d.live /\ e.age = Older(d.age)
           /\ (\A d, e \in S : d = e) => \A d, e \in AgedReads(S) : d = e
<1>1. \A d \in Reading : /\ [d EXCEPT !.age = Older(@)] \in Reading
                         /\ [d EXCEPT !.age = Older(@)].live = d.live
                         /\ [d EXCEPT !.age = Older(@)].age = Older(d.age)
  BY OlderMonotone DEF Reading
<1> QED
  BY <1>1 DEF AgedReads

-----------------------------------------------------------------------------
(* The invariant. *)

LEMMA DashboardInitEstablishes == Init => DashboardInv
  BY Limits DEF Init, DashboardInv, DashboardTypeOK, OneOfEach, AgesInOrder, Ages

\* A read made now is the youngest there is.
LEMMA AnswerKeeps ==
    ASSUME DashboardInv, RouteLive \/ RouteFallback
    PROVE  DashboardInv'
<1>1. PICK read \in {LiveRead(chain.age, chain.critical), OfflineSnapshot}, q \in request :
        /\ request' = {[waited |-> 0, answer |-> {read}]}
        /\ UNCHANGED <<chain, data, lag>>
  BY DEF RouteLive, RouteFallback, Answer, world, page
<1>2. read \in Reading /\ (read.live => read.age = chain.age)
  <2>1. chain.age \in Ages /\ chain.critical \in BOOLEAN /\ MAX_AGE_SHOWN \in Ages
    BY Limits DEF DashboardInv, DashboardTypeOK, Ages
  <2>2. CASE read = LiveRead(chain.age, chain.critical)
    BY <2>1, <2>2 DEF LiveRead, Reading
  <2>3. CASE read = OfflineSnapshot
    BY <2>1, <2>3 DEF OfflineSnapshot, Reading
  <2> QED
    BY <2>2, <2>3
<1>3. DashboardTypeOK'
  BY <1>1, <1>2 DEF DashboardInv, DashboardTypeOK
<1>4. OneOfEach'
  BY <1>1 DEF DashboardInv, OneOfEach
<1>5. AgesInOrder'
  <2>1. chain.age \in Ages
    BY DEF DashboardInv, DashboardTypeOK
  <2>2. chain.age <= chain.age
    BY <2>1, Limits DEF Ages
  <2> QED
    BY <1>1, <1>2, <2>1, <2>2 DEF DashboardInv, AgesInOrder
<1> QED
  BY <1>3, <1>4, <1>5 DEF DashboardInv

\* The page takes the answer of the request it has not cancelled.
LEMMA DeliverKeeps ==
    ASSUME DashboardInv, Deliver
    PROVE  DashboardInv'
<1>1. PICK q \in request : /\ request' = {} /\ data' = q.answer
                           /\ UNCHANGED <<chain, lag>>
  BY DEF Deliver, world
<1>2. q.answer \subseteq Reading
  BY DEF DashboardInv, DashboardTypeOK
<1>3. DashboardTypeOK' /\ OneOfEach'
  BY <1>1, <1>2 DEF DashboardInv, DashboardTypeOK, OneOfEach
<1>4. AgesInOrder'
  BY <1>1 DEF DashboardInv, AgesInOrder
<1> QED
  BY <1>3, <1>4 DEF DashboardInv

\* A new effect cancels the request and starts one without an answer.
LEMMA FlushEffectKeeps ==
    ASSUME DashboardInv, FlushEffect
    PROVE  DashboardInv'
<1>1. /\ request' = {[waited |-> 0, answer |-> {}]}
      /\ UNCHANGED <<chain, data, lag>>
  BY DEF FlushEffect, world
<1>2. DashboardTypeOK' /\ OneOfEach' /\ AgesInOrder'
  BY <1>1 DEF DashboardInv, DashboardTypeOK, OneOfEach, AgesInOrder
<1> QED
  BY <1>2 DEF DashboardInv

\* A new value on chain is younger than every read of it.
LEMMA PublishKeeps ==
    ASSUME DashboardInv, Publish
    PROVE  DashboardInv'
<1>1. PICK critical \in BOOLEAN : chain' = [age |-> 0, critical |-> critical]
  BY DEF Publish
<1>2. UNCHANGED <<data, request, lag>>
  BY DEF Publish, page
<1>3. \A d \in Reading : 0 <= d.age
  BY Limits DEF Reading, Ages
<1>4. DashboardTypeOK' /\ OneOfEach'
  BY <1>1, <1>2, Limits DEF DashboardInv, DashboardTypeOK, OneOfEach, Ages
<1>5. AgesInOrder'
  BY <1>1, <1>2, <1>3 DEF DashboardInv, DashboardTypeOK, AgesInOrder
<1> QED
  BY <1>4, <1>5 DEF DashboardInv

\* Everything grows older together.
LEMMA TickKeeps ==
    ASSUME DashboardInv, Tick
    PROVE  DashboardInv'
<1>1. /\ chain' = [chain EXCEPT !.age = Older(@)]
      /\ data' = AgedReads(data)
      /\ request' = {[waited |-> q.waited + 1, answer |-> AgedReads(q.answer)] : q \in request}
      /\ lag' = Older(lag) /\ lag # LABEL_INTERVAL
  BY DEF Tick, NothingDue, LabelDue
<1>2. /\ chain \in [age : Ages, critical : BOOLEAN] /\ data \subseteq Reading
      /\ request \subseteq [waited : Nat, answer : SUBSET Reading]
      /\ lag \in 0..LABEL_INTERVAL
  BY DEF DashboardInv, DashboardTypeOK
<1>3. chain' \in [age : Ages, critical : BOOLEAN] /\ chain'.age = Older(chain.age)
  BY <1>1, <1>2, OlderMonotone
<1>4. lag' \in 0..LABEL_INTERVAL
  BY <1>1, <1>2, Limits DEF Older
<1>5. \A q \in request : q.waited + 1 \in Nat /\ q.answer \subseteq Reading
  BY <1>2
<1>6. DashboardTypeOK'
  BY <1>1, <1>2, <1>3, <1>4, <1>5, AgedReadings DEF DashboardTypeOK
<1>7. OneOfEach'
  BY <1>1, <1>2, <1>5, AgedReadings DEF DashboardInv, OneOfEach
<1>8. \A d \in data' : d.live => chain'.age <= d.age
  BY <1>1, <1>2, <1>3, AgedReadings, OlderMonotone DEF DashboardInv, AgesInOrder, Reading
<1>9. \A r \in request' : \A e \in r.answer : e.live =>
        /\ chain'.age <= e.age
        /\ \A d \in data' : d.live => e.age <= d.age
  <2> SUFFICES ASSUME NEW r \in request', NEW e \in r.answer, e.live
               PROVE  /\ chain'.age <= e.age
                      /\ \A d \in data' : d.live => e.age <= d.age
    OBVIOUS
  <2>1. PICK q \in request : r.answer = AgedReads(q.answer)
    BY <1>1
  <2>2. PICK f \in q.answer : f.live /\ e.age = Older(f.age)
    BY <1>5, <2>1, AgedReadings
  <2>3. f \in Reading /\ f.age \in Ages
    BY <1>5, <2>2 DEF Reading
  <2>4. chain.age <= f.age /\ \A d \in data : d.live => f.age <= d.age
    BY <2>2 DEF DashboardInv, AgesInOrder
  <2>5. chain'.age <= e.age
    BY <1>2, <1>3, <2>2, <2>3, <2>4, OlderMonotone
  <2>6. \A d \in data' : d.live => e.age <= d.age
    BY <1>1, <1>2, <2>2, <2>3, <2>4, AgedReadings, OlderMonotone DEF Reading
  <2> QED
    BY <2>5, <2>6
<1> QED
  BY <1>6, <1>7, <1>8, <1>9 DEF DashboardInv, AgesInOrder

LEMMA DashboardStepKeeps == DashboardInv /\ [Next]_vars => DashboardInv'
<1> SUFFICES ASSUME DashboardInv, [Next]_vars PROVE DashboardInv'
  OBVIOUS
<1>1. CASE RouteLive \/ RouteFallback \/ Deliver \/ FlushEffect \/ Publish \/ Tick
  BY <1>1, AnswerKeeps, DeliverKeeps, FlushEffectKeeps, PublishKeeps, TickKeeps
<1>2. CASE Poll \/ Click \/ Hide \/ Show \/ Orphan \/ LinkChanges \/ UNCHANGED vars
  <2>1. UNCHANGED <<chain, data, request, lag>>
    BY <1>2 DEF Poll, Click, Hide, Show, Orphan, LinkChanges, vars, world, page
  <2> QED
    BY <2>1 DEF DashboardInv, DashboardTypeOK, OneOfEach, AgesInOrder
<1>3. CASE Fail
  <2>1. request' = {} /\ UNCHANGED <<chain, data, lag>>
    BY <1>3 DEF Fail, world
  <2> QED
    BY <2>1 DEF DashboardInv, DashboardTypeOK, OneOfEach, AgesInOrder
<1>4. CASE RefreshLabel
  <2>1. lag' = 0 /\ UNCHANGED <<chain, data, request>>
    BY <1>4 DEF RefreshLabel, world, page
  <2> QED
    BY <2>1, Limits DEF DashboardInv, DashboardTypeOK, OneOfEach, AgesInOrder
<1> QED
  BY <1>1, <1>2, <1>3, <1>4 DEF Next

\* The ages are in order in every run of the page.
THEOREM DashboardInvariant == Spec => []DashboardInv
<1> QED
  BY DashboardInitEstablishes, DashboardStepKeeps, PTL DEF Spec

-----------------------------------------------------------------------------
(* How long a critical feed is offered as usable. *)

\* Nothing among these readings can be offered as usable.
Superseded(S) == \A d \in S : ~d.live \/ d.critical

TimerRuns == IF visible THEN \E n \in 0..POLL_INTERVAL : timer = {n} ELSE timer = {}

RequestsInTime ==
    \A q \in request : q.waited <= (IF q.answer = {} THEN RPC_TIMEOUT ELSE ANSWER_DELAY)

\* The request of the last poll, POLL_INTERVAL - n ticks ago: still to be sent, in
\* the hands of the route, or answered.
AskedByPoll(n) ==
    \/ effect # {} /\ n = POLL_INTERVAL
    \/ /\ effect = {} /\ refreshing
       /\ \E q \in request :
             \/ q.answer = {} /\ q.waited + n = POLL_INTERVAL
             \/ /\ q.answer # {} /\ Superseded(q.answer)
                /\ POLL_INTERVAL <= n + RPC_TIMEOUT + q.waited

Noticed == Superseded(data) /\ \A q \in request : Superseded(q.answer)

\* An exposure that is not over began less than a poll ago, or its poll has asked.
Exposure(n) ==
    \/ exposed + n <= POLL_INTERVAL
    \/ exposed + n <= 2 * POLL_INTERVAL /\ AskedByPoll(n)

ExposureExplained ==
    exposed > 0 =>
        /\ visible /\ up /\ chain.critical /\ data # {}
        /\ Noticed \/ \E n \in timer : Exposure(n)

NoticeInv ==
    /\ DashboardInv
    /\ TimerRuns
    /\ RequestsInTime
    /\ exposed \in 0..EXPOSED_LIMIT
    /\ ExposureExplained

LEMMA Periods ==
    /\ POLL_INTERVAL \in Nat /\ RPC_TIMEOUT \in Nat /\ ANSWER_DELAY \in Nat
    /\ RPC_TIMEOUT + ANSWER_DELAY < POLL_INTERVAL
    /\ EXPOSED_LIMIT = POLL_INTERVAL + RPC_TIMEOUT + ANSWER_DELAY
  BY DashboardAssumption DEF EXPOSED_LIMIT

LEMMA UsableIsHealthy == Usable => ~Superseded(data)
  BY DEF Usable, Rendered, Card, Superseded

\* Growing older makes no reading usable.
LEMMA AgedSuperseded ==
    ASSUME NEW S, S \subseteq Reading
    PROVE  /\ Superseded(S) => Superseded(AgedReads(S))
           /\ AgedReads(S) = {} <=> S = {}
<1>1. \A d \in Reading : /\ [d EXCEPT !.age = Older(@)].live = d.live
                         /\ [d EXCEPT !.age = Older(@)].critical = d.critical
  BY DEF Reading
<1>2. Superseded(S) => Superseded(AgedReads(S))
  BY <1>1 DEF AgedReads, Superseded
<1>3. AgedReads(S) = {} <=> S = {}
  BY DEF AgedReads
<1> QED
  BY <1>2, <1>3

LEMMA NoticeInitEstablishes == Init => NoticeInv
<1> SUFFICES ASSUME Init PROVE NoticeInv
  OBVIOUS
<1>1. DashboardInv
  BY DashboardInitEstablishes
<1>2. TimerRuns /\ RequestsInTime
  BY Periods DEF Init, TimerRuns, RequestsInTime
<1>3. exposed \in 0..EXPOSED_LIMIT /\ ExposureExplained
  BY Periods DEF Init, ExposureExplained
<1> QED
  BY <1>1, <1>2, <1>3 DEF NoticeInv

\* Time: the exposure grows by what the timer loses, and the request of a poll is
\* over in time.
LEMMA TickKeepsNotice ==
    ASSUME NoticeInv, Tick
    PROVE  TimerRuns' /\ RequestsInTime' /\ exposed' \in 0..EXPOSED_LIMIT /\ ExposureExplained'
<1>1. /\ effect = {} /\ timer # {0}
      /\ \A q \in request : q.waited < (IF q.answer = {} THEN RPC_TIMEOUT ELSE ANSWER_DELAY)
      /\ timer' = {n - 1 : n \in timer}
      /\ data' = AgedReads(data)
      /\ request' = {[waited |-> q.waited + 1, answer |-> AgedReads(q.answer)] : q \in request}
      /\ UNCHANGED <<up, visible, refreshing, effect>>
  BY DEF Tick, NothingDue
<1>2. /\ data \subseteq Reading /\ chain \in [age : Ages, critical : BOOLEAN]
      /\ \A q \in request : q.waited \in Nat /\ q.answer \subseteq Reading
  BY DEF NoticeInv, DashboardInv, DashboardTypeOK
<1>3. chain'.critical = chain.critical
  BY <1>2 DEF Tick
<1>4. TimerRuns'
  <2>1. CASE visible
    <3>1. PICK n \in 0..POLL_INTERVAL : timer = {n}
      BY <2>1 DEF NoticeInv, TimerRuns
    <3>2. timer' = {n - 1} /\ n - 1 \in 0..POLL_INTERVAL
      BY <1>1, <3>1, Periods
    <3> QED
      BY <1>1, <2>1, <3>2 DEF TimerRuns
  <2>2. CASE ~visible
    BY <1>1, <2>2 DEF NoticeInv, TimerRuns
  <2> QED
    BY <2>1, <2>2
<1>5. RequestsInTime'
  <2> SUFFICES ASSUME NEW r \in request'
               PROVE  r.waited <= (IF r.answer = {} THEN RPC_TIMEOUT ELSE ANSWER_DELAY)
    BY DEF RequestsInTime
  <2>1. PICK q \in request : r.waited = q.waited + 1 /\ r.answer = AgedReads(q.answer)
    BY <1>1
  <2>2. r.answer = {} <=> q.answer = {}
    BY <1>2, <2>1, AgedSuperseded
  <2> QED
    BY <1>1, <1>2, <2>1, <2>2, Periods
<1>6. exposed' \in 0..EXPOSED_LIMIT /\ ExposureExplained'
  <2>1. CASE ~(Usable /\ visible /\ up /\ chain.critical)
    <3>1. exposed' = 0
      BY <2>1 DEF Tick
    <3> QED
      BY <3>1, Periods DEF ExposureExplained
  <2>2. CASE Usable /\ visible /\ up /\ chain.critical
    <3>1. exposed' = exposed + 1 /\ exposed \in Nat
      BY <2>2, Periods DEF Tick, NoticeInv
    <3>2. PICK n \in 0..POLL_INTERVAL : timer = {n} /\ n # 0
      BY <1>1, <2>2 DEF NoticeInv, TimerRuns
    <3>3. timer' = {n - 1}
      BY <1>1, <3>2
    <3>4. ~Superseded(data) /\ data # {}
      BY <2>2, UsableIsHealthy DEF Superseded
    <3>5. data' # {}
      BY <1>1, <1>2, <3>4, AgedSuperseded
    <3>6. exposed = 0 \/ Exposure(n)
      BY <3>1, <3>2, <3>4 DEF NoticeInv, ExposureExplained, Noticed
    <3>7. exposed' <= EXPOSED_LIMIT /\ Exposure(n - 1)'
      <4>1. CASE exposed = 0 \/ exposed + n <= POLL_INTERVAL
        <5>1. exposed' + (n - 1) <= POLL_INTERVAL /\ exposed' <= EXPOSED_LIMIT
          BY <3>1, <3>2, <4>1, Periods
        <5> QED
          BY <5>1 DEF Exposure
      <4>2. CASE exposed + n <= 2 * POLL_INTERVAL /\ AskedByPoll(n)
        <5>1. PICK q \in request :
                 \/ q.answer = {} /\ q.waited + n = POLL_INTERVAL
                 \/ /\ q.answer # {} /\ Superseded(q.answer)
                    /\ POLL_INTERVAL <= n + RPC_TIMEOUT + q.waited
          BY <1>1, <4>2 DEF AskedByPoll
        <5> DEFINE r == [waited |-> q.waited + 1, answer |-> AgedReads(q.answer)]
        <5>2. r \in request' /\ r.waited = q.waited + 1 /\ r.answer = AgedReads(q.answer)
          BY <1>1
        <5> HIDE DEF r
        <5>3. /\ r.answer = {} <=> q.answer = {}
              /\ Superseded(q.answer) => Superseded(r.answer)
          BY <1>2, <5>2, AgedSuperseded
        <5>4. exposed' + (n - 1) <= 2 * POLL_INTERVAL /\ exposed' <= EXPOSED_LIMIT
          BY <1>1, <1>2, <3>1, <3>2, <4>2, <5>1, Periods
        <5>5. \/ r.answer = {} /\ r.waited + (n - 1) = POLL_INTERVAL
              \/ /\ r.answer # {} /\ Superseded(r.answer)
                 /\ POLL_INTERVAL <= (n - 1) + RPC_TIMEOUT + r.waited
          BY <1>2, <3>2, <5>1, <5>2, <5>3, Periods
        <5>6. effect' = {} /\ refreshing'
          BY <1>1, <4>2 DEF AskedByPoll
        <5>7. AskedByPoll(n - 1)'
          BY <5>2, <5>5, <5>6 DEF AskedByPoll, Superseded
        <5> QED
          BY <5>4, <5>7 DEF Exposure
      <4> QED
        BY <3>6, <4>1, <4>2 DEF Exposure
    <3>8. exposed' \in 0..EXPOSED_LIMIT
      BY <3>1, <3>7, Periods
    <3>9. visible' /\ up' /\ chain'.critical
      BY <1>1, <1>3, <2>2
    <3> QED
      BY <3>3, <3>5, <3>7, <3>8, <3>9 DEF ExposureExplained
  <2> QED
    BY <2>1, <2>2
<1> QED
  BY <1>4, <1>5, <1>6

\* A poll asks, and by then the request of the poll before is over.
LEMMA ReloadKeepsNotice ==
    ASSUME NoticeInv, Poll \/ Click
    PROVE  TimerRuns' /\ RequestsInTime' /\ exposed' \in 0..EXPOSED_LIMIT /\ ExposureExplained'
<1>1. /\ effect = {} /\ effect' # {}
      /\ UNCHANGED <<chain, up, visible, data, refreshing, request, exposed>>
  BY DEF Poll, Click, Reload, world, page
<1>2. RequestsInTime' /\ exposed' \in 0..EXPOSED_LIMIT
  BY <1>1 DEF NoticeInv, RequestsInTime
<1>3. TimerRuns'
  <2>1. CASE Poll
    <3>1. timer = {0} /\ timer' = {POLL_INTERVAL}
      BY <2>1 DEF Poll
    <3>2. visible
      BY <3>1 DEF NoticeInv, TimerRuns
    <3> QED
      BY <1>1, <3>1, <3>2, Periods DEF TimerRuns
  <2>2. CASE Click
    BY <1>1, <2>2 DEF Click, NoticeInv, TimerRuns
  <2> QED
    BY <2>1, <2>2
<1>4. ExposureExplained'
  <2> SUFFICES ASSUME exposed > 0
               PROVE  /\ visible' /\ up' /\ chain'.critical /\ data' # {}
                      /\ Noticed' \/ \E n \in timer' : Exposure(n)'
    BY <1>1 DEF ExposureExplained
  <2>1. /\ visible /\ up /\ chain.critical /\ data # {}
        /\ Noticed \/ \E n \in timer : Exposure(n)
    BY DEF NoticeInv, ExposureExplained
  <2>2. CASE Noticed
    BY <1>1, <2>1, <2>2 DEF Noticed, Superseded
  <2>3. ASSUME NEW n \in timer, Exposure(n)
        PROVE  \E m \in timer' : Exposure(m)'
    <3>1. /\ n \in 0..POLL_INTERVAL /\ exposed \in Nat
          /\ \A q \in request : q.waited \in Nat
      BY <2>1 DEF NoticeInv, TimerRuns, DashboardInv, DashboardTypeOK
    <3>2. CASE Poll
      <4>1. n = 0 /\ timer' = {POLL_INTERVAL}
        BY <3>2 DEF Poll
      <4>2. ~AskedByPoll(n)
        BY <1>1, <3>1, <4>1, Periods DEF NoticeInv, RequestsInTime, AskedByPoll
      <4>3. exposed + POLL_INTERVAL <= 2 * POLL_INTERVAL
        BY <2>3, <3>1, <4>1, <4>2, Periods DEF Exposure
      <4>4. AskedByPoll(POLL_INTERVAL)'
        BY <1>1 DEF AskedByPoll
      <4> QED
        BY <1>1, <4>1, <4>3, <4>4 DEF Exposure
    <3>3. CASE Click
      <4>1. ~refreshing
        BY <2>1, <3>3 DEF Click, ErrorShown
      <4>2. exposed + n <= POLL_INTERVAL
        BY <1>1, <2>3, <4>1 DEF Exposure, AskedByPoll
      <4>3. timer' = timer
        BY <3>3 DEF Click
      <4> QED
        BY <1>1, <4>2, <4>3 DEF Exposure
    <3> QED
      BY <3>2, <3>3
  <2> QED
    BY <1>1, <2>1, <2>2, <2>3
<1> QED
  BY <1>2, <1>3, <1>4

\* The effect of a poll sends its request.
LEMMA FlushEffectKeepsNotice ==
    ASSUME NoticeInv, FlushEffect
    PROVE  TimerRuns' /\ RequestsInTime' /\ exposed' \in 0..EXPOSED_LIMIT /\ ExposureExplained'
<1>1. /\ effect # {} /\ effect' = {} /\ refreshing'
      /\ request' = {[waited |-> 0, answer |-> {}]}
      /\ UNCHANGED <<chain, up, visible, timer, data, exposed>>
  BY DEF FlushEffect, world
<1>2. TimerRuns' /\ RequestsInTime' /\ exposed' \in 0..EXPOSED_LIMIT
  BY <1>1, Periods DEF NoticeInv, TimerRuns, RequestsInTime
<1>3. ASSUME Noticed PROVE Noticed'
  BY <1>1, <1>3 DEF Noticed, Superseded
<1>4. ASSUME NEW n \in timer, visible, Exposure(n) PROVE Exposure(n)'
  <2>1. CASE exposed + n <= POLL_INTERVAL
    BY <1>1, <2>1 DEF Exposure
  <2>2. CASE exposed + n <= 2 * POLL_INTERVAL /\ AskedByPoll(n)
    <3>1. n = POLL_INTERVAL
      BY <1>1, <2>2 DEF AskedByPoll
    <3>2. 0 + n = POLL_INTERVAL
      BY <3>1, Periods
    <3>3. AskedByPoll(n)'
      BY <1>1, <3>2 DEF AskedByPoll
    <3> QED
      BY <1>1, <2>2, <3>3 DEF Exposure
  <2> QED
    BY <1>4, <2>1, <2>2 DEF Exposure
<1>5. ExposureExplained'
  BY <1>1, <1>3, <1>4 DEF NoticeInv, ExposureExplained
<1> QED
  BY <1>2, <1>5

\* While there is an exposure, what the route reads is critical.
LEMMA AnswerKeepsNotice ==
    ASSUME NoticeInv, RouteLive \/ RouteFallback
    PROVE  TimerRuns' /\ RequestsInTime' /\ exposed' \in 0..EXPOSED_LIMIT /\ ExposureExplained'
<1>1. PICK read \in {LiveRead(chain.age, chain.critical), OfflineSnapshot}, q \in request :
        /\ q.answer = {}
        /\ request' = {[waited |-> 0, answer |-> {read}]}
        /\ UNCHANGED <<chain, up, visible, timer, data, refreshing, effect, exposed>>
  BY DEF RouteLive, RouteFallback, Answer, world, page
<1>2. TimerRuns' /\ RequestsInTime' /\ exposed' \in 0..EXPOSED_LIMIT
  BY <1>1, Periods DEF NoticeInv, TimerRuns, RequestsInTime
<1>3. ASSUME chain.critical PROVE Superseded({read})
  BY <1>1, <1>3 DEF Superseded, LiveRead, OfflineSnapshot
<1>4. ASSUME Noticed, chain.critical PROVE Noticed'
  BY <1>1, <1>3, <1>4 DEF Noticed, Superseded
<1>5. ASSUME NEW n \in timer, visible, chain.critical, Exposure(n) PROVE Exposure(n)'
  <2>1. CASE exposed + n <= POLL_INTERVAL
    BY <1>1, <2>1 DEF Exposure
  <2>2. CASE exposed + n <= 2 * POLL_INTERVAL /\ AskedByPoll(n)
    <3>1. CASE effect # {} /\ n = POLL_INTERVAL
      BY <1>1, <2>2, <3>1 DEF Exposure, AskedByPoll
    <3>2. CASE effect = {}
      <4>1. refreshing /\ q.waited + n = POLL_INTERVAL
        BY <1>1, <2>2, <3>2 DEF AskedByPoll, NoticeInv, DashboardInv, OneOfEach
      <4>2. /\ q.waited <= RPC_TIMEOUT /\ q.waited \in Nat
            /\ n \in 0..POLL_INTERVAL
        BY <1>1, <1>5 DEF NoticeInv, RequestsInTime, TimerRuns, DashboardInv, DashboardTypeOK
      <4>3. POLL_INTERVAL <= n + RPC_TIMEOUT + 0
        BY <4>1, <4>2, Periods
      <4>4. AskedByPoll(n)'
        BY <1>1, <1>3, <1>5, <3>2, <4>1, <4>3 DEF AskedByPoll, Superseded
      <4> QED
        BY <1>1, <2>2, <4>4 DEF Exposure
    <3> QED
      BY <2>2, <3>1, <3>2 DEF AskedByPoll
  <2> QED
    BY <1>5, <2>1, <2>2 DEF Exposure
<1>6. ExposureExplained'
  BY <1>1, <1>4, <1>5 DEF NoticeInv, ExposureExplained
<1> QED
  BY <1>2, <1>6

\* The answer to the poll takes the usable reading off the page.
LEMMA DeliverKeepsNotice ==
    ASSUME NoticeInv, Deliver
    PROVE  TimerRuns' /\ RequestsInTime' /\ exposed' \in 0..EXPOSED_LIMIT /\ ExposureExplained'
<1>1. PICK q \in request :
        /\ q.answer # {} /\ request' = {} /\ data' = q.answer
        /\ UNCHANGED <<chain, up, visible, timer, effect, exposed>>
  BY DEF Deliver, world
<1>2. TimerRuns' /\ RequestsInTime' /\ exposed' \in 0..EXPOSED_LIMIT
  BY <1>1 DEF NoticeInv, TimerRuns, RequestsInTime
<1>3. ASSUME Noticed PROVE Noticed'
  BY <1>1, <1>3 DEF Noticed, Superseded
<1>4. ASSUME NEW n \in timer, Exposure(n) PROVE Noticed' \/ Exposure(n)'
  <2>1. CASE exposed + n <= POLL_INTERVAL
    BY <1>1, <2>1 DEF Exposure
  <2>2. CASE exposed + n <= 2 * POLL_INTERVAL /\ AskedByPoll(n)
    <3>1. CASE effect # {} /\ n = POLL_INTERVAL
      BY <1>1, <2>2, <3>1 DEF Exposure, AskedByPoll
    <3>2. CASE effect = {}
      <4>1. Superseded(q.answer)
        BY <1>1, <2>2, <3>2 DEF AskedByPoll, NoticeInv, DashboardInv, OneOfEach
      <4> QED
        BY <1>1, <4>1 DEF Noticed, Superseded
    <3> QED
      BY <2>2, <3>1, <3>2 DEF AskedByPoll
  <2> QED
    BY <1>4, <2>1, <2>2 DEF Exposure
<1>5. ExposureExplained'
  BY <1>1, <1>3, <1>4 DEF NoticeInv, ExposureExplained
<1> QED
  BY <1>2, <1>5

\* What ends an exposure, or touches nothing that it rests on.
LEMMA OthersKeepNotice ==
    ASSUME NoticeInv,
           Hide \/ Show \/ Fail \/ Orphan \/ RefreshLabel \/ Publish \/ LinkChanges
             \/ UNCHANGED vars
    PROVE  TimerRuns' /\ RequestsInTime' /\ exposed' \in 0..EXPOSED_LIMIT /\ ExposureExplained'
<1>1. CASE Hide
  BY <1>1, Periods DEF Hide, NoticeInv, TimerRuns, RequestsInTime, ExposureExplained
<1>2. CASE Show
  <2>1. exposed = 0 /\ exposed' = exposed
    BY <1>2, Periods DEF Show, NoticeInv, ExposureExplained
  <2> QED
    BY <1>2, <2>1, Periods DEF Show, NoticeInv, TimerRuns, RequestsInTime, ExposureExplained
<1>3. CASE Fail
  <2>1. exposed = 0 /\ exposed' = exposed
    BY <1>3, Periods DEF Fail, NoticeInv, ExposureExplained
  <2> QED
    BY <1>3, <2>1, Periods DEF Fail, NoticeInv, TimerRuns, RequestsInTime, ExposureExplained
<1>4. CASE Orphan \/ RefreshLabel \/ UNCHANGED vars
  <2>1. UNCHANGED <<chain, up, visible, timer, data, refreshing, effect, request, exposed>>
    BY <1>4 DEF Orphan, RefreshLabel, vars, world, page
  <2> QED
    BY <2>1 DEF NoticeInv, TimerRuns, RequestsInTime, ExposureExplained, Noticed, Superseded,
                Exposure, AskedByPoll
<1>5. CASE Publish
  <2>1. PICK critical \in BOOLEAN :
           /\ chain'.critical = critical
           /\ exposed' = IF critical THEN exposed ELSE 0
           /\ UNCHANGED <<up, visible, timer, data, refreshing, effect, request>>
    BY <1>5 DEF Publish, page
  <2>2. TimerRuns' /\ RequestsInTime'
    BY <2>1 DEF NoticeInv, TimerRuns, RequestsInTime
  <2>3. CASE critical
    <3>1. exposed' = exposed
      BY <2>1, <2>3
    <3> QED
      BY <2>1, <2>2, <2>3, <3>1 DEF NoticeInv, ExposureExplained, Noticed, Superseded, Exposure,
                                   AskedByPoll
  <2>4. CASE ~critical
    BY <2>1, <2>2, <2>4, Periods DEF ExposureExplained
  <2> QED
    BY <2>3, <2>4
<1>6. CASE LinkChanges
  <2>1. exposed' = 0 /\ UNCHANGED <<visible, timer, request>>
    BY <1>6 DEF LinkChanges
  <2> QED
    BY <2>1, Periods DEF NoticeInv, TimerRuns, RequestsInTime, ExposureExplained
<1> QED
  BY <1>1, <1>2, <1>3, <1>4, <1>5, <1>6

\* An exposure is explained by where its poll is, in every run of the page.
THEOREM NoticeInvariant == Spec => []NoticeInv
<1>1. NoticeInv /\ [Next]_vars => NoticeInv'
  <2> SUFFICES ASSUME NoticeInv, [Next]_vars PROVE NoticeInv'
    OBVIOUS
  <2>1. DashboardInv'
    BY DashboardStepKeeps DEF NoticeInv
  <2>2. TimerRuns' /\ RequestsInTime' /\ exposed' \in 0..EXPOSED_LIMIT /\ ExposureExplained'
    BY TickKeepsNotice, ReloadKeepsNotice, FlushEffectKeepsNotice, AnswerKeepsNotice,
       DeliverKeepsNotice, OthersKeepNotice DEF Next
  <2> QED
    BY <2>1, <2>2, Periods DEF NoticeInv
<1> QED
  BY <1>1, NoticeInitEstablishes, PTL DEF Spec

-----------------------------------------------------------------------------
(* The theorems. *)

\* A usable LTV is a live, healthy one within the window of the card's clock.
THEOREM CardWithinWindow == Spec => []UsableWithinWindow
<1>1. DashboardInv => UsableWithinWindow
  <2> SUFFICES ASSUME DashboardInv, Usable PROVE UsableWithinWindow
    BY DEF UsableWithinWindow
  <2>1. PICK d \in data : Card(d).guard = "published"
    BY DEF Usable, Rendered
  <2>2. d.live /\ Status(d) # "stale" /\ ~d.critical
    BY <2>1 DEF Card
  <2>3. ~(d.age > MAX_STALENESS_SECS + lag)
    BY <2>2 DEF Status
  <2>4. d.age \in Nat /\ lag \in Nat /\ lag <= LABEL_INTERVAL
    BY Limits DEF DashboardInv, DashboardTypeOK, Reading, Ages
  <2> QED
    BY <2>2, <2>3, <2>4, Limits DEF UsableWithinWindow
<1> QED
  BY <1>1, DashboardInvariant, PTL

\* One poll and one request take a critical feed off the page, whatever was
\* cancelled, hidden or lost before.
THEOREM CriticalFeedNoticed == Spec => []CriticalNoticed
<1>1. NoticeInv => CriticalNoticed
  BY Periods DEF NoticeInv, CriticalNoticed
<1> QED
  BY <1>1, NoticeInvariant, PTL

\* No live read on the page is replaced by an earlier one.
THEOREM CardNeverBackInTime == Spec => NeverBackInTime
<1>1. DashboardInv /\ [Next]_vars =>
        [\A d \in data, e \in data' : d.live /\ e.live => e.age <= Older(d.age)]_vars
  <2> SUFFICES ASSUME DashboardInv, Next, NEW d \in data, NEW e \in data', d.live, e.live
               PROVE  e.age <= Older(d.age)
    OBVIOUS
  <2>1. d \in Reading /\ d.age \in Ages /\ data \subseteq Reading
    BY DEF DashboardInv, DashboardTypeOK, Reading
  <2>2. CASE Deliver
    <3>1. PICK q \in request : data' = q.answer
      BY <2>2 DEF Deliver
    <3>2. e.age <= d.age /\ e.age \in Ages
      BY <3>1 DEF DashboardInv, DashboardTypeOK, AgesInOrder, Reading
    <3> QED
      BY <2>1, <3>2, OlderMonotone, Limits DEF Ages
  <2>3. CASE Tick
    <3>1. PICK f \in data : e.age = Older(f.age)
      BY <2>1, <2>3, AgedReadings DEF Tick
    <3>2. f = d
      BY DEF DashboardInv, OneOfEach
    <3>3. Older(d.age) <= Older(d.age)
      BY <2>1, OlderMonotone, Limits DEF Ages
    <3> QED
      BY <3>1, <3>2, <3>3
  <2>4. CASE data' = data
    <3>1. e = d
      BY <2>4 DEF DashboardInv, OneOfEach
    <3> QED
      BY <2>1, <3>1, OlderMonotone
  <2>5. Deliver \/ Tick \/ data' = data
    BY DEF Next, Poll, Click, Hide, Show, FlushEffect, RouteLive, RouteFallback, Answer, Fail,
           Orphan, RefreshLabel, Publish, LinkChanges, page
  <2> QED
    BY <2>2, <2>3, <2>4, <2>5
<1> QED
  BY <1>1, DashboardInvariant, PTL DEF Spec, NeverBackInTime
=============================================================================
