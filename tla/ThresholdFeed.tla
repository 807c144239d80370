--------------------------- MODULE ThresholdFeed ---------------------------
(***************************************************************************)
(* What the risk-oracle program promises about a feed, without accounts,   *)
(* clocks, counters or disputes: a feed is written by one authority or by  *)
(* ballots, and a ballot decides a value when as many seats as the quorum  *)
(* have voted for it.  Who votes is a bonded member of BondEscrow, but a   *)
(* vote is a seat's, not a member's, and a member may change its seat.     *)
(* RiskOracle implements this under the mapping of RiskOracleRefinement.   *)
(***************************************************************************)
EXTENDS BondEscrow

CONSTANTS
    Feeds,
    BallotIds,
    Values,      \* what may be published
    Blank,       \* the value of a feed nobody has written
    Seats        \* what a vote is counted by

VARIABLES
    mode,        \* who writes the feed
    value,       \* what its readers see
    ballot

feedVars == <<mode, value, ballot>>

Modes == {"none", "single", "quorum"}

Ballot == [state : {"none", "open", "passed"}, value : Values \cup {Blank}, votes : SUBSET Seats]

NoBallot == [state |-> "none", value |-> Blank, votes |-> {}]

FeedInit ==
    /\ mode \in [Feeds -> {"none", "single"}]
    /\ value \in [Feeds -> Values \cup {Blank}]
    /\ ballot = [k \in Feeds \X BallotIds |-> NoBallot]

Create(l) ==
    /\ mode[l] = "none"
    /\ mode' = [mode EXCEPT ![l] = "single"]
    /\ value' = [value EXCEPT ![l] = Blank]
    /\ UNCHANGED ballot

Delete(l) ==
    /\ mode[l] # "none"
    /\ mode' = [mode EXCEPT ![l] = "none"]
    /\ value' = [value EXCEPT ![l] = Blank]
    /\ UNCHANGED ballot

\* The authority writes only where no quorum does.
Publish(l, v) ==
    /\ mode[l] = "single"
    /\ value' = [value EXCEPT ![l] = v]
    /\ UNCHANGED <<mode, ballot>>

\* A feed is handed to a quorum that can be reached, and never back.
HandOver(l) ==
    /\ mode[l] = "single"
    /\ quorum > 0 /\ Cardinality(members) >= quorum
    /\ mode' = [mode EXCEPT ![l] = "quorum"]
    /\ UNCHANGED <<value, ballot>>

Propose(k, v, seat) ==
    /\ mode[k[1]] = "quorum" /\ members # {}
    /\ ballot[k].state = "none"
    /\ ballot' = [ballot EXCEPT ![k] = [state |-> "open", value |-> v, votes |-> {seat}]]
    /\ UNCHANGED <<mode, value>>

Voted(k, seat) == [ballot[k] EXCEPT !.votes = @ \cup {seat}]

\* One more vote, not enough yet.
Vote(k, seat) ==
    /\ mode[k[1]] = "quorum" /\ members # {}
    /\ ballot[k].state = "open" /\ seat \notin ballot[k].votes
    /\ Cardinality(Voted(k, seat).votes) < quorum
    /\ ballot' = [ballot EXCEPT ![k] = Voted(k, seat)]
    /\ UNCHANGED <<mode, value>>

\* The vote that completes the quorum publishes the value in the same step.
Decide(k, seat) ==
    /\ mode[k[1]] = "quorum" /\ members # {}
    /\ ballot[k].state = "open" /\ seat \notin ballot[k].votes
    /\ Cardinality(Voted(k, seat).votes) >= quorum
    /\ ballot' = [ballot EXCEPT ![k] = [Voted(k, seat) EXCEPT !.state = "passed"]]
    /\ value' = [value EXCEPT ![k[1]] = ballot[k].value]
    /\ UNCHANGED mode

\* A ballot that was not decided may be forgotten, a decided one never is.
Drop(k) ==
    /\ ballot[k].state = "open"
    /\ ballot' = [ballot EXCEPT ![k] = NoBallot]
    /\ UNCHANGED <<mode, value>>

FeedNext ==
    \/ \E l \in Feeds : \/ Create(l) \/ Delete(l) \/ HandOver(l)
                        \/ \E v \in Values : Publish(l, v)
    \/ \E k \in Feeds \X BallotIds :
           \/ \E seat \in Seats : \/ Vote(k, seat) \/ Decide(k, seat)
                                  \/ \E v \in Values : Propose(k, v, seat)
           \/ Drop(k)

\* Money and values never move in the same step.
BondedFeedSpec ==
    /\ EscrowInit /\ FeedInit
    /\ [][\/ EscrowNext /\ UNCHANGED feedVars
          \/ FeedNext /\ UNCHANGED escrowVars]_<<escrowVars, feedVars>>
=============================================================================
