----------------------------- MODULE Decisions ------------------------------
(***************************************************************************)
(* Channel decisions: proposed, voted on, ratified and retired.  A vote is *)
(* a transaction (Store.UpsertDecisionVote) that reads the decision, writes *)
(* the voter's row, counts the rows again and writes the counts, the status *)
(* and the retirement of the decision superseded.  The ratify and retire    *)
(* handlers read the decision, check it and then write its status           *)
(* unconditionally, without a transaction.  A transaction sees committed    *)
(* rows and its own (read committed); whether a call wrote on the strength  *)
(* of a read that another commit had overtaken is kept as history.          *)
(***************************************************************************)
EXTENDS Naturals, FiniteSets

CONSTANTS
    Decisions,       \* ids of decisions
    Supersedes,      \* Supersedes[d]: the decision d references, or NoDecision
    NoDecision,
    Voters,
    Ballots,         \* calls of UpsertDecisionVote
    VoterOf,         \* VoterOf[b]: who makes the call
    Closers          \* calls of the ratify and retire handlers

Stances == {"approve", "reject", "abstain"}

(* The status "rejected" is declared and filtered on, but never written. *)
DecisionStatuses == {"none", "proposed", "ratified", "retired"}

ASSUME DecisionsAssumption ==
    /\ NoDecision \notin Decisions
    /\ \A d \in Decisions : Supersedes[d] \in Decisions \cup {NoDecision}
    /\ IsFiniteSet(Voters)
    /\ \A b \in Ballots : VoterOf[b] \in Voters

VARIABLES
    decision,        \* channel_decisions: status and counts
    votes,           \* channel_decision_votes: the stance of each voter
    ballot,          \* the vote transactions
    closer,          \* the ratify and retire handlers
    byVotes,         \* decisions a vote ratified (history)
    outdated         \* decisions written after an overtaken read (history)

decisionVars == <<decision, votes, ballot, closer, byVotes, outdated>>

NoTally == [s \in Stances |-> 0]
IdleBallot == [pc |-> "idle", id |-> NoDecision, stance |-> "none", first |-> FALSE,
               tally |-> NoTally, overtaken |-> FALSE]
IdleCloser == [pc |-> "idle", id |-> NoDecision, overtaken |-> FALSE]
DoneBallot == [IdleBallot EXCEPT !.pc = "done"]
DoneCloser == [IdleCloser EXCEPT !.pc = "done"]

DecisionInit ==
    /\ decision = [d \in Decisions |-> [status |-> "none", count |-> NoTally]]
    /\ votes = [d \in Decisions |-> [v \in Voters |-> "none"]]
    /\ ballot = [b \in Ballots |-> IdleBallot]
    /\ closer = [c \in Closers |-> IdleCloser]
    /\ byVotes = {}
    /\ outdated = {}

-----------------------------------------------------------------------------

TallyOf(row) == [s \in Stances |-> Cardinality({v \in Voters : row[v] = s})]

(* At least two approvals and no rejection. *)
Quorum(tally) == tally["approve"] >= 2 /\ tally["reject"] = 0

(* A commit that writes the decisions ds: the reads that calls in flight    *)
(* made of them are out of date.                                            *)
Overtake(calls, ds) ==
    [c \in DOMAIN calls |-> [calls[c] EXCEPT !.overtaken = @ \/ calls[c].id \in ds]]

(* handleProposeChannelDecision and ProposeChannelDecision.  Identifiers are *)
(* made by the store, so the decision superseded exists.                     *)
ProposeDecision(d) ==
    /\ decision[d].status = "none"
    /\ Supersedes[d] # NoDecision => decision[Supersedes[d]].status # "none"
    /\ decision' = [decision EXCEPT ![d].status = "proposed"]
    /\ UNCHANGED <<votes, ballot, closer, byVotes, outdated>>

(* UpsertDecisionVote reads the decision and refuses any but a proposed one. *)
VoteBegins(b) ==
    /\ ballot[b].pc = "idle"
    /\ \E d \in Decisions, stance \in Stances :
        /\ decision[d].status # "none"
        /\ ballot' = [ballot EXCEPT
             ![b] = IF decision[d].status = "proposed"
                      THEN [IdleBallot EXCEPT !.pc = "count", !.id = d, !.stance = stance]
                      ELSE DoneBallot]
    /\ UNCHANGED <<decision, votes, closer, byVotes, outdated>>

(* It looks for the voter's row, inserts or updates it, and counts the rows  *)
(* it sees: the committed ones and its own.                                  *)
VoteCounts(b) ==
    LET d == ballot[b].id
        v == VoterOf[b] IN
    /\ ballot[b].pc = "count"
    /\ ballot' = [ballot EXCEPT ![b].pc = "commit", ![b].first = votes[d][v] = "none",
                                ![b].tally = TallyOf([votes[d] EXCEPT ![v] = ballot[b].stance])]
    /\ UNCHANGED <<decision, votes, closer, byVotes, outdated>>

(* A vote that ratifies retires the decision superseded. *)
Retired(b) ==
    IF Quorum(ballot[b].tally) /\ Supersedes[ballot[b].id] # NoDecision
      THEN {Supersedes[ballot[b].id]} ELSE {}

(* Variant: the decision superseded is left as it is. *)
VoteCommitsAlone(b) ==
    LET d == ballot[b].id
        v == VoterOf[b]
        tally == ballot[b].tally IN
    /\ ballot[b].pc = "commit"
    /\ ballot[b].first => votes[d][v] = "none"
    /\ votes' = [votes EXCEPT ![d][v] = ballot[b].stance]
    /\ decision' = [decision EXCEPT ![d] = [status |-> IF Quorum(tally) THEN "ratified"
                                                       ELSE decision[d].status,
                                            count |-> tally]]
    /\ byVotes' = IF Quorum(tally) THEN byVotes \cup {d} ELSE byVotes
    /\ outdated' = IF ballot[b].overtaken THEN outdated \cup {d} ELSE outdated
    /\ ballot' = Overtake([ballot EXCEPT ![b] = DoneBallot], {d})
    /\ closer' = Overtake(closer, {d})

(* It writes the counts and, with a quorum, the status, retires the decision *)
(* superseded and commits.  The status is not written without a quorum.  An  *)
(* insert of a row another transaction has inserted meanwhile is refused.    *)
VoteCommits(b) ==
    LET d == ballot[b].id
        v == VoterOf[b]
        tally == ballot[b].tally IN
    /\ ballot[b].pc = "commit"
    /\ ballot[b].first => votes[d][v] = "none"
    /\ votes' = [votes EXCEPT ![d][v] = ballot[b].stance]
    /\ decision' = [e \in Decisions |->
         CASE e \in Retired(b) -> [decision[e] EXCEPT !.status = "retired"]
           [] e = d -> [status |-> IF Quorum(tally) THEN "ratified" ELSE decision[d].status,
                        count |-> tally]
           [] OTHER -> decision[e]]
    /\ byVotes' = IF Quorum(tally) THEN byVotes \cup {d} ELSE byVotes
    /\ outdated' = IF ballot[b].overtaken THEN outdated \cup {d} ELSE outdated
    /\ ballot' = Overtake([ballot EXCEPT ![b] = DoneBallot], {d} \cup Retired(b))
    /\ closer' = Overtake(closer, {d} \cup Retired(b))

(* The transaction fails, on the unique index or in any of its statements,  *)
(* and is rolled back.                                                      *)
VoteFails(b) ==
    /\ ballot[b].pc \in {"count", "commit"}
    /\ ballot' = [ballot EXCEPT ![b] = DoneBallot]
    /\ UNCHANGED <<decision, votes, closer, byVotes, outdated>>

-----------------------------------------------------------------------------

CloserReads(c, d, next) ==
    /\ closer[c].pc = "idle"
    /\ closer' = [closer EXCEPT ![c] = [pc |-> next, id |-> d, overtaken |-> FALSE]]
    /\ UNCHANGED <<decision, votes, ballot, byVotes, outdated>>

(* The ratify handlers: the decision must be proposed, and the caller force *)
(* it or the stored counts hold a quorum.  A refusal changes nothing.       *)
RatifyChecks(c) ==
    \E d \in Decisions, force \in BOOLEAN :
        /\ decision[d].status = "proposed"
        /\ force \/ Quorum(decision[d].count)
        /\ CloserReads(c, d, "ratify")

(* The retire handlers: proposed and ratified decisions may be retired. *)
RetireChecks(c) ==
    \E d \in Decisions :
        /\ decision[d].status \in {"proposed", "ratified"}
        /\ CloserReads(c, d, "retire")

CloserWrites(c, status) ==
    LET d == closer[c].id IN
    /\ decision' = [decision EXCEPT ![d].status = status]
    /\ outdated' = IF closer[c].overtaken THEN outdated \cup {d} ELSE outdated
    /\ ballot' = Overtake(ballot, {d})
    /\ closer' = Overtake([closer EXCEPT ![c] = DoneCloser], {d})
    /\ UNCHANGED <<votes, byVotes>>

(* ForceRatifyDecision: the status is written whatever it is by now, and the *)
(* decision superseded is not looked at.                                     *)
ForceRatifyDecision(c) == closer[c].pc = "ratify" /\ CloserWrites(c, "ratified")

(* RetireDecision *)
RetireDecision(c) == closer[c].pc = "retire" /\ CloserWrites(c, "retired")

DecisionNext ==
    \/ \E d \in Decisions : ProposeDecision(d)
    \/ \E b \in Ballots : VoteBegins(b) \/ VoteCounts(b) \/ VoteCommits(b) \/ VoteFails(b)
    \/ \E c \in Closers : \/ RatifyChecks(c) \/ RetireChecks(c)
                          \/ ForceRatifyDecision(c) \/ RetireDecision(c)

DecisionSpec == DecisionInit /\ [][DecisionNext]_decisionVars

-----------------------------------------------------------------------------

DecisionTypeOK ==
    /\ decision \in [Decisions -> [status : DecisionStatuses,
                                   count : [Stances -> 0 .. Cardinality(Voters)]]]
    /\ votes \in [Decisions -> [Voters -> Stances \cup {"none"}]]
    /\ \A b \in Ballots : ballot[b].pc \in {"idle", "count", "commit", "done"}
    /\ \A c \in Closers : closer[c].pc \in {"idle", "ratify", "retire", "done"}
    /\ byVotes \subseteq Decisions
    /\ outdated \subseteq Decisions

(* The counts shown are the votes cast. *)
CountsAreVotes ==
    \A d \in Decisions \ outdated : decision[d].count = TallyOf(votes[d])

(* A quorum ratifies at once: the non-forced branch of the ratify handlers   *)
(* never finds one left to act on, however transactions overlap.             *)
QuorumRatifies ==
    \A d \in Decisions : decision[d].status = "proposed" => ~Quorum(decision[d].count)

(* The decision that a ratified one supersedes is retired for good. *)
SupersededByVotesRetired ==
    \A d \in byVotes : Supersedes[d] \notin {NoDecision} \cup outdated =>
        decision[Supersedes[d]].status = "retired"

(* What votes decide is sound (UpsertDecisionVote and the handlers beside    *)
(* it): the counts equal the votes, a quorum never stays proposed, and a     *)
(* decision ratified by votes leaves the one it supersedes retired, unless a *)
(* call wrote a decision on the strength of an overtaken read.  SQLite       *)
(* refuses such a write in a transaction; PostgreSQL and MySQL allow it at   *)
(* their default isolation, and the two handlers allow it everywhere.        *)
VotesDecide == CountsAreVotes /\ QuorumRatifies /\ SupersededByVotesRetired

(* docs/agent-memory-design.md: a decision that references another flips it  *)
(* to retired automatically once it ratifies; decisions.go: "so we don't     *)
(* emit conflicting constraints".                                            *)
NoConflictingConstraints ==
    \A d \in Decisions :
        decision[d].status = "ratified" /\ Supersedes[d] # NoDecision =>
            decision[Supersedes[d]].status # "ratified"
=============================================================================
