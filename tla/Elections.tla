----------------------------- MODULE Elections -----------------------------
(***************************************************************************)
(* Elections of a replica set, protocol version 1 (src/mongo/db/repl):     *)
(* terms, the two rounds of an election, votes and their persistence, the  *)
(* step-down of a primary that hears of a newer term, and crashes.         *)
(*                                                                         *)
(* Every atomic section of the code is one action: the executor's          *)
(* callbacks run under _topoMutex, and the replSetRequestVotes command is  *)
(* split where it waits for a step-down and where its vote is in memory    *)
(* but not stored yet.                                                     *)
(*                                                                         *)
(* Abstracted: the freshness of the candidate's oplog is an input (a voter *)
(* may deny a vote for it at any time), so is the outcome of the dry run,  *)
(* which changes no vote.  A request that is lost is one that is never     *)
(* delivered; an answer is lost or arrives.  Every member is a voter and   *)
(* no member is an arbiter.                                                *)
(***************************************************************************)
EXTENDS Naturals, FiniteSets

CONSTANTS Server,       \* the members of the set
          Nobody,       \* candidate index -1: no vote yet
          MaxTerm,      \* bound: no election is started beyond this term
          MaxStarts,    \* bound: how many elections are started
          MaxCrashes    \* bound: how many crashes there are

ASSUME ElectionsAssumption ==
    /\ IsFiniteSet(Server)
    /\ Nobody \notin Server
    /\ MaxTerm \in Nat
    /\ MaxStarts \in Nat
    /\ MaxCrashes \in Nat

VARIABLES
    term,       \* _topCoord->_term
    role,       \* _topCoord->_role
    stepDown,   \* _stepDownPending: a step-down is scheduled
    lastVote,   \* _topCoord->_lastVote
    disk,       \* the document of local.replset.election
    ballot,     \* the election a member is running (_voteRequester)
    reqs,       \* replSetRequestVotes commands, from sending to answer
    starts,     \* how many elections were started
    crashes,    \* how many crashes there were
    cast,       \* history: the votes given (durable, about to be answered)
    elected,    \* history: who won which term
    early       \* history: the members that voted in a term above their own

bounds == <<starts, crashes>>
history == <<cast, elected, early>>
vars == <<term, role, stepDown, lastVote, disk, ballot, reqs, bounds, history>>

Term == 0..MaxTerm
Vote == [term : Term, cand : Server \cup {Nobody}]
NoVote == [term |-> 0, cand |-> Nobody]

\* phase: the dry run, the durable vote for oneself, the requests for votes.
\* term: the term the election is for.
NoBallot == [phase |-> "none", term |-> 0, votes |-> {}, stale |-> FALSE]
Ballot == [phase : {"none", "dryRun", "store", "vote"}, term : Term,
           votes : SUBSET Server, stale : BOOLEAN]

\* open: the candidate still waits for the answer.
Request == [from : Server, to : Server, term : Term, open : BOOLEAN,
            at : {"sent", "waiting", "ready", "voted"}]

Majority(Q) == 2 * Cardinality(Q) > Cardinality(Server)

Init ==
    /\ term = [s \in Server |-> 0]
    /\ role = [s \in Server |-> "follower"]
    /\ stepDown = [s \in Server |-> FALSE]
    /\ lastVote = [s \in Server |-> NoVote]
    /\ disk = [s \in Server |-> NoVote]
    /\ ballot = [s \in Server |-> NoBallot]
    /\ reqs = {}
    /\ starts = 0
    /\ crashes = 0
    /\ cast = {}
    /\ elected = {}
    /\ early = {}

-----------------------------------------------------------------------------
(* Terms and step-down.                                                    *)

\* Slip: a primary ignores the newer term.
MutUpdateTerm(s, t) ==
    /\ term' = IF t > term[s] /\ role[s] # "leader" THEN [term EXCEPT ![s] = t] ELSE term
    /\ UNCHANGED stepDown

\* TopologyCoordinatorImpl::updateTerm: a primary schedules its step-down
\* and keeps its term; everybody else takes the newer term over.
UpdateTerm(s, t) ==
    LET newer == t > term[s]
        leads == role[s] = "leader"
    IN  /\ term' = IF newer /\ ~leads THEN [term EXCEPT ![s] = t] ELSE term
        /\ stepDown' = IF newer /\ leads THEN [stepDown EXCEPT ![s] = TRUE] ELSE stepDown

\* A heartbeat or a message's metadata tells s of a term some member has, or had.
LearnTerm(s, u) ==
    \E t \in (term[s] + 1)..term[u] :
        /\ UpdateTerm(s, t)
        /\ UNCHANGED <<role, lastVote, disk, ballot, reqs, bounds, history>>

\* HeartbeatResponseAction::StepDownSelf: the primary relinquishes on its own.
StepDownSelf(s) ==
    /\ role[s] = "leader" /\ ~stepDown[s]
    /\ stepDown' = [stepDown EXCEPT ![s] = TRUE]
    /\ UNCHANGED <<term, role, lastVote, disk, ballot, reqs, bounds, history>>

\* _stepDownFinish: become a follower, wake the commands that wait for it.
StepDownFinish(s) ==
    /\ stepDown[s]
    /\ stepDown' = [stepDown EXCEPT ![s] = FALSE]
    /\ role' = [role EXCEPT ![s] = "follower"]
    /\ reqs' = {IF r.to = s /\ r.at = "waiting" THEN [r EXCEPT !.at = "ready"] ELSE r :
                r \in reqs}
    /\ UNCHANGED <<term, lastVote, disk, ballot, bounds, history>>

-----------------------------------------------------------------------------
(* The candidate.                                                          *)

\* becomeCandidateIfElectable and _startElectSelfV1: the dry run starts.
StartElectSelf(s) ==
    /\ role[s] = "follower"
    /\ term[s] < MaxTerm
    /\ role' = [role EXCEPT ![s] = "candidate"]
    /\ ballot' = [ballot EXCEPT ![s] = [NoBallot EXCEPT !.phase = "dryRun", !.term = term[s]]]
    /\ starts < MaxStarts
    /\ starts' = starts + 1
    /\ UNCHANGED <<term, stepDown, lastVote, disk, reqs, crashes, history>>

\* _onDryRunComplete after a successful dry run: the next term begins, and
\* the candidate votes for itself, in memory.
OnDryRunComplete(s) ==
    /\ ballot[s].phase = "dryRun"
    /\ term[s] = ballot[s].term
    /\ term' = [term EXCEPT ![s] = @ + 1]
    /\ lastVote' = [lastVote EXCEPT ![s] = [term |-> term[s] + 1, cand |-> s]]
    /\ ballot' = [ballot EXCEPT ![s] = [@ EXCEPT !.phase = "store", !.term = term[s] + 1]]
    /\ UNCHANGED <<role, stepDown, disk, reqs, bounds, history>>

\* Slip: the vote that is stored last stays.
MutStoreLastVote(s, v) == disk' = [disk EXCEPT ![s] = v]

\* storeLocalLastVoteDocument: only a vote of a higher term replaces the
\* stored one; success is reported either way.
StoreLastVote(s, v) ==
    disk' = IF v.term > disk[s].term THEN [disk EXCEPT ![s] = v] ELSE disk

\* _writeLastVoteForMyElection and _startVoteRequester: the requests carry
\* the term the member has by then.
WriteLastVoteForMyElection(s) ==
    /\ ballot[s].phase = "store"
    /\ StoreLastVote(s, [term |-> ballot[s].term, cand |-> s])
    /\ cast' = cast \cup {[voter |-> s, term |-> ballot[s].term, cand |-> s]}
    /\ ballot' = [ballot EXCEPT ![s] = [@ EXCEPT !.phase = "vote", !.votes = {s}]]
    /\ reqs' = reqs \cup {[from |-> s, to |-> v, term |-> term[s], open |-> TRUE,
                           at |-> "sent"] : v \in Server \ {s}}
    /\ UNCHANGED <<term, role, stepDown, lastVote, bounds, elected, early>>

\* Slip: a term that changed during the election is not noticed.
MutElected(s) == ~ballot[s].stale /\ Majority(ballot[s].votes)

Elected(s) ==
    /\ term[s] = ballot[s].term
    /\ ~ballot[s].stale
    /\ Majority(ballot[s].votes)

\* The requester is gone: nobody waits for the answers any more.
Close(s, R) == {IF r.from = s THEN [r EXCEPT !.open = FALSE] ELSE r : r \in R}

\* _onVoteRequestComplete, the election is won.
WinElection(s) ==
    /\ ballot[s].phase = "vote"
    /\ Elected(s)
    /\ role' = [role EXCEPT ![s] = "leader"]
    /\ ballot' = [ballot EXCEPT ![s] = NoBallot]
    /\ elected' = elected \cup {[term |-> term[s], server |-> s]}
    /\ reqs' = Close(s, reqs)
    /\ UNCHANGED <<term, stepDown, lastVote, disk, bounds, cast, early>>

\* LoseElectionGuardV1: the dry run fails, the vote cannot be stored, or the
\* votes do not suffice (answers that fail count as received).
LoseElection(s) ==
    /\ ballot[s].phase # "none"
    /\ ballot[s].phase = "vote" => ~Elected(s)
    /\ role' = [role EXCEPT ![s] = "follower"]
    /\ ballot' = [ballot EXCEPT ![s] = NoBallot]
    /\ reqs' = Close(s, reqs)
    /\ UNCHANGED <<term, stepDown, lastVote, disk, bounds, history>>

-----------------------------------------------------------------------------
(* The voter: ReplicationCoordinatorImpl::processReplSetRequestVotes.      *)

Move(r, at) == reqs' = (reqs \ {r}) \cup {[r EXCEPT !.at = at]}

\* updateTerm finds that this member is primary of an older term.
Overtaken(r) == r.at = "sent" /\ r.term > term[r.to] /\ role[r.to] = "leader"

\* The command starts the step-down and waits for it.
AwaitStepDown(r) ==
    /\ Overtaken(r)
    /\ UpdateTerm(r.to, r.term)
    /\ Move(r, "waiting")
    /\ UNCHANGED <<role, lastVote, disk, ballot, bounds, history>>

\* The term is updated when the command starts, not after it has waited.
MyTerm(r) == IF r.at = "sent" /\ r.term > term[r.to] THEN r.term ELSE term[r.to]

\* TopologyCoordinatorImpl::processReplSetRequestVotes without its test of the
\* candidate's freshness.
MayVote(r) == r.term >= MyTerm(r) /\ lastVote[r.to].term # r.term

\* The vote is granted, in memory.
GrantVote(r) ==
    /\ r.at \in {"sent", "ready"} /\ ~Overtaken(r)
    /\ MayVote(r)
    /\ term' = [term EXCEPT ![r.to] = MyTerm(r)]
    /\ lastVote' = [lastVote EXCEPT ![r.to] = [term |-> r.term, cand |-> r.from]]
    /\ early' = IF r.term > MyTerm(r) THEN early \cup {r.to} ELSE early
    /\ Move(r, "voted")
    /\ UNCHANGED <<role, stepDown, disk, ballot, bounds, cast, elected>>

\* VoteRequester::Algorithm::processResponse, if the answer arrives and
\* somebody waits for it.
ProcessResponse(r, counted) ==
    \/ UNCHANGED ballot
    \/ r.open /\ ballot' = [ballot EXCEPT ![r.from] = counted]

\* The vote is denied: by MayVote, or because the candidate's data is staler.
DenyVote(r) ==
    /\ r.at \in {"sent", "ready"} /\ ~Overtaken(r)
    /\ term' = [term EXCEPT ![r.to] = MyTerm(r)]
    /\ reqs' = reqs \ {r}
    /\ ProcessResponse(r, [ballot[r.from] EXCEPT !.stale = IF MyTerm(r) > r.term THEN TRUE ELSE @])
    /\ UNCHANGED <<role, stepDown, lastVote, disk, bounds, history>>

\* The vote is stored and answered.
StoreVote(r) ==
    /\ r.at = "voted"
    /\ StoreLastVote(r.to, [term |-> r.term, cand |-> r.from])
    /\ cast' = cast \cup {[voter |-> r.to, term |-> r.term, cand |-> r.from]}
    /\ reqs' = reqs \ {r}
    /\ ProcessResponse(r, [ballot[r.from] EXCEPT !.votes = @ \cup {r.to}])
    /\ UNCHANGED <<term, role, stepDown, lastVote, bounds, elected, early>>

\* The vote cannot be stored: the command fails, no vote is given.
StoreFails(r) ==
    /\ r.at = "voted"
    /\ reqs' = reqs \ {r}
    /\ UNCHANGED <<term, role, stepDown, lastVote, disk, ballot, bounds, history>>

-----------------------------------------------------------------------------
(* A crash and the restart: _startLoadLocalConfig, _finishLoadLocalConfig. *)

\* Slip: the stored vote is not loaded.
MutRestart(s, t) ==
    /\ crashes < MaxCrashes
    /\ t <= term[s]
    /\ t = 0 \/ \E e \in elected : e.term = t
    /\ term' = [term EXCEPT ![s] = IF t > disk[s].term THEN t ELSE disk[s].term]
    /\ role' = [role EXCEPT ![s] = "follower"]
    /\ stepDown' = [stepDown EXCEPT ![s] = FALSE]
    /\ lastVote' = [lastVote EXCEPT ![s] = NoVote]
    /\ ballot' = [ballot EXCEPT ![s] = NoBallot]
    /\ reqs' = Close(s, {r \in reqs : r.to # s \/ r.at = "sent"})
    /\ crashes' = crashes + 1
    /\ UNCHANGED <<disk, starts, history>>

\* The term is the larger of the stored vote's and the last oplog entry's,
\* which a primary of that term wrote.
Restart(s, t) ==
    /\ crashes < MaxCrashes
    /\ t <= term[s]
    /\ t = 0 \/ \E e \in elected : e.term = t
    /\ term' = [term EXCEPT ![s] = IF t > disk[s].term THEN t ELSE disk[s].term]
    /\ role' = [role EXCEPT ![s] = "follower"]
    /\ stepDown' = [stepDown EXCEPT ![s] = FALSE]
    /\ lastVote' = [lastVote EXCEPT ![s] = disk[s]]
    /\ ballot' = [ballot EXCEPT ![s] = NoBallot]
    /\ reqs' = Close(s, {r \in reqs : r.to # s \/ r.at = "sent"})
    /\ crashes' = crashes + 1
    /\ UNCHANGED <<disk, starts, history>>

Next ==
    \/ \E s, u \in Server : LearnTerm(s, u)
    \/ \E s \in Server :
          \/ StepDownSelf(s) \/ StepDownFinish(s)
          \/ StartElectSelf(s) \/ OnDryRunComplete(s) \/ WriteLastVoteForMyElection(s)
          \/ WinElection(s) \/ LoseElection(s)
          \/ \E t \in Term : Restart(s, t)
    \/ \E r \in reqs :
          \/ AwaitStepDown(r) \/ GrantVote(r) \/ DenyVote(r)
          \/ StoreVote(r) \/ StoreFails(r)

\* Heartbeats go out for ever, and the executor runs what is scheduled.
Fairness ==
    \A s \in Server :
        /\ WF_vars(StepDownFinish(s))
        /\ WF_vars(\E u \in Server : LearnTerm(s, u))

Spec == Init /\ [][Next]_vars /\ Fairness
-----------------------------------------------------------------------------
(* Properties.                                                             *)

\* The type of every variable: no vote, request or ballot is of a term beyond
\* the last that was begun.
TypeOK ==
    /\ term \in [Server -> Term]
    /\ role \in [Server -> {"follower", "candidate", "leader"}]
    /\ stepDown \in [Server -> BOOLEAN]
    /\ lastVote \in [Server -> Vote]
    /\ disk \in [Server -> Vote]
    /\ ballot \in [Server -> Ballot]
    /\ reqs \subseteq Request
    /\ starts \in 0..MaxStarts
    /\ crashes \in 0..MaxCrashes
    /\ cast \subseteq [voter : Server, term : Term, cand : Server]
    /\ elected \subseteq [term : Term, server : Server]
    /\ early \subseteq Server

\* At most one member wins an election in a term: what the test "already
\* voted for another candidate this term" of processReplSetRequestVotes is for.
OnePrimaryPerTerm ==
    \A d, e \in elected : d.term = e.term => d.server = e.server

\* A term has two primaries only after a member voted in a term above its
\* own, as a primary does that a request makes step down: it waits for the
\* step-down but does not take the new term over before it votes.
OnePrimaryUnlessEarlyVote ==
    early = {} => OnePrimaryPerTerm

\* The winner of a term has the votes of a majority in that very term, its
\* own included, although the requests carry a term read later than the one
\* the election is for (_startVoteRequester, _onVoteRequestComplete).
WinnerHasMajority ==
    \A e \in elected :
        Majority({c.voter : c \in {d \in cast : d.term = e.term /\ d.cand = e.server}})

\* No vote that was answered is forgotten: the stored vote is of that term or
\* a later one, whatever crashes and whichever of two votes is stored first
\* (storeLocalLastVoteDocument), and it is what a restart loads.
AnsweredVotesAreStored ==
    \A c \in cast : disk[c.voter].term >= c.term

\* A primary steps down once another member has a newer term, unless that
\* member loses the term in a crash (updateTerm, _stepDownFinish).
OldPrimaryStepsDown ==
    \A s \in Server :
        (role[s] = "leader" /\ \E u \in Server : term[u] > term[s])
            ~> (role[s] # "leader" \/ \A u \in Server : term[u] <= term[s])
=============================================================================
