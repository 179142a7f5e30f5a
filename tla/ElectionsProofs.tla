-------------------------- MODULE ElectionsProofs ---------------------------
(***************************************************************************)
(* Election safety for any number of members, terms, elections and         *)
(* crashes.  The argument: no member votes twice in a term, because its    *)
(* votes in memory and on disk never run ahead of its term, nor a vote it  *)
(* gave ahead of what it stored; and two majorities share a member.        *)
(***************************************************************************)
EXTENDS Elections, FiniteSetTheorems, TLAPS

(* Only a candidate runs an election, only a primary has to step down. *)
RoleInv ==
    \A s \in Server :
        /\ ballot[s].phase # "none" => role[s] = "candidate"
        /\ stepDown[s] => role[s] = "leader"

(* The term of a candidate, of its requests and of its votes. *)
CandidateInv(s) ==
    /\ ballot[s].phase = "dryRun" => ballot[s].term < MaxTerm
    /\ ballot[s].phase \in {"store", "vote"} => ballot[s].term <= term[s]
    /\ (ballot[s].phase = "vote" /\ term[s] = ballot[s].term) =>
          \A v \in ballot[s].votes :
              [voter |-> v, term |-> ballot[s].term, cand |-> s] \in cast
RequestInv(r) ==
    r.open => /\ ballot[r.from].phase = "vote"
              /\ ballot[r.from].term <= r.term
              /\ r.term <= term[r.from]
BallotInv ==
    /\ \A s \in Server : CandidateInv(s)
    /\ \A r \in reqs : RequestInv(r)

(* A member has voted for c in term t: the vote is given, or in memory and *)
(* about to be stored, for another or for itself.                          *)
Pending(v, t, c) ==
    \E r \in reqs : r.to = v /\ r.term = t /\ r.from = c /\ r.at = "voted"
Own(v, t, c) == v = c /\ ballot[c].phase = "store" /\ ballot[c].term = t
Granted(v, t, c) ==
    \/ [voter |-> v, term |-> t, cand |-> c] \in cast
    \/ Pending(v, t, c)
    \/ Own(v, t, c)

(* No vote is ahead of the member's term, and no two are for one term. *)
VoteInv ==
    early = {} =>
        /\ \A s \in Server : disk[s].term <= lastVote[s].term /\ lastVote[s].term <= term[s]
        /\ \A v, c \in Server, t \in Term : Granted(v, t, c) => t <= lastVote[v].term
        /\ \A v, c, d \in Server, t \in Term : Granted(v, t, c) /\ Granted(v, t, d) => c = d

IndInv == TypeOK /\ RoleInv /\ BallotInv /\ AnsweredVotesAreStored /\ WinnerHasMajority /\ VoteInv

-----------------------------------------------------------------------------

LEMMA CloseType ==
    ASSUME NEW R \in SUBSET Request, NEW s \in Server
    PROVE  /\ Close(s, R) \in SUBSET Request
           /\ \A q \in Close(s, R) : \E r \in R :
                 /\ q.from = r.from /\ q.to = r.to /\ q.term = r.term /\ q.at = r.at
                 /\ q.open => r.open /\ r.from # s
<1> SUFFICES ASSUME NEW q \in Close(s, R)
             PROVE  /\ q \in Request
                    /\ \E r \in R :
                          /\ q.from = r.from /\ q.to = r.to /\ q.term = r.term /\ q.at = r.at
                          /\ q.open => r.open /\ r.from # s
  OBVIOUS
<1>1. PICK r \in R : q = IF r.from = s THEN [r EXCEPT !.open = FALSE] ELSE r
  BY DEF Close
<1>2. r \in Request
  OBVIOUS
<1>3. CASE r.from = s
  <2>1. q = [r EXCEPT !.open = FALSE]
    BY Zenon, <1>1, <1>3
  <2>2. q \in Request /\ q.from = r.from /\ q.to = r.to /\ q.term = r.term /\ q.at = r.at /\ ~q.open
    BY ZenonT(60), <1>2, <2>1 DEF Request
  <2> QED
    BY Zenon, <2>2
<1>4. CASE r.from # s
  BY Zenon, <1>1, <1>2, <1>4
<1> QED
  BY Zenon, <1>3, <1>4

LEMMA MoveType ==
    ASSUME reqs \in SUBSET Request, NEW r \in reqs, NEW at \in {"waiting", "ready", "voted"},
           Move(r, at)
    PROVE  /\ reqs' \in SUBSET Request
           /\ \A q \in reqs' : q \in reqs \/
                 (q.from = r.from /\ q.to = r.to /\ q.term = r.term /\ q.open = r.open /\ q.at = at)
  BY Zenon DEF Move, Request

LEMMA ResponseType ==
    ASSUME TypeOK, NEW r \in reqs, NEW b \in Ballot, ProcessResponse(r, b),
           b.phase = ballot[r.from].phase, b.term = ballot[r.from].term
    PROVE  /\ ballot' \in [Server -> Ballot]
           /\ \A s \in Server :
                 /\ ballot'[s].phase = ballot[s].phase
                 /\ ballot'[s].term = ballot[s].term
                 /\ ballot'[s].votes = ballot[s].votes \/ (r.open /\ s = r.from /\ ballot'[s].votes = b.votes)
<1>1. r \in Request
  BY Zenon DEF TypeOK
<1> QED
  BY <1>1 DEF ProcessResponse, TypeOK, Request

(* What an answer does to the votes of the candidate it is for. *)
LEMMA DenyAnswer ==
    ASSUME TypeOK, NEW r \in reqs, DenyVote(r)
    PROVE  /\ ballot' \in [Server -> Ballot]
           /\ \A s \in Server : /\ ballot'[s].phase = ballot[s].phase
                                /\ ballot'[s].term = ballot[s].term
                                /\ ballot'[s].votes = ballot[s].votes
<1> DEFINE b == [ballot[r.from] EXCEPT !.stale = IF MyTerm(r) > r.term THEN TRUE ELSE @]
<1>1. ballot[r.from] \in Ballot
  BY DEF TypeOK, Request
<1>2. /\ b \in Ballot /\ b.phase = ballot[r.from].phase /\ b.term = ballot[r.from].term
      /\ b.votes = ballot[r.from].votes
  BY ZenonT(60), <1>1 DEF Ballot
<1>3. ProcessResponse(r, b)
  BY Zenon DEF DenyVote
<1> HIDE DEF b
<1> QED
  BY <1>2, <1>3, ResponseType

LEMMA GrantAnswer ==
    ASSUME TypeOK, NEW r \in reqs, StoreVote(r)
    PROVE  /\ ballot' \in [Server -> Ballot]
           /\ \A s \in Server :
                 /\ ballot'[s].phase = ballot[s].phase
                 /\ ballot'[s].term = ballot[s].term
                 /\ \A v \in ballot'[s].votes :
                       v \in ballot[s].votes \/ (r.open /\ s = r.from /\ v = r.to)
<1> DEFINE b == [ballot[r.from] EXCEPT !.votes = @ \cup {r.to}]
<1>1. ballot[r.from] \in Ballot /\ r.to \in Server
  BY Zenon DEF TypeOK, Request
<1>2. /\ b \in Ballot /\ b.phase = ballot[r.from].phase /\ b.term = ballot[r.from].term
      /\ b.votes = ballot[r.from].votes \cup {r.to}
  BY Zenon, <1>1 DEF Ballot
<1>3. ProcessResponse(r, b)
  BY DEF StoreVote
<1> HIDE DEF b
<1> QED
  BY <1>2, <1>3, ResponseType

-----------------------------------------------------------------------------
(* Types. *)

LEMMA TermType == Term \subseteq Nat /\ 0 \in Term
  BY ElectionsAssumption DEF Term

LEMMA NoVoteType == NoVote \in Vote /\ NoBallot \in Ballot
  BY Zenon, TermType DEF NoVote, Vote, NoBallot, Ballot

LEMMA StoreBallotType ==
    ASSUME NEW b \in Ballot, NEW t \in Term
    PROVE  [b EXCEPT !.phase = "store", !.term = t] \in Ballot
  BY ZenonT(60) DEF Ballot

LEMMA VoteType ==
    ASSUME NEW s \in Server, NEW t \in Term
    PROVE  [term |-> t, cand |-> s] \in Vote
  BY Zenon DEF Vote

LEMMA UpdateTermType ==
    ASSUME TypeOK, NEW s \in Server, NEW t \in Term, UpdateTerm(s, t)
    PROVE  /\ term' \in [Server -> Term] /\ stepDown' \in [Server -> BOOLEAN]
           /\ \A u \in Server : term'[u] >= term[u]
<1>1. \A u \in Server : term[u] \in Nat
  BY ZenonT(60), TermType DEF TypeOK
<1>2. t \in Nat
  BY Zenon, TermType
<1>3. CASE t > term[s] /\ role[s] # "leader"
  BY <1>1, <1>2, <1>3 DEF UpdateTerm, TypeOK
<1>4. CASE ~(t > term[s] /\ role[s] # "leader")
  BY <1>1, <1>4 DEF UpdateTerm, TypeOK
<1> QED
  BY Zenon, <1>3, <1>4

LEMMA MyTermType ==
    ASSUME TypeOK, NEW r \in reqs
    PROVE  MyTerm(r) \in Term /\ MyTerm(r) >= term[r.to]
<1>1. r.to \in Server /\ r.term \in Term
  BY Zenon DEF TypeOK, Request
<1>2. term[r.to] \in Term
  BY Zenon, <1>1 DEF TypeOK
<1>3. r.term \in Nat /\ term[r.to] \in Nat
  BY ZenonT(60), <1>1, <1>2, TermType
<1> QED
  BY <1>1, <1>2, <1>3 DEF MyTerm

LEMMA StoreType ==
    ASSUME TypeOK, NEW s \in Server, NEW v \in Vote, StoreLastVote(s, v)
    PROVE  /\ disk' \in [Server -> Vote]
           /\ \A u \in Server : disk'[u].term >= disk[u].term /\ (u # s => disk'[u] = disk[u])
           /\ disk'[s].term >= v.term
           /\ disk'[s] = v \/ disk'[s] = disk[s]
<1>1. \A u \in Server : disk[u].term \in Nat
  BY ZenonT(60), TermType DEF TypeOK, Vote
<1>2. v.term \in Nat
  BY ZenonT(60), TermType DEF Vote
<1> QED
  BY <1>1, <1>2 DEF StoreLastVote, TypeOK

LEMMA TypeStep ==
    ASSUME TypeOK, BallotInv, [Next]_vars
    PROVE  TypeOK'
<1> USE DEF bounds, history
<1>1. CASE UNCHANGED vars
  BY Zenon, <1>1 DEF vars, TypeOK
<1>2. ASSUME NEW s \in Server, NEW u \in Server, LearnTerm(s, u) PROVE TypeOK'
  <2>1. PICK t \in (term[s] + 1)..term[u] : UpdateTerm(s, t)
    BY Zenon, <1>2 DEF LearnTerm
  <2>2. t \in Term
    <3>1. term[s] \in Term /\ term[u] \in Term
      BY Zenon DEF TypeOK
    <3> QED
      BY <2>1, <3>1, ElectionsAssumption DEF Term
  <2>3. term' \in [Server -> Term] /\ stepDown' \in [Server -> BOOLEAN]
    BY Zenon, <2>1, <2>2, UpdateTermType
  <2> QED
    BY <1>2, <2>3 DEF LearnTerm, TypeOK
<1>3. ASSUME NEW s \in Server, StepDownSelf(s) PROVE TypeOK'
  BY Zenon, <1>3 DEF StepDownSelf, TypeOK
<1>4. ASSUME NEW s \in Server, StepDownFinish(s) PROVE TypeOK'
  <2>1. ASSUME NEW q \in reqs' PROVE q \in Request
    <3>1. PICK r \in reqs : q = IF r.to = s /\ r.at = "waiting" THEN [r EXCEPT !.at = "ready"] ELSE r
      BY Zenon, <1>4, <2>1 DEF StepDownFinish
    <3>2. r \in Request
      BY Zenon DEF TypeOK
    <3>3. [r EXCEPT !.at = "ready"] \in Request
      BY Zenon, <3>2 DEF Request
    <3> QED
      BY Zenon, <3>1, <3>2, <3>3
  <2> QED
    BY Zenon, <1>4, <2>1 DEF StepDownFinish, TypeOK
<1>5. ASSUME NEW s \in Server, StartElectSelf(s) PROVE TypeOK'
  <2>1. [NoBallot EXCEPT !.phase = "dryRun", !.term = term[s]] \in Ballot
    BY ZenonT(60), NoVoteType DEF Ballot, NoBallot, TypeOK
  <2>2. starts' \in 0..MaxStarts
    BY <1>5, ElectionsAssumption DEF StartElectSelf, TypeOK
  <2> QED
    BY Zenon, <1>5, <2>1, <2>2 DEF StartElectSelf, TypeOK
<1>6. ASSUME NEW s \in Server, OnDryRunComplete(s) PROVE TypeOK'
  <2>1. term[s] + 1 \in Term
    BY <1>6, ElectionsAssumption DEF OnDryRunComplete, BallotInv, CandidateInv, TypeOK, Term
  <2>2. ballot' = [ballot EXCEPT ![s] = [ballot[s] EXCEPT !.phase = "store", !.term = term[s] + 1]]
    BY Zenon, <1>6 DEF OnDryRunComplete
  <2>3. [ballot[s] EXCEPT !.phase = "store", !.term = term[s] + 1] \in Ballot
    BY ZenonT(60), <2>1, StoreBallotType DEF TypeOK
  <2>4. ballot' \in [Server -> Ballot]
    BY Zenon, <2>2, <2>3 DEF TypeOK
  <2>5. [term |-> term[s] + 1, cand |-> s] \in Vote
    BY Zenon, <2>1, VoteType
  <2> QED
    BY Zenon, <1>6, <2>1, <2>4, <2>5 DEF OnDryRunComplete, TypeOK
<1>7. ASSUME NEW s \in Server, WriteLastVoteForMyElection(s) PROVE TypeOK'
  <2>1. ballot[s] \in Ballot /\ term[s] \in Term
    BY Zenon DEF TypeOK
  <2>2. [term |-> ballot[s].term, cand |-> s] \in Vote
    BY Zenon, <2>1, VoteType DEF Ballot
  <2>3. disk' \in [Server -> Vote]
    BY Zenon, <1>7, <2>2, StoreType DEF WriteLastVoteForMyElection
  <2>4. ballot' \in [Server -> Ballot]
    <3>1. [ballot[s] EXCEPT !.phase = "vote", !.votes = {s}] \in Ballot
      BY ZenonT(60), <2>1 DEF Ballot
    <3>2. ballot' = [ballot EXCEPT ![s] = [ballot[s] EXCEPT !.phase = "vote", !.votes = {s}]]
      BY Zenon, <1>7 DEF WriteLastVoteForMyElection
    <3> QED
      BY Zenon, <3>1, <3>2 DEF TypeOK
  <2>5. reqs' \subseteq Request
    <3>1. \A v \in Server : [from |-> s, to |-> v, term |-> term[s], open |-> TRUE,
                             at |-> "sent"] \in Request
      BY Zenon, <2>1 DEF Request
    <3> QED
      BY Zenon, <1>7, <3>1 DEF WriteLastVoteForMyElection, TypeOK
  <2>6. cast' \subseteq [voter : Server, term : Term, cand : Server]
    BY <1>7, <2>1 DEF WriteLastVoteForMyElection, TypeOK, Ballot
  <2> QED
    BY <1>7, <2>3, <2>4, <2>5, <2>6 DEF WriteLastVoteForMyElection, TypeOK
<1>8. ASSUME NEW s \in Server, WinElection(s) PROVE TypeOK'
  <2>1. reqs' \subseteq Request
    BY <1>8, CloseType DEF WinElection, TypeOK
  <2> QED
    BY <1>8, <2>1, NoVoteType DEF WinElection, TypeOK
<1>9. ASSUME NEW s \in Server, LoseElection(s) PROVE TypeOK'
  <2>1. reqs' \subseteq Request
    BY Zenon, <1>9, CloseType DEF LoseElection, TypeOK
  <2> QED
    BY Zenon, <1>9, <2>1, NoVoteType DEF LoseElection, TypeOK
<1>10. ASSUME NEW s \in Server, NEW t \in Term, Restart(s, t) PROVE TypeOK'
  <2>1. reqs' \subseteq Request
    BY Zenon, <1>10, CloseType DEF Restart, TypeOK
  <2>2. disk[s] \in Vote /\ disk[s].term \in Term
    BY Zenon DEF TypeOK, Vote
  <2>3. crashes' \in 0..MaxCrashes
    BY <1>10, ElectionsAssumption DEF Restart, TypeOK
  <2> QED
    BY <1>10, <2>1, <2>2, <2>3, NoVoteType DEF Restart, TypeOK
<1>11. ASSUME NEW r \in reqs, AwaitStepDown(r) PROVE TypeOK'
  <2>1. r.to \in Server /\ r.term \in Term
    BY Zenon DEF TypeOK, Request
  <2>2. reqs' \subseteq Request
    BY Zenon, <1>11, MoveType DEF AwaitStepDown, TypeOK
  <2>3. term' \in [Server -> Term] /\ stepDown' \in [Server -> BOOLEAN]
    BY Zenon, <1>11, <2>1, UpdateTermType DEF AwaitStepDown
  <2> QED
    BY Zenon, <1>11, <2>2, <2>3 DEF AwaitStepDown, TypeOK
<1>12. ASSUME NEW r \in reqs, GrantVote(r) PROVE TypeOK'
  <2>1. r.to \in Server /\ r.from \in Server /\ r.term \in Term
    BY Zenon DEF TypeOK, Request
  <2>2. reqs' \subseteq Request
    BY Zenon, <1>12, MoveType DEF GrantVote, TypeOK
  <2>3. [term |-> r.term, cand |-> r.from] \in Vote
    BY Zenon, <2>1, VoteType
  <2> QED
    BY Zenon, <1>12, <2>1, <2>2, <2>3, MyTermType DEF GrantVote, TypeOK
<1>13. ASSUME NEW r \in reqs, DenyVote(r) PROVE TypeOK'
  <2>1. r.to \in Server
    BY Zenon DEF TypeOK, Request
  <2>2. ballot' \in [Server -> Ballot]
    BY Zenon, <1>13, DenyAnswer
  <2> QED
    BY ZenonT(60), <1>13, <2>1, <2>2, MyTermType DEF DenyVote, TypeOK
<1>14. ASSUME NEW r \in reqs, StoreVote(r) PROVE TypeOK'
  <2>1. r.to \in Server /\ r.from \in Server /\ r.term \in Term
    BY Zenon DEF TypeOK, Request
  <2>2. ballot' \in [Server -> Ballot]
    BY Zenon, <1>14, GrantAnswer
  <2>3. disk' \in [Server -> Vote]
    BY Zenon, <1>14, <2>1, VoteType, StoreType DEF StoreVote
  <2>4. cast' \subseteq [voter : Server, term : Term, cand : Server]
    BY <1>14, <2>1 DEF StoreVote, TypeOK
  <2> QED
    BY <1>14, <2>2, <2>3, <2>4 DEF StoreVote, TypeOK
<1>15. ASSUME NEW r \in reqs, StoreFails(r) PROVE TypeOK'
  BY Zenon, <1>15 DEF StoreFails, TypeOK
<1> QED
  BY <1>1, <1>2, <1>3, <1>4, <1>5, <1>6, <1>7, <1>8, <1>9, <1>10, <1>11, <1>12, <1>13, <1>14,
     <1>15 DEF Next

-----------------------------------------------------------------------------
(* Candidates and their requests. *)

LEMMA Numbers ==
    ASSUME TypeOK
    PROVE  /\ \A s \in Server : /\ term[s] \in Nat /\ ballot[s].term \in Nat
                                /\ lastVote[s].term \in Nat /\ disk[s].term \in Nat
           /\ \A r \in reqs : r.term \in Nat /\ r.term \in Term /\ r.from \in Server /\ r.to \in Server
           /\ \A c \in cast : c.term \in Nat /\ c.voter \in Server /\ c.cand \in Server
<1>1. \A s \in Server : ballot[s] \in Ballot /\ lastVote[s] \in Vote /\ disk[s] \in Vote /\ term[s] \in Term
  BY Zenon DEF TypeOK
<1>2. \A r \in reqs : r.term \in Term /\ r.from \in Server /\ r.to \in Server
  BY Zenon DEF TypeOK, Request
<1>3. \A c \in cast : c.term \in Term /\ c.voter \in Server /\ c.cand \in Server
  BY Zenon DEF TypeOK
<1> QED
  BY ZenonT(60), <1>1, <1>2, <1>3, TermType DEF Ballot, Vote

LEMMA CandidateKept ==
    ASSUME TypeOK, TypeOK', NEW s \in Server, CandidateInv(s),
           ballot'[s].phase = ballot[s].phase, ballot'[s].term = ballot[s].term,
           ballot'[s].votes \subseteq ballot[s].votes,
           term'[s] >= term[s], cast \subseteq cast'
    PROVE  CandidateInv(s)'
<1>1. term[s] \in Nat /\ ballot[s].term \in Nat /\ term'[s] \in Nat
  BY ZenonT(60), Numbers, TermType DEF TypeOK
<1> QED
  BY <1>1 DEF CandidateInv

LEMMA CandidateNone ==
    ASSUME NEW s \in Server, ballot'[s] = NoBallot
    PROVE  CandidateInv(s)'
  BY DEF CandidateInv, NoBallot

LEMMA RequestKept ==
    ASSUME TypeOK, TypeOK', NEW r \in reqs, NEW q \in reqs', RequestInv(r),
           q.from = r.from, q.term = r.term, q.open => r.open,
           ballot'[r.from].phase = ballot[r.from].phase,
           ballot'[r.from].term = ballot[r.from].term,
           term'[r.from] >= term[r.from]
    PROVE  RequestInv(q)'
<1>1. r.from \in Server /\ r.term \in Nat /\ term[r.from] \in Nat
  BY Zenon, Numbers
<1>2. term'[r.from] \in Nat
  BY ZenonT(60), <1>1, TermType DEF TypeOK
<1> QED
  BY <1>1, <1>2 DEF RequestInv

(* A step that leaves every election as it is. *)
LEMMA BallotsKept ==
    ASSUME TypeOK, TypeOK', BallotInv,
           \A s \in Server : /\ ballot'[s].phase = ballot[s].phase
                             /\ ballot'[s].term = ballot[s].term
                             /\ ballot'[s].votes = ballot[s].votes
                             /\ term'[s] >= term[s],
           cast \subseteq cast',
           \A q \in reqs' : \E r \in reqs : q.from = r.from /\ q.term = r.term /\ (q.open => r.open)
    PROVE  BallotInv'
<1>1. ASSUME NEW s \in Server PROVE CandidateInv(s)'
  BY Zenon, <1>1, CandidateKept DEF BallotInv
<1>2. ASSUME NEW q \in reqs' PROVE RequestInv(q)'
  <2>1. PICK r \in reqs : q.from = r.from /\ q.term = r.term /\ (q.open => r.open)
    BY Zenon, <1>2
  <2>2. r.from \in Server /\ RequestInv(r)
    BY Zenon, Numbers DEF BallotInv
  <2> QED
    BY Zenon, <2>1, <2>2, RequestKept
<1> QED
  BY Zenon, <1>1, <1>2 DEF BallotInv

(* The step that ends the election of s. *)
LEMMA BallotEnds ==
    ASSUME TypeOK, TypeOK', BallotInv, NEW s \in Server, NEW R \in SUBSET reqs,
           ballot' = [ballot EXCEPT ![s] = NoBallot], reqs' = Close(s, R),
           \A u \in Server \ {s} : term'[u] >= term[u], cast' = cast
    PROVE  BallotInv'
<1>1. ASSUME NEW u \in Server PROVE CandidateInv(u)'
  <2>1. CASE u = s
    BY Zenon, <2>1, CandidateNone DEF TypeOK
  <2>2. CASE u # s
    BY Zenon, <2>2, CandidateKept DEF BallotInv, TypeOK
  <2> QED
    BY Zenon, <2>1, <2>2
<1>2. ASSUME NEW q \in reqs' PROVE RequestInv(q)'
  <2>1. R \in SUBSET Request
    BY Zenon DEF TypeOK
  <2>2. PICK r \in R : q.from = r.from /\ q.term = r.term /\ (q.open => r.open /\ r.from # s)
    BY <2>1, CloseType
  <2>3. CASE ~q.open
    BY Zenon, <2>3 DEF RequestInv
  <2>4. CASE q.open
    <3>1. r \in reqs /\ r.from \in Server /\ r.from # s /\ RequestInv(r)
      BY Zenon, <2>2, <2>4, Numbers DEF BallotInv
    <3>2. ballot'[r.from] = ballot[r.from] /\ term'[r.from] >= term[r.from]
      BY Zenon, <3>1 DEF TypeOK
    <3> QED
      BY Zenon, <2>2, <3>1, <3>2, RequestKept
  <2> QED
    BY Zenon, <2>3, <2>4
<1> QED
  BY Zenon, <1>1, <1>2 DEF BallotInv

LEMMA RoleStep ==
    ASSUME TypeOK, RoleInv, [Next]_vars
    PROVE  RoleInv'
<1> USE DEF bounds, history
<1>1. CASE UNCHANGED vars
  BY Zenon, <1>1 DEF vars, RoleInv
<1>2. ASSUME NEW s \in Server, NEW t, UpdateTerm(s, t), UNCHANGED <<role, ballot>> PROVE RoleInv'
  BY Zenon, <1>2 DEF UpdateTerm, RoleInv, TypeOK
<1>3. ASSUME NEW s \in Server, NEW u \in Server, LearnTerm(s, u) PROVE RoleInv'
  BY Zenon, <1>2, <1>3 DEF LearnTerm
<1>4. ASSUME NEW s \in Server, StepDownSelf(s) \/ StepDownFinish(s) PROVE RoleInv'
  BY <1>4 DEF StepDownSelf, StepDownFinish, RoleInv, TypeOK
<1>5. ASSUME NEW s \in Server, NEW b \in Ballot, b.phase # "none",
             role[s] = "candidate" \/ (role[s] = "follower" /\ role' = [role EXCEPT ![s] = "candidate"]),
             role[s] = "candidate" => UNCHANGED role,
             ballot' = [ballot EXCEPT ![s] = b], UNCHANGED stepDown
      PROVE  RoleInv'
  BY <1>5 DEF RoleInv, TypeOK
<1>6. ASSUME NEW s \in Server, StartElectSelf(s) PROVE RoleInv'
  <2>1. [NoBallot EXCEPT !.phase = "dryRun", !.term = term[s]] \in Ballot
    BY ZenonT(60), NoVoteType DEF Ballot, NoBallot, TypeOK
  <2>2. [NoBallot EXCEPT !.phase = "dryRun", !.term = term[s]].phase # "none"
    BY Zenon DEF NoBallot
  <2> QED
    BY ZenonT(60), <1>5, <1>6, <2>1, <2>2 DEF StartElectSelf
<1>7. ASSUME NEW s \in Server, OnDryRunComplete(s) \/ WriteLastVoteForMyElection(s) PROVE RoleInv'
  <2>1. ballot[s] \in Ballot /\ role[s] = "candidate"
    BY Zenon, <1>7 DEF TypeOK, RoleInv, OnDryRunComplete, WriteLastVoteForMyElection
  <2>2. \A u \in Server : u # s => ballot'[u] = ballot[u]
    BY Zenon, <1>7 DEF OnDryRunComplete, WriteLastVoteForMyElection, TypeOK
  <2> QED
    BY Zenon, <1>7, <2>1, <2>2 DEF RoleInv, OnDryRunComplete, WriteLastVoteForMyElection
<1>8. ASSUME NEW s \in Server, WinElection(s) \/ LoseElection(s) PROVE RoleInv'
  BY <1>8 DEF WinElection, LoseElection, RoleInv, TypeOK, NoBallot
<1>9. ASSUME NEW s \in Server, NEW t \in Term, Restart(s, t) PROVE RoleInv'
  BY Zenon, <1>9 DEF Restart, RoleInv, TypeOK, NoBallot
<1>10. ASSUME NEW r \in reqs, AwaitStepDown(r) PROVE RoleInv'
  BY Zenon, <1>2, <1>10, Numbers DEF AwaitStepDown
<1>11. ASSUME NEW r \in reqs, GrantVote(r) \/ StoreFails(r) PROVE RoleInv'
  BY Zenon, <1>11 DEF GrantVote, StoreFails, RoleInv
<1>12. ASSUME NEW r \in reqs, DenyVote(r) PROVE RoleInv'
  BY ZenonT(60), <1>12, DenyAnswer DEF DenyVote, RoleInv
<1>13. ASSUME NEW r \in reqs, StoreVote(r) PROVE RoleInv'
  BY <1>13, GrantAnswer DEF StoreVote, RoleInv
<1> QED
  BY SMTT(60), <1>1, <1>3, <1>4, <1>6, <1>7, <1>8, <1>9, <1>10, <1>11, <1>12, <1>13 DEF Next

LEMMA BallotStep ==
    ASSUME TypeOK, TypeOK', RoleInv, BallotInv, [Next]_vars
    PROVE  BallotInv'
<1> USE DEF bounds, history
<1> DEFINE Kept == \A q \in reqs' : \E r \in reqs : q.from = r.from /\ q.term = r.term /\ (q.open => r.open)
<1>0. \A u \in Server : term[u] \in Nat /\ term[u] >= term[u]
  BY Numbers
<1>1. CASE UNCHANGED vars
  BY Zenon, <1>0, <1>1, BallotsKept DEF vars
<1>2. ASSUME NEW s \in Server, NEW u \in Server, LearnTerm(s, u) PROVE BallotInv'
  <2>1. PICK t \in (term[s] + 1)..term[u] : UpdateTerm(s, t)
    BY Zenon, <1>2 DEF LearnTerm
  <2>2. t \in Term
    <3>1. term[s] \in Term /\ term[u] \in Term
      BY Zenon DEF TypeOK
    <3> QED
      BY <2>1, <3>1, ElectionsAssumption DEF Term
  <2> QED
    BY Zenon, <1>2, <2>1, <2>2, UpdateTermType, BallotsKept DEF LearnTerm
<1>3. ASSUME NEW s \in Server, StepDownSelf(s) PROVE BallotInv'
  BY Zenon, <1>0, <1>3, BallotsKept DEF StepDownSelf
<1>4. ASSUME NEW s \in Server, StepDownFinish(s) PROVE BallotInv'
  <2>1. ASSUME NEW q \in reqs'
        PROVE  \E r \in reqs : q.from = r.from /\ q.term = r.term /\ (q.open => r.open)
    <3>1. PICK r \in reqs : q = IF r.to = s /\ r.at = "waiting" THEN [r EXCEPT !.at = "ready"] ELSE r
      BY Zenon, <1>4, <2>1 DEF StepDownFinish
    <3>2. r \in Request
      BY Zenon DEF TypeOK
    <3> QED
      BY Zenon, <3>1, <3>2 DEF Request
  <2> QED
    BY Zenon, <1>0, <1>4, <2>1, BallotsKept DEF StepDownFinish
<1>5. ASSUME NEW s \in Server, NEW b \in Ballot, ballot[s].phase # "vote",
             ballot' = [ballot EXCEPT ![s] = b], b.phase \in {"dryRun", "store"},
             b.phase = "dryRun" => b.term < MaxTerm, b.phase = "store" => b.term <= term'[s],
             \A u \in Server : term'[u] >= term[u], UNCHANGED <<reqs, cast>>
      PROVE  BallotInv'
  <2>1. ASSUME NEW u \in Server PROVE CandidateInv(u)'
    <3>1. CASE u = s
      BY Zenon, <1>5, <3>1 DEF CandidateInv, TypeOK
    <3>2. CASE u # s
      BY Zenon, <1>5, <3>2, CandidateKept DEF BallotInv, TypeOK
    <3> QED
      BY Zenon, <3>1, <3>2
  <2>2. ASSUME NEW r \in reqs PROVE RequestInv(r)'
    <3>1. r.from \in Server /\ RequestInv(r)
      BY Zenon, Numbers DEF BallotInv
    <3>2. CASE r.from = s
      BY Zenon, <1>5, <3>1, <3>2 DEF RequestInv
    <3>3. CASE r.from # s
      BY SMTT(60), <1>5, <3>1, <3>3, RequestKept DEF TypeOK
    <3> QED
      BY Zenon, <3>2, <3>3
  <2> QED
    BY Zenon, <1>5, <2>1, <2>2 DEF BallotInv
<1>6. ASSUME NEW s \in Server, StartElectSelf(s) PROVE BallotInv'
  <2> DEFINE b == [NoBallot EXCEPT !.phase = "dryRun", !.term = term[s]]
  <2>1. b \in Ballot /\ b.phase = "dryRun" /\ b.term = term[s]
    BY ZenonT(60), NoVoteType DEF Ballot, NoBallot, TypeOK
  <2>2. ballot[s].phase # "vote"
    BY Zenon, <1>6 DEF StartElectSelf, RoleInv
  <2>3. ballot' = [ballot EXCEPT ![s] = b] /\ term[s] < MaxTerm /\ UNCHANGED <<term, reqs, cast>>
    BY Zenon, <1>6 DEF StartElectSelf
  <2> HIDE DEF b
  <2> QED
    BY ZenonT(60), <1>0, <1>5, <2>1, <2>2, <2>3
<1>7. ASSUME NEW s \in Server, OnDryRunComplete(s) PROVE BallotInv'
  <2> DEFINE b == [ballot[s] EXCEPT !.phase = "store", !.term = term[s] + 1]
  <2>1. term' = [term EXCEPT ![s] = @ + 1] /\ ballot' = [ballot EXCEPT ![s] = b]
        /\ UNCHANGED <<reqs, cast>> /\ ballot[s].phase = "dryRun"
    BY Zenon, <1>7 DEF OnDryRunComplete
  <2>2. term'[s] = term[s] + 1 /\ \A u \in Server : term'[u] >= term[u]
    BY <1>0, <2>1 DEF TypeOK
  <2>3. b \in Ballot /\ b.phase = "store" /\ b.term = term[s] + 1
    <3>1. ballot[s] \in Ballot /\ term[s] + 1 \in Term
      BY <2>2 DEF TypeOK
    <3> QED
      BY ZenonT(60), <3>1, StoreBallotType DEF Ballot
  <2> HIDE DEF b
  <2>4. b.term <= term'[s]
    BY <1>0, <2>2, <2>3
  <2> QED
    BY ZenonT(60), <1>5, <2>1, <2>2, <2>3, <2>4
<1>8. ASSUME NEW s \in Server, WriteLastVoteForMyElection(s) PROVE BallotInv'
  <2>1. /\ ballot[s] \in Ballot /\ ballot[s].phase = "store" /\ CandidateInv(s)
        /\ UNCHANGED term /\ cast \subseteq cast'
        /\ [voter |-> s, term |-> ballot[s].term, cand |-> s] \in cast'
    BY Zenon, <1>8 DEF WriteLastVoteForMyElection, BallotInv, TypeOK
  <2>2. ballot' = [ballot EXCEPT ![s] = [ballot[s] EXCEPT !.phase = "vote", !.votes = {s}]]
    BY Zenon, <1>8 DEF WriteLastVoteForMyElection
  <2>3. /\ ballot'[s].phase = "vote" /\ ballot'[s].term = ballot[s].term /\ ballot'[s].votes = {s}
        /\ \A u \in Server : u # s => ballot'[u] = ballot[u]
    BY <2>1, <2>2 DEF TypeOK, Ballot
  <2>4. ASSUME NEW u \in Server PROVE CandidateInv(u)'
    <3>1. CASE u = s
      BY Zenon, <2>1, <2>3, <3>1 DEF CandidateInv
    <3>2. CASE u # s
      BY Zenon, <1>0, <2>1, <2>3, <3>2, CandidateKept DEF BallotInv
    <3> QED
      BY Zenon, <3>1, <3>2
  <2>5. ASSUME NEW q \in reqs' PROVE RequestInv(q)'
    <3>1. CASE q \in reqs
      <4>1. q.from \in Server /\ RequestInv(q)
        BY Zenon, <3>1, Numbers DEF BallotInv
      <4> QED
        BY SMTT(60), <1>0, <2>1, <2>3, <3>1, <4>1 DEF RequestInv
    <3>2. CASE q \notin reqs
      <4>1. PICK v \in Server : q = [from |-> s, to |-> v, term |-> term[s], open |-> TRUE, at |-> "sent"]
        BY Zenon, <1>8, <2>5, <3>2 DEF WriteLastVoteForMyElection
      <4>2. q.from = s /\ q.term = term[s]
        BY Zenon, <4>1
      <4> QED
        BY Zenon, <1>0, <2>1, <2>3, <4>2 DEF RequestInv, CandidateInv
    <3> QED
      BY Zenon, <3>1, <3>2
  <2> QED
    BY Zenon, <2>4, <2>5 DEF BallotInv
<1>9. ASSUME NEW s \in Server, WinElection(s) \/ LoseElection(s) PROVE BallotInv'
  BY Zenon, <1>0, <1>9, BallotEnds DEF WinElection, LoseElection
<1>10. ASSUME NEW s \in Server, NEW t \in Term, Restart(s, t) PROVE BallotInv'
  <2> DEFINE R == {r \in reqs : r.to # s \/ r.at = "sent"}
  <2>1. /\ ballot' = [ballot EXCEPT ![s] = NoBallot] /\ reqs' = Close(s, R) /\ cast' = cast
        /\ \A u \in Server \ {s} : term'[u] >= term[u]
    BY Zenon, <1>0, <1>10 DEF Restart, TypeOK
  <2> QED
    BY ZenonT(60), <2>1, BallotEnds
<1>11. ASSUME NEW r \in reqs, NEW at \in {"waiting", "ready", "voted"}, Move(r, at) PROVE Kept
  BY <1>11, MoveType DEF TypeOK
<1>12. ASSUME NEW r \in reqs, AwaitStepDown(r) PROVE BallotInv'
  <2>1. r.to \in Server /\ r.term \in Term
    BY Zenon, Numbers
  <2>2. \A u \in Server : term'[u] >= term[u]
    BY Zenon, <1>12, <2>1, UpdateTermType DEF AwaitStepDown
  <2>3. Kept
    BY Zenon, <1>11, <1>12 DEF AwaitStepDown
  <2> QED
    BY Zenon, <1>12, <2>2, <2>3, BallotsKept DEF AwaitStepDown
<1>13. ASSUME NEW r \in reqs, term' = [term EXCEPT ![r.to] = MyTerm(r)]
       PROVE  \A u \in Server : term'[u] >= term[u]
  BY SMTT(60), <1>0, <1>13, MyTermType, Numbers DEF TypeOK
<1>14. ASSUME NEW r \in reqs, GrantVote(r) PROVE BallotInv'
  <2>1. Kept
    BY Zenon, <1>11, <1>14 DEF GrantVote
  <2>2. \A u \in Server : term'[u] >= term[u]
    BY ZenonT(60), <1>13, <1>14 DEF GrantVote
  <2> QED
    BY SMTT(60), <1>14, <2>1, <2>2, BallotsKept DEF GrantVote
<1>15. ASSUME NEW r \in reqs, DenyVote(r) PROVE BallotInv'
  <2>1. Kept /\ cast' = cast
    BY Zenon, <1>15 DEF DenyVote
  <2>2. \A u \in Server : term'[u] >= term[u]
    BY ZenonT(60), <1>13, <1>15 DEF DenyVote
  <2> QED
    BY Zenon, <1>15, <2>1, <2>2, DenyAnswer, BallotsKept
<1>16. ASSUME NEW r \in reqs, StoreFails(r) PROVE BallotInv'
  BY Zenon, <1>0, <1>16, BallotsKept DEF StoreFails
<1>17. ASSUME NEW r \in reqs, StoreVote(r) PROVE BallotInv'
  <2>1. /\ UNCHANGED term /\ cast \subseteq cast' /\ reqs' \subseteq reqs
        /\ [voter |-> r.to, term |-> r.term, cand |-> r.from] \in cast'
    BY Zenon, <1>17 DEF StoreVote
  <2>2. \A s \in Server :
           /\ ballot'[s].phase = ballot[s].phase /\ ballot'[s].term = ballot[s].term
           /\ \A v \in ballot'[s].votes : v \in ballot[s].votes \/ (r.open /\ s = r.from /\ v = r.to)
    BY Zenon, <1>17, GrantAnswer
  <2>3. ASSUME NEW s \in Server PROVE CandidateInv(s)'
    <3>1. CandidateInv(s) /\ (r.open => RequestInv(r))
      BY Zenon DEF BallotInv
    <3>2. term[s] \in Nat /\ r.term \in Nat /\ ballot[s].term \in Nat
      BY Zenon, Numbers
    <3>3. ASSUME ballot'[s].phase = "vote", term'[s] = ballot'[s].term, NEW v \in ballot'[s].votes
          PROVE  [voter |-> v, term |-> ballot'[s].term, cand |-> s] \in cast'
      <4>1. CASE v \in ballot[s].votes
        BY SMTT(60), <2>1, <2>2, <3>1, <3>3, <4>1 DEF CandidateInv
      <4>2. CASE r.open /\ s = r.from /\ v = r.to
        <5>1. r.term = ballot[s].term
          BY SMTT(60), <2>1, <2>2, <3>1, <3>2, <3>3, <4>2 DEF RequestInv
        <5> QED
          BY SMTT(60), <2>1, <2>2, <4>2, <5>1
      <4> QED
        BY Zenon, <2>2, <3>3, <4>1, <4>2
    <3> QED
      BY Zenon, <2>1, <2>2, <3>1, <3>3 DEF CandidateInv
  <2>4. ASSUME NEW q \in reqs' PROVE RequestInv(q)'
    <3>1. q \in reqs /\ q.from \in Server /\ RequestInv(q)
      BY Zenon, <2>1, <2>4, Numbers DEF BallotInv
    <3> QED
      BY Zenon, <2>1, <2>2, <3>1 DEF RequestInv
  <2> QED
    BY Zenon, <2>3, <2>4 DEF BallotInv
<1> QED
  BY Zenon, <1>1, <1>2, <1>3, <1>4, <1>6, <1>7, <1>8, <1>9, <1>10, <1>12, <1>14, <1>15, <1>16, <1>17
     DEF Next
-----------------------------------------------------------------------------
(* Votes given are stored, and a winner has a majority of them. *)

LEMMA StoredStep ==
    ASSUME TypeOK, AnsweredVotesAreStored, [Next]_vars
    PROVE  AnsweredVotesAreStored'
<1> USE DEF bounds, history
<1>1. ASSUME UNCHANGED <<disk, cast>> PROVE AnsweredVotesAreStored'
  BY Zenon, <1>1 DEF AnsweredVotesAreStored
<1>2. ASSUME NEW s \in Server, NEW t \in Term, NEW c \in Server,
             StoreLastVote(s, [term |-> t, cand |-> c]),
             cast' = cast \cup {[voter |-> s, term |-> t, cand |-> c]}
      PROVE  AnsweredVotesAreStored'
  <2>1. [term |-> t, cand |-> c] \in Vote
    BY Zenon, VoteType
  <2>2. disk'[s].term >= t /\ \A u \in Server : disk'[u].term >= disk[u].term
    BY Zenon, <1>2, <2>1, StoreType
  <2>3. \A u \in Server : disk'[u].term \in Nat /\ disk[u].term \in Nat
    <3>1. disk' \in [Server -> Vote]
      BY Zenon, <1>2, <2>1, StoreType
    <3> QED
      BY ZenonT(60), <3>1, Numbers, TermType DEF Vote
  <2>4. ASSUME NEW d \in cast' PROVE disk'[d.voter].term >= d.term
    <3>1. CASE d \in cast
      <4>1. d.voter \in Server /\ d.term \in Nat /\ disk[d.voter].term >= d.term
        BY Zenon, <3>1, Numbers DEF AnsweredVotesAreStored
      <4> QED
        BY <2>2, <2>3, <4>1
    <3>2. CASE d \notin cast
      BY <1>2, <2>2, <2>4, <3>2
    <3> QED
      BY Zenon, <3>1, <3>2
  <2> QED
    BY Zenon, <2>4 DEF AnsweredVotesAreStored
<1>3. ASSUME NEW s \in Server, WriteLastVoteForMyElection(s) PROVE AnsweredVotesAreStored'
  <2>1. ballot[s].term \in Term
    BY Zenon DEF TypeOK, Ballot
  <2> QED
    BY Zenon, <1>2, <1>3, <2>1 DEF WriteLastVoteForMyElection
<1>4. ASSUME NEW r \in reqs, StoreVote(r) PROVE AnsweredVotesAreStored'
  BY Zenon, <1>2, <1>4, Numbers DEF StoreVote
<1>5. CASE UNCHANGED vars
  BY Zenon, <1>1, <1>5 DEF vars
<1>6. ASSUME NEW s \in Server,
             \/ StepDownSelf(s) \/ StepDownFinish(s) \/ StartElectSelf(s) \/ OnDryRunComplete(s)
             \/ WinElection(s) \/ LoseElection(s)
             \/ \E u \in Server : LearnTerm(s, u)
             \/ \E t \in Term : Restart(s, t)
      PROVE  AnsweredVotesAreStored'
  BY ZenonT(60), <1>1, <1>6 DEF StepDownSelf, StepDownFinish, StartElectSelf, OnDryRunComplete, WinElection,
     LoseElection, LearnTerm, Restart
<1>7. ASSUME NEW r \in reqs, AwaitStepDown(r) \/ GrantVote(r) \/ DenyVote(r) \/ StoreFails(r)
      PROVE  AnsweredVotesAreStored'
  BY Zenon, <1>1, <1>7 DEF AwaitStepDown, GrantVote, DenyVote, StoreFails
<1> QED
  BY Zenon, <1>3, <1>4, <1>5, <1>6, <1>7 DEF Next

VotersFor(e) == {c.voter : c \in {d \in cast : d.term = e.term /\ d.cand = e.server}}

LEMMA MajorityGrows ==
    ASSUME NEW P \in SUBSET Server, NEW Q \in SUBSET P, Majority(Q)
    PROVE  Majority(P)
<1>1. IsFiniteSet(P) /\ IsFiniteSet(Q)
  BY Zenon, FS_Subset, ElectionsAssumption
<1>2. Cardinality(P) \in Nat /\ Cardinality(Q) \in Nat /\ Cardinality(Server) \in Nat
  BY Zenon, <1>1, FS_CardinalityType, ElectionsAssumption
<1>3. Cardinality(Q) <= Cardinality(P)
  BY Zenon, <1>1, FS_Subset
<1> QED
  BY <1>2, <1>3 DEF Majority

LEMMA MajorityStep ==
    ASSUME TypeOK, TypeOK', BallotInv, WinnerHasMajority, [Next]_vars
    PROVE  WinnerHasMajority'
<1> USE DEF bounds, history
<1>0. cast \subseteq cast'
  BY ZenonT(60) DEF Next, vars, LearnTerm, StepDownSelf, StepDownFinish, StartElectSelf, OnDryRunComplete,
     WriteLastVoteForMyElection, WinElection, LoseElection, Restart, AwaitStepDown, GrantVote,
     DenyVote, StoreVote, StoreFails
<1>1. ASSUME NEW e \in elected PROVE Majority(VotersFor(e)')
  <2>1. Majority(VotersFor(e))
    BY Zenon DEF WinnerHasMajority, VotersFor
  <2>2. VotersFor(e) \subseteq VotersFor(e)'
    BY <1>0 DEF VotersFor
  <2>3. VotersFor(e)' \subseteq Server
    BY Numbers DEF VotersFor, TypeOK
  <2> QED
    BY <2>1, <2>2, <2>3, MajorityGrows
<1>2. ASSUME NEW s \in Server, WinElection(s), NEW e, e = [term |-> term[s], server |-> s]
      PROVE  Majority(VotersFor(e)')
  <2>1. /\ ballot[s].phase = "vote" /\ term[s] = ballot[s].term /\ Majority(ballot[s].votes)
        /\ cast' = cast /\ CandidateInv(s)
    BY Zenon, <1>2 DEF WinElection, Elected, BallotInv
  <2>2. ballot[s].votes \subseteq VotersFor(e)'
    <3> SUFFICES ASSUME NEW v \in ballot[s].votes PROVE v \in VotersFor(e)'
      BY Zenon
    <3>1. [voter |-> v, term |-> ballot[s].term, cand |-> s] \in cast'
      BY Zenon, <2>1 DEF CandidateInv
    <3> QED
      BY <1>2, <2>1, <3>1 DEF VotersFor
  <2>3. VotersFor(e)' \subseteq Server
    BY SMTT(60), Numbers DEF VotersFor, TypeOK
  <2> QED
    BY Zenon, <2>1, <2>2, <2>3, MajorityGrows
<1>3. ASSUME NEW e \in elected' PROVE e \in elected \/ \E s \in Server : WinElection(s) /\ e = [term |-> term[s], server |-> s]
  BY ZenonT(60), <1>3 DEF Next, vars, LearnTerm, StepDownSelf, StepDownFinish, StartElectSelf, OnDryRunComplete,
     WriteLastVoteForMyElection, WinElection, LoseElection, Restart, AwaitStepDown, GrantVote,
     DenyVote, StoreVote, StoreFails
<1>4. \A e \in elected' : Majority(VotersFor(e)')
  BY <1>1, <1>2, <1>3
<1> QED
  BY Zenon, <1>4 DEF WinnerHasMajority, VotersFor

-----------------------------------------------------------------------------
(* A member votes once in a term. *)

(* A step that grants no vote and forgets none keeps the votes apart. *)
LEMMA VotesKept ==
    ASSUME TypeOK, TypeOK', VoteInv, early = {},
           \A s \in Server : /\ disk'[s].term <= lastVote'[s].term
                             /\ lastVote'[s].term <= term'[s]
                             /\ lastVote'[s].term >= lastVote[s].term,
           \A v, c \in Server, t \in Term : Granted(v, t, c)' => Granted(v, t, c)
    PROVE  VoteInv'
<1>0. \A s \in Server : lastVote[s] \in Vote /\ lastVote'[s] \in Vote
  BY Zenon DEF TypeOK
<1>1. \A s \in Server : lastVote[s].term \in Nat /\ lastVote'[s].term \in Nat
  BY ZenonT(60), <1>0, TermType DEF Vote
<1>2. ASSUME NEW v \in Server, NEW c \in Server, NEW t \in Term, Granted(v, t, c)'
      PROVE  t <= lastVote'[v].term
  <2>1. Granted(v, t, c)
    BY Zenon, <1>2
  <2>2. t <= lastVote[v].term /\ t \in Nat
    BY Zenon, <2>1, TermType DEF VoteInv
  <2> QED
    BY <1>1, <2>2
<1>3. ASSUME NEW v \in Server, NEW c \in Server, NEW d \in Server, NEW t \in Term,
             Granted(v, t, c)', Granted(v, t, d)'
      PROVE  c = d
  <2>1. Granted(v, t, c) /\ Granted(v, t, d)
    BY Zenon, <1>3
  <2> QED
    BY Zenon, <2>1 DEF VoteInv
<1> QED
  BY Zenon, <1>2, <1>3 DEF VoteInv

(* A step that grants one vote, in a term above the last vote's. *)
LEMMA VotesAdded ==
    ASSUME TypeOK, TypeOK', VoteInv, early = {},
           NEW w \in Server, NEW u \in Term, NEW e \in Server,
           lastVote'[w].term = u, \A s \in Server : s # w => lastVote'[s] = lastVote[s],
           lastVote[w].term < u, u <= term'[w], disk' = disk,
           \A s \in Server : term'[s] >= term[s],
           \A v, c \in Server, t \in Term :
               Granted(v, t, c)' => Granted(v, t, c) \/ (v = w /\ t = u /\ c = e)
    PROVE  VoteInv'
<1>1. \A s \in Server : /\ lastVote[s].term \in Nat /\ disk[s].term \in Nat
                         /\ term[s] \in Nat /\ term'[s] \in Nat
  BY ZenonT(60), Numbers, TermType DEF TypeOK
<1>2. u \in Nat
  BY Zenon, TermType
<1>3. lastVote'[w].term = u /\ \A s \in Server : s # w => lastVote'[s] = lastVote[s]
  BY Zenon
<1>4. \A s \in Server : disk[s].term <= lastVote[s].term /\ lastVote[s].term <= term[s]
  BY Zenon DEF VoteInv
<1>5. \A v, c \in Server, t \in Term : Granted(v, t, c) => t <= lastVote[v].term
  BY Zenon DEF VoteInv
<1>6. \A s \in Server : disk'[s].term <= lastVote'[s].term /\ lastVote'[s].term <= term'[s]
  BY <1>1, <1>2, <1>3, <1>4
<1>7. \A v, c \in Server, t \in Term : Granted(v, t, c)' => t <= lastVote'[v].term
  <2> SUFFICES ASSUME NEW v \in Server, NEW c \in Server, NEW t \in Term, Granted(v, t, c)'
               PROVE  t <= lastVote'[v].term
    BY Zenon
  <2>1. t \in Nat
    BY Zenon, TermType
  <2>2. CASE Granted(v, t, c)
    BY SMTT(60), <1>1, <1>2, <1>3, <1>5, <2>1, <2>2
  <2>3. CASE v = w /\ t = u /\ c = e
    BY <1>2, <1>3, <2>3
  <2> QED
    BY Zenon, <2>2, <2>3
<1>8. \A v, c, d \in Server, t \in Term : Granted(v, t, c)' /\ Granted(v, t, d)' => c = d
  <2> SUFFICES ASSUME NEW v \in Server, NEW c \in Server, NEW d \in Server, NEW t \in Term,
                      Granted(v, t, c)', Granted(v, t, d)'
               PROVE  c = d
    BY Zenon
  <2>1. CASE v = w /\ t = u
    <3>1. ~Granted(w, u, c) /\ ~Granted(w, u, d)
      BY <1>1, <1>2, <1>5
    <3> QED
      BY <2>1, <3>1
  <2>2. CASE ~(v = w /\ t = u)
    BY <2>2 DEF VoteInv
  <2> QED
    BY Zenon, <2>1, <2>2
<1> QED
  BY Zenon, <1>6, <1>7, <1>8 DEF VoteInv

(* Where granted votes come from when requests and ballots only move on. *)
LEMMA GrantsKept ==
    ASSUME cast' = cast,
           \A q \in reqs' : q.at = "voted" =>
               \E r \in reqs : q.to = r.to /\ q.term = r.term /\ q.from = r.from /\ r.at = "voted",
           \A s \in Server : ballot'[s].phase = "store" =>
               ballot[s].phase = "store" /\ ballot'[s].term = ballot[s].term
    PROVE  \A v, c \in Server, t \in Term : Granted(v, t, c)' => Granted(v, t, c)
<1> SUFFICES ASSUME NEW v \in Server, NEW c \in Server, NEW t \in Term, Granted(v, t, c)'
             PROVE  Granted(v, t, c)
  BY Zenon
<1>1. CASE [voter |-> v, term |-> t, cand |-> c] \in cast'
  BY Zenon, <1>1 DEF Granted
<1>2. CASE Pending(v, t, c)'
  BY <1>2 DEF Granted, Pending
<1>3. CASE Own(v, t, c)'
  BY Zenon, <1>3 DEF Granted, Own
<1> QED
  BY Zenon, <1>1, <1>2, <1>3 DEF Granted

LEMMA ClosedVotes ==
    ASSUME NEW R \in SUBSET Request, NEW s \in Server, NEW q \in Close(s, R), q.at = "voted"
    PROVE  \E r \in R : q.to = r.to /\ q.term = r.term /\ q.from = r.from /\ r.at = "voted"
  BY CloseType

LEMMA VoteStep ==
    ASSUME TypeOK, TypeOK', RoleInv, AnsweredVotesAreStored, VoteInv, [Next]_vars
    PROVE  VoteInv'
<1> USE DEF bounds, history
<1>a. early \subseteq early'
  <2>1. ASSUME NEW r \in reqs, GrantVote(r) PROVE early \subseteq early'
    BY Zenon, <2>1 DEF GrantVote
  <2>2. ASSUME NEW r \in reqs, AwaitStepDown(r) \/ DenyVote(r) \/ StoreVote(r) \/ StoreFails(r)
        PROVE  early \subseteq early'
    BY Zenon, <2>2 DEF AwaitStepDown, DenyVote, StoreVote, StoreFails
  <2>3. ASSUME NEW s \in Server,
               \/ StepDownSelf(s) \/ StepDownFinish(s) \/ StartElectSelf(s) \/ OnDryRunComplete(s)
               \/ WriteLastVoteForMyElection(s) \/ WinElection(s) \/ LoseElection(s)
               \/ \E u \in Server : LearnTerm(s, u)
               \/ \E t \in Term : Restart(s, t)
        PROVE  early \subseteq early'
    BY ZenonT(60), <2>3 DEF StepDownSelf, StepDownFinish, StartElectSelf, OnDryRunComplete,
       WriteLastVoteForMyElection, WinElection, LoseElection, LearnTerm, Restart
  <2>4. CASE UNCHANGED vars
    BY Zenon, <2>4 DEF vars
  <2> QED
    BY Zenon, <2>1, <2>2, <2>3, <2>4 DEF Next
<1>b. CASE early' # {}
  BY Zenon, <1>b DEF VoteInv
<1>c. CASE early' = {}
  <2>0. early = {}
    BY Zenon, <1>a, <1>c
  <2>1. \A s \in Server : /\ lastVote[s].term \in Nat /\ disk[s].term \in Nat
                           /\ term[s] \in Nat /\ term'[s] \in Nat
    <3>1. \A s \in Server : term'[s] \in Term
      BY Zenon DEF TypeOK
    <3> QED
      BY ZenonT(60), <3>1, Numbers, TermType
  <2>2. \A s \in Server : disk[s].term <= lastVote[s].term /\ lastVote[s].term <= term[s]
    BY Zenon, <2>0 DEF VoteInv
  \* A step that changes no vote, and no term downwards.
  <2>3. ASSUME UNCHANGED <<disk, lastVote, cast>>, \A s \in Server : term'[s] >= term[s],
               \A q \in reqs' : q.at = "voted" =>
                   \E r \in reqs : q.to = r.to /\ q.term = r.term /\ q.from = r.from /\ r.at = "voted",
               \A s \in Server : ballot'[s].phase = "store" =>
                   ballot[s].phase = "store" /\ ballot'[s].term = ballot[s].term
        PROVE  VoteInv'
    <3>1. \A s \in Server : /\ disk'[s].term <= lastVote'[s].term
                             /\ lastVote'[s].term <= term'[s]
                             /\ lastVote'[s].term >= lastVote[s].term
      BY <2>1, <2>2, <2>3
    <3>2. \A v, c \in Server, t \in Term : Granted(v, t, c)' => Granted(v, t, c)
      BY Zenon, <2>3, GrantsKept
    <3> QED
      BY Zenon, <2>0, <3>1, <3>2, VotesKept
  <2>4. CASE UNCHANGED vars
    BY <2>1, <2>3, <2>4 DEF vars
  <2>5. ASSUME NEW s \in Server, NEW u \in Server, LearnTerm(s, u) PROVE VoteInv'
    <3>1. PICK t \in (term[s] + 1)..term[u] : UpdateTerm(s, t)
      BY Zenon, <2>5 DEF LearnTerm
    <3>2. t \in Term
      <4>1. term[s] \in Term /\ term[u] \in Term
        BY Zenon DEF TypeOK
      <4> QED
        BY <3>1, <4>1, ElectionsAssumption DEF Term
    <3> QED
      BY Zenon, <2>3, <2>5, <3>1, <3>2, UpdateTermType DEF LearnTerm
  <2>6. ASSUME NEW s \in Server, StepDownSelf(s) PROVE VoteInv'
    BY <2>1, <2>3, <2>6 DEF StepDownSelf
  <2>7. ASSUME NEW s \in Server, StepDownFinish(s) PROVE VoteInv'
    <3>1. ASSUME NEW q \in reqs', q.at = "voted" PROVE q \in reqs
      <4>1. PICK r \in reqs : q = IF r.to = s /\ r.at = "waiting" THEN [r EXCEPT !.at = "ready"] ELSE r
        BY Zenon, <2>7, <3>1 DEF StepDownFinish
      <4>2. r \in Request
        BY Zenon DEF TypeOK
      <4> QED
        BY Zenon, <3>1, <4>1, <4>2 DEF Request
    <3> QED
      BY <2>1, <2>3, <2>7, <3>1 DEF StepDownFinish
  <2>8. ASSUME NEW s \in Server, StartElectSelf(s) PROVE VoteInv'
    <3>1. \A u \in Server : u # s => ballot'[u] = ballot[u]
      BY Zenon, <2>8 DEF StartElectSelf, TypeOK
    <3>2. ballot'[s].phase = "dryRun"
      BY Zenon, <2>8 DEF StartElectSelf, TypeOK, NoBallot
    <3> QED
      BY <2>1, <2>3, <2>8, <3>1, <3>2 DEF StartElectSelf
  <2>9. ASSUME NEW s \in Server, WinElection(s) \/ LoseElection(s) PROVE VoteInv'
    <3>1. \A u \in Server : ballot'[u].phase = "store" => ballot'[u] = ballot[u]
      <4>1. ballot' = [ballot EXCEPT ![s] = NoBallot]
        BY Zenon, <2>9 DEF WinElection, LoseElection
      <4>2. ballot'[s] = NoBallot /\ \A u \in Server : u # s => ballot'[u] = ballot[u]
        BY Zenon, <4>1 DEF TypeOK
      <4>3. ballot'[s].phase # "store"
        BY <4>2 DEF NoBallot
      <4> QED
        BY Zenon, <4>2, <4>3
    <3>2. reqs' = Close(s, reqs) /\ reqs \in SUBSET Request
      BY Zenon, <2>9 DEF WinElection, LoseElection, TypeOK
    <3> QED
      BY SMTT(60), <2>1, <2>3, <2>9, <3>1, <3>2, ClosedVotes DEF WinElection, LoseElection
  <2>10. ASSUME NEW r \in reqs, AwaitStepDown(r) PROVE VoteInv'
    <3>1. r.to \in Server /\ r.term \in Term
      BY Zenon, Numbers
    <3>2. \A u \in Server : term'[u] >= term[u]
      BY Zenon, <2>10, <3>1, UpdateTermType DEF AwaitStepDown
    <3>3. \A q \in reqs' : q.at = "voted" => q \in reqs
      BY SMTT(60), <2>10, MoveType DEF AwaitStepDown, TypeOK
    <3> QED
      BY Zenon, <2>3, <2>10, <3>2, <3>3 DEF AwaitStepDown
  <2>11. ASSUME NEW r \in reqs, term' = [term EXCEPT ![r.to] = MyTerm(r)]
         PROVE  \A u \in Server : term'[u] >= term[u]
    <3>1. r.to \in Server /\ MyTerm(r) \in Nat /\ MyTerm(r) >= term[r.to]
      BY ZenonT(60), MyTermType, Numbers, TermType
    <3> QED
      BY <2>1, <2>11, <3>1 DEF TypeOK
  <2>12. ASSUME NEW r \in reqs, DenyVote(r) PROVE VoteInv'
    <3>1. \A u \in Server : term'[u] >= term[u]
      BY ZenonT(60), <2>11, <2>12 DEF DenyVote
    <3>2. reqs' \subseteq reqs /\ UNCHANGED <<disk, lastVote, cast>>
      BY Zenon, <2>12 DEF DenyVote
    <3>3. \A u \in Server : ballot'[u].phase = ballot[u].phase /\ ballot'[u].term = ballot[u].term
      BY Zenon, <2>12, DenyAnswer
    <3> QED
      BY Zenon, <2>3, <3>1, <3>2, <3>3
  <2>13. ASSUME NEW r \in reqs, StoreFails(r) PROVE VoteInv'
    BY <2>1, <2>3, <2>13 DEF StoreFails
  \* A vote is stored and given.
  <2>14. ASSUME NEW w \in Server, NEW t \in Term, NEW c \in Server, Granted(w, t, c),
                StoreLastVote(w, [term |-> t, cand |-> c]), UNCHANGED <<term, lastVote>>,
                cast' = cast \cup {[voter |-> w, term |-> t, cand |-> c]},
                \A q \in reqs' : q.at = "voted" => q \in reqs,
                \A s \in Server : ballot'[s].phase = "store" =>
                    ballot[s].phase = "store" /\ ballot'[s].term = ballot[s].term
         PROVE  VoteInv'
    <3>1. t <= lastVote[w].term /\ t \in Nat
      BY Zenon, <2>0, <2>14, TermType DEF VoteInv
    <3>2. [term |-> t, cand |-> c] \in Vote
      BY Zenon, VoteType
    <3>3. \A s \in Server : disk'[s].term <= lastVote[s].term
      <4> SUFFICES ASSUME NEW s \in Server PROVE disk'[s].term <= lastVote[s].term
        BY Zenon
      <4>1. (disk'[s].term = t /\ s = w) \/ disk'[s] = disk[s]
        <5>1. s # w => disk'[s] = disk[s]
          BY Zenon, <2>14, <3>2, StoreType
        <5>2. disk'[w] = [term |-> t, cand |-> c] \/ disk'[w] = disk[w]
          BY Zenon, <2>14, <3>2, StoreType
        <5>3. disk'[w] = [term |-> t, cand |-> c] => disk'[w].term = t
          OBVIOUS
        <5> QED
          BY Zenon, <5>1, <5>2, <5>3
      <4> QED
        BY Zenon, <2>2, <3>1, <4>1
    <3>4. ASSUME NEW v \in Server, NEW d \in Server, NEW u \in Term, Granted(v, u, d)'
          PROVE  Granted(v, u, d)
      <4>1. CASE [voter |-> v, term |-> u, cand |-> d] \in cast'
        <5>1. CASE [voter |-> v, term |-> u, cand |-> d] \in cast
          BY Zenon, <5>1 DEF Granted
        <5>2. CASE [voter |-> v, term |-> u, cand |-> d] = [voter |-> w, term |-> t, cand |-> c]
          <6>1. v = w /\ u = t /\ d = c
            BY Zenon, <5>2
          <6> QED
            BY Zenon, <2>14, <6>1
        <5> QED
          BY Zenon, <2>14, <4>1, <5>1, <5>2
      <4>2. CASE Pending(v, u, d)'
        BY Zenon, <2>14, <4>2 DEF Granted, Pending
      <4>3. CASE Own(v, u, d)'
        BY Zenon, <2>14, <4>3 DEF Granted, Own
      <4> QED
        BY Zenon, <3>4, <4>1, <4>2, <4>3 DEF Granted
    <3>5. \A s \in Server : /\ disk'[s].term <= lastVote'[s].term
                             /\ lastVote'[s].term <= term'[s]
                             /\ lastVote'[s].term >= lastVote[s].term
      BY <2>1, <2>2, <2>14, <3>3
    <3> QED
      BY Zenon, <2>0, <3>4, <3>5, VotesKept
  <2>15. ASSUME NEW s \in Server, WriteLastVoteForMyElection(s) PROVE VoteInv'
    <3>1. ballot[s].term \in Term /\ Granted(s, ballot[s].term, s) /\ ballot[s] \in Ballot
      BY Zenon, <2>15 DEF WriteLastVoteForMyElection, Granted, Own, TypeOK, Ballot
    <3>2. \A q \in reqs' : q.at = "voted" => q \in reqs
      BY <2>15 DEF WriteLastVoteForMyElection
    <3>3. ballot' = [ballot EXCEPT ![s] = [ballot[s] EXCEPT !.phase = "vote", !.votes = {s}]]
      BY Zenon, <2>15 DEF WriteLastVoteForMyElection
    <3>4. ballot'[s].phase = "vote" /\ \A u \in Server : u # s => ballot'[u] = ballot[u]
      BY SMTT(60), <3>1, <3>3 DEF TypeOK, Ballot
    <3> QED
      BY Zenon, <2>14, <2>15, <3>1, <3>2, <3>4 DEF WriteLastVoteForMyElection
  <2>16. ASSUME NEW r \in reqs, StoreVote(r) PROVE VoteInv'
    <3>1. r.to \in Server /\ r.from \in Server /\ r.term \in Term
      BY Zenon, Numbers
    <3>2. Granted(r.to, r.term, r.from)
      BY Zenon, <2>16 DEF StoreVote, Granted, Pending
    <3>3. \A u \in Server : ballot'[u].phase = ballot[u].phase /\ ballot'[u].term = ballot[u].term
      BY Zenon, <2>16, GrantAnswer
    <3>4. /\ StoreLastVote(r.to, [term |-> r.term, cand |-> r.from]) /\ UNCHANGED <<term, lastVote>>
          /\ cast' = cast \cup {[voter |-> r.to, term |-> r.term, cand |-> r.from]}
          /\ reqs' \subseteq reqs
      BY Zenon, <2>16 DEF StoreVote
    <3> QED
      BY SMTT(60), <2>14, <3>1, <3>2, <3>3, <3>4
  \* A vote is granted in memory.
  <2>17. ASSUME NEW s \in Server, OnDryRunComplete(s) PROVE VoteInv'
    <3>1. /\ term' = [term EXCEPT ![s] = term[s] + 1] /\ UNCHANGED <<cast, reqs, disk>>
          /\ lastVote' = [lastVote EXCEPT ![s] = [term |-> term[s] + 1, cand |-> s]]
          /\ ballot' = [ballot EXCEPT ![s] = [ballot[s] EXCEPT !.phase = "store", !.term = term[s] + 1]]
      BY Zenon, <2>17 DEF OnDryRunComplete
    <3>2. term'[s] = term[s] + 1 /\ \A u \in Server : term'[u] >= term[u]
      BY SMTT(60), <2>1, <3>1 DEF TypeOK
    <3>3. term[s] + 1 \in Term /\ ballot[s] \in Ballot
      BY SMTT(60), <3>2 DEF TypeOK
    <3>4. ballot'[s].term = term[s] + 1 /\ \A u \in Server : u # s => ballot'[u] = ballot[u]
      BY SMTT(60), <3>1, <3>3 DEF TypeOK, Ballot
    <3>5. ASSUME NEW v \in Server, NEW c \in Server, NEW t \in Term, Granted(v, t, c)'
          PROVE  Granted(v, t, c) \/ (v = s /\ t = term[s] + 1 /\ c = s)
      <4>1. CASE [voter |-> v, term |-> t, cand |-> c] \in cast' \/ Pending(v, t, c)'
        BY Zenon, <3>1, <4>1 DEF Granted, Pending
      <4>2. CASE Own(v, t, c)'
        BY Zenon, <3>4, <4>2 DEF Granted, Own
      <4> QED
        BY Zenon, <3>5, <4>1, <4>2 DEF Granted
    <3>6. lastVote[s].term < term[s] + 1 /\ term[s] + 1 <= term'[s]
      BY <2>1, <2>2, <3>2
    <3>7. lastVote'[s].term = term[s] + 1 /\ \A u \in Server : u # s => lastVote'[u] = lastVote[u]
      BY Zenon, <3>1 DEF TypeOK
    <3>8. \A v, c \in Server, t \in Term :
              Granted(v, t, c)' => Granted(v, t, c) \/ (v = s /\ t = term[s] + 1 /\ c = s)
      BY Zenon, <3>5
    <3> QED
      BY SMTT(60), <2>0, <3>1, <3>2, <3>3, <3>6, <3>7, <3>8, VotesAdded
  <2>18. ASSUME NEW r \in reqs, GrantVote(r) PROVE VoteInv'
    <3>1. /\ term' = [term EXCEPT ![r.to] = MyTerm(r)] /\ UNCHANGED <<cast, ballot, disk>>
          /\ lastVote' = [lastVote EXCEPT ![r.to] = [term |-> r.term, cand |-> r.from]]
          /\ r.term >= MyTerm(r) /\ lastVote[r.to].term # r.term /\ Move(r, "voted")
          /\ ~(r.term > MyTerm(r))
      BY Zenon, <1>c, <2>18 DEF GrantVote, MayVote
    <3>2. r.to \in Server /\ r.from \in Server /\ r.term \in Term /\ r.term \in Nat
      BY Zenon, Numbers
    <3>3. \A u \in Server : term'[u] >= term[u]
      BY ZenonT(60), <2>11, <3>1
    <3>4. term'[r.to] = MyTerm(r)
      BY Zenon, <3>1, <3>2 DEF TypeOK
    <3>5. lastVote[r.to].term < r.term /\ r.term <= term'[r.to]
      BY <2>1, <2>2, <3>1, <3>2, <3>3, <3>4
    <3>6. \A q \in reqs' : q \in reqs \/ (q.from = r.from /\ q.to = r.to /\ q.term = r.term)
      BY SMTT(60), <3>1, MoveType DEF TypeOK
    <3>7. ASSUME NEW v \in Server, NEW c \in Server, NEW t \in Term, Granted(v, t, c)'
          PROVE  Granted(v, t, c) \/ (v = r.to /\ t = r.term /\ c = r.from)
      <4>1. CASE [voter |-> v, term |-> t, cand |-> c] \in cast' \/ Own(v, t, c)'
        BY Zenon, <3>1, <4>1 DEF Granted, Own
      <4>2. CASE Pending(v, t, c)'
        BY Zenon, <3>6, <4>2 DEF Granted, Pending
      <4> QED
        BY Zenon, <3>7, <4>1, <4>2 DEF Granted
    <3>8. lastVote'[r.to].term = r.term /\ \A u \in Server : u # r.to => lastVote'[u] = lastVote[u]
      BY Zenon, <3>1, <3>2 DEF TypeOK
    <3>9. \A v, c \in Server, t \in Term :
              Granted(v, t, c)' => Granted(v, t, c) \/ (v = r.to /\ t = r.term /\ c = r.from)
      BY Zenon, <3>7
    <3>10. disk' = disk
      BY Zenon, <3>1
    <3>11. ASSUME NEW w \in Server, NEW u \in Term, NEW e \in Server, w = r.to, u = r.term, e = r.from
           PROVE  VoteInv'
      <4>1. /\ lastVote'[w].term = u /\ \A s \in Server : s # w => lastVote'[s] = lastVote[s]
            /\ lastVote[w].term < u /\ u <= term'[w]
        BY Zenon, <3>5, <3>8, <3>11
      <4>2. \A v, c \in Server, t \in Term :
                Granted(v, t, c)' => Granted(v, t, c) \/ (v = w /\ t = u /\ c = e)
        BY Zenon, <3>9, <3>11
      <4> QED
        BY SMTT(60), <2>0, <3>3, <3>10, <4>1, <4>2, VotesAdded
    <3> QED
      BY Zenon, <3>2, <3>11
  \* What memory held is lost; what was answered is on disk.
  <2>19. ASSUME NEW s \in Server, NEW t \in Term, Restart(s, t) PROVE VoteInv'
    <3> DEFINE R == {r \in reqs : r.to # s \/ r.at = "sent"}
    <3>1. /\ UNCHANGED <<disk, cast>> /\ reqs' = Close(s, R) /\ R \in SUBSET Request
          /\ lastVote' = [lastVote EXCEPT ![s] = disk[s]]
          /\ ballot' = [ballot EXCEPT ![s] = NoBallot]
          /\ term' = [term EXCEPT ![s] = IF t > disk[s].term THEN t ELSE disk[s].term]
      BY Zenon, <2>19 DEF Restart, TypeOK
    <3>2. t \in Nat
      BY Zenon, TermType
    <3>3. /\ lastVote'[s] = disk[s] /\ term'[s] >= disk[s].term
          /\ \A u \in Server : u # s => lastVote'[u] = lastVote[u] /\ term'[u] = term[u]
      BY SMTT(60), <2>1, <3>1, <3>2 DEF TypeOK
    <3>4. \A q \in reqs' : q.at = "voted" =>
              \E r \in R : q.to = r.to /\ q.term = r.term /\ q.from = r.from /\ r.at = "voted"
      BY Zenon, <3>1, ClosedVotes
    <3>5. ballot'[s].phase = "none" /\ \A u \in Server : u # s => ballot'[u] = ballot[u]
      BY Zenon, <3>1 DEF TypeOK, NoBallot
    <3>6. ASSUME NEW v \in Server, NEW c \in Server, NEW u \in Term, Granted(v, u, c)'
          PROVE  Granted(v, u, c) /\ u <= lastVote'[v].term
      <4>1. u \in Nat
        BY Zenon, TermType
      <4>2. CASE [voter |-> v, term |-> u, cand |-> c] \in cast'
        <5>1. [voter |-> v, term |-> u, cand |-> c] \in cast
          BY Zenon, <3>1, <4>2
        <5>2. disk[v].term >= u /\ Granted(v, u, c)
          BY Zenon, <5>1 DEF AnsweredVotesAreStored, Granted
        <5> QED
          BY SMTT(60), <2>1, <2>2, <3>3, <4>1, <5>2
      <4>3. CASE Pending(v, u, c)'
        <5>1. PICK r \in R : v = r.to /\ u = r.term /\ c = r.from /\ r.at = "voted"
          BY SMTT(60), <3>4, <4>3 DEF Pending
        <5>2. Granted(v, u, c) /\ v # s
          BY Zenon, <5>1 DEF Granted, Pending
        <5> QED
          BY Zenon, <2>0, <3>3, <5>2 DEF VoteInv
      <4>4. CASE Own(v, u, c)'
        <5>1. Granted(v, u, c) /\ v # s
          BY Zenon, <3>5, <4>4 DEF Granted, Own
        <5> QED
          BY Zenon, <2>0, <3>3, <5>1 DEF VoteInv
      <4> QED
        BY Zenon, <3>6, <4>2, <4>3, <4>4 DEF Granted
    <3>7. \A u \in Server : disk'[u].term <= lastVote'[u].term /\ lastVote'[u].term <= term'[u]
      BY SMTT(60), <2>1, <2>2, <3>1, <3>3
    <3>8. ASSUME NEW v \in Server, NEW c \in Server, NEW d \in Server, NEW u \in Term,
                 Granted(v, u, c)', Granted(v, u, d)'
          PROVE  c = d
      <4>1. Granted(v, u, c) /\ Granted(v, u, d)
        BY Zenon, <3>6, <3>8
      <4> QED
        BY Zenon, <2>0, <4>1 DEF VoteInv
    <3> QED
      BY Zenon, <3>6, <3>7, <3>8 DEF VoteInv
  <2> QED
    BY <2>4, <2>5, <2>6, <2>7, <2>8, <2>9, <2>10, <2>12, <2>13, <2>15, <2>16, <2>17, <2>18, <2>19
    DEF Next
<1> QED
  BY Zenon, <1>b, <1>c

-----------------------------------------------------------------------------
(* The theorems. *)

LEMMA InitInv == Init => IndInv
<1> SUFFICES ASSUME Init PROVE IndInv
  BY Zenon
<1>1. TypeOK
  BY SMTT(60), NoVoteType, TermType, ElectionsAssumption DEF Init, TypeOK
<1>2. RoleInv /\ BallotInv
  BY Zenon DEF Init, RoleInv, BallotInv, CandidateInv, NoBallot
<1>3. AnsweredVotesAreStored /\ WinnerHasMajority
  BY Zenon DEF Init, AnsweredVotesAreStored, WinnerHasMajority
<1>4. VoteInv
  <2>1. \A v, c \in Server, t \in Term : ~Granted(v, t, c)
    BY Zenon DEF Init, Granted, Pending, Own, NoBallot
  <2>2. \A s \in Server : disk[s].term <= lastVote[s].term /\ lastVote[s].term <= term[s]
    BY DEF Init, NoVote
  <2> QED
    BY Zenon, <2>1, <2>2 DEF VoteInv
<1> QED
  BY Zenon, <1>1, <1>2, <1>3, <1>4 DEF IndInv

LEMMA IndStep == IndInv /\ [Next]_vars => IndInv'
<1> SUFFICES ASSUME TypeOK, RoleInv, BallotInv, AnsweredVotesAreStored, WinnerHasMajority, VoteInv,
                    [Next]_vars
             PROVE  IndInv'
  BY Zenon DEF IndInv
<1>1. TypeOK'
  BY Zenon, TypeStep
<1>2. RoleInv' /\ BallotInv'
  BY Zenon, <1>1, RoleStep, BallotStep
<1>3. AnsweredVotesAreStored' /\ WinnerHasMajority'
  BY Zenon, <1>1, StoredStep, MajorityStep
<1>4. VoteInv'
  BY Zenon, <1>1, VoteStep
<1> QED
  BY Zenon, <1>1, <1>2, <1>3, <1>4 DEF IndInv

(* IndInv holds throughout. *)
LEMMA Invariance == Spec => []IndInv
  BY InitInv, IndStep, PTL DEF Spec

(* Two winners of a term would share a voter that gave two votes in it. *)
LEMMA SafetyFollows == IndInv => OnePrimaryUnlessEarlyVote
<1> SUFFICES ASSUME IndInv, early = {}, NEW d \in elected, NEW e \in elected, d.term = e.term
             PROVE  d.server = e.server
  BY Zenon DEF OnePrimaryUnlessEarlyVote, OnePrimaryPerTerm
<1>1. TypeOK /\ Majority(VotersFor(d)) /\ Majority(VotersFor(e)) /\ VoteInv
  BY Zenon DEF IndInv, WinnerHasMajority, VotersFor
<1>2. d.server \in Server /\ e.server \in Server /\ d.term \in Term
  BY Zenon, <1>1 DEF TypeOK
<1>3. VotersFor(d) \subseteq Server /\ VotersFor(e) \subseteq Server
  BY Zenon, <1>1, Numbers DEF VotersFor
<1>4. IsFiniteSet(VotersFor(d)) /\ IsFiniteSet(VotersFor(e)) /\ IsFiniteSet(Server)
  BY Zenon, <1>3, FS_Subset, ElectionsAssumption
<1>5. /\ Cardinality(VotersFor(d)) \in Nat /\ Cardinality(VotersFor(e)) \in Nat
      /\ Cardinality(Server) \in Nat
  BY Zenon, <1>4, FS_CardinalityType
<1>6. Cardinality(VotersFor(d)) + Cardinality(VotersFor(e)) > Cardinality(Server)
  BY <1>1, <1>5 DEF Majority
<1>7. VotersFor(d) \cap VotersFor(e) # {}
  BY Zenon, <1>3, <1>4, <1>6, FS_MajoritiesIntersect
<1>8. PICK v \in Server : v \in VotersFor(d) /\ v \in VotersFor(e)
  BY Zenon, <1>3, <1>7
<1>9. PICK a \in cast : a.voter = v /\ a.term = d.term /\ a.cand = d.server
  BY Zenon, <1>8 DEF VotersFor
<1>10. PICK b \in cast : b.voter = v /\ b.term = d.term /\ b.cand = e.server
  BY Zenon, <1>8 DEF VotersFor
<1>11. Granted(v, d.term, d.server) /\ Granted(v, d.term, e.server)
  <2>1. a = [voter |-> v, term |-> d.term, cand |-> d.server]
    BY Zenon, <1>1, <1>9 DEF TypeOK
  <2>2. b = [voter |-> v, term |-> d.term, cand |-> e.server]
    BY Zenon, <1>1, <1>10 DEF TypeOK
  <2> QED
    BY Zenon, <2>1, <2>2 DEF Granted
<1> QED
  BY Zenon, <1>1, <1>2, <1>11 DEF VoteInv

(* The state keeps its types: no election runs beyond the bound on terms,  *)
(* and every request and vote names members.                               *)
THEOREM TypeCorrect == Spec => []TypeOK
<1>1. IndInv => TypeOK
  BY DEF IndInv
<1> QED
  BY <1>1, Invariance, PTL

(* While no member has voted in a term above its own, a term has one       *)
(* primary: processReplSetRequestVotes, voteForMyselfV1 and the stored     *)
(* vote together keep every member from voting twice in a term, across     *)
(* crashes, lost answers and stale requests.                               *)
THEOREM ElectionSafety == Spec => []OnePrimaryUnlessEarlyVote
  BY Invariance, SafetyFollows, PTL

(* A member that wins has the votes of a majority in the term it leads     *)
(* (_onVoteRequestComplete).                                               *)
THEOREM WinnersHaveMajority == Spec => []WinnerHasMajority
<1>1. IndInv => WinnerHasMajority
  BY Zenon DEF IndInv
<1> QED
  BY <1>1, Invariance, PTL

(* Whatever was answered survives a crash (storeLocalLastVoteDocument).    *)
THEOREM VotesStored == Spec => []AnsweredVotesAreStored
<1>1. IndInv => AnsweredVotesAreStored
  BY DEF IndInv
<1> QED
  BY <1>1, Invariance, PTL
=============================================================================
