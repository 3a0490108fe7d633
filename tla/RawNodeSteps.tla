---------------------------- MODULE RawNodeSteps ----------------------------
(***************************************************************************)
(* The kinds of steps that an operation of RawNode can be, as far as       *)
(* elections go.  Quiet steps leave role, term and vote alone and grant    *)
(* nothing; the others step down, grant one vote, count one vote or        *)
(* campaign.  RawNodeProofs shows which operation is which,                *)
(* ElectionProofs what each kind does to a cluster.                        *)
(***************************************************************************)
EXTENDS RaftTypes

\* A message of n that is no granted vote, in term t.
Harmless(n, t, m) ==
    /\ m.from = n /\ m.to \in Peers(n) /\ m.term = t
    /\ m.type = "MsgVoteResp" => m.reject

Quiet(n, s, s2) ==
    /\ s2 \in NodeState
    /\ s2.role = s.role /\ s2.term = s.term
    /\ s2.vote = s.vote /\ s2.votes = s.votes
    /\ \A m \in s2.msgs : m \in s.msgs \/ Harmless(n, s.term, m)

\* becomeFollower: in a later term, or a candidate in its own term.
SteppedDown(s, b) ==
    /\ b \in NodeState
    /\ b.role = "Follower" /\ b.vote = Nobody /\ b.msgs = s.msgs
    /\ \/ b.term > s.term
       \/ b.term = s.term /\ s.role = "Candidate"

\* The follower b answers the candidate's request m with its vote.
Grants(n, b, m, s2) ==
    /\ m.type = "MsgVote" /\ b.role = "Follower" /\ b.term = m.term
    /\ b.vote \in {Nobody, m.from}
    /\ s2 \in NodeState
    /\ s2.role = "Follower" /\ s2.term = b.term /\ s2.vote = m.from
    /\ \A x \in s2.msgs :
          x \in b.msgs \/ (x.from = n /\ x.to = m.from /\ x.term = b.term)

\* The candidate b counts the vote m, and leads once it has a quorum.
Counts(n, b, m, s2) ==
    /\ m.type = "MsgVoteResp" /\ ~m.reject
    /\ b.role = "Candidate" /\ b.term = m.term
    /\ s2 \in NodeState
    /\ \/ s2.role = "Candidate"
       \/ s2.role = "Leader" /\ Cardinality(s2.votes) >= Quorum
    /\ s2.term = b.term /\ s2.vote = b.vote /\ s2.votes = b.votes \cup {m.from}
    /\ \A x \in s2.msgs : x \in b.msgs \/ Harmless(n, b.term, x)

\* An election timeout: a new term, our own vote, and at once the leadership
\* in a cluster of one.
Campaigns(n, s, s2) ==
    /\ s2 \in NodeState
    /\ s2.term = s.term + 1 /\ s2.vote = n /\ s2.votes = {n}
    /\ s2.role = "Candidate" \/ (s2.role = "Leader" /\ Quorum = 1)
    /\ \A x \in s2.msgs : x \in s.msgs \/ Harmless(n, s2.term, x)
=============================================================================
