----------------------------- MODULE Elections ------------------------------
(***************************************************************************)
(* The inductive invariant of elections, of the nodes N, their hard states *)
(* H and the messages M.  It is stated of values, not of variables, so     *)
(* that a step can be followed through its intermediate states.            *)
(***************************************************************************)
EXTENDS RawNodeSteps

\* Messages have a sender other than the receiver, and a term that some
\* election started.
MessagesOK(N, M) ==
    /\ \A m \in M : m.from \in Peers(m.to) /\ m.term >= 1
    /\ \A n \in Node : \A m \in N[n].msgs :
          m.from = n /\ m.to \in Peers(n) /\ m.term >= 1

\* Candidates and leaders voted for themselves, leaders have a quorum.
RolesOK(N) ==
    \A n \in Node : N[n].role # "Follower" =>
        /\ N[n].term >= 1
        /\ N[n].vote = n /\ n \in N[n].votes
        /\ N[n].role = "Leader" => Cardinality(N[n].votes) >= Quorum

IsGrant(m, v, c, t) ==
    /\ m.type = "MsgVoteResp" /\ ~m.reject
    /\ m.from = v /\ m.to = c /\ m.term = t

Counted(N, v, c, t) ==
    N[c].role # "Follower" /\ N[c].term = t /\ v \in N[c].votes

\* v's vote for c in term t has left v: in flight, or counted by c.
Out(N, M, v, c, t) ==
    (\E m \in M : IsGrant(m, v, c, t)) \/ Counted(N, v, c, t)

\* It has been given, but the Ready that sends it is still to come.
Queued(N, v, c, t) == \E m \in N[v].msgs : IsGrant(m, v, c, t)

Given(N, M, v, c, t) == Out(N, M, v, c, t) \/ Queued(N, v, c, t)

\* Nobody votes for two candidates in one term.
VotesAgree(N, M) ==
    \A v, c, d \in Node : \A t \in Nat :
        Given(N, M, v, c, t) /\ Given(N, M, v, d, t) => c = d

Follows(s, c, t) ==
    \/ s.term > t
    \/ s.term = t /\ s.vote = c /\ s.role = "Follower"

\* A node that gave another its vote in term t remembers it until its term
\* is past t, and does not run itself.
VotesPinned(N, M) ==
    \A v, c \in Node : \A t \in Nat :
        v # c /\ Given(N, M, v, c, t) => Follows(N[v], c, t)

Remembers(h, c, t) == h.term > t \/ (h.term = t /\ h.vote = c)

\* So does its disk, once the vote is out.
VotesSaved(N, H, M) ==
    \A v, c \in Node : \A t \in Nat :
        v # c /\ Out(N, M, v, c, t) => Remembers(H[v], c, t)

\* The disk is never ahead of the node, and where their terms are equal the
\* node still follows the candidate that the disk names.
DiskBehind(N, H) ==
    \A n \in Node :
        /\ N[n].term >= H[n].term
        /\ H[n].vote \notin {Nobody, n} => Follows(N[n], H[n].vote, H[n].term)

\* What a node sends is of a term that it has seen, and on disk by then.
TermsSaved(N, H, M) ==
    /\ \A m \in M : H[m.from].term >= m.term
    /\ \A n \in Node : \A m \in N[n].msgs : N[n].term >= m.term

\* So whoever got another's vote has its candidacy on disk.
CandidatesSaved(N, H, M) ==
    /\ \A v, c \in Node : \A t \in Nat :
          v # c /\ Given(N, M, v, c, t) => H[c].term >= t
    /\ \A n \in Node :
          N[n].role # "Follower" /\ H[n].term = N[n].term => H[n].vote = n

\* p will not vote for anybody but x in term t, nor has it.
Backs(N, H, M, p, x, t) ==
    /\ Remembers(N[p], x, t) /\ Remembers(H[p], x, t)
    /\ \A c \in Node : Given(N, M, p, c, t) => c = x

\* The election of term t is over and x has won it, whatever x does later.
Settled(N, H, M, t, x) ==
    /\ N[x].term = t => N[x].role # "Candidate"
    /\ \E Q \in SUBSET Node :
          /\ Cardinality(Q) >= Quorum /\ x \in Q
          /\ \A p \in Q : Backs(N, H, M, p, x, t)

\* S is a set of elections, <<term, winner>>, that are over.
AllSettled(N, H, M, S) ==
    \A e \in S : e \in Nat \X Node /\ Settled(N, H, M, e[1], e[2])

\* Two quorums share a node, and a quorum of one is a cluster of one.
QuorumsOK ==
    /\ \A A, B \in SUBSET Node :
          Cardinality(A) >= Quorum /\ Cardinality(B) >= Quorum => A \cap B # {}
    /\ \A n \in Node : Cardinality({n}) = 1
    /\ Quorum # 1 => ~(1 >= Quorum)
    /\ Quorum = 1 => \A a, b \in Node : a = b

ElectionInv(N, H, M, S) ==
    /\ N \in [Node -> NodeState] /\ H \in [Node -> HardState]
    /\ M \subseteq Message
    /\ MessagesOK(N, M) /\ RolesOK(N)
    /\ VotesAgree(N, M) /\ VotesPinned(N, M) /\ VotesSaved(N, H, M)
    /\ DiskBehind(N, H)
    /\ TermsSaved(N, H, M) /\ CandidatesSaved(N, H, M)
    /\ AllSettled(N, H, M, S)
=============================================================================
