--------------------------- MODULE ElectionProofs ---------------------------
(***************************************************************************)
(* How the steps of a node keep the invariant of elections, and how the    *)
(* elections that are over make the logs tell one story.  Lemmas about     *)
(* values, for any set of nodes.                                           *)
(***************************************************************************)
EXTENDS Elections, Links, TLAPS

\* Zenon is quick where there is no arithmetic; the solver has time for the
\* rest, whatever the machine.  Leaves that only Zenon finds name it.
USE ZenonT(3), SMTT(60)

\* An election stays settled when everyone who backs it goes on to.
LEMMA SettledStays ==
    ASSUME NEW N, NEW H, NEW M, NEW N2, NEW H2, NEW M2, NEW S,
           AllSettled(N, H, M, S),
           \A t \in Nat : \A x \in Node : Settled(N, H, M, t, x) =>
              /\ N2[x].term = t => N2[x].role # "Candidate"
              /\ \A p \in Node : Backs(N, H, M, p, x, t)
                                  => Backs(N2, H2, M2, p, x, t)
    PROVE  AllSettled(N2, H2, M2, S)
<1>1. SUFFICES ASSUME NEW e \in S
               PROVE  e \in Nat \X Node /\ Settled(N2, H2, M2, e[1], e[2])
    BY DEF AllSettled
<1>2. /\ e \in Nat \X Node /\ e[1] \in Nat /\ e[2] \in Node
      /\ Settled(N, H, M, e[1], e[2])
    BY DEF AllSettled
<1>3. PICK Q \in SUBSET Node :
         /\ Cardinality(Q) >= Quorum /\ e[2] \in Q
         /\ \A p \in Q : Backs(N, H, M, p, e[2], e[1])
    BY <1>2 DEF Settled
<1>4. \A p \in Q : Backs(N2, H2, M2, p, e[2], e[1])
    BY <1>2, <1>3
<1>5. N2[e[2]].term = e[1] => N2[e[2]].role # "Candidate"
    BY <1>2
<1>. QED  BY <1>2, <1>3, <1>4, <1>5 DEF Settled

\* Losing messages.
LEMMA InvLoss ==
    ASSUME NEW N, NEW H, NEW M, NEW S, ElectionInv(N, H, M, S), NEW M2 \in SUBSET M
    PROVE  ElectionInv(N, H, M2, S)
<1>1. \A v, c \in Node : \A t \in Nat :
         /\ Out(N, M2, v, c, t) => Out(N, M, v, c, t)
         /\ Given(N, M2, v, c, t) => Given(N, M, v, c, t)
    BY DEF Out, Given
<1>2. MessagesOK(N, M2)
    BY DEF ElectionInv, MessagesOK
<1>3. VotesAgree(N, M2)
    BY <1>1 DEF ElectionInv, VotesAgree
<1>4. VotesPinned(N, M2)
    BY <1>1 DEF ElectionInv, VotesPinned
<1>5. VotesSaved(N, H, M2)
    BY <1>1 DEF ElectionInv, VotesSaved
<1>6. TermsSaved(N, H, M2)
    BY DEF ElectionInv, TermsSaved
<1>7. CandidatesSaved(N, H, M2)
    BY <1>1 DEF ElectionInv, CandidatesSaved
<1>8. AllSettled(N, H, M2, S)
  <2>1. AllSettled(N, H, M, S)
      BY DEF ElectionInv
  <2>2. \A t \in Nat : \A p, x \in Node :
           Backs(N, H, M, p, x, t) => Backs(N, H, M2, p, x, t)
      BY <1>1 DEF Backs
  <2>. QED  BY <2>1, <2>2, SettledStays DEF Settled
<1>. QED  BY <1>2, <1>3, <1>4, <1>5, <1>6, <1>7, <1>8 DEF ElectionInv

\* A step of n that gives no vote: votes out afterwards were out before, and
\* n follows whom it followed.
LEMMA InvNothingNew ==
    ASSUME NEW N, NEW H, NEW M, NEW S, ElectionInv(N, H, M, S), NEW n \in Node,
           NEW s2 \in NodeState,
           \A c \in Node : \A t \in Nat :
              Follows(N[n], c, t) => Follows(s2, c, t),
           \A c \in Node : \A t \in Nat :
              Remembers(N[n], c, t)
                 => \/ Remembers(s2, c, t)
                    \/ N[n].role = "Candidate" /\ N[n].term = t /\ c = n,
           s2.term >= N[n].term,
           s2.role = "Candidate" => N[n].role = "Candidate",
           s2.role # "Follower" =>
              /\ N[n].role # "Follower"
              /\ s2.term = N[n].term /\ s2.vote = N[n].vote
              /\ N[n].votes \subseteq s2.votes
              /\ \A v \in s2.votes \ N[n].votes : Out(N, M, v, n, s2.term)
              /\ s2.role = "Leader" => Cardinality(s2.votes) >= Quorum,
           \A m \in s2.msgs : \/ m \in N[n].msgs
                              \/ /\ m.from = n /\ m.to \in Peers(n)
                                 /\ m.term >= 1 /\ m.term = s2.term
                                 /\ m.type = "MsgVoteResp" => m.reject
    PROVE  ElectionInv([N EXCEPT ![n] = s2], H, M, S)
<1>. DEFINE N2 == [N EXCEPT ![n] = s2]
<1>0. N \in [Node -> NodeState] /\ H \in [Node -> HardState]
    BY DEF ElectionInv
<1>1. N2 \in [Node -> NodeState] /\ N2[n] = s2
        /\ \A x \in Node \ {n} : N2[x] = N[x]
    BY <1>0
<1>. HIDE DEF N2
<1>2. \A v, c \in Node : \A t \in Nat : Counted(N2, v, c, t) => Out(N, M, v, c, t)
    BY <1>1 DEF Counted, Out
<1>3. \A v, c \in Node : \A t \in Nat : Queued(N2, v, c, t) => Queued(N, v, c, t)
    BY <1>1 DEF Queued, IsGrant
<1>4. \A v, c \in Node : \A t \in Nat :
         /\ Out(N2, M, v, c, t) => Out(N, M, v, c, t)
         /\ Given(N2, M, v, c, t) => Given(N, M, v, c, t)
    BY <1>2, <1>3 DEF Out, Given
<1>5. MessagesOK(N2, M)
    BY <1>1 DEF ElectionInv, MessagesOK
<1>6. RolesOK(N2)
    BY <1>1 DEF ElectionInv, RolesOK
<1>7. VotesAgree(N2, M)
    BY <1>4 DEF ElectionInv, VotesAgree
<1>8. VotesPinned(N2, M)
    BY <1>1, <1>4 DEF ElectionInv, VotesPinned
<1>9. VotesSaved(N2, H, M)
    BY <1>4 DEF ElectionInv, VotesSaved
<1>10. DiskBehind(N2, H)
  <2>1. ASSUME NEW x \in Node
        PROVE  /\ N2[x].term >= H[x].term
               /\ H[x].vote \notin {Nobody, x} =>
                     Follows(N2[x], H[x].vote, H[x].term)
    <3>1. H[x].term \in Nat /\ H[x].vote \in Node \cup {Nobody}
        BY <1>0 DEF HardState
    <3>2. N[n].term \in Nat /\ s2.term \in Nat
        BY <1>0 DEF NodeState
    <3>. QED  BY <1>1, <3>1, <3>2 DEF ElectionInv, DiskBehind
  <2>. QED  BY <2>1 DEF DiskBehind
<1>11. TermsSaved(N2, H, M)
  <2>1. s2.term \in Nat /\ N[n].term \in Nat /\ N[n].msgs \in SUBSET Message
      BY <1>0 DEF NodeState
  <2>2. \A m \in s2.msgs : s2.term >= m.term
    <3>1. SUFFICES ASSUME NEW m \in s2.msgs PROVE s2.term >= m.term
        OBVIOUS
    <3>2. CASE m.term = s2.term
        BY <2>1, <3>2
    <3>3. CASE m \in N[n].msgs
      <4>1. m.term \in Nat
          BY <2>1, <3>3 DEF Message
      <4>2. N[n].term >= m.term
          BY <3>3 DEF ElectionInv, TermsSaved
      <4>. QED  BY <2>1, <4>1, <4>2
    <3>. QED  BY <3>2, <3>3
  <2>. QED  BY <1>1, <2>2 DEF ElectionInv, TermsSaved
<1>12. CandidatesSaved(N2, H, M)
    BY <1>1, <1>4 DEF ElectionInv, CandidatesSaved
<1>13. AllSettled(N2, H, M, S)
  <2>1. SUFFICES ASSUME NEW t \in Nat, NEW x \in Node, Settled(N, H, M, t, x)
                 PROVE  /\ N2[x].term = t => N2[x].role # "Candidate"
                        /\ \A p \in Node : Backs(N, H, M, p, x, t)
                                            => Backs(N2, H, M, p, x, t)
      BY SettledStays DEF ElectionInv
  <2>2. N[x].term = t => N[x].role # "Candidate"
      BY <2>1 DEF Settled
  <2>3. N2[x].term = t => N2[x].role # "Candidate"
      BY <1>1, <2>2
  <2>4. \A p \in Node : Remembers(N[p], x, t) => Remembers(N2[p], x, t)
      BY <1>1, <2>2
  <2>. QED  BY <1>4, <2>3, <2>4 DEF Backs
<1>. QED  BY <1>1, <1>5, <1>6, <1>7, <1>8, <1>9, <1>10, <1>11, <1>12, <1>13
          DEF ElectionInv, N2

\* A quiet step of one node keeps the election invariant.
LEMMA InvQuiet ==
    ASSUME NEW N, NEW H, NEW M, NEW S, ElectionInv(N, H, M, S), NEW n \in Node,
           NEW s2, Quiet(n, N[n], s2), N[n].term >= 1
    PROVE  ElectionInv([N EXCEPT ![n] = s2], H, M, S)
<1>1. /\ s2 \in NodeState /\ s2.role = N[n].role /\ s2.term = N[n].term
      /\ s2.vote = N[n].vote /\ s2.votes = N[n].votes
    BY DEF Quiet
<1>2. N[n] \in NodeState /\ s2.term \in Nat
    BY <1>1 DEF ElectionInv, NodeState
<1>3. \A c \in Node : \A t \in Nat :
         /\ Follows(N[n], c, t) => Follows(s2, c, t)
         /\ Remembers(N[n], c, t) => Remembers(s2, c, t)
    BY <1>1 DEF Follows, Remembers
<1>4. s2.role = "Leader" => Cardinality(s2.votes) >= Quorum
    BY <1>1, ZenonT(60) DEF ElectionInv, RolesOK
<1>5. \A m \in s2.msgs : \/ m \in N[n].msgs
                         \/ /\ m.from = n /\ m.to \in Peers(n)
                            /\ m.term >= 1 /\ m.term = s2.term
                            /\ m.type = "MsgVoteResp" => m.reject
    BY <1>1 DEF Quiet, Harmless
<1>. QED  BY <1>1, <1>2, <1>3, <1>4, <1>5, InvNothingNew

\* Stepping down (becomeFollower) keeps the election invariant.
LEMMA InvDown ==
    ASSUME NEW N, NEW H, NEW M, NEW S, ElectionInv(N, H, M, S), NEW n \in Node,
           NEW b, SteppedDown(N[n], b)
    PROVE  ElectionInv([N EXCEPT ![n] = b], H, M, S)
<1>1. /\ b \in NodeState /\ b.role = "Follower" /\ b.msgs = N[n].msgs
      /\ N[n] \in NodeState /\ b.term \in Nat /\ N[n].term \in Nat
    BY DEF SteppedDown, ElectionInv, NodeState
<1>2. \A c \in Node : \A t \in Nat : Follows(N[n], c, t) => Follows(b, c, t)
    BY <1>1 DEF Follows, SteppedDown
<1>3. b.term >= N[n].term
    BY <1>1 DEF SteppedDown
<1>4. \A c \in Node : \A t \in Nat :
         Remembers(N[n], c, t)
            => \/ Remembers(b, c, t)
               \/ N[n].role = "Candidate" /\ N[n].term = t /\ c = n
  <2>1. N[n].role = "Candidate" => N[n].vote = n
      BY DEF ElectionInv, RolesOK
  <2>. QED  BY <1>1, <2>1 DEF Remembers, SteppedDown
<1>. QED  BY <1>1, <1>2, <1>3, <1>4, InvNothingNew

\* A granted vote.  Whatever else n gave in this term went to the same
\* candidate, because n still names it in vote_.
LEMMA InvGrants ==
    ASSUME NEW N, NEW H, NEW M, NEW S, ElectionInv(N, H, M, S), NEW n \in Node,
           NEW m \in M, m.to = n, NEW s2, Grants(n, N[n], m, s2)
    PROVE  ElectionInv([N EXCEPT ![n] = s2], H, M, S)
<1>. DEFINE N2 == [N EXCEPT ![n] = s2]
            c0 == m.from
            t0 == N[n].term
<1>0. /\ N \in [Node -> NodeState] /\ H \in [Node -> HardState]
      /\ m \in Message /\ c0 \in Node /\ t0 \in Nat /\ c0 # n /\ t0 >= 1
    BY DEF ElectionInv, MessagesOK, Peers, Message, NodeState, Grants
<1>1. N2 \in [Node -> NodeState] /\ N2[n] = s2
        /\ \A x \in Node \ {n} : N2[x] = N[x]
    BY <1>0 DEF Grants
<1>2. /\ N[n].role = "Follower" /\ N[n].vote \in {Nobody, c0}
      /\ s2.role = "Follower" /\ s2.term = t0 /\ s2.vote = c0
      /\ \A x \in s2.msgs : \/ x \in N[n].msgs
                            \/ x.from = n /\ x.to = c0 /\ x.term = t0
    BY DEF Grants
<1>. HIDE DEF N2, c0, t0
<1>3. \A v, c \in Node : \A t \in Nat :
         Out(N2, M, v, c, t) => Out(N, M, v, c, t)
    BY <1>1, <1>2 DEF Out, Counted
<1>4. \A v, c \in Node : \A t \in Nat : Queued(N2, v, c, t) =>
         Queued(N, v, c, t) \/ (v = n /\ c = c0 /\ t = t0)
    BY <1>1, <1>2 DEF Queued, IsGrant
<1>5. \A v, c \in Node : \A t \in Nat : Given(N2, M, v, c, t) =>
         Given(N, M, v, c, t) \/ (v = n /\ c = c0 /\ t = t0)
    BY <1>3, <1>4 DEF Given
<1>6. \A c \in Node : Given(N, M, n, c, t0) => c = c0
  <2>1. SUFFICES ASSUME NEW c \in Node, Given(N, M, n, c, t0) PROVE c = c0
      OBVIOUS
  <2>2. CASE c = n
    <3>1. \A x \in M : x.from \in Peers(x.to)
        BY DEF ElectionInv, MessagesOK
    <3>2. \A x \in N[n].msgs : x.to \in Peers(n)
        BY DEF ElectionInv, MessagesOK
    <3>3. Counted(N, n, n, t0)
        BY <2>1, <2>2, <3>1, <3>2 DEF Given, Out, Queued, IsGrant, Peers
    <3>. QED  BY <1>2, <3>3 DEF Counted
  <2>3. CASE c # n
    <3>1. Follows(N[n], c, t0)
        BY <1>0, <2>1, <2>3 DEF ElectionInv, VotesPinned
    <3>2. N[n].vote = c
        BY <1>0, <3>1 DEF Follows, t0
    <3>. QED  BY <1>2, <3>2, NodeAssumption
  <2>. QED  BY <2>2, <2>3
<1>7. MessagesOK(N2, M)
    BY <1>0, <1>1, <1>2 DEF ElectionInv, MessagesOK, Peers
<1>8. RolesOK(N2)
    BY <1>1, <1>2 DEF ElectionInv, RolesOK
<1>9. VotesAgree(N2, M)
    BY <1>5, <1>6 DEF ElectionInv, VotesAgree
<1>10. VotesPinned(N2, M)
  <2>1. SUFFICES ASSUME NEW v \in Node, NEW c \in Node, NEW t \in Nat, v # c,
                        Given(N2, M, v, c, t)
                 PROVE  Follows(N2[v], c, t)
      BY DEF VotesPinned
  <2>2. CASE v = n /\ c = c0 /\ t = t0
      BY <1>1, <1>2, <2>2 DEF Follows
  <2>3. CASE Given(N, M, v, c, t)
    <3>1. Follows(N[v], c, t)
        BY <2>1, <2>3 DEF ElectionInv, VotesPinned
    <3>2. CASE v = n
        BY <1>0, <1>1, <1>2, <1>6, <2>3, <3>1, <3>2 DEF Follows, t0
    <3>. QED  BY <1>1, <3>1, <3>2
  <2>. QED  BY <1>5, <2>1, <2>2, <2>3
<1>11. VotesSaved(N2, H, M)
    BY <1>3 DEF ElectionInv, VotesSaved
<1>12. DiskBehind(N2, H)
  <2>1. SUFFICES ASSUME NEW x \in Node
                 PROVE  /\ N2[x].term >= H[x].term
                        /\ H[x].vote \notin {Nobody, x} =>
                              Follows(N2[x], H[x].vote, H[x].term)
      BY DEF DiskBehind
  <2>2. /\ N[x].term >= H[x].term
        /\ H[x].vote \notin {Nobody, x} => Follows(N[x], H[x].vote, H[x].term)
      BY DEF ElectionInv, DiskBehind
  <2>3. CASE x = n
      BY <1>0, <1>1, <1>2, <2>2, <2>3 DEF Follows, t0
  <2>. QED  BY <1>1, <2>2, <2>3
<1>13. TermsSaved(N2, H, M)
  <2>1. \A x \in s2.msgs : s2.term >= x.term
    <3>1. \A x \in N[n].msgs : t0 >= x.term
        BY DEF ElectionInv, TermsSaved, t0
    <3>. QED  BY <1>0, <1>2, <3>1
  <2>. QED  BY <1>1, <2>1 DEF ElectionInv, TermsSaved
<1>14. CandidatesSaved(N2, H, M)
  <2>1. H[c0].term >= t0
      BY DEF ElectionInv, TermsSaved, Grants, c0, t0
  <2>. QED  BY <1>1, <1>2, <1>5, <2>1 DEF ElectionInv, CandidatesSaved
<1>15. AllSettled(N2, H, M, S)
  <2>1. SUFFICES ASSUME NEW t \in Nat, NEW x \in Node, Settled(N, H, M, t, x)
                 PROVE  /\ N2[x].term = t => N2[x].role # "Candidate"
                        /\ \A p \in Node : Backs(N, H, M, p, x, t)
                                            => Backs(N2, H, M, p, x, t)
      BY SettledStays DEF ElectionInv
  <2>2. N2[x].term = t => N2[x].role # "Candidate"
      BY <1>1, <1>2, <2>1 DEF Settled
  <2>3. SUFFICES ASSUME NEW p \in Node, Backs(N, H, M, p, x, t)
                 PROVE  Backs(N2, H, M, p, x, t)
      BY <2>2
  <2>4. p = n /\ t = t0 => c0 = x
      BY <1>0, <1>2, <2>3, NodeAssumption DEF Backs, Remembers, t0
  <2>5. Remembers(N2[p], x, t)
      BY <1>0, <1>1, <1>2, <2>3, <2>4 DEF Backs, Remembers, t0
  <2>. QED  BY <1>5, <2>3, <2>4, <2>5 DEF Backs
<1>. QED  BY <1>1, <1>7, <1>8, <1>9, <1>10, <1>11, <1>12, <1>13, <1>14, <1>15
          DEF ElectionInv, N2

\* Counting a vote (pollVote), won or not, keeps the election invariant.
LEMMA InvCounts ==
    ASSUME NEW N, NEW H, NEW M, NEW S, ElectionInv(N, H, M, S), NEW n \in Node,
           NEW m \in M, m.to = n, NEW s2, Counts(n, N[n], m, s2)
    PROVE  ElectionInv([N EXCEPT ![n] = s2], H, M, S)
<1>1. /\ N[n] \in NodeState /\ N[n].term \in Nat /\ m \in Message
      /\ N[n].role = "Candidate" /\ N[n].term >= 1
    BY DEF ElectionInv, NodeState, RolesOK, Counts
<1>2. /\ s2 \in NodeState /\ s2.role # "Follower" /\ s2.term = N[n].term
      /\ s2.vote = N[n].vote /\ s2.votes = N[n].votes \cup {m.from}
      /\ s2.role = "Leader" => Cardinality(s2.votes) >= Quorum
    BY DEF Counts
<1>3. Out(N, M, m.from, n, s2.term)
    BY <1>2 DEF Out, IsGrant, Counts
<1>4. \A c \in Node : \A t \in Nat :
         /\ Follows(N[n], c, t) => Follows(s2, c, t)
         /\ Remembers(N[n], c, t) => Remembers(s2, c, t)
    BY <1>1, <1>2 DEF Follows, Remembers
<1>5. \A x \in s2.msgs : \/ x \in N[n].msgs
                         \/ /\ x.from = n /\ x.to \in Peers(n)
                            /\ x.term >= 1 /\ x.term = s2.term
                            /\ x.type = "MsgVoteResp" => x.reject
    BY <1>1, <1>2 DEF Counts, Harmless
<1>6. s2.term >= N[n].term
    BY <1>1, <1>2
<1>. QED  BY <1>1, <1>2, <1>3, <1>4, <1>5, <1>6, InvNothingNew, ZenonT(60)

\* A new term: n has given nothing in it yet, since votes pin n's term.
LEMMA InvCampaigns ==
    ASSUME NEW N, NEW H, NEW M, NEW S, ElectionInv(N, H, M, S), NEW n \in Node,
           NEW s2, Campaigns(n, N[n], s2), QuorumsOK
    PROVE  ElectionInv([N EXCEPT ![n] = s2], H, M, S)
<1>. DEFINE N2 == [N EXCEPT ![n] = s2]
<1>0. /\ N \in [Node -> NodeState] /\ H \in [Node -> HardState]
      /\ N[n].term \in Nat
    BY DEF ElectionInv, NodeState
<1>1. N2 \in [Node -> NodeState] /\ N2[n] = s2
        /\ \A x \in Node \ {n} : N2[x] = N[x]
    BY <1>0 DEF Campaigns
<1>2. /\ s2.role # "Follower" /\ s2.term = N[n].term + 1 /\ s2.vote = n
      /\ s2.votes = {n}
      /\ s2.role = "Leader" => Cardinality(s2.votes) >= Quorum
      /\ \A x \in s2.msgs : x \in N[n].msgs \/ Harmless(n, s2.term, x)
      /\ s2.term \in Nat
    BY <1>0 DEF Campaigns, QuorumsOK
<1>. HIDE DEF N2
<1>3. \A v, c \in Node : \A t \in Nat : Out(N2, M, v, c, t) =>
         Out(N, M, v, c, t) \/ (v = n /\ c = n /\ t = s2.term)
    BY <1>1, <1>2 DEF Out, Counted
<1>4. \A v, c \in Node : \A t \in Nat : Queued(N2, v, c, t) => Queued(N, v, c, t)
    BY <1>1, <1>2 DEF Queued, IsGrant, Harmless
<1>5. \A v, c \in Node : \A t \in Nat : Given(N2, M, v, c, t) =>
         Given(N, M, v, c, t) \/ (v = n /\ c = n /\ t = s2.term)
    BY <1>3, <1>4 DEF Given
<1>6. \A c \in Node : Given(N, M, n, c, s2.term) => c = n
  <2>1. SUFFICES ASSUME NEW c \in Node, c # n, Given(N, M, n, c, s2.term)
                 PROVE  FALSE
      OBVIOUS
  <2>2. Follows(N[n], c, s2.term)
      BY <1>0, <1>2, <2>1 DEF ElectionInv, VotesPinned
  <2>. QED  BY <1>0, <1>2, <2>2 DEF Follows
<1>7. MessagesOK(N2, M)
    BY <1>0, <1>1, <1>2 DEF ElectionInv, MessagesOK, Harmless
<1>8. RolesOK(N2)
  <2>1. s2.term >= 1
      BY <1>0, <1>2
  <2>2. RolesOK(N)
      BY DEF ElectionInv
  <2>. QED  BY <1>1, <1>2, <2>1, <2>2, ZenonT(60) DEF RolesOK
<1>9. VotesAgree(N2, M)
    BY <1>5, <1>6 DEF ElectionInv, VotesAgree
<1>10. \A c \in Node : \A t \in Nat : Follows(N[n], c, t) => Follows(s2, c, t)
    BY <1>0, <1>2 DEF Follows
<1>11. VotesPinned(N2, M)
    BY <1>1, <1>5, <1>10 DEF ElectionInv, VotesPinned
<1>12. VotesSaved(N2, H, M)
    BY <1>3 DEF ElectionInv, VotesSaved
<1>13. DiskBehind(N2, H)
  <2>1. SUFFICES ASSUME NEW x \in Node
                 PROVE  /\ N2[x].term >= H[x].term
                        /\ H[x].vote \notin {Nobody, x} =>
                              Follows(N2[x], H[x].vote, H[x].term)
      BY DEF DiskBehind
  <2>2. /\ N[x].term >= H[x].term
        /\ H[x].vote \notin {Nobody, x} => Follows(N[x], H[x].vote, H[x].term)
      BY DEF ElectionInv, DiskBehind
  <2>3. H[x].term \in Nat /\ H[x].vote \in Node \cup {Nobody}
      BY <1>0 DEF HardState
  <2>4. CASE x = n
    <3>1. s2.term >= H[x].term
        BY <1>0, <1>2, <2>2, <2>3, <2>4
    <3>2. H[x].vote \notin {Nobody, x} => Follows(s2, H[x].vote, H[x].term)
        BY <1>10, <2>2, <2>3, <2>4
    <3>. QED  BY <1>1, <2>4, <3>1, <3>2
  <2>. QED  BY <1>1, <2>2, <2>4
<1>14. TermsSaved(N2, H, M)
  <2>1. ASSUME NEW x \in s2.msgs PROVE s2.term >= x.term
    <3>1. CASE x \in N[n].msgs
      <4>1. x.term \in Nat
          BY <1>0, <3>1 DEF NodeState, Message
      <4>2. N[n].term >= x.term
          BY <3>1 DEF ElectionInv, TermsSaved
      <4>. QED  BY <1>0, <1>2, <4>1, <4>2
    <3>2. CASE Harmless(n, s2.term, x)
        BY <1>0, <1>2, <3>2 DEF Harmless
    <3>. QED  BY <1>2, <2>1, <3>1, <3>2
  <2>. QED  BY <1>1, <2>1 DEF ElectionInv, TermsSaved
<1>15. CandidatesSaved(N2, H, M)
  <2>1. H[n].term # s2.term
    <3>1. H[n].term \in Nat /\ N[n].term >= H[n].term
        BY <1>0 DEF ElectionInv, DiskBehind, HardState
    <3>. QED  BY <1>0, <1>2, <3>1
  <2>. QED  BY <1>1, <1>5, <2>1 DEF ElectionInv, CandidatesSaved
<1>16. AllSettled(N2, H, M, S)
  <2>1. SUFFICES ASSUME NEW t \in Nat, NEW x \in Node, Settled(N, H, M, t, x)
                 PROVE  /\ N2[x].term = t => N2[x].role # "Candidate"
                        /\ \A p \in Node : Backs(N, H, M, p, x, t)
                                            => Backs(N2, H, M, p, x, t)
      BY SettledStays DEF ElectionInv
  <2>2. Remembers(N[n], x, t) => s2.term > t
      BY <1>0, <1>2 DEF Remembers
  <2>3. Remembers(N[x], x, t)
      BY <2>1 DEF Settled, Backs
  <2>4. N2[x].term = t => N2[x].role # "Candidate"
    <3>1. CASE x = n
        BY <1>0, <1>1, <1>2, <2>2, <2>3, <3>1
    <3>2. CASE x # n
        BY <1>1, <2>1, <3>2 DEF Settled
    <3>. QED  BY <3>1, <3>2
  <2>5. SUFFICES ASSUME NEW p \in Node, Backs(N, H, M, p, x, t)
                 PROVE  Backs(N2, H, M, p, x, t)
      BY <2>4
  <2>6. p = n => s2.term > t
      BY <2>2, <2>5 DEF Backs
  <2>7. Remembers(N2[p], x, t)
      BY <1>1, <2>5, <2>6 DEF Backs, Remembers
  <2>8. \A c \in Node : Given(N2, M, p, c, t) => Given(N, M, p, c, t)
      BY <1>0, <1>2, <1>5, <2>6
  <2>. QED  BY <2>5, <2>7, <2>8 DEF Backs
<1>. QED  BY <1>1, <1>7, <1>8, <1>9, <1>11, <1>12, <1>13, <1>14, <1>15, <1>16
          DEF ElectionInv, N2

-----------------------------------------------------------------------------
(* The steps that touch the disk keep the invariant of elections *)

\* A restart: the votes still about are the ones that were out, and the disk
\* remembers those.
LEMMA InvRestart ==
    ASSUME NEW N, NEW H, NEW M, NEW S, ElectionInv(N, H, M, S), NEW n \in Node,
           NEW s2 \in NodeState, s2.role = "Follower", s2.msgs = {},
           s2.term = H[n].term, s2.vote = H[n].vote
    PROVE  ElectionInv([N EXCEPT ![n] = s2], H, M, S)
<1>. DEFINE N2 == [N EXCEPT ![n] = s2]
<1>0. /\ N \in [Node -> NodeState] /\ H \in [Node -> HardState]
      /\ s2.term \in Nat
    BY DEF ElectionInv, NodeState
<1>1. N2 \in [Node -> NodeState] /\ N2[n] = s2
        /\ \A x \in Node \ {n} : N2[x] = N[x]
    BY <1>0
<1>. HIDE DEF N2
<1>2. \A v, c \in Node : \A t \in Nat :
         Out(N2, M, v, c, t) => Out(N, M, v, c, t)
    BY <1>1 DEF Out, Counted
<1>3. \A v, c \in Node : \A t \in Nat :
         Queued(N2, v, c, t) => v # n /\ Queued(N, v, c, t)
    BY <1>1 DEF Queued
<1>4. \A v, c \in Node : \A t \in Nat :
         Given(N2, M, v, c, t) => Given(N, M, v, c, t)
    BY <1>2, <1>3 DEF Given
<1>5. MessagesOK(N2, M)
    BY <1>1 DEF ElectionInv, MessagesOK
<1>6. RolesOK(N2)
    BY <1>1 DEF ElectionInv, RolesOK
<1>7. VotesAgree(N2, M)
    BY <1>4 DEF ElectionInv, VotesAgree
<1>8. VotesPinned(N2, M)
  <2>1. SUFFICES ASSUME NEW v \in Node, NEW c \in Node, NEW t \in Nat, v # c,
                        Given(N2, M, v, c, t)
                 PROVE  Follows(N2[v], c, t)
      BY DEF VotesPinned
  <2>2. CASE v = n
    <3>1. Out(N, M, n, c, t)
        BY <1>2, <1>3, <2>1, <2>2 DEF Given
    <3>2. Remembers(H[n], c, t)
        BY <2>1, <2>2, <3>1 DEF ElectionInv, VotesSaved
    <3>. QED  BY <1>1, <2>2, <3>2 DEF Remembers, Follows
  <2>3. CASE v # n
      BY <1>1, <1>4, <2>1, <2>3 DEF ElectionInv, VotesPinned
  <2>. QED  BY <2>2, <2>3
<1>9. VotesSaved(N2, H, M)
    BY <1>2 DEF ElectionInv, VotesSaved
<1>10. DiskBehind(N2, H)
  <2>1. DiskBehind(N, H)
      BY DEF ElectionInv
  <2>. QED  BY <1>0, <1>1, <2>1 DEF DiskBehind, Follows
<1>11. TermsSaved(N2, H, M)
    BY <1>1 DEF ElectionInv, TermsSaved
<1>12. CandidatesSaved(N2, H, M)
    BY <1>1, <1>4 DEF ElectionInv, CandidatesSaved
<1>13. AllSettled(N2, H, M, S)
  <2>1. SUFFICES ASSUME NEW t \in Nat, NEW x \in Node, Settled(N, H, M, t, x)
                 PROVE  /\ N2[x].term = t => N2[x].role # "Candidate"
                        /\ \A p \in Node : Backs(N, H, M, p, x, t)
                                            => Backs(N2, H, M, p, x, t)
      BY SettledStays DEF ElectionInv
  <2>2. N2[x].term = t => N2[x].role # "Candidate"
      BY <1>1, <2>1 DEF Settled
  <2>3. \A p \in Node : Remembers(N[p], x, t) /\ Remembers(H[p], x, t)
                            => Remembers(N2[p], x, t)
      BY <1>1 DEF Remembers
  <2>. QED  BY <1>4, <2>2, <2>3 DEF Backs
<1>. QED  BY <1>1, <1>5, <1>6, <1>7, <1>8, <1>9, <1>10, <1>11, <1>12, <1>13
          DEF ElectionInv, N2

\* A Ready: every vote that goes out is on disk by then.
LEMMA InvReady ==
    ASSUME NEW N, NEW H, NEW M, NEW S, ElectionInv(N, H, M, S), NEW n \in Node,
           NEW s2 \in NodeState, s2.role = N[n].role, s2.term = N[n].term,
           s2.vote = N[n].vote, s2.votes = N[n].votes, s2.msgs = {},
           NEW h \in HardState,
           \/ h.term = N[n].term /\ h.vote = N[n].vote
           \/ h = H[n] /\ N[n].term = 0
    PROVE  ElectionInv([N EXCEPT ![n] = s2], [H EXCEPT ![n] = h],
                       M \cup N[n].msgs, S)
<1>. DEFINE N2 == [N EXCEPT ![n] = s2]
            H2 == [H EXCEPT ![n] = h]
            M2 == M \cup N[n].msgs
<1>0. /\ N \in [Node -> NodeState] /\ H \in [Node -> HardState]
      /\ M \in SUBSET Message /\ N[n].msgs \in SUBSET Message
      /\ N[n].term \in Nat
    BY DEF ElectionInv, NodeState
<1>1. /\ N2 \in [Node -> NodeState] /\ N2[n] = s2
      /\ \A x \in Node \ {n} : N2[x] = N[x]
      /\ H2 \in [Node -> HardState] /\ H2[n] = h
      /\ \A x \in Node \ {n} : H2[x] = H[x]
      /\ M2 \in SUBSET Message
    BY <1>0
<1>2. M2 = M \cup N[n].msgs
    OBVIOUS
<1>. HIDE DEF N2, H2, M2
<1>3. \A m \in N[n].msgs : m.from = n /\ m.to \in Peers(n) /\ m.term >= 1
    BY DEF ElectionInv, MessagesOK
<1>4. MessagesOK(N2, M2)
  <2>1. \A m \in M2 : m.from \in Peers(m.to) /\ m.term >= 1
      BY <1>2, <1>3 DEF ElectionInv, MessagesOK, Peers
  <2>2. \A x \in Node : \A m \in N2[x].msgs :
           m.from = x /\ m.to \in Peers(x) /\ m.term >= 1
      BY <1>1 DEF ElectionInv, MessagesOK
  <2>. QED  BY <2>1, <2>2 DEF MessagesOK
<1>5. RolesOK(N2)
    BY <1>1 DEF ElectionInv, RolesOK
<1>6. \A v, c \in Node : \A t \in Nat : Counted(N2, v, c, t) <=> Counted(N, v, c, t)
    BY <1>1 DEF Counted
<1>7. \A v, c \in Node : \A t \in Nat : Out(N2, M2, v, c, t) =>
         Out(N, M, v, c, t) \/ (v = n /\ Queued(N, v, c, t))
    BY <1>2, <1>3, <1>6 DEF Out, Queued, IsGrant
<1>8. \A v, c \in Node : \A t \in Nat :
         Given(N2, M2, v, c, t) => Given(N, M, v, c, t)
  <2>1. \A v, c \in Node : \A t \in Nat : Queued(N2, v, c, t) => Queued(N, v, c, t)
      BY <1>1 DEF Queued
  <2>. QED  BY <1>7, <2>1 DEF Given
<1>9. VotesAgree(N2, M2)
    BY <1>8 DEF ElectionInv, VotesAgree
<1>10. \A c, t : Follows(s2, c, t) <=> Follows(N[n], c, t)
    BY DEF Follows
<1>11. VotesPinned(N2, M2)
    BY <1>1, <1>8, <1>10 DEF ElectionInv, VotesPinned
<1>12. VotesSaved(N2, H2, M2)
  <2>1. SUFFICES ASSUME NEW v \in Node, NEW c \in Node, NEW t \in Nat, v # c,
                        Out(N2, M2, v, c, t)
                 PROVE  Remembers(H2[v], c, t)
      BY DEF VotesSaved
  <2>2. CASE v # n
      BY <1>1, <1>7, <2>1, <2>2 DEF ElectionInv, VotesSaved
  <2>3. CASE v = n
    <3>1. Follows(N[n], c, t)
        BY <1>7, <2>1, <2>3 DEF ElectionInv, VotesPinned, Given
    <3>2. CASE h.term = N[n].term /\ h.vote = N[n].vote
        BY <1>1, <2>3, <3>1, <3>2 DEF Follows, Remembers
    <3>3. CASE h = H[n] /\ N[n].term = 0
      <4>1. Out(N, M, n, c, t) => Remembers(H[n], c, t)
          BY <2>1, <2>3 DEF ElectionInv, VotesSaved
      <4>2. Queued(N, n, c, t) => t >= 1
          BY <1>3 DEF Queued, IsGrant
      <4>3. ~(t >= 1)
          BY <3>1, <3>3 DEF Follows
      <4>. QED  BY <1>1, <1>7, <2>1, <2>3, <3>3, <4>1, <4>2, <4>3
    <3>. QED  BY <3>2, <3>3
  <2>. QED  BY <2>2, <2>3
<1>13. DiskBehind(N2, H2)
  <2>1. SUFFICES ASSUME NEW x \in Node
                 PROVE  /\ N2[x].term >= H2[x].term
                        /\ H2[x].vote \notin {Nobody, x} =>
                              Follows(N2[x], H2[x].vote, H2[x].term)
      BY DEF DiskBehind
  <2>2. /\ N[x].term >= H[x].term
        /\ H[x].vote \notin {Nobody, x} => Follows(N[x], H[x].vote, H[x].term)
      BY DEF ElectionInv, DiskBehind
  <2>3. CASE x # n
      BY <1>1, <2>2, <2>3
  <2>4. CASE x = n /\ h = H[n]
      BY <1>1, <1>10, <2>2, <2>4
  <2>5. CASE x = n /\ h.term = N[n].term /\ h.vote = N[n].vote
    <3>1. N[n].vote \notin {Nobody, n} => N[n].role = "Follower"
        BY DEF ElectionInv, RolesOK
    <3>. QED  BY <1>0, <1>1, <2>5, <3>1 DEF Follows
  <2>. QED  BY <2>3, <2>4, <2>5
<1>14. H[n].term \in Nat /\ h.term \in Nat /\ h.term >= H[n].term
  <2>1. N[n].term >= H[n].term
      BY DEF ElectionInv, DiskBehind
  <2>2. H[n].term \in Nat /\ h.term \in Nat
      BY <1>0 DEF HardState
  <2>. QED  BY <1>0, <2>1, <2>2
<1>15. TermsSaved(N2, H2, M2)
  <2>1. ASSUME NEW m \in M2 PROVE H2[m.from].term >= m.term
    <3>1. m.term \in Nat /\ m.from \in Node
        BY <1>1 DEF Message
    <3>2. CASE m \in N[n].msgs
      <4>1. m.from = n /\ m.term >= 1 /\ N[n].term >= m.term
          BY <1>3, <3>2 DEF ElectionInv, TermsSaved
      <4>2. h.term = N[n].term
          BY <1>0, <3>1, <4>1
      <4>. QED  BY <1>1, <4>1, <4>2
    <3>3. CASE m \in M
      <4>1. H[m.from].term >= m.term /\ H[m.from].term \in Nat
          BY <1>0, <3>1, <3>3 DEF ElectionInv, TermsSaved, HardState
      <4>. QED  BY <1>1, <1>14, <3>1, <4>1
    <3>. QED  BY <1>2, <3>2, <3>3
  <2>2. \A x \in Node : \A m \in N2[x].msgs : N2[x].term >= m.term
      BY <1>1 DEF ElectionInv, TermsSaved
  <2>. QED  BY <2>1, <2>2 DEF TermsSaved
<1>16. CandidatesSaved(N2, H2, M2)
  <2>1. ASSUME NEW v \in Node, NEW c \in Node, NEW t \in Nat, v # c,
               Given(N2, M2, v, c, t)
        PROVE  H2[c].term >= t
    <3>1. H[c].term >= t
        BY <1>8, <2>1 DEF ElectionInv, CandidatesSaved
    <3>. QED  BY <1>1, <1>14, <3>1
  <2>2. ASSUME NEW x \in Node, N2[x].role # "Follower",
               H2[x].term = N2[x].term
        PROVE  H2[x].vote = x
    <3>1. CASE x # n
        BY <1>1, <2>2, <3>1 DEF ElectionInv, CandidatesSaved
    <3>2. CASE x = n
      <4>1. N[n].vote = n /\ N[n].term >= 1
          BY <1>1, <2>2, <3>2 DEF ElectionInv, RolesOK
      <4>. QED  BY <1>1, <3>2, <4>1
    <3>. QED  BY <3>1, <3>2
  <2>. QED  BY <2>1, <2>2 DEF CandidatesSaved
<1>17. AllSettled(N2, H2, M2, S)
  <2>1. SUFFICES ASSUME NEW t \in Nat, NEW x \in Node, Settled(N, H, M, t, x)
                 PROVE  /\ N2[x].term = t => N2[x].role # "Candidate"
                        /\ \A p \in Node : Backs(N, H, M, p, x, t)
                                            => Backs(N2, H2, M2, p, x, t)
      BY SettledStays DEF ElectionInv
  <2>2. N2[x].term = t => N2[x].role # "Candidate"
      BY <1>1, <2>1 DEF Settled
  <2>3. SUFFICES ASSUME NEW p \in Node, Backs(N, H, M, p, x, t)
                 PROVE  Backs(N2, H2, M2, p, x, t)
      BY <2>2
  <2>4. Remembers(N2[p], x, t) /\ Remembers(H2[p], x, t)
      BY <1>1, <2>3 DEF Backs, Remembers
  <2>. QED  BY <1>8, <2>3, <2>4 DEF Backs
<1>. QED  BY <1>1, <1>4, <1>5, <1>9, <1>11, <1>12, <1>13, <1>15, <1>16, <1>17
          DEF ElectionInv, N2, H2, M2

-----------------------------------------------------------------------------
(* Elections that are over *)

\* The votes a leader holds settle its election.
LEMMA InvWins ==
    ASSUME NEW N, NEW H, NEW M, NEW S, ElectionInv(N, H, M, S), NEW n \in Node,
           N[n].role = "Leader", QuorumsOK, Quorum # 1
    PROVE  Settled(N, H, M, N[n].term, n)
<1>. DEFINE t == N[n].term
            Q == N[n].votes
<1>1. /\ \A p \in Node : N[p] \in NodeState /\ H[p] \in HardState
      /\ RolesOK(N) /\ VotesAgree(N, M) /\ VotesPinned(N, M)
      /\ VotesSaved(N, H, M) /\ DiskBehind(N, H) /\ CandidatesSaved(N, H, M)
    BY DEF ElectionInv
<1>2. /\ t \in Nat /\ Q \in SUBSET Node /\ n \in Q /\ N[n].vote = n
      /\ Cardinality(Q) >= Quorum /\ \A p \in Node : H[p].term \in Nat
    BY <1>1 DEF RolesOK, NodeState, HardState
<1>3. \A p \in Q : Out(N, M, p, n, t) /\ Given(N, M, p, n, t)
    BY DEF Out, Given, Counted
<1>4. PICK v \in Q : v # n
  <2>1. Cardinality({n}) = 1 /\ ~(1 >= Quorum)
      BY DEF QuorumsOK
  <2>. QED  BY <1>2, <2>1
<1>5. Remembers(H[n], n, t)
  <2>1. v \in Node /\ v # n /\ Given(N, M, v, n, t)
      BY <1>2, <1>3, <1>4
  <2>2. H[n].term = t
    <3>1. H[n].term >= t
        BY <1>1, <1>2, <2>1 DEF CandidatesSaved
    <3>2. t >= H[n].term
        BY <1>1 DEF DiskBehind
    <3>. QED  BY <1>2, <3>1, <3>2
  <2>. QED  BY <1>1, <2>2 DEF CandidatesSaved, Remembers
<1>6. ASSUME NEW p \in Q PROVE Backs(N, H, M, p, n, t)
  <2>1. p \in Node /\ \A c \in Node : Given(N, M, p, c, t) => c = n
      BY <1>1, <1>2, <1>3 DEF VotesAgree
  <2>2. CASE p = n
      BY <1>2, <1>5, <2>1, <2>2 DEF Backs, Remembers
  <2>3. CASE p # n
    <3>1. Follows(N[p], n, t)
        BY <1>1, <1>2, <1>3, <2>1, <2>3 DEF VotesPinned
    <3>2. Remembers(H[p], n, t)
        BY <1>1, <1>2, <1>3, <2>1, <2>3 DEF VotesSaved
    <3>. QED  BY <2>1, <3>1, <3>2 DEF Backs, Follows, Remembers
  <2>. QED  BY <2>2, <2>3
<1>. QED  BY <1>2, <1>6 DEF Settled

\* Nobody else leads a term whose election is settled.
LEMMA SettledWinner ==
    ASSUME NEW N, NEW H, NEW M, NEW S, ElectionInv(N, H, M, S), NEW n \in Node,
           NEW x \in Node, N[n].role = "Leader", Settled(N, H, M, N[n].term, x),
           QuorumsOK
    PROVE  n = x
<1>1. /\ N[n].votes \in SUBSET Node /\ Cardinality(N[n].votes) >= Quorum
      /\ N[n].term \in Nat
    BY DEF ElectionInv, RolesOK, NodeState
<1>2. PICK Q \in SUBSET Node :
         /\ Cardinality(Q) >= Quorum
         /\ \A p \in Q : Backs(N, H, M, p, x, N[n].term)
    BY DEF Settled
<1>3. PICK v \in Node : v \in N[n].votes /\ v \in Q
    BY <1>1, <1>2 DEF QuorumsOK
<1>4. Given(N, M, v, n, N[n].term)
    BY <1>3 DEF Given, Out, Counted
<1>. QED  BY <1>2, <1>3, <1>4 DEF Backs

-----------------------------------------------------------------------------
(* The story that the logs tell *)

\* A term has one winner, an index and a term have one entry below them, the
\* entries of a term come from its winner, and it has all of them while it
\* leads.
OneStory(N, K, C) ==
    /\ K \subseteq AllLinks
    /\ \A p, q \in C : p[1] = q[1] => p = q
    /\ \A k, l \in K : k[1] = l[1] /\ k[2] = l[2] => k = l
    /\ \A k \in K : \E x \in Node : <<k[2], x>> \in C
    /\ \A n \in Node : \A k \in K :
          N[n].role = "Leader" /\ k[2] = N[n].term => k[1] <= LastIndex(N[n].log)

\* K is every link there ever was, C every election ever won.
Story(N, H, M, K, C) ==
    Logs(N, M, K, C) /\ ElectionInv(N, H, M, C) /\ OneStory(N, K, C)

\* More links and claims keep nodes and messages in order.
LEMMA LogsMore ==
    ASSUME NEW N, NEW M, NEW K, NEW C, Logs(N, M, K, C),
           NEW K2, K \subseteq K2, NEW C2, C \subseteq C2
    PROVE  Logs(N, M, K2, C2)
<1>1. \A l : LogOK(l, K) => LogOK(l, K2)
    BY ZenonT(60) DEF LogOK, Run
<1>2. \A m : MsgOK(m, K, C) => MsgOK(m, K2, C2)
    BY ZenonT(60) DEF MsgOK, Run
<1>3. \A n \in Node : NodeOK(n, N[n], K2, C2)
    BY <1>1, <1>2, ZenonT(60) DEF Logs, NodeOK
<1>. QED  BY <1>2, <1>3, ZenonT(60) DEF Logs

\* A log that only commits has the same end.
LEMMA KeptEnd ==
    ASSUME NEW l, NEW l2, LogKept(l, l2)
    PROVE  LastIndex(l2) = LastIndex(l)
    BY DEF LogKept, LastIndex

\* The story so far covers a step that adds nothing to it.
LEMMA StoryGoesOn ==
    ASSUME NEW N, NEW H, NEW M, NEW K, NEW C, Story(N, H, M, K, C),
           NEW n \in Node, NEW s2, NEW H2, NEW M2,
           NodeOK(n, s2, K, C), \A m \in M2 : MsgOK(m, K, C),
           s2.role = "Leader" => /\ N[n].role = "Leader" /\ s2.term = N[n].term
                                 /\ LastIndex(s2.log) = LastIndex(N[n].log),
           ElectionInv([N EXCEPT ![n] = s2], H2, M2, C)
    PROVE  Story([N EXCEPT ![n] = s2], H2, M2, K, C)
<1>. DEFINE N2 == [N EXCEPT ![n] = s2]
<1>1. N \in [Node -> NodeState]
    BY DEF Story, ElectionInv
<1>2. N2[n] = s2 /\ \A x \in Node \ {n} : N2[x] = N[x]
    BY <1>1
<1>. HIDE DEF N2
<1>3. Logs(N2, M2, K, C)
    BY <1>2 DEF Story, Logs
<1>4. OneStory(N2, K, C)
    BY <1>2 DEF Story, OneStory
<1>. QED  BY <1>3, <1>4 DEF Story, N2

\* A leader appends an entry of its term, the first one of that index and term.
\* C may just have gained its own election.
LEMMA StoryAppend ==
    ASSUME NEW N, NEW H, NEW M, NEW K, NEW C, Story(N, H, M, K, C),
           NEW n \in Node, NEW s2, NEW M2 \in SUBSET M, NEW C2,
           C2 = C \cup {<<N[n].term, n>>}, Grows(n, N[n], s2, K, C2),
           s2.term = N[n].term,
           \A p \in C : p[1] = N[n].term => p[2] = n,
           \A k \in K : k[2] = N[n].term => k[1] <= LastIndex(N[n].log),
           LastIndex(N[n].log) \in Nat, LastTerm(N[n].log) \in Nat,
           ElectionInv([N EXCEPT ![n] = s2], H, M2, C2)
    PROVE  \E K2 : Story([N EXCEPT ![n] = s2], H, M2, K2, C2)
<1>. DEFINE N2 == [N EXCEPT ![n] = s2]
            s == N[n]
            i == LastIndex(s.log)
<1>1. N \in [Node -> NodeState] /\ s \in NodeState /\ s.log \in Log /\ s.term \in Nat
    BY DEF Story, ElectionInv, NodeState
<1>2. i \in Nat /\ i + 1 \in Nat /\ LastTerm(s.log) \in Nat
    BY <1>1
<1>3. N2[n] = s2 /\ \A x \in Node \ {n} : N2[x] = N[x]
    BY <1>1
<1>4. \A p \in C : p \in Nat \X Node
    BY DEF Story, ElectionInv, AllSettled
<1>5. \A p, q \in C2 : p[1] = q[1] => p = q
    BY <1>4 DEF Story, OneStory
<1>6. \A x \in Node \ {n} : ~(N[x].role = "Leader" /\ N[x].term = s.term)
    BY ZenonT(60) DEF Story, Logs, NodeOK
<1>7. PICK K2 : /\ NodeOK(n, s2, K2, C2)
                /\ \/ K2 = K /\ LastIndex(s2.log) = i
                   \/ K2 = K \cup {<<i + 1, s.term, LastTerm(s.log)>>}
                      /\ LastIndex(s2.log) = i + 1
    BY KeptEnd DEF Grows, Own
<1>. HIDE DEF N2, s, i
<1>8. K \subseteq K2 /\ C \subseteq C2
    BY <1>7
<1>9. Logs(N2, M2, K2, C2)
  <2>1. Logs(N, M, K2, C2)
      BY <1>8, LogsMore DEF Story
  <2>2. ASSUME NEW x \in Node PROVE NodeOK(x, N2[x], K2, C2)
      BY <1>3, <1>7, <2>1, ZenonT(60) DEF Logs
  <2>. QED  BY <2>1, <2>2, ZenonT(60) DEF Logs
<1>10. OneStory(N2, K2, C2)
  <2>1. /\ K \subseteq AllLinks
        /\ \A k, l \in K : k[1] = l[1] /\ k[2] = l[2] => k = l
        /\ \A k \in K : \E x \in Node : <<k[2], x>> \in C
        /\ \A x \in Node : \A k \in K :
              N[x].role = "Leader" /\ k[2] = N[x].term => k[1] <= LastIndex(N[x].log)
      BY DEF Story, OneStory
  <2>. DEFINE o == <<i + 1, s.term, LastTerm(s.log)>>
  <2>2. o \in AllLinks /\ o[1] = i + 1 /\ o[2] = s.term
      BY <1>1, <1>2 DEF AllLinks
  <2>3. \A k \in K : k[1] \in Nat
      BY <2>1 DEF AllLinks
  <2>4. \A k \in K : k[2] = s.term => k[1] <= i
      BY DEF s, i
  <2>5. \A k \in K : ~(k[1] = i + 1 /\ k[2] = s.term)
      BY <1>2, <2>3, <2>4
  <2>6. K2 = K \/ K2 = K \cup {o}
      BY <1>7
  <2>7. <<s.term, n>> \in C2
      BY DEF s
  <2>. HIDE DEF o
  <2>8. K2 \subseteq AllLinks
      BY <2>1, <2>2, <2>6
  <2>9. \A k, l \in K2 : k[1] = l[1] /\ k[2] = l[2] => k = l
      BY <2>1, <2>2, <2>5, <2>6
  <2>10. \A k \in K2 : \E x \in Node : <<k[2], x>> \in C2
      BY <1>8, <2>1, <2>2, <2>6, <2>7
  <2>11. ASSUME NEW x \in Node, NEW k \in K2, N2[x].role = "Leader",
                k[2] = N2[x].term
         PROVE  k[1] <= LastIndex(N2[x].log)
    <3>1. CASE x = n
      <4>1. N2[x] = s2 /\ k[2] = s.term
          BY <1>3, <2>11, <3>1 DEF s
      <4>2. CASE k \in K
        <5>1. k[1] \in Nat /\ k[1] <= i
            BY <2>3, <2>4, <4>1, <4>2
        <5>2. LastIndex(s2.log) \in {i, i + 1}
            BY <1>7
        <5>. QED  BY <1>2, <4>1, <5>1, <5>2
      <4>3. CASE k \notin K
        <5>1. k[1] = i + 1 /\ LastIndex(s2.log) = i + 1
            BY <1>7, <2>2, <4>3 DEF o
        <5>. QED  BY <1>2, <4>1, <5>1
      <4>. QED  BY <4>2, <4>3
    <3>2. CASE x # n
      <4>1. N2[x] = N[x] /\ k[2] # s.term
          BY <1>3, <1>6, <2>11, <3>2
      <4>2. k \in K
          BY <2>2, <2>6, <4>1
      <4>. QED  BY <2>1, <2>11, <4>1, <4>2
    <3>. QED  BY <3>1, <3>2
  <2>. QED  BY <1>5, <2>8, <2>9, <2>10, <2>11 DEF OneStory
<1>. QED  BY <1>9, <1>10 DEF Story, N2

\* What an operation of a node adds to the story.
LEMMA StoryWorks ==
    ASSUME NEW N, NEW H, NEW M, NEW K, NEW C, Story(N, H, M, K, C),
           NEW n \in Node, NEW s2 \in NodeState, NEW M2 \in SUBSET M,
           QuorumsOK, Quorum # 1, Moves(n, N[n], s2, K, C),
           LastIndex(N[n].log) \in Nat, LastTerm(N[n].log) \in Nat,
           ElectionInv([N EXCEPT ![n] = s2], H, M2, C)
    PROVE  \E K2, C2 : Story([N EXCEPT ![n] = s2], H, M2, K2, C2)
<1>. DEFINE N2 == [N EXCEPT ![n] = s2]
            s == N[n]
            t == s.term
<1>1. /\ N \in [Node -> NodeState] /\ s \in NodeState /\ t \in Nat
      /\ \A m \in M2 : MsgOK(m, K, C)
    BY DEF Story, Logs, ElectionInv, NodeState
<1>2. N2[n] = s2
    BY <1>1
<1>3. CASE /\ NodeOK(n, s2, K, C)
           /\ s2.role = "Leader" => /\ s.role = "Leader" /\ s2.term = t
                                    /\ LogKept(s.log, s2.log)
  <2>1. s2.role = "Leader" => LastIndex(s2.log) = LastIndex(s.log)
      BY <1>3, KeptEnd
  <2>2. Story(N2, H, M2, K, C)
      BY <1>1, <1>3, <2>1, StoryGoesOn, ZenonT(60)
  <2>. QED  BY <2>2
<1>4. CASE /\ Grows(n, s, s2, K, C) /\ s2.term = t
           /\ s.role = "Leader" /\ s2.role = "Leader"
  <2>1. <<t, n>> \in C /\ C = C \cup {<<t, n>>}
      BY <1>4, ZenonT(60) DEF Story, Logs, NodeOK
  <2>2. \A p \in C : p[1] = t => p[2] = n
      BY <2>1 DEF Story, OneStory
  <2>3. \A k \in K : k[2] = t => k[1] <= LastIndex(s.log)
      BY <1>4 DEF Story, OneStory
  <2>4. \E K2 : Story(N2, H, M2, K2, C)
      BY <1>4, <2>1, <2>2, <2>3, StoryAppend
  <2>. QED  BY <2>4
<1>5. CASE /\ Grows(n, s, s2, K, C \cup {<<t, n>>}) /\ s2.term = t
           /\ s.role = "Candidate" /\ s2.role = "Leader"
  <2>. DEFINE C2 == C \cup {<<t, n>>}
  <2>1. \A p \in C : p \in Nat \X Node
      BY DEF Story, ElectionInv, AllSettled
  <2>2. \A p \in C : p[1] # t
    <3>1. SUFFICES ASSUME NEW p \in C, p[1] = t PROVE FALSE
        OBVIOUS
    <3>2. p[2] \in Node /\ Settled(N, H, M, t, p[2]) /\ Settled(N2, H, M2, t, p[2])
        BY <2>1, <3>1, ZenonT(60) DEF Story, ElectionInv, AllSettled
    <3>3. p[2] = n
        BY <1>2, <1>5, <3>2, SettledWinner
    <3>. QED  BY <1>5, <3>2, <3>3 DEF Settled
  <2>3. \A k \in K : k[2] # t
      BY <2>2, ZenonT(60) DEF Story, OneStory
  <2>4. Settled(N2, H, M2, t, n)
      BY <1>2, <1>5, InvWins
  <2>. HIDE DEF N2
  <2>5. ElectionInv(N2, H, M2, C2)
    <3>1. ElectionInv(N2, H, M2, C)
        BY DEF N2
    <3>2. AllSettled(N2, H, M2, C)
        BY <3>1 DEF ElectionInv
    <3>3. <<t, n>> \in Nat \X Node /\ <<t, n>>[1] = t /\ <<t, n>>[2] = n
        BY <1>1
    <3>4. AllSettled(N2, H, M2, C2)
        BY <2>4, <3>2, <3>3 DEF AllSettled
    <3>. QED  BY <3>1, <3>4 DEF ElectionInv
  <2>6. \E K2 : Story(N2, H, M2, K2, C2)
      BY <1>5, <2>2, <2>3, <2>5, StoryAppend DEF N2
  <2>. QED  BY <2>6 DEF N2
<1>. QED  BY <1>3, <1>4, <1>5, ZenonT(60) DEF Moves
=============================================================================
