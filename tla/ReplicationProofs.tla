------------------------- MODULE ReplicationProofs --------------------------
(***************************************************************************)
(* Theorems about Cluster for any set of nodes and any bounds: as long as  *)
(* hardstate.bin is not torn, a vote that was written is kept and no term  *)
(* has two leaders; and until a server starts on a log.bin that it has     *)
(* written on behind half a record, the logs match and nodes name the      *)
(* right leader.                                                           *)
(***************************************************************************)
EXTENDS ClusterProofs, ElectionProofs

\* Zenon is quick where there is no arithmetic; the solver has time for the
\* rest, whatever the machine.  Leaves that only Zenon finds name it.
USE ZenonT(3), SMTT(60)

ElectionsOK(S) == ElectionInv(nd, hs, net, S)

\* A fresh cluster satisfies the election invariant: nobody has voted.
LEMMA ElectionInit == Init => ElectionsOK({})
<1>1. SUFFICES ASSUME Init PROVE ElectionsOK({})
    OBVIOUS
<1>. DEFINE s == StartNode(0, Nobody, <<>>)
<1>2. s \in NodeState /\ s.role = "Follower" /\ s.term = 0 /\ s.msgs = {}
  <2>1. s \in NodeState
      BY EmptySeq, StartNodeType, ZenonT(60)
  <2>2. s.role = "Follower" /\ s.term = 0 /\ s.msgs = {}
      BY DEF StartNode
  <2>. HIDE DEF s
  <2>. QED  BY <2>1, <2>2
<1>. HIDE DEF s
<1>3. /\ nd = [n \in Node |-> s] /\ net = {} /\ hs \in [Node -> HardState]
      /\ \A n \in Node : hs[n].term = 0 /\ hs[n].vote = Nobody
    BY <1>1 DEF Init, s, HardState, EmptyHardState
<1>4. nd \in [Node -> NodeState] /\ \A n \in Node : nd[n] = s
    BY <1>2, <1>3
<1>5. \A v, c \in Node : \A t \in Nat : ~Given(nd, net, v, c, t)
    BY <1>2, <1>3, <1>4 DEF Given, Out, Queued, Counted
<1>6. \A v, c \in Node : \A t \in Nat : ~Out(nd, net, v, c, t)
    BY <1>5 DEF Given
<1>7. MessagesOK(nd, net) /\ RolesOK(nd) /\ DiskBehind(nd, hs)
    BY <1>2, <1>3, <1>4 DEF MessagesOK, RolesOK, DiskBehind
<1>8. TermsSaved(nd, hs, net) /\ CandidatesSaved(nd, hs, net)
    BY <1>2, <1>3, <1>4, <1>5 DEF TermsSaved, CandidatesSaved
<1>. QED  BY <1>3, <1>4, <1>5, <1>6, <1>7, <1>8
          DEF ElectionsOK, ElectionInv, VotesAgree, VotesPinned, VotesSaved,
              AllSettled

\* step() on any message keeps the election invariant.
LEMMA ElectionReceive ==
    ASSUME NEW S, ElectionsOK(S), NEW m \in net, Receive(m)
    PROVE  ElectionsOK(S)'
<1>. DEFINE n == m.to
            s == nd[n]
            s2 == Step(n, s, m)
<1>1. m \in Message /\ n \in Node /\ m.from \in Peers(n) /\ m.term >= 1
        /\ nd \in [Node -> NodeState] /\ s \in NodeState /\ m.term \in Nat
    BY DEF ElectionsOK, ElectionInv, MessagesOK, Message
<1>2. /\ nd' = [nd EXCEPT ![n] = s2] /\ hs' = hs /\ net' \in SUBSET net
    BY DEF Receive
<1>3. PICK b \in NodeState :
         /\ b = s \/ SteppedDown(s, b)
         /\ b.term >= m.term
         /\ Quiet(n, b, s2) \/ Grants(n, b, m, s2) \/ Counts(n, b, m, s2)
    BY <1>1, StepKinds
<1>. DEFINE N == [nd EXCEPT ![n] = b]
<1>. HIDE DEF s2
<1>4. b.term \in Nat /\ b.term >= 1
    BY <1>1, <1>3 DEF NodeState
<1>5. ElectionInv(N, hs, net, S)
  <2>1. CASE b = s
    <3>1. N = nd
        BY <1>1, <2>1
    <3>. QED  BY <3>1 DEF ElectionsOK
  <2>2. CASE SteppedDown(s, b)
      BY <1>1, <2>2, InvDown, ZenonT(60) DEF ElectionsOK
  <2>. QED  BY <1>3, <2>1, <2>2
<1>6. N[n] = b /\ [N EXCEPT ![n] = s2] = [nd EXCEPT ![n] = s2]
    BY <1>1, ZenonT(60)
<1>. HIDE DEF N
<1>7. ElectionInv([N EXCEPT ![n] = s2], hs, net, S)
  <2>1. CASE Quiet(n, b, s2)
      BY <1>1, <1>4, <1>5, <1>6, <2>1, InvQuiet
  <2>2. CASE Grants(n, b, m, s2)
      BY <1>1, <1>5, <1>6, <2>2, InvGrants
  <2>3. CASE Counts(n, b, m, s2)
      BY <1>1, <1>5, <1>6, <2>3, InvCounts
  <2>. QED  BY <1>3, <2>1, <2>2, <2>3
<1>8. ElectionInv(nd', hs', net, S)
    BY <1>2, <1>6, <1>7
<1>. QED  BY <1>2, <1>8, InvLoss DEF ElectionsOK

\* Saving the vote before the messages go out keeps the election invariant.
LEMMA ElectionReady ==
    ASSUME NEW S, ElectionsOK(S), NEW n \in Node, Ready(n)
    PROVE  ElectionsOK(S)'
<1>. DEFINE s == nd[n]
            stored == AppendNoSync(s.log.stored, s.log.unstable)
            s2 == [Advance(s) EXCEPT !.log.stored = stored]
            h == SavedHardState(n)
<1>1. s \in NodeState /\ hs[n] \in HardState
    BY DEF ElectionsOK, ElectionInv
<1>2. stored \in Seq(Entry)
    BY <1>1, AppendNoSyncType DEF NodeState, Log
<1>3. /\ nd' = [nd EXCEPT ![n] = s2] /\ hs' = [hs EXCEPT ![n] = h]
      /\ net' = net \cup nd[n].msgs
    BY DEF Ready
<1>. HIDE DEF stored
<1>4. /\ s2 \in NodeState /\ s2.role = s.role /\ s2.term = s.term
      /\ s2.vote = s.vote /\ s2.votes = s.votes /\ s2.msgs = {}
    BY <1>1, <1>2, ReadyType, ZenonT(60)
<1>5. h \in HardState /\ (\/ h.term = s.term /\ h.vote = s.vote
                          \/ h = hs[n] /\ s.term = 0)
    BY <1>1 DEF SavedHardState, HardState, NodeState, Log
<1>. HIDE DEF s2, h
<1>. QED  BY <1>3, <1>4, <1>5, InvReady, ZenonT(60) DEF ElectionsOK

\* A restart from the saved hard state keeps the election invariant: every
\* vote that was sent had been saved.
LEMMA ElectionRestart ==
    ASSUME NEW S, ElectionsOK(S), NEW n \in Node, NEW e \in Seq(Entry),
           NEW t, Restart(n, e, hs[n], t)
    PROVE  ElectionsOK(S)' /\ hs' = hs
<1>. DEFINE s2 == StartNode(hs[n].term, hs[n].vote, e)
<1>1. hs[n] \in HardState /\ hs \in [Node -> HardState]
    BY DEF ElectionsOK, ElectionInv
<1>2. nd' = [nd EXCEPT ![n] = s2] /\ hs' = hs /\ net' = net
    BY <1>1 DEF Restart
<1>3. /\ s2 \in NodeState /\ s2.role = "Follower" /\ s2.msgs = {}
      /\ s2.term = hs[n].term /\ s2.vote = hs[n].vote
  <2>1. hs[n].term \in Nat /\ hs[n].vote \in Node \cup {Nobody}
      BY <1>1 DEF HardState
  <2>2. s2 \in NodeState
      BY <2>1, StartNodeType
  <2>3. /\ s2.role = "Follower" /\ s2.msgs = {}
        /\ s2.term = hs[n].term /\ s2.vote = hs[n].vote
      BY DEF StartNode
  <2>. QED  BY <2>2, <2>3
<1>. HIDE DEF s2
<1>. QED  BY <1>2, <1>3, InvRestart, ZenonT(60) DEF ElectionsOK

\* So does a crash, unless it tears hardstate.bin.
LEMMA ElectionKill ==
    ASSUME NEW S, ElectionsOK(S), NEW n \in Node, "hardstate" \notin TornWrites,
           \/ Kill(n) \/ KillInAppend(n) \/ KillInSaveHardState(n)
           \/ KillMisread(n)
    PROVE  ElectionsOK(S)' /\ hs' = hs
<1>1. nd[n] \in NodeState /\ hs[n] \in HardState
    BY DEF ElectionsOK, ElectionInv
<1>2. PICK e \in Seq(Entry), t \in {"whole", "torn", tail[n], NextTail(n)} :
         Restart(n, e, hs[n], t)
    BY <1>1, KillRestarts, ZenonT(60)
<1>. QED  BY <1>2, ElectionRestart

\* The election invariant is inductive when hardstate.bin is never torn.
LEMMA ElectionNext ==
    ASSUME "hardstate" \notin TornWrites, QuorumsOK, NEW S
    PROVE  ElectionsOK(S) /\ [Next]_vars => ElectionsOK(S)'
<1>1. SUFFICES ASSUME ElectionsOK(S), [Next]_vars PROVE ElectionsOK(S)'
    OBVIOUS
<1>. USE <1>1
<1>2. \A n \in Node : nd[n] \in NodeState
    BY DEF ElectionsOK, ElectionInv
<1>3. \A n \in Node : nd[n].role = "Leader" => nd[n].term >= 1
    BY DEF ElectionsOK, ElectionInv, RolesOK
<1>4. ASSUME NEW n \in Node, TickElection(n) PROVE ElectionsOK(S)'
  <2>1. nd' = [nd EXCEPT ![n] = Campaign(n, nd[n])] /\ UNCHANGED <<hs, net>>
      BY <1>4 DEF TickElection
  <2>. QED  BY <1>2, <2>1, CampaignSteps, InvCampaigns
            DEF ElectionsOK
<1>5. ASSUME NEW n \in Node, TickHeartbeat(n) PROVE ElectionsOK(S)'
  <2>1. nd' = [nd EXCEPT ![n] = BroadcastHeartbeat(n, nd[n])]
          /\ UNCHANGED <<hs, net>> /\ nd[n].role = "Leader"
      BY <1>5 DEF TickHeartbeat
  <2>. QED  BY <1>2, <1>3, <2>1, BroadcastQuiet, InvQuiet, ZenonT(60) DEF ElectionsOK
<1>6. ASSUME NEW n \in Node, ClientProposes(n) PROVE ElectionsOK(S)'
  <2>1. nd' = [nd EXCEPT ![n] = Propose(n, nd[n])]
          /\ UNCHANGED <<hs, net>> /\ nd[n].role = "Leader"
      BY <1>6 DEF ClientProposes
  <2>. QED  BY <1>2, <1>3, <2>1, ProposeQuiet, InvQuiet, ZenonT(60) DEF ElectionsOK
<1>7. ASSUME NEW n \in Node, NEW peer \in Peers(n), Unreachable(n, peer)
      PROVE  ElectionsOK(S)'
  <2>1. nd' = [nd EXCEPT ![n] = StepUnreachable(nd[n], peer)] /\ peer \in Node
          /\ UNCHANGED <<hs, net>> /\ nd[n].role = "Leader"
      BY <1>7 DEF Unreachable, Peers
  <2>. QED  BY <1>2, <1>3, <2>1, StepUnreachableQuiet, InvQuiet, ZenonT(60) DEF ElectionsOK
<1>8. CASE UNCHANGED vars
    BY <1>8 DEF vars, ElectionsOK
<1>. QED  BY <1>4, <1>5, <1>6, <1>7, <1>8, ElectionReady, ElectionKill,
             ElectionReceive
          DEF Next, ReceiveVote, ReceiveVoteResp, ReceiveApp, ReceiveAppResp,
              ReceiveHeartbeat, ReceiveHeartbeatResp

\* Two quorums share a voter, and that voter voted for one candidate.
LEMMA ElectionsOKSafe ==
    ASSUME QuorumsOK, ElectionsOK({})
    PROVE  ElectionSafety
<1>1. SUFFICES ASSUME NEW a \in Node, NEW b \in Node, nd[a].role = "Leader",
                      nd[b].role = "Leader", nd[a].term = nd[b].term
               PROVE  a = b
    BY DEF ElectionSafety
<1>. USE <1>1
<1>. DEFINE A == nd[a].votes
            B == nd[b].votes
<1>2. nd[a] \in NodeState /\ nd[b] \in NodeState
    BY DEF ElectionsOK, ElectionInv
<1>3. /\ A \in SUBSET Node /\ B \in SUBSET Node /\ nd[a].term \in Nat
      /\ Cardinality(A) >= Quorum /\ Cardinality(B) >= Quorum
    BY <1>2 DEF ElectionsOK, ElectionInv, RolesOK, NodeState
<1>4. PICK v \in Node : v \in A /\ v \in B
    BY <1>3 DEF QuorumsOK
<1>5. Given(nd, net, v, a, nd[a].term) /\ Given(nd, net, v, b, nd[a].term)
    BY <1>4 DEF Given, Out, Counted
<1>. QED  BY <1>3, <1>4, <1>5 DEF ElectionsOK, ElectionInv, VotesAgree

\* saveHardState never takes back a vote it saved for another node.
LEMMA ReadyKeepsVotes ==
    ASSUME NEW S, ElectionsOK(S), NEW n \in Node, Ready(n)
    PROVE  VoteStays
<1>1. SUFFICES ASSUME NEW x \in Node
               PROVE  /\ hs'[x].term >= hs[x].term
                      /\ hs'[x].term = hs[x].term /\ hs[x].vote \notin {Nobody, x}
                            => hs'[x].vote = hs[x].vote
    BY DEF VoteStays
<1>2. /\ hs \in [Node -> HardState] /\ hs[x] \in HardState
      /\ nd[x] \in NodeState /\ nd[x].term >= hs[x].term
      /\ hs[x].vote \notin {Nobody, x} => Follows(nd[x], hs[x].vote, hs[x].term)
    BY DEF ElectionsOK, ElectionInv, DiskBehind
<1>3. hs[x].term \in Nat /\ nd[x].term \in Nat
    BY <1>2 DEF HardState, NodeState
<1>4. hs' = [hs EXCEPT ![n] = SavedHardState(n)]
    BY DEF Ready
<1>5. CASE x # n
    BY <1>2, <1>3, <1>4, <1>5
<1>6. CASE x = n /\ hs'[x] = hs[x]
    BY <1>3, <1>6
<1>7. CASE x = n /\ hs'[x].term = nd[x].term /\ hs'[x].vote = nd[x].vote
    BY <1>2, <1>3, <1>7 DEF Follows
<1>. QED  BY <1>2, <1>4, <1>5, <1>6, <1>7 DEF SavedHardState

\* Nor does any other step.
LEMMA NextKeepsVotes ==
    ASSUME "hardstate" \notin TornWrites, ElectionsOK({}), Next
    PROVE  VoteStays
<1>1. \A n \in Node : hs[n] \in HardState
    BY DEF ElectionsOK, ElectionInv
<1>2. hs' = hs => VoteStays
    BY <1>1 DEF VoteStays, HardState
<1>3. ASSUME NEW m \in net, Receive(m) PROVE hs' = hs
    BY <1>3 DEF Receive
<1>4. ASSUME NEW n \in Node, \/ TickElection(n) \/ TickHeartbeat(n)
                             \/ ClientProposes(n)
                             \/ \E peer \in Peers(n) : Unreachable(n, peer)
      PROVE  hs' = hs
    BY <1>4 DEF TickElection, TickHeartbeat, ClientProposes, Unreachable
<1>5. ASSUME NEW n \in Node, \/ Kill(n) \/ KillInAppend(n) \/ KillInSaveHardState(n)
                             \/ KillMisread(n)
      PROVE  hs' = hs
    BY <1>5, ElectionKill
<1>6. ASSUME NEW n \in Node, Ready(n) PROVE VoteStays
    BY <1>6, ReadyKeepsVotes
<1>. QED  BY <1>2, <1>3, <1>4, <1>5, <1>6
          DEF Next, ReceiveVote, ReceiveVoteResp, ReceiveApp, ReceiveAppResp,
              ReceiveHeartbeat, ReceiveHeartbeatResp

History == \E K, C : Story(nd, hs, net, K, C)

\* Before the first step there is no story.
LEMMA HistoryInit == Init => History
<1>1. SUFFICES ASSUME Init PROVE Story(nd, hs, net, {}, {})
    BY DEF History
<1>. USE <1>1
<1>2. <<>> \in Seq(Entry) /\ Run(<<>>, 0, 0, {})
    BY EmptySeq, EmptyRun
<1>3. \A n \in Node : NodeOK(n, StartNode(0, Nobody, <<>>), {}, {})
    BY <1>2, StartNodeOK, ZenonT(60)
<1>4. Logs(nd, net, {}, {})
    BY <1>3 DEF Init, Logs
<1>5. ElectionInv(nd, hs, net, {})
    BY ElectionInit DEF ElectionsOK
<1>. QED  BY <1>4, <1>5 DEF Story, OneStory

\* The story goes on through every step that misreads no log, as long as
\* hardstate.bin is whole.
LEMMA HistoryNext ==
    ASSUME "hardstate" \notin TornWrites, QuorumsOK, Quorum # 1
    PROVE  TypeInv /\ History /\ [Next]_vars /\ misread' = {} => History'
<1>1. SUFFICES ASSUME TypeInv, [Next]_vars, misread' = {}, NEW K, NEW C, Story(nd, hs, net, K, C)
               PROVE  \E K2, C2 : Story(nd', hs', net', K2, C2)
    BY DEF History
<1>. USE <1>1
<1>2. /\ Logs(nd, net, K, C) /\ nd \in [Node -> NodeState]
      /\ \A m \in net : MsgOK(m, K, C)
      /\ \A n \in Node : NodeOK(n, nd[n], K, C)
    BY DEF Story, Logs, ElectionInv
<1>3. ElectionInv(nd', hs', net', C)
    BY ElectionNext DEF Story, ElectionsOK
<1>4. CASE UNCHANGED vars
    BY <1>4 DEF vars
<1>5. ASSUME NEW n \in Node, NEW s2, Works(n, s2, K, C)
      PROVE  \E K2, C2 : Story(nd', hs', net', K2, C2)
  <2>1. /\ nd' = [nd EXCEPT ![n] = s2] /\ net' \in SUBSET net /\ hs' = hs
        /\ s2 \in NodeState /\ Moves(n, nd[n], s2, K, C)
      BY <1>5 DEF Works
  <2>2. LastIndex(nd[n].log) \in Nat /\ LastTerm(nd[n].log) \in Nat
      BY <1>2, IndexType DEF NodeState, LastTerm
  <2>. QED  BY <1>3, <2>1, <2>2, StoryWorks
<1>6. ASSUME NEW n \in Node, Ready(n)
      PROVE  \E K2, C2 : Story(nd', hs', net', K2, C2)
  <2>. DEFINE s == nd[n]
              disk == AppendNoSync(s.log.stored, s.log.unstable)
              s2 == [Advance(s) EXCEPT !.log.stored = disk]
  <2>1. s \in NodeState /\ disk \in Seq(Entry)
      BY <1>2, AppendNoSyncType DEF NodeState, Log
  <2>2. nd' = [nd EXCEPT ![n] = s2] /\ net' = net \cup s.msgs
      BY <1>6 DEF Ready
  <2>3. NodeOK(n, s2, K, C) /\ LastIndex(s2.log) = LastIndex(s.log)
      BY <1>2, <2>1, ReadyOK
  <2>4. s2.role = s.role /\ s2.term = s.term
      BY <2>1, ReadyType, ZenonT(60)
  <2>5. \A m \in net' : MsgOK(m, K, C)
      BY <1>2, <2>2, ZenonT(60) DEF NodeOK
  <2>. HIDE DEF s2
  <2>6. Story(nd', hs', net', K, C)
      BY <1>3, <2>2, <2>3, <2>4, <2>5, StoryGoesOn, ZenonT(60)
  <2>. QED  BY <2>6
<1>7. ASSUME NEW n \in Node, NEW e, NEW h, Reboots(n, e, h, K)
      PROVE  \E K2, C2 : Story(nd', hs', net', K2, C2)
  <2>. DEFINE s2 == StartNode(h.term, h.vote, e)
  <2>1. /\ h.term \in Nat /\ h.vote \in Node \cup {Nobody} /\ e \in Seq(Entry)
        /\ Run(e, 0, 0, K)
      BY <1>7 DEF Reboots, HardState
  <2>2. nd' = [nd EXCEPT ![n] = s2] /\ net' = net
      BY <1>7 DEF Reboots, Restart
  <2>3. NodeOK(n, s2, K, C)
      BY <2>1, StartNodeOK
  <2>4. s2.role = "Follower"
      BY DEF StartNode
  <2>. HIDE DEF s2
  <2>5. Story(nd', hs', net', K, C)
      BY <1>2, <1>3, <2>2, <2>3, <2>4, StoryGoesOn, ZenonT(60)
  <2>. QED  BY <2>5
<1>8. CASE Next
  <2>1. \/ \E n \in Node : \E s2 : Works(n, s2, K, C)
        \/ \E n \in Node : Ready(n)
        \/ \E n \in Node : \E e, h : Reboots(n, e, h, K)
      BY <1>2, <1>8, NextWorks
  <2>. QED  BY <1>5, <1>6, <1>7, <2>1
<1>. QED  BY <1>4, <1>8

\* Both properties can be read off the story.
LEMMA StorySafe ==
    ASSUME TypeInv, QuorumsOK, Quorum # 1 => History
    PROVE  LeaderHint /\ LogMatching
<1>1. \A n \in Node : nd[n] \in NodeState /\ nd[n].log \in Log
    BY DEF TypeInv, TypeOK, NodeState
<1>2. CASE Quorum = 1
  <2>1. \A a, b \in Node : a = b
      BY <1>2 DEF QuorumsOK
  <2>2. \A n \in Node : nd[n].lead \in Node \cup {Nobody}
      BY <1>1 DEF NodeState
  <2>. QED  BY <2>1, <2>2 DEF LeaderHint, LogMatching
<1>3. CASE Quorum # 1
  <2>1. PICK K, C : Story(nd, hs, net, K, C)
      BY <1>3 DEF History
  <2>2. /\ \A n \in Node : NodeOK(n, nd[n], K, C)
        /\ \A p, q \in C : p[1] = q[1] => p = q
        /\ \A k, l \in K : k[1] = l[1] /\ k[2] = l[2] => k = l
      BY <2>1 DEF Story, Logs, OneStory
  <2>3. ASSUME NEW a \in Node, NEW n \in Node, nd[a].role = "Leader",
               nd[n].term = nd[a].term, nd[n].lead # Nobody
        PROVE  nd[n].lead = a
    <3>1. <<nd[a].term, a>> \in C /\ <<nd[a].term, nd[n].lead>> \in C
        BY <2>2, <2>3, ZenonT(60) DEF NodeOK
    <3>. QED  BY <2>2, <3>1
  <2>4. ASSUME NEW a \in Node, NEW b \in Node \ {a},
               NEW i \in 2..Smaller(LastIndex(nd[a].log), LastIndex(nd[b].log)),
               Term(nd[a].log, i) = Term(nd[b].log, i)
        PROVE  Term(nd[a].log, i - 1) = Term(nd[b].log, i - 1)
    <3>1. LastIndex(nd[a].log) \in Nat /\ LastIndex(nd[b].log) \in Nat
        BY <1>1, IndexType
    <3>2. /\ i \in Nat /\ i >= 1
          /\ i <= LastIndex(nd[a].log) /\ i <= LastIndex(nd[b].log)
        BY <3>1 DEF Smaller
    <3>3. LogOK(nd[a].log, K) /\ LogOK(nd[b].log, K)
        BY <2>2, ZenonT(60) DEF NodeOK
    <3>4. /\ <<i, Term(nd[a].log, i), Term(nd[a].log, i - 1)>> \in K
          /\ <<i, Term(nd[b].log, i), Term(nd[b].log, i - 1)>> \in K
        BY <1>1, <3>2, <3>3, LogLinks
    <3>. QED  BY <2>2, <2>4, <3>4
  <2>. QED  BY <2>3, <2>4 DEF LeaderHint, LogMatching
<1>. QED  BY <1>2, <1>3

-----------------------------------------------------------------------------
(* The theorems *)

INSTANCE FiniteSetTheorems

\* Quorum is more than half of the nodes.
LEMMA QuorumsHold == QuorumsOK
<1>1. IsFiniteSet(Node) /\ Cardinality(Node) \in Nat
    BY NodeAssumption, FS_CardinalityType
<1>2. /\ 2 * Quorum > Cardinality(Node) /\ Quorum \in Nat /\ Quorum >= 1
      /\ Quorum = 1 => Cardinality(Node) < 2
    BY <1>1 DEF Quorum
<1>3. ASSUME NEW A \in SUBSET Node, NEW B \in SUBSET Node,
             Cardinality(A) >= Quorum, Cardinality(B) >= Quorum
      PROVE  A \cap B # {}
  <2>1. Cardinality(A) \in Nat /\ Cardinality(B) \in Nat
      BY <1>1, FS_Subset, FS_CardinalityType
  <2>2. Cardinality(A) + Cardinality(B) > Cardinality(Node)
      BY <1>1, <1>2, <1>3, <2>1
  <2>. QED  BY <1>1, <2>2, FS_MajoritiesIntersect
<1>4. \A n \in Node : Cardinality({n}) = 1 /\ IsFiniteSet({n})
    BY FS_Singleton
<1>5. Quorum # 1 => ~(1 >= Quorum)
    BY <1>2
<1>6. ASSUME Quorum = 1, NEW a \in Node, NEW b \in Node, a # b PROVE FALSE
  <2>1. Cardinality({a} \cup {b}) = Cardinality({a}) + 1
      BY <1>4, <1>6, FS_AddElement
  <2>2. Cardinality({a} \cup {b}) <= Cardinality(Node)
      BY <1>1, FS_Subset
  <2>. QED  BY <1>1, <1>2, <1>4, <1>6, <2>1, <2>2
<1>. QED  BY <1>3, <1>4, <1>5, <1>6 DEF QuorumsOK

\* A term has at most one leader, in clusters of any size, with messages lost,
\* duplicated, reordered and delayed, processes killed and restarted, and
\* appends to log.bin torn, as long as hardstate.bin is not torn: step,
\* campaign and processReady keep a vote on disk before it is sent.
THEOREM ElectionSafetyHolds ==
    ASSUME "hardstate" \notin TornWrites
    PROVE  Spec => []ElectionSafety
<1>1. ElectionsOK({}) /\ [Next]_vars => ElectionsOK({})'
    BY ElectionNext, QuorumsHold
<1>2. ElectionsOK({}) => ElectionSafety
    BY ElectionsOKSafe, QuorumsHold
<1>. QED  BY <1>1, <1>2, ElectionInit, PTL DEF Spec

Leads(n, t) == nd[n].role = "Leader" /\ nd[n].term = t

\* Nor does a term get a second leader later, when the first has stepped down
\* or been killed, although becomeFollower clears the vote within a term and a
\* restart forgets the votes received: whoever elected a leader keeps that vote.
THEOREM OneWinnerHolds ==
    ASSUME "hardstate" \notin TornWrites, NEW t \in Nat,
           NEW a \in Node, NEW b \in Node
    PROVE  Spec => [](Leads(a, t) => [](Leads(b, t) => b = a))
<1>. DEFINE S == {<<t, a>>}
            Won == Quorum = 1 \/ ElectionsOK(S)
<1>1. ElectionsOK({}) /\ [Next]_vars => ElectionsOK({})'
    BY ElectionNext, QuorumsHold
<1>2. Won /\ [Next]_vars => Won'
  <2>1. ElectionsOK(S) /\ [Next]_vars => ElectionsOK(S)'
      BY ElectionNext, QuorumsHold
  <2>2. Quorum' = Quorum
      BY DEF Quorum
  <2>. QED  BY <2>1, <2>2
<1>3. ElectionsOK({}) /\ Leads(a, t) => Won
  <2>1. SUFFICES ASSUME ElectionsOK({}), Leads(a, t), Quorum # 1
                 PROVE  ElectionsOK(S)
      OBVIOUS
  <2>2. Settled(nd, hs, net, t, a)
      BY <2>1, InvWins, QuorumsHold DEF ElectionsOK, Leads
  <2>3. AllSettled(nd, hs, net, S)
      BY <2>2 DEF AllSettled
  <2>. QED  BY <2>1, <2>3 DEF ElectionsOK, ElectionInv
<1>4. Won => (Leads(b, t) => b = a)
  <2>1. CASE Quorum = 1
      BY <2>1, QuorumsHold DEF QuorumsOK
  <2>2. CASE ElectionsOK(S)
    <3>1. Settled(nd, hs, net, t, a)
        BY <2>2 DEF ElectionsOK, ElectionInv, AllSettled
    <3>. QED  BY <2>2, <3>1, SettledWinner, QuorumsHold DEF ElectionsOK, Leads
  <2>. QED  BY <2>1, <2>2
<1>. HIDE DEF Won
<1>. QED  BY <1>1, <1>2, <1>3, <1>4, ElectionInit, PTL DEF Spec

\* The vote that hardstate.bin holds is kept for its term, and the file never
\* goes back to an earlier one, under the same conditions.
THEOREM VoteKeptHolds ==
    ASSUME "hardstate" \notin TornWrites
    PROVE  Spec => VoteKept
<1>1. ElectionsOK({}) /\ [Next]_vars => [VoteStays]_vars
    BY NextKeepsVotes
<1>2. ElectionsOK({}) /\ [Next]_vars => ElectionsOK({})'
    BY ElectionNext, QuorumsHold
<1>. QED  BY <1>1, <1>2, ElectionInit, PTL DEF Spec, VoteKept

\* TypeInv and the story, while it lasts, are inductive together.
LEMMA HistoryInvariant ==
    ASSUME "hardstate" \notin TornWrites
    PROVE  Spec => []((misread = {} => LeaderHint) /\ LogMatching)
<1>. DEFINE Inv == TypeInv /\ (misread = {} /\ Quorum # 1 => History)
<1>1. Init => Inv
    BY TypeInit, HistoryInit
<1>2. Inv /\ [Next]_vars => Inv'
  <2>1. CASE Quorum = 1
      BY <2>1, TypeNext DEF Quorum
  <2>2. CASE Quorum # 1
      BY <2>2, TypeNext, HistoryNext, MisreadStays, QuorumsHold DEF Quorum
  <2>. QED  BY <2>1, <2>2
<1>3. Inv => (misread = {} => LeaderHint) /\ LogMatching
    BY StorySafe, QuorumsHold DEF LogMatching
<1>. QED  BY <1>1, <1>2, <1>3, PTL DEF Spec

\* In clusters of any size, with messages lost, duplicated and reordered,
\* processes killed and appends torn, the leader that a node names to its
\* clients is the leader of its term, as long as hardstate.bin is not torn and
\* no server starts on a log.bin with records behind half a one.
THEOREM LeaderHintHolds ==
    ASSUME "hardstate" \notin TornWrites
    PROVE  Spec => [](misread = {} => LeaderHint)
    BY HistoryInvariant, PTL

\* Under the same conditions logs that agree on an entry's term agree on
\* everything below it, although maybeAppend cuts and replaces unstable entries
\* and appendNoSync rewrites stored ones.
THEOREM LogMatchingHolds ==
    ASSUME "hardstate" \notin TornWrites
    PROVE  Spec => []LogMatching
    BY HistoryInvariant, PTL
=============================================================================
