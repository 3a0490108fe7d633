--------------------------- MODULE ClusterProofs ----------------------------
(***************************************************************************)
(* Theorems about Cluster for any set of nodes and any bounds, whatever is *)
(* lost, torn or repeated: the state is well typed; and until a server     *)
(* starts on a log.bin that it has written on behind half a record, a      *)
(* leader keeps the entries it has, and every state machine is fed the log *)
(* in order.                                                               *)
(***************************************************************************)
EXTENDS Cluster, NodeLogProofs

\* Zenon is quick where there is no arithmetic; the solver has time for the
\* rest, whatever the machine.  Leaves that only Zenon finds name it.
USE ZenonT(3), SMTT(60)

-----------------------------------------------------------------------------
(* Type correctness *)

\* Messages run between different nodes; without this a reply could be
\* addressed to its own sender.
Addressed ==
    /\ \A m \in net : m.from \in Peers(m.to)
    /\ \A n \in Node : \A m \in nd[n].msgs : m.from = n /\ m.to \in Peers(n)

TypeInv == TypeOK /\ Addressed

\* A fresh cluster has its types.
LEMMA TypeInit == Init => TypeInv
<1>1. SUFFICES ASSUME Init PROVE TypeInv
    OBVIOUS
<1>. DEFINE s == StartNode(0, Nobody, <<>>)
<1>2. s \in NodeState /\ s.msgs = {} /\ <<>> \in Seq(Entry)
    BY EmptySeq, StartNodeType, ZenonT(60)
<1>. HIDE DEF s
<1>3. nd = [n \in Node |-> s]
    BY <1>1 DEF Init, s
<1>4. hs \in [Node -> HardState]
    BY <1>1 DEF Init, HardState, EmptyHardState
<1>5. TypeOK
    BY <1>1, <1>2, <1>3, <1>4 DEF Init, TypeOK, TailState
<1>6. Addressed
    BY <1>1, <1>2, <1>3 DEF Init, Addressed
<1>. QED  BY <1>5, <1>6 DEF TypeInv

\* The counters are numbers after every action but Ready and Restart.
LEMMA CountersType ==
    ASSUME TypeInv, NEW n \in Node
    PROVE  /\ [batch EXCEPT ![n] = 1] \in [Node -> Nat]
           /\ [batch EXCEPT ![n] = 0] \in [Node -> Nat]
           /\ [batch EXCEPT ![n] = Larger(@, 1) + 1] \in [Node -> Nat]
           /\ elections + 1 \in Nat /\ beats + 1 \in Nat /\ crashes + 1 \in Nat
    BY DEF TypeInv, TypeOK, Larger

\* A step of one node that sends nothing yet keeps TypeInv.
LEMMA TypeNodeStep ==
    ASSUME TypeInv, NEW n \in Node, NEW s2 \in NodeState,
           \A x \in s2.msgs : x \in nd[n].msgs \/ (x.from = n /\ x.to \in Peers(n)),
           nd' = [nd EXCEPT ![n] = s2], UNCHANGED <<hs, tail, misread, fsm>>,
           net' \in SUBSET net, batch' \in [Node -> Nat],
           elections' \in Nat, beats' \in Nat, crashes' \in Nat
    PROVE  TypeInv'
<1>1. TypeOK'
    BY ZenonT(60) DEF TypeInv, TypeOK
<1>2. Addressed'
    BY DEF TypeInv, TypeOK, Addressed
<1>. QED  BY <1>1, <1>2 DEF TypeInv

\* How log.bin ends after a write.
LEMMA TailType ==
    ASSUME TypeInv, NEW n \in Node
    PROVE  tail[n] \in TailState /\ NextTail(n) \in TailState
    BY DEF TypeInv, TypeOK, NextTail, TailAfter, TailState

\* The constructor on any well-formed disk keeps the types.
LEMMA TypeRestart ==
    ASSUME TypeInv, NEW n \in Node, NEW e \in Seq(Entry), NEW h \in HardState,
           NEW t \in TailState, Restart(n, e, h, t), misread' \in SUBSET Node
    PROVE  TypeInv'
<1>. DEFINE s == StartNode(h.term, h.vote, e)
<1>1. s \in NodeState /\ s.msgs = {}
    BY StartNodeType, ZenonT(60) DEF HardState
<1>2. nd' = [nd EXCEPT ![n] = s]
    BY DEF Restart
<1>. HIDE DEF s
<1>3. TypeOK'
    BY <1>1, <1>2, EmptySeq, CountersType DEF TypeInv, TypeOK, Restart
<1>4. Addressed'
    BY <1>1, <1>2 DEF TypeInv, TypeOK, Addressed, Restart
<1>. QED  BY <1>3, <1>4 DEF TypeInv

\* A misread log is a log.
LEMMA MisreadsType == Misreads \subseteq Seq(Entry)
<1>. DEFINE R == [index : 0..MaxMisread, term : MisreadTerm]
<1>1. ASSUME NEW r \in R PROVE r \in Entry
  <2>1. PICK i \in 0..MaxMisread, t \in MisreadTerm : r = [index |-> i, term |-> t]
      OBVIOUS
  <2>2. i \in Nat /\ t \in Nat
      BY BoundsAssumption
  <2>. QED  BY <2>1, <2>2 DEF Entry
<1>. HIDE DEF R
<1>2. ASSUME NEW k \in 0..MaxMisread, NEW e \in [1..k -> R]
      PROVE  e \in Seq(Entry)
  <2>1. k \in Nat
      BY BoundsAssumption
  <2>2. e \in [1..k -> Entry]
      BY <1>1
  <2>. QED  BY <2>1, <2>2
<1>3. \A e \in Misreads : \E k \in 0..MaxMisread : e \in [1..k -> R]
    BY ZenonT(60) DEF Misreads, R
<1>. QED  BY <1>2, <1>3

\* A kill of any kind is a restart on well-formed files.
LEMMA KillRestarts ==
    ASSUME NEW n \in Node, nd[n] \in NodeState, hs[n] \in HardState,
           \/ Kill(n) \/ KillInAppend(n) \/ KillInSaveHardState(n)
           \/ KillMisread(n)
    PROVE  /\ \E e \in Seq(Entry), h \in HardState,
                 t \in {"whole", "torn", tail[n], NextTail(n)} :
                 /\ Restart(n, e, h, t)
                 /\ "hardstate" \notin TornWrites => h = hs[n]
           /\ misread' \subseteq misread \cup {n}
<1>1. nd[n].log.stored \in Seq(Entry) /\ nd[n].log.unstable \in Seq(Entry)
    BY DEF NodeState, Log
<1>2. EmptyHardState(Nobody) \in HardState
    BY DEF EmptyHardState, HardState
<1>3. CASE Kill(n)
    BY <1>1, <1>3, ReplaysType, ZenonT(60) DEF Kill
<1>4. CASE KillInAppend(n)
    BY <1>1, <1>4, AppendNoSyncType, ZenonT(60) DEF KillInAppend
<1>5. CASE KillInSaveHardState(n)
    BY <1>1, <1>2, <1>5, AppendNoSyncType, ReplaysType, ZenonT(60)
    DEF KillInSaveHardState
<1>6. CASE KillMisread(n)
    BY <1>2, <1>6, MisreadsType, ZenonT(60) DEF KillMisread
<1>. QED  BY <1>3, <1>4, <1>5, <1>6

\* processReady and advance keep the types.
LEMMA TypeReady ==
    ASSUME TypeInv, NEW n \in Node, Ready(n)
    PROVE  TypeInv'
<1>. DEFINE s == nd[n]
            stored == AppendNoSync(s.log.stored, s.log.unstable)
            s2 == [Advance(s) EXCEPT !.log.stored = stored]
            done == NextCommittedEntries(s.log)
<1>1. s \in NodeState /\ fsm[n] \in Seq(Entry)
    BY DEF TypeInv, TypeOK
<1>2. stored \in Seq(Entry) /\ done \in Seq(Entry)
    BY <1>1, AppendNoSyncType, NextCommittedType DEF NodeState, Log
<1>3. /\ nd' = [nd EXCEPT ![n] = s2] /\ hs' = [hs EXCEPT ![n] = SavedHardState(n)]
      /\ net' = net \cup s.msgs /\ fsm' = [fsm EXCEPT ![n] = fsm[n] \o done]
      /\ batch' = [batch EXCEPT ![n] = 0]
      /\ tail' = [tail EXCEPT ![n] = NextTail(n)]
      /\ UNCHANGED <<misread, elections, beats, crashes>>
    BY DEF Ready, NextTail, TypeInv, TypeOK
<1>. HIDE DEF stored, done
<1>4. s2 \in NodeState /\ s2.msgs = {}
    BY <1>1, <1>2, ReadyType
<1>5. SavedHardState(n) \in HardState
    BY <1>1 DEF SavedHardState, HardState, NodeState, Log, TypeInv, TypeOK
<1>6. fsm[n] \o done \in Seq(Entry)
    BY <1>1, <1>2, ConcatProperties
<1>. HIDE DEF s2
<1>7. TypeOK'
    BY <1>1, <1>3, <1>4, <1>5, <1>6, CountersType, TailType, ZenonT(60)
    DEF TypeInv, TypeOK, NodeState
<1>8. Addressed'
    BY <1>3, <1>4 DEF TypeInv, TypeOK, Addressed, Peers
<1>. QED  BY <1>7, <1>8 DEF TypeInv

\* step() on any message keeps the types.
LEMMA TypeReceive ==
    ASSUME TypeInv, NEW m \in net, Receive(m)
    PROVE  TypeInv'
<1>1. m \in Message /\ m.to \in Node /\ m.from \in Peers(m.to)
        /\ nd[m.to] \in NodeState
    BY DEF TypeInv, TypeOK, Addressed, Message
<1>. DEFINE s2 == Step(m.to, nd[m.to], m)
<1>2. /\ s2 \in NodeState
      /\ \A x \in s2.msgs :
            x \in nd[m.to].msgs \/ (x.from = m.to /\ x.to \in Peers(m.to))
    BY <1>1, StepType
<1>3. nd' = [nd EXCEPT ![m.to] = s2]
    BY DEF Receive
<1>. HIDE DEF s2
<1>4. batch' \in [Node -> Nat]
    BY <1>1, CountersType DEF Receive
<1>5. /\ UNCHANGED <<hs, tail, misread, fsm>> /\ net' \in SUBSET net
      /\ elections' \in Nat /\ beats' \in Nat /\ crashes' \in Nat
    BY DEF Receive, TypeInv, TypeOK
<1>. QED  BY <1>1, <1>2, <1>3, <1>4, <1>5, TypeNodeStep, ZenonT(60)

\* TypeInv is inductive.
LEMMA TypeNext == TypeInv /\ [Next]_vars => TypeInv'
<1>1. SUFFICES ASSUME TypeInv, [Next]_vars PROVE TypeInv'
    OBVIOUS
<1>. USE <1>1
<1>2. \A n \in Node : nd[n] \in NodeState /\ hs[n] \in HardState
    BY DEF TypeInv, TypeOK
<1>3. ASSUME NEW n \in Node, NEW s2, Quiet(n, nd[n], s2) \/ Campaigns(n, nd[n], s2)
      PROVE  /\ s2 \in NodeState
             /\ \A x \in s2.msgs :
                   x \in nd[n].msgs \/ (x.from = n /\ x.to \in Peers(n))
    BY <1>3 DEF Quiet, Campaigns, Harmless
<1>4. ASSUME NEW n \in Node, TickElection(n) PROVE TypeInv'
  <2>1. nd' = [nd EXCEPT ![n] = Campaign(n, nd[n])]
      BY <1>4 DEF TickElection
  <2>. QED  BY <1>2, <1>3, <1>4, <2>1, CampaignSteps, CountersType, TypeNodeStep, ZenonT(60)
            DEF TickElection, TypeInv, TypeOK
<1>5. ASSUME NEW n \in Node, TickHeartbeat(n) PROVE TypeInv'
  <2>1. nd' = [nd EXCEPT ![n] = BroadcastHeartbeat(n, nd[n])]
      BY <1>5 DEF TickHeartbeat
  <2>. QED  BY <1>2, <1>3, <1>5, <2>1, BroadcastQuiet, CountersType, TypeNodeStep, ZenonT(60)
            DEF TickHeartbeat, TypeInv, TypeOK
<1>6. ASSUME NEW n \in Node, ClientProposes(n) PROVE TypeInv'
  <2>1. nd' = [nd EXCEPT ![n] = Propose(n, nd[n])]
      BY <1>6 DEF ClientProposes
  <2>. QED  BY <1>2, <1>3, <1>6, <2>1, ProposeQuiet, TypeNodeStep, ZenonT(60)
            DEF ClientProposes, TypeInv, TypeOK
<1>7. ASSUME NEW n \in Node, NEW peer \in Peers(n), Unreachable(n, peer)
      PROVE  TypeInv'
  <2>1. nd' = [nd EXCEPT ![n] = StepUnreachable(nd[n], peer)] /\ peer \in Node
      BY <1>7 DEF Unreachable, Peers
  <2>. QED  BY <1>2, <1>3, <1>7, <2>1, StepUnreachableQuiet, CountersType,
               TypeNodeStep, ZenonT(60) DEF Unreachable, TypeInv, TypeOK
<1>8. ASSUME NEW n \in Node, \/ Kill(n) \/ KillInAppend(n) \/ KillInSaveHardState(n)
                             \/ KillMisread(n)
      PROVE  TypeInv'
  <2>1. /\ nd[n] \in NodeState /\ hs[n] \in HardState
        /\ {"whole", "torn", tail[n], NextTail(n)} \subseteq TailState
        /\ misread \cup {n} \in SUBSET Node
      BY TailType DEF TypeInv, TypeOK, TailState
  <2>. QED  BY <1>8, <2>1, KillRestarts, TypeRestart, ZenonT(60)
<1>9. CASE UNCHANGED vars
    BY <1>9 DEF vars, TypeInv, TypeOK, Addressed
<1>. QED  BY <1>4, <1>5, <1>6, <1>7, <1>8, <1>9, TypeReady, TypeReceive
          DEF Next, ReceiveVote, ReceiveVoteResp, ReceiveApp, ReceiveAppResp,
              ReceiveHeartbeat, ReceiveHeartbeatResp

\* Every behaviour of the cluster is well typed: no operation of RawNode,
\* RaftLog, Progress or WriteAheadLog drives an index below zero, builds a
\* malformed log or addresses a message to its sender, for any number of
\* nodes and any bounds.
THEOREM TypeCorrect == Spec => []TypeOK
<1>1. TypeInv => TypeOK
    BY DEF TypeInv
<1>. QED  BY <1>1, TypeInit, TypeNext, PTL DEF Spec

-----------------------------------------------------------------------------
(* Every step is an operation of a node, a Ready or a restart *)

\* A step that neither persists nor restarts.
Works(n, s2, K, C) ==
    /\ nd' = [nd EXCEPT ![n] = s2] /\ net' \in SUBSET net
    /\ UNCHANGED <<hs, fsm, misread>>
    /\ s2 \in NodeState /\ Moves(n, nd[n], s2, K, C)

\* A restart with what was on disk.
Reboots(n, e, h, K) ==
    /\ e \in Seq(Entry) /\ h \in HardState
    /\ Run(e, 0, 0, K) /\ \E t : Restart(n, e, h, t)
    /\ misread' = misread

\* A receive is one operation on a message in order.
LEMMA ReceiveWorks ==
    ASSUME TypeInv, NEW K, NEW C, Logs(nd, net, K, C), NEW m \in net, Receive(m)
    PROVE  Works(m.to, Step(m.to, nd[m.to], m), K, C)
<1>. DEFINE n == m.to
            s2 == Step(n, nd[n], m)
<1>1. /\ m \in Message /\ n \in Node /\ m.from \in Peers(n)
      /\ nd[n] \in NodeState
    BY DEF TypeInv, TypeOK, Addressed, Message
<1>2. NodeOK(n, nd[n], K, C) /\ MsgOK(m, K, C)
    BY <1>1 DEF Logs
<1>3. s2 \in NodeState
    BY <1>1, StepType
<1>4. /\ nd' = [nd EXCEPT ![n] = s2] /\ net' \in SUBSET net
      /\ UNCHANGED <<hs, fsm, misread>>
    BY DEF Receive
<1>5. Moves(n, nd[n], s2, K, C)
  <2>1. \/ /\ NodeOK(n, s2, K, C)
           /\ s2.log.applied = nd[n].log.applied
           /\ s2.role = "Leader" => /\ nd[n].role = "Leader"
                                    /\ s2.term = nd[n].term
                                    /\ LogKept(nd[n].log, s2.log)
        \/ /\ Grows(n, nd[n], s2, K, C \cup {<<nd[n].term, n>>})
           /\ nd[n].role = "Candidate" /\ s2.role = "Leader"
           /\ s2.term = nd[n].term
      BY <1>1, <1>2, StepOK
  <2>. HIDE DEF s2
  <2>. QED  BY <2>1 DEF Moves
<1>. HIDE DEF s2
<1>. QED  BY <1>3, <1>4, <1>5 DEF Works, s2

\* campaign, a heartbeat, a proposal and MsgUnreachable.
LEMMA TickWorks ==
    ASSUME TypeInv, NEW K, NEW C, Logs(nd, net, K, C), NEW n \in Node,
           \/ TickElection(n) \/ TickHeartbeat(n) \/ ClientProposes(n)
           \/ \E peer \in Peers(n) : Unreachable(n, peer)
    PROVE  \E s2 : Works(n, s2, K, C)
<1>1. nd[n] \in NodeState /\ NodeOK(n, nd[n], K, C)
    BY DEF TypeInv, TypeOK, Logs
<1>2. ASSUME NEW s2, s2 \in NodeState, Moves(n, nd[n], s2, K, C),
             nd' = [nd EXCEPT ![n] = s2], UNCHANGED <<hs, fsm, net, misread>>
      PROVE  Works(n, s2, K, C)
    BY <1>2 DEF Works
<1>3. ASSUME NEW s2, Quiet(n, nd[n], s2), NodeOK(n, s2, K, C),
             s2.log = nd[n].log
      PROVE  s2 \in NodeState /\ Moves(n, nd[n], s2, K, C)
    BY <1>3 DEF Quiet, Moves, LogKept
<1>4. CASE TickElection(n)
  <2>. DEFINE s2 == Campaign(n, nd[n])
              c == BecomeCandidate(n, nd[n])
  <2>1. /\ nd' = [nd EXCEPT ![n] = s2] /\ UNCHANGED <<hs, fsm, net, misread>>
        /\ nd[n].role # "Leader"
      BY <1>4 DEF TickElection
  <2>2. Campaigns(n, nd[n], s2)
      BY <1>1, CampaignSteps
  <2>3. c.term = nd[n].term + 1
      BY <1>1, BecomeCandidateOK
  <2>4. \/ Quorum # 1 /\ NodeOK(n, s2, K, C) /\ s2.log = nd[n].log
        \/ Quorum = 1 /\ Grows(n, c, s2, K, C \cup {<<c.term, n>>})
      BY <1>1, CampaignOK
  <2>. DEFINE b == [nd[n] EXCEPT !.term = @ + 1]
  <2>5. b.log = c.log /\ b.term = c.term
    <3>1. b.log = nd[n].log /\ b.term = nd[n].term + 1
        BY <1>1 DEF NodeState
    <3>. QED  BY <1>1, <3>1, BecomeCandidateOK
  <2>. HIDE DEF s2, c, b
  <2>6. Quorum = 1 => Grows(n, b, s2, K, C \cup {<<c.term, n>>})
      BY <2>4, <2>5 DEF Grows, Own
  <2>7. Moves(n, nd[n], s2, K, C)
      BY <2>1, <2>2, <2>3, <2>4, <2>6 DEF Moves, Campaigns, b
  <2>. QED  BY <1>2, <2>1, <2>2, <2>7, ZenonT(60) DEF Campaigns
<1>5. CASE TickHeartbeat(n)
  <2>1. /\ nd' = [nd EXCEPT ![n] = BroadcastHeartbeat(n, nd[n])]
        /\ UNCHANGED <<hs, fsm, net, misread>> /\ nd[n].role = "Leader"
      BY <1>5 DEF TickHeartbeat
  <2>2. Quiet(n, nd[n], BroadcastHeartbeat(n, nd[n]))
      BY <1>1, BroadcastQuiet
  <2>3. /\ NodeOK(n, BroadcastHeartbeat(n, nd[n]), K, C)
        /\ BroadcastHeartbeat(n, nd[n]).log = nd[n].log
      BY <1>1, <2>1, BroadcastOK
  <2>. QED  BY <1>2, <1>3, <2>1, <2>2, <2>3, ZenonT(60)
<1>6. CASE ClientProposes(n)
  <2>. DEFINE s2 == Propose(n, nd[n])
  <2>1. /\ nd' = [nd EXCEPT ![n] = s2]
        /\ UNCHANGED <<hs, fsm, net, misread>> /\ nd[n].role = "Leader"
      BY <1>6 DEF ClientProposes
  <2>2. Quiet(n, nd[n], s2)
      BY <1>1, ProposeQuiet
  <2>3. Grows(n, nd[n], s2, K, C)
      BY <1>1, <2>1, ProposeOK
  <2>. HIDE DEF s2
  <2>4. s2 \in NodeState /\ Moves(n, nd[n], s2, K, C)
      BY <2>1, <2>2, <2>3 DEF Moves, Quiet
  <2>. QED  BY <1>2, <2>1, <2>4, ZenonT(60)
<1>7. ASSUME NEW peer \in Peers(n), Unreachable(n, peer)
      PROVE  \E s2 : Works(n, s2, K, C)
  <2>1. /\ nd' = [nd EXCEPT ![n] = StepUnreachable(nd[n], peer)]
        /\ UNCHANGED <<hs, fsm, net, misread>> /\ peer \in Node
      BY <1>7 DEF Unreachable, Peers
  <2>2. Quiet(n, nd[n], StepUnreachable(nd[n], peer))
      BY <1>1, <2>1, StepUnreachableQuiet
  <2>3. /\ NodeOK(n, StepUnreachable(nd[n], peer), K, C)
        /\ StepUnreachable(nd[n], peer).log = nd[n].log
      BY <1>1, <2>1, UnreachableOK
  <2>. QED  BY <1>2, <1>3, <2>1, <2>2, <2>3, ZenonT(60)
<1>. QED  BY <1>4, <1>5, <1>6, <1>7

\* Every step that misreads no log is one of three: an operation of a node, a
\* Ready, or a restart with the beginning of the log that the node had.
LEMMA NextWorks ==
    ASSUME TypeInv, NEW K, NEW C, Logs(nd, net, K, C), Next, misread' = {}
    PROVE  \/ \E n \in Node : \E s2 : Works(n, s2, K, C)
           \/ \E n \in Node : Ready(n)
           \/ \E n \in Node : \E e, h : /\ Reboots(n, e, h, K)
                                        /\ "hardstate" \notin TornWrites => h = hs[n]
<1>1. \A n \in Node : nd[n] \in NodeState /\ hs[n] \in HardState
    BY DEF TypeInv, TypeOK
<1>2. ASSUME NEW n \in Node
      PROVE  /\ nd[n].log \in Log /\ LogOK(nd[n].log, K)
             /\ nd[n].log.stored \in Seq(Entry)
             /\ nd[n].log.unstable \in Seq(Entry)
             /\ Run(nd[n].log.stored, 0, 0, K)
    BY <1>1, ZenonT(60) DEF Logs, NodeOK, LogOK, NodeState, Log
<1>3. ASSUME NEW m \in net, Receive(m)
      PROVE  \E n \in Node : \E s2 : Works(n, s2, K, C)
  <2>1. m.to \in Node
      BY DEF TypeInv, TypeOK, Message
  <2>. QED  BY <1>3, <2>1, ReceiveWorks
<1>4. ASSUME NEW n \in Node, Kill(n)
      PROVE  \E e : Reboots(n, e, hs[n], K)
  <2>1. PICK e \in Replays(nd[n].log.stored) : Restart(n, e, hs[n], tail[n])
      BY <1>4 DEF Kill
  <2>2. misread' = misread
      BY <1>4 DEF Kill
  <2>3. Run(e, 0, 0, K) /\ e \in Seq(Entry)
      BY <1>2, <2>1, ReplaysOK, ReplaysType
  <2>. QED  BY <1>1, <2>1, <2>2, <2>3, ZenonT(60) DEF Reboots
<1>5. ASSUME NEW n \in Node, KillInAppend(n)
      PROVE  \E e : Reboots(n, e, hs[n], K)
  <2>1. PICK e \in TornAppends(nd[n].log.stored, nd[n].log.unstable) :
           \E t : Restart(n, e, hs[n], t)
      BY <1>5, ZenonT(60) DEF KillInAppend
  <2>2. misread' = misread
      BY <1>5 DEF KillInAppend
  <2>3. Run(e, 0, 0, K)
      BY <1>2, <2>1, TornOK
  <2>4. e \in Seq(Entry)
      BY <1>2, <2>1, AppendNoSyncType
  <2>. QED  BY <1>1, <2>1, <2>2, <2>3, <2>4, ZenonT(60) DEF Reboots
<1>6. ASSUME NEW n \in Node, KillInSaveHardState(n)
      PROVE  /\ "hardstate" \in TornWrites
             /\ \E e, h : Reboots(n, e, h, K)
  <2>. DEFINE full == AppendNoSync(nd[n].log.stored, nd[n].log.unstable)
              h == EmptyHardState(Nobody)
  <2>1. "hardstate" \in TornWrites /\ misread' = misread
      BY <1>6 DEF KillInSaveHardState
  <2>2. PICK e \in Replays(full) : Restart(n, e, h, NextTail(n))
      BY <1>6 DEF KillInSaveHardState
  <2>3. full \in Seq(Entry) /\ Run(full, 0, 0, K)
      BY <1>2, DiskOK, AppendNoSyncType
  <2>4. h \in HardState
      BY DEF EmptyHardState, HardState
  <2>. HIDE DEF full, h
  <2>5. Run(e, 0, 0, K) /\ e \in Seq(Entry)
      BY <2>2, <2>3, ReplaysOK, ReplaysType
  <2>. QED  BY <2>1, <2>2, <2>4, <2>5, ZenonT(60) DEF Reboots
<1>8. ASSUME NEW n \in Node PROVE ~KillMisread(n)
    BY <1>8 DEF KillMisread
<1>7. ASSUME NEW n \in Node, \/ TickElection(n) \/ TickHeartbeat(n)
                             \/ ClientProposes(n)
                             \/ \E peer \in Peers(n) : Unreachable(n, peer)
      PROVE  \E s2 : Works(n, s2, K, C)
    BY <1>7, TickWorks
<1>. QED  BY <1>3, <1>4, <1>5, <1>6, <1>7, <1>8
          DEF Next, ReceiveVote, ReceiveVoteResp, ReceiveApp, ReceiveAppResp,
              ReceiveHeartbeat, ReceiveHeartbeatResp

-----------------------------------------------------------------------------
(* Leaders keep their entries, logs are applied in order *)

\* Logs are numbered without gaps, and what was applied is the beginning of
\* them up to applied_.
AppliedOK ==
    /\ Logs(nd, net, AllLinks, AllClaims)
    /\ \A n \in Node :
          /\ Len(fsm[n]) = nd[n].log.applied
          /\ \A i \in 1..Len(fsm[n]) : fsm[n][i].index = i

\* No operation applies anything, and a leader keeps its entries in it.
LEMMA MovesKeep ==
    ASSUME NEW n \in Node, NEW s \in NodeState, NEW s2 \in NodeState,
           NodeOK(n, s, AllLinks, AllClaims), Moves(n, s, s2, AllLinks, AllClaims)
    PROVE  /\ NodeOK(n, s2, AllLinks, AllClaims)
           /\ s2.log.applied = s.log.applied
           /\ s.role = "Leader" /\ s2.role = "Leader" =>
                 \A i \in 1..LastIndex(s.log) : Term(s2.log, i) = Term(s.log, i)
<1>. DEFINE c == [s EXCEPT !.term = @ + 1]
<1>1. /\ s.term \in Nat /\ s.term + 1 \in Nat /\ s.log \in Log
    BY DEF NodeState
<1>2. c.log = s.log /\ c.term = s.term + 1
    BY DEF NodeState
<1>3. /\ LastIndex(s.log) + 1 \in Nat /\ LastTerm(s.log) \in Nat
    BY <1>1, IndexType DEF LastTerm
<1>4. Own(s) \in AllLinks /\ Own(c) \in AllLinks
    BY <1>1, <1>2, <1>3 DEF Own, AllLinks
<1>5. /\ AllLinks \cup {Own(s)} = AllLinks /\ AllLinks \cup {Own(c)} = AllLinks
      /\ AllClaims \cup {<<s.term, n>>} = AllClaims
      /\ AllClaims \cup {<<s.term + 1, n>>} = AllClaims
    BY <1>1, <1>4 DEF AllClaims
<1>. HIDE DEF c
<1>6. ASSUME NEW b, b \in {s, c}, Grows(n, b, s2, AllLinks, AllClaims)
      PROVE  /\ NodeOK(n, s2, AllLinks, AllClaims)
             /\ s2.log.applied = s.log.applied
             /\ \A i \in 1..LastIndex(s.log) : Term(s2.log, i) = Term(s.log, i)
  <2>1. b.log = s.log /\ AllLinks \cup {Own(b)} = AllLinks
      BY <1>2, <1>5, <1>6
  <2>. QED  BY <1>6, <2>1, LogKeptReads DEF Grows, LogKept
<1>. QED  BY <1>5, <1>6, LogKeptReads DEF Moves, c

\* Before the first step all logs are empty.
LEMMA AppliedInit == Init => AppliedOK
<1>1. SUFFICES ASSUME Init PROVE AppliedOK
    OBVIOUS
<1>. USE <1>1
<1>2. <<>> \in Seq(Entry) /\ Len(<<>>) = 0
    BY EmptySeq
<1>3. Run(<<>>, 0, 0, AllLinks)
    BY EmptyRun
<1>4. ASSUME NEW n \in Node
      PROVE  /\ nd[n] = StartNode(0, Nobody, <<>>) /\ fsm[n] = <<>>
             /\ NodeOK(n, nd[n], AllLinks, AllClaims) /\ nd[n].log.applied = 0
    BY <1>2, <1>3, StartNodeOK, ZenonT(60) DEF Init
<1>5. net = {}
    BY DEF Init
<1>. QED  BY <1>2, <1>4, <1>5 DEF AppliedOK, Logs

\* processReady applies exactly the entries that follow applied_.
LEMMA AppliedReady ==
    ASSUME TypeInv, AppliedOK, NEW n \in Node, Ready(n)
    PROVE  AppliedOK' /\ LeaderKeeps
<1>. DEFINE s == nd[n]
            disk == AppendNoSync(s.log.stored, s.log.unstable)
            s2 == [Advance(s) EXCEPT !.log.stored = disk]
            done == NextCommittedEntries(s.log)
<1>1. /\ nd \in [Node -> NodeState] /\ fsm \in [Node -> Seq(Entry)]
      /\ s \in NodeState /\ s.log \in Log /\ fsm[n] \in Seq(Entry)
    BY DEF TypeInv, TypeOK, NodeState
<1>2. /\ NodeOK(n, s, AllLinks, AllClaims) /\ LogOK(s.log, AllLinks)
      /\ Len(fsm[n]) = s.log.applied
      /\ \A i \in 1..Len(fsm[n]) : fsm[n][i].index = i
    BY DEF AppliedOK, Logs, NodeOK
<1>3. /\ nd' = [nd EXCEPT ![n] = s2] /\ net' = net \cup s.msgs
      /\ fsm' = [fsm EXCEPT ![n] = fsm[n] \o done]
    BY DEF Ready
<1>4. /\ NodeOK(n, s2, AllLinks, AllClaims)
      /\ \A i \in 1..LastIndex(s.log) : Term(s2.log, i) = Term(s.log, i)
      /\ s2.log.applied = s.log.applied + Len(done)
    BY <1>1, <1>2, ReadyOK, ZenonT(60)
<1>5. done \in Seq(Entry) /\ \A k \in 1..Len(done) : done[k].index = s.log.applied + k
    BY <1>1, <1>2, NextCommittedType, NextCommittedOK
<1>. HIDE DEF s2, done
<1>6. /\ Len(fsm[n] \o done) = s2.log.applied
      /\ \A i \in 1..Len(fsm[n] \o done) : (fsm[n] \o done)[i].index = i
  <2>. DEFINE f == fsm[n]
              k == s.log.applied
  <2>1. /\ Len(f) = k /\ Len(f) \in Nat /\ Len(done) \in Nat
        /\ Len(f \o done) = Len(f) + Len(done)
        /\ \A i \in 1..Len(f) + Len(done) :
              (f \o done)[i] = IF i <= Len(f) THEN f[i] ELSE done[i - Len(f)]
    <3>1. f \in Seq(Entry) /\ done \in Seq(Entry) /\ Len(f) = k
        BY <1>1, <1>2, <1>5
    <3>. HIDE DEF f, k
    <3>2. /\ Len(f \o done) = Len(f) + Len(done)
          /\ \A i \in 1..Len(f) + Len(done) :
                (f \o done)[i] = IF i <= Len(f) THEN f[i] ELSE done[i - Len(f)]
        BY <3>1, ConcatProperties, ZenonT(60)
    <3>3. Len(f) \in Nat /\ Len(done) \in Nat
        BY <3>1, LenProperties
    <3>. QED  BY <3>1, <3>2, <3>3
  <2>2. \A i \in 1..Len(f) : f[i].index = i
      BY <1>2
  <2>3. \A i \in 1..Len(done) : done[i].index = k + i
      BY <1>5
  <2>4. s2.log.applied = k + Len(done)
      BY <1>4
  <2>. HIDE DEF f, k
  <2>5. ASSUME NEW i \in 1..Len(f) + Len(done) PROVE (f \o done)[i].index = i
    <3>1. CASE i <= Len(f)
        BY <2>1, <2>2, <3>1
    <3>2. CASE i > Len(f)
      <4>1. i - Len(f) \in 1..Len(done) /\ ~(i <= Len(f)) /\ k + (i - Len(f)) = i
          BY <2>1, <3>2
      <4>. QED  BY <2>1, <2>3, <4>1
    <3>. QED  BY <2>1, <3>1, <3>2
  <2>. QED  BY <2>1, <2>4, <2>5 DEF f
<1>7. nd'[n] = s2 /\ \A x \in Node \ {n} : nd'[x] = nd[x] /\ fsm'[x] = fsm[x]
    BY <1>1, <1>3
<1>8. fsm'[n] = fsm[n] \o done
    BY <1>1, <1>3
<1>9. Logs(nd', net', AllLinks, AllClaims)
    BY <1>2, <1>3, <1>4, <1>7 DEF AppliedOK, Logs, NodeOK
<1>10. AppliedOK'
  <2>1. ASSUME NEW x \in Node
        PROVE  /\ Len(fsm'[x]) = nd'[x].log.applied
               /\ \A i \in 1..Len(fsm'[x]) : fsm'[x][i].index = i
    <3>1. CASE x = n
        BY <1>6, <1>7, <1>8, <3>1, ZenonT(60)
    <3>2. CASE x # n
        BY <1>7, <3>2 DEF AppliedOK
    <3>. QED  BY <3>1, <3>2
  <2>. QED  BY <1>9, <2>1 DEF AppliedOK
<1>. QED  BY <1>4, <1>7, <1>10 DEF LeaderKeeps

\* A restart begins to apply from the first entry again.
LEMMA AppliedReboot ==
    ASSUME TypeInv, AppliedOK, NEW n \in Node, NEW e, NEW h,
           Reboots(n, e, h, AllLinks)
    PROVE  AppliedOK' /\ LeaderKeeps
<1>. DEFINE s2 == StartNode(h.term, h.vote, e)
<1>1. /\ nd \in [Node -> NodeState] /\ fsm \in [Node -> Seq(Entry)]
    BY DEF TypeInv, TypeOK
<1>2. /\ h.term \in Nat /\ h.vote \in Node \cup {Nobody} /\ e \in Seq(Entry)
      /\ Run(e, 0, 0, AllLinks)
    BY DEF Reboots, HardState
<1>3. /\ nd' = [nd EXCEPT ![n] = s2] /\ net' = net
      /\ fsm' = [fsm EXCEPT ![n] = <<>>]
    BY DEF Reboots, Restart
<1>4. NodeOK(n, s2, AllLinks, AllClaims) /\ s2.log.applied = 0
    BY <1>2, StartNodeOK, ZenonT(60)
<1>5. s2.role = "Follower"
    BY DEF StartNode
<1>. HIDE DEF s2
<1>6. /\ nd'[n] = s2 /\ fsm'[n] = <<>>
      /\ \A x \in Node \ {n} : nd'[x] = nd[x] /\ fsm'[x] = fsm[x]
    BY <1>1, <1>3
<1>7. Len(<<>>) = 0
    BY EmptySeq
<1>8. AppliedOK'
    BY <1>3, <1>4, <1>6, <1>7 DEF AppliedOK, Logs
<1>. QED  BY <1>5, <1>6, <1>8 DEF LeaderKeeps

\* A step that misreads no log keeps the invariant, and leaves a leader its
\* entries.
LEMMA AppliedStep ==
    ASSUME TypeInv, AppliedOK, [Next]_vars, misread' = {}
    PROVE  AppliedOK' /\ [LeaderKeeps]_vars
<1>2. CASE UNCHANGED vars
    BY <1>2 DEF vars, AppliedOK, Logs
<1>3. ASSUME NEW n \in Node, NEW s2, Works(n, s2, AllLinks, AllClaims)
      PROVE  AppliedOK' /\ LeaderKeeps
  <2>1. /\ nd \in [Node -> NodeState] /\ nd[n] \in NodeState
        /\ NodeOK(n, nd[n], AllLinks, AllClaims)
      BY DEF TypeInv, TypeOK, AppliedOK, Logs
  <2>2. /\ nd' = [nd EXCEPT ![n] = s2] /\ net' \in SUBSET net /\ fsm' = fsm
        /\ s2 \in NodeState /\ Moves(n, nd[n], s2, AllLinks, AllClaims)
      BY <1>3 DEF Works
  <2>3. /\ NodeOK(n, s2, AllLinks, AllClaims)
        /\ s2.log.applied = nd[n].log.applied
        /\ nd[n].role = "Leader" /\ s2.role = "Leader" =>
              \A i \in 1..LastIndex(nd[n].log) : Term(s2.log, i) = Term(nd[n].log, i)
      BY <2>1, <2>2, MovesKeep
  <2>4. nd'[n] = s2 /\ \A x \in Node \ {n} : nd'[x] = nd[x]
      BY <2>1, <2>2
  <2>5. AppliedOK'
      BY <2>2, <2>3, <2>4 DEF AppliedOK, Logs
  <2>. QED  BY <2>3, <2>4, <2>5 DEF LeaderKeeps
<1>4. CASE Next
  <2>1. Logs(nd, net, AllLinks, AllClaims)
      BY DEF AppliedOK
  <2>2. \/ \E n \in Node : \E s2 : Works(n, s2, AllLinks, AllClaims)
        \/ \E n \in Node : Ready(n)
        \/ \E n \in Node : \E e, h : Reboots(n, e, h, AllLinks)
      BY <1>4, <2>1, NextWorks
  <2>. QED  BY <1>3, <2>2, AppliedReady, AppliedReboot
<1>. QED  BY <1>2, <1>4

AppliedInv == misread = {} => AppliedOK

\* misread only grows.
LEMMA MisreadStays == [Next]_vars => misread \subseteq misread'
    BY DEF vars, Next, ReceiveVote, ReceiveVoteResp, ReceiveApp, ReceiveAppResp,
           ReceiveHeartbeat, ReceiveHeartbeatResp, Receive, TickElection,
           TickHeartbeat, ClientProposes, Unreachable, Ready, Kill, KillInAppend,
           KillInSaveHardState, KillMisread

\* The invariant is inductive.
LEMMA AppliedNext ==
    TypeInv /\ AppliedInv /\ [Next]_vars => AppliedInv' /\ [LeaderKeeps]_vars
<1>1. SUFFICES ASSUME TypeInv, AppliedInv, [Next]_vars
               PROVE  AppliedInv' /\ [LeaderKeeps]_vars
    OBVIOUS
<1>. USE <1>1
<1>2. CASE misread' = {}
    BY <1>2, AppliedStep, MisreadStays DEF AppliedInv
<1>3. CASE misread' # {}
    BY <1>3 DEF AppliedInv, LeaderKeeps
<1>. QED  BY <1>2, <1>3

\* In clusters of any size, with any messages lost, duplicated or reordered and
\* any file torn by a kill, applied_ moves with the entries handed out, so that
\* each state machine is fed every index once and in order: as long as no
\* server starts on a log.bin with records behind half a one.
THEOREM AppliedInOrderHolds == Spec => []AppliedInOrder
<1>1. AppliedInv => AppliedInOrder
    BY DEF AppliedInv, AppliedOK, AppliedInOrder
<1>2. Init => AppliedInv
    BY AppliedInit DEF AppliedInv
<1>. QED  BY <1>1, <1>2, AppliedNext, TypeInit, TypeNext, PTL DEF Spec

\* Under the same conditions no step of a leader changes or loses an entry of
\* its log, persisted or not.
THEOREM LeaderAppendOnlyHolds == Spec => LeaderAppendOnly
<1>1. Init => AppliedInv
    BY AppliedInit DEF AppliedInv
<1>. QED  BY <1>1, AppliedNext, TypeInit, TypeNext, PTL DEF Spec, LeaderAppendOnly
=============================================================================
