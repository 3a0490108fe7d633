---------------------------- MODULE NodeLogProofs ----------------------------
(***************************************************************************)
(* What the operations of RawNode do to the log, and which leader a node   *)
(* names or speaks for.  A leader's own append adds one link, winning an   *)
(* election adds one claim; everything else passes on what was there.      *)
(***************************************************************************)
EXTENDS LogProofs

\* Zenon is quick where there is no arithmetic; the solver has time for the
\* rest, whatever the machine.  Leaves that only Zenon finds name it.
USE ZenonT(3), SMTT(60)

\* More links and claims do no harm.
LEMMA NodeOKMore ==
    ASSUME NEW n, NEW s, NEW K, NEW C, NEW K2, NEW C2, K \subseteq K2,
           C \subseteq C2
    PROVE  /\ NodeOK(n, s, K, C) => NodeOK(n, s, K2, C2)
           /\ \A m : MsgOK(m, K, C) => MsgOK(m, K2, C2)
<1>1. \A m : MsgOK(m, K, C) => MsgOK(m, K2, C2)
    BY RunMore DEF MsgOK
<1>. QED  BY <1>1, LogOKMore DEF NodeOK

\* A log with the same entries reads the same.
LEMMA LogKeptReads ==
    ASSUME NEW l, NEW l2, LogKept(l, l2)
    PROVE  /\ \A K : LogOK(l, K) => LogOK(l2, K)
           /\ LastIndex(l2) = LastIndex(l)
           /\ \A i : Term(l2, i) = Term(l, i)
           /\ LastTerm(l2) = LastTerm(l)
    BY DEF LogKept, LogOK, LastIndex, Term, InUnstable, LastTerm

-----------------------------------------------------------------------------
(* Leaders *)

\* Sending messages in order.
LEMMA SendAllOK ==
    ASSUME NEW n, NEW s \in NodeState, NEW K, NEW C, NodeOK(n, s, K, C),
           NEW ms, \A m \in ms : MsgOK(m, K, C)
    PROVE  NodeOK(n, SendAll(s, ms), K, C) /\ SendAll(s, ms).log = s.log
    BY DEF SendAll, NodeOK, NodeState

\* A message that claims nothing and carries no entries.
LEMMA OtherOK ==
    ASSUME NEW m, NEW K, NEW C, m.type \notin {"MsgApp", "MsgHeartbeat"}
    PROVE  MsgOK(m, K, C)
    BY DEF MsgOK

\* sendAppend slices its own log.
LEMMA AppendMessageOK ==
    ASSUME NEW n \in Node, NEW s \in NodeState, NEW K, NEW C,
           NodeOK(n, s, K, C), s.role = "Leader", NEW p \in Peers(n),
           CanSendAppend(s, p)
    PROVE  MsgOK(AppendMessage(n, s, p), K, C)
<1>. DEFINE next == s.pr[p].next
            prev == next - 1
            last == LastIndex(s.log)
            t == Term(s.log, prev)
            c == s.log.committed
            slice == Slice(s.log, next, last + 1)
            e == AppendSlice(s, p)
            base == NewMessage("MsgApp", n, p, s.term)
            m == AppendMessage(n, s, p)
<1>1. s.log \in Log /\ s.term \in Nat /\ LogOK(s.log, K) /\ <<s.term, n>> \in C
    BY DEF NodeState, NodeOK
<1>2. next \in Nat /\ next >= 1
    BY DEF NodeState, PeerProgress, Peers, CanSendAppend, FirstIndex
<1>3. last \in Nat /\ ~SliceThrows(s.log, next, last + 1)
    BY <1>1, IndexType DEF CanSendAppend
<1>4. /\ Run(slice, prev, t, K) /\ slice \in Seq(Entry)
      /\ slice # <<>> => next < last + 1
    BY <1>1, <1>2, <1>3, SliceOK
<1>5. Len(slice) \in Nat /\ prev \in Nat
    BY <1>2, <1>4, LenProperties
<1>6. e = SubSeq(slice, 1, Smaller(Len(slice), MaxEntries))
    BY DEF AppendSlice, AtMost
<1>. HIDE DEF slice
<1>7. Run(e, prev, t, K)
  <2>1. Smaller(Len(slice), MaxEntries) \in Int
          /\ Smaller(Len(slice), MaxEntries) <= Len(slice)
      BY <1>5, MaxEntriesAssumption DEF Smaller
  <2>. HIDE DEF e, prev, t
  <2>. QED  BY <1>4, <1>5, <1>6, <2>1, RunPrefix, ZenonT(60)
<1>8. e # <<>> => slice # <<>>
  <2>1. SUFFICES ASSUME slice = <<>> PROVE e = <<>>
      OBVIOUS
  <2>2. Smaller(Len(slice), MaxEntries) = 0
      BY <2>1, EmptySeq, MaxEntriesAssumption DEF Smaller
  <2>. QED  BY <1>6, <2>2, SubSeqProperties
<1>9. e # <<>> /\ prev >= 1 => t >= 1
  <2>1. SUFFICES ASSUME e # <<>>, prev >= 1 PROVE t >= 1
      OBVIOUS
  <2>2. prev \in Nat /\ prev <= last
      BY <1>2, <1>3, <1>4, <1>8, <2>1
  <2>. HIDE DEF prev
  <2>. QED  BY <1>1, <2>1, <2>2, LogLinks, ZenonT(60)
<1>10. m = [base EXCEPT !.logTerm = t, !.index = prev, !.commit = c, !.entries = e]
    BY DEF AppendMessage
<1>11. /\ m.type = "MsgApp" /\ m.entries = e /\ m.index = prev /\ m.logTerm = t
       /\ m.term = s.term /\ m.from = n
  <2>. HIDE DEF t, prev, c, e, m
  <2>. QED  BY <1>10 DEF base, NewMessage
<1>. HIDE DEF t, prev, c, e, m
<1>. QED  BY <1>1, <1>7, <1>9, <1>11 DEF MsgOK, m

\* A leader's messages are in order: sendAppend,
LEMMA SendAppendOK ==
    ASSUME NEW n \in Node, NEW s \in NodeState, NEW K, NEW C,
           NodeOK(n, s, K, C), s.role = "Leader", NEW peers \in SUBSET Peers(n)
    PROVE  /\ NodeOK(n, SendAppend(n, s, peers), K, C)
           /\ SendAppend(n, s, peers).log = s.log
<1>. DEFINE now == {p \in peers : CanSendAppend(s, p)}
            ms == {AppendMessage(n, s, p) : p \in now}
            pr == [p \in Node |-> IF p \in now THEN ProgressAfterAppend(s, p)
                                  ELSE s.pr[p]]
<1>1. \A m \in ms : MsgOK(m, K, C)
    BY AppendMessageOK
<1>2. SendAppend(n, s, peers) = [s EXCEPT !.msgs = @ \cup ms, !.pr = pr]
    BY DEF SendAppend
<1>. HIDE DEF ms, pr
<1>. QED  BY <1>1, <1>2 DEF NodeOK, NodeState

\* broadcastAppend and broadcastHeartbeat.
LEMMA BroadcastOK ==
    ASSUME NEW n \in Node, NEW s \in NodeState, NEW K, NEW C,
           NodeOK(n, s, K, C), s.role = "Leader"
    PROVE  /\ NodeOK(n, BroadcastAppend(n, s), K, C)
           /\ BroadcastAppend(n, s).log = s.log
           /\ NodeOK(n, BroadcastHeartbeat(n, s), K, C)
           /\ BroadcastHeartbeat(n, s).log = s.log
<1>1. /\ NodeOK(n, BroadcastAppend(n, s), K, C)
      /\ BroadcastAppend(n, s).log = s.log
    BY SendAppendOK DEF BroadcastAppend
<1>. DEFINE beat(p) == [NewMessage("MsgHeartbeat", n, p, s.term)
                            EXCEPT !.commit = s.log.committed]
            ms == {beat(p) : p \in Peers(n)}
<1>2. \A p \in Peers(n) : /\ beat(p).type = "MsgHeartbeat"
                          /\ beat(p).term = s.term /\ beat(p).from = n
    BY DEF NewMessage
<1>3. <<s.term, n>> \in C
    BY DEF NodeOK
<1>4. \A m \in ms : MsgOK(m, K, C)
  <2>. HIDE DEF beat
  <2>. QED  BY <1>2, <1>3 DEF MsgOK
<1>5. BroadcastHeartbeat(n, s) = SendAll(s, ms)
    BY DEF BroadcastHeartbeat
<1>. HIDE DEF ms
<1>. QED  BY <1>1, <1>4, <1>5, SendAllOK

\* The leader's own append.
LEMMA AppendOwnOK ==
    ASSUME NEW n \in Node, NEW s \in NodeState, NEW K, NEW C,
           NodeOK(n, s, K, C), s.role = "Leader"
    PROVE  Grows(n, s, AppendOwn(n, s), K, C)
<1>. DEFINE e == [index |-> LastIndex(s.log) + 1, term |-> s.term]
            l == AppendEntries(s.log, <<e>>)
            s2 == AppendOwn(n, s)
<1>1. s.log \in Log /\ s.term \in Nat /\ s.term >= 1 /\ LogOK(s.log, K)
    BY DEF NodeState, NodeOK
<1>2. /\ s2.log = l /\ s2.role = s.role /\ s2.term = s.term /\ s2.lead = s.lead
      /\ s2.msgs = s.msgs
    BY DEF AppendOwn, NodeState
<1>3. \/ l = s.log
      \/ /\ LogOK(l, K \cup {Own(s)})
         /\ LastIndex(l) = LastIndex(s.log) + 1
         /\ l.applied = s.log.applied
         /\ \A i \in 1..LastIndex(s.log) : Term(l, i) = Term(s.log, i)
    BY <1>1, AppendEntryOK DEF Own
<1>. HIDE DEF l, s2
<1>4. CASE l = s.log
  <2>1. NodeOK(n, s2, K, C)
      BY <1>2, <1>4 DEF NodeOK
  <2>. QED  BY <1>2, <1>4, <2>1 DEF Grows, LogKept, s2
<1>5. CASE LogOK(l, K \cup {Own(s)}) /\ l # s.log
  <2>1. NodeOK(n, s, K \cup {Own(s)}, C)
      BY NodeOKMore
  <2>2. NodeOK(n, s2, K \cup {Own(s)}, C)
      BY <1>2, <1>5, <2>1 DEF NodeOK
  <2>. QED  BY <1>2, <1>3, <1>5, <2>2 DEF Grows, s2
<1>. QED  BY <1>3, <1>4, <1>5

\* What grows goes on to send.
LEMMA GrowsThenSends ==
    ASSUME NEW n \in Node, NEW s, NEW s1 \in NodeState, NEW K, NEW C,
           Grows(n, s, s1, K, C), s1.role = "Leader"
    PROVE  Grows(n, s, BroadcastAppend(n, s1), K, C)
<1>. DEFINE s2 == BroadcastAppend(n, s1)
<1>1. \A L : NodeOK(n, s1, L, C) => NodeOK(n, s2, L, C) /\ s2.log = s1.log
    BY BroadcastOK
<1>. HIDE DEF s2
<1>. QED  BY <1>1 DEF Grows, s2

\* propose appends and sends.
LEMMA ProposeOK ==
    ASSUME NEW n \in Node, NEW s \in NodeState, NEW K, NEW C,
           NodeOK(n, s, K, C), s.role = "Leader"
    PROVE  Grows(n, s, Propose(n, s), K, C)
<1>1. Grows(n, s, AppendOwn(n, s), K, C)
    BY AppendOwnOK
<1>2. AppendOwn(n, s) \in NodeState /\ AppendOwn(n, s).role = "Leader"
    BY AppendOwnQuiet DEF Quiet
<1>. QED  BY <1>1, <1>2, GrowsThenSends DEF Propose

\* A rejected append is answered with an earlier slice,
LEMMA HandleRejectOK ==
    ASSUME NEW n \in Node, NEW s \in NodeState, NEW K, NEW C,
           NodeOK(n, s, K, C), s.role = "Leader", NEW m \in Message,
           m.from \in Peers(n)
    PROVE  /\ NodeOK(n, HandleReject(n, s, m), K, C)
           /\ HandleReject(n, s, m).log = s.log
<1>. DEFINE pr == BecomeProbe(MaybeDecrFromRejectHint(s.pr[m.from], m.index,
                                                      m.rejectHint))
            s1 == [s EXCEPT !.pr[m.from] = pr]
<1>1. /\ m.from \in Node /\ m.index \in Nat /\ m.rejectHint \in Nat
      /\ s.pr[m.from] \in PeerProgress
    BY DEF Message, NodeState
<1>2. pr \in PeerProgress
    BY <1>1, ProgressType, ZenonT(60)
<1>3. s1 \in NodeState
    BY <1>1, <1>2, PeerQuiet DEF Quiet
<1>. HIDE DEF pr
<1>4. NodeOK(n, s1, K, C) /\ s1.role = "Leader" /\ s1.log = s.log
    BY DEF NodeOK, NodeState
<1>5. HandleReject(n, s, m) = SendAppend(n, s1, {m.from})
    BY DEF HandleReject, pr
<1>. HIDE DEF s1
<1>. QED  BY <1>3, <1>4, <1>5, SendAppendOK

\* and an accepted one may commit.
LEMMA HandleAcceptOK ==
    ASSUME NEW n \in Node, NEW s \in NodeState, NEW K, NEW C,
           NodeOK(n, s, K, C), s.role = "Leader", NEW m \in Message,
           m.from \in Peers(n)
    PROVE  /\ NodeOK(n, HandleAccept(n, s, m), K, C)
           /\ LogKept(s.log, HandleAccept(n, s, m).log)
<1>. DEFINE up == Update(s.pr[m.from], m.index)
            pr == IF up.state = "Probe" THEN BecomeReplicate(up) ELSE up
            s1 == [s EXCEPT !.pr[m.from] = pr]
            i == CHOOSE j \in Committable(n, s1) : TRUE
            l == MaybeCommit(s1.log, i, s1.term)
            sc == [s1 EXCEPT !.log = l]
            s2 == IF Committable(n, s1) # {} THEN BroadcastAppend(n, sc) ELSE s1
<1>1. m.from \in Node /\ m.index \in Nat /\ s.pr[m.from] \in PeerProgress
    BY DEF Message, NodeState
<1>2. up \in PeerProgress
    BY <1>1, ProgressType, ZenonT(60)
<1>3. pr \in PeerProgress
    BY <1>2, ProgressType
<1>4. s1 \in NodeState
    BY <1>1, <1>3, PeerQuiet DEF Quiet
<1>5. HandleAccept(n, s, m) = SendAppend(n, s2, {m.from})
    BY DEF HandleAccept
<1>. HIDE DEF pr
<1>6. NodeOK(n, s1, K, C) /\ s1.role = "Leader" /\ s1.log = s.log
    BY DEF NodeOK, NodeState
<1>. HIDE DEF s1
<1>7. /\ s2 \in NodeState /\ s2.role = "Leader" /\ NodeOK(n, s2, K, C)
      /\ LogKept(s.log, s2.log)
  <2>1. CASE Committable(n, s1) # {}
    <3>1. i \in Committable(n, s1)
        BY <2>1
    <3>2. s1.log \in Log /\ \A p \in Node : s1.pr[p].match \in Nat
        BY <1>4 DEF NodeState, PeerProgress
    <3>3. \A p \in Node : Match(n, s1, p) \in Nat
        BY <3>2, IndexType DEF Match
    <3>4. i \in Nat
        BY <3>1, <3>3, ZenonT(60) DEF Committable
    <3>. HIDE DEF i
    <3>5. l \in Log
        BY <3>2, <3>4, CommitType
    <3>6. /\ l.stored = s1.log.stored /\ l.offset = s1.log.offset
          /\ l.unstable = s1.log.unstable
          /\ l = AppliedTo(s1.log, i) \/ l.applied = s1.log.applied
        BY <3>2, <3>4, CommitOK
    <3>7. l.applied = s1.log.applied
        BY <3>2 DEF MaybeCommit, Log
    <3>. HIDE DEF l
    <3>8. /\ sc \in NodeState /\ sc.role = "Leader" /\ sc.log = l
          /\ NodeOK(n, sc, K, C)
      <4>1. LogOK(l, K)
          BY <1>6, <3>6, SameEntriesOK DEF NodeOK
      <4>. QED  BY <1>4, <1>6, <3>5, <4>1 DEF NodeOK, NodeState
    <3>. HIDE DEF sc
    <3>9. s2 = BroadcastAppend(n, sc)
        BY <2>1
    <3>10. Quiet(n, sc, s2)
        BY <3>8, <3>9, BroadcastQuiet
    <3>11. NodeOK(n, s2, K, C) /\ s2.log = l
        BY <3>8, <3>9, BroadcastOK
    <3>. QED  BY <1>6, <3>6, <3>7, <3>8, <3>10, <3>11 DEF Quiet, LogKept
  <2>2. CASE Committable(n, s1) = {}
      BY <1>4, <1>6, <2>2 DEF LogKept
  <2>. QED  BY <2>1, <2>2
<1>. HIDE DEF s2
<1>. QED  BY <1>5, <1>7, SendAppendOK

\* A leader's log does not change when it steps a message of its term.
LEMMA StepLeaderOK ==
    ASSUME NEW n \in Node, NEW s \in NodeState, NEW K, NEW C,
           NodeOK(n, s, K, C), s.role = "Leader", NEW m \in Message,
           m.from \in Peers(n)
    PROVE  /\ NodeOK(n, StepLeader(n, s, m), K, C)
           /\ LogKept(s.log, StepLeader(n, s, m).log)
<1>. DEFINE s2 == StepLeader(n, s, m)
<1>1. LogKept(s.log, s.log)
    BY DEF LogKept
<1>2. CASE m.type = "MsgAppResp" /\ m.reject
    BY <1>1, <1>2, HandleRejectOK DEF StepLeader
<1>3. CASE m.type = "MsgAppResp" /\ ~m.reject
    BY <1>3, HandleAcceptOK DEF StepLeader
<1>4. CASE m.type = "MsgHeartbeatResp"
  <2>1. s2 = SendAppend(n, s, {m.from})
      BY <1>4 DEF StepLeader
  <2>. HIDE DEF s2
  <2>. QED  BY <1>1, <2>1, SendAppendOK DEF s2
<1>5. CASE m.type \notin {"MsgAppResp", "MsgHeartbeatResp"}
  <2>1. s2 = s
      BY <1>5 DEF StepLeader
  <2>. QED  BY <1>1, <2>1
<1>. QED  BY <1>2, <1>3, <1>4, <1>5

-----------------------------------------------------------------------------
(* Followers and candidates *)

\* handleAppendEntries takes entries that continue the log.
LEMMA HandleAppOK ==
    ASSUME NEW n \in Node, NEW s \in NodeState, NEW K, NEW C,
           NodeOK(n, s, K, C), NEW m \in Message, MsgOK(m, K, C),
           m.type = "MsgApp", m.term = s.term
    PROVE  /\ NodeOK(n, HandleApp(n, s, m), K, C)
           /\ HandleApp(n, s, m).log.applied = s.log.applied
<1>. DEFINE base == NewMessage("MsgAppResp", n, m.from, s.term)
            l == MaybeAppend(s.log, m.index, m.commit, m.entries)
            ok == [s EXCEPT !.lead = m.from, !.log = l]
            yes == [base EXCEPT !.index = m.index + Len(m.entries)]
            no == [base EXCEPT !.reject = TRUE, !.index = m.index,
                               !.rejectHint = LastIndex(s.log)]
<1>1. /\ m.from \in Node /\ m.index \in Nat /\ m.commit \in Nat
      /\ m.entries \in Seq(Entry) /\ s.log \in Log
    BY DEF Message, NodeState
<1>2. <<s.term, m.from>> \in C
    BY DEF MsgOK
<1>3. MsgOK(yes, K, C) /\ MsgOK(no, K, C)
  <2>1. yes.type = "MsgAppResp" /\ no.type = "MsgAppResp"
      BY DEF NewMessage
  <2>. QED  BY <2>1, OtherOK, ZenonT(60)
<1>4. CASE MatchesPrev(s.log, m.index, m.logTerm)
  <2>1. /\ Run(m.entries, m.index, Term(s.log, m.index), K)
        /\ m.entries # <<>> /\ m.index >= 1 => Term(s.log, m.index) >= 1
      BY <1>4 DEF MsgOK, MatchesPrev
  <2>2. l \in Log
      BY <1>1, MaybeAppendType
  <2>3. LogOK(l, K) /\ l.applied = s.log.applied
      BY <1>1, <2>1, MaybeAppendOK DEF NodeOK
  <2>. HIDE DEF l
  <2>4. ok \in NodeState /\ NodeOK(n, ok, K, C) /\ ok.log = l
      BY <1>1, <1>2, <2>2, <2>3, ZenonT(60) DEF NodeOK, NodeState
  <2>5. HandleApp(n, s, m) = SendAll(ok, {yes})
      BY <1>4 DEF HandleApp, l
  <2>. HIDE DEF ok, yes
  <2>. QED  BY <1>3, <2>3, <2>4, <2>5, SendAllOK
<1>5. CASE ~MatchesPrev(s.log, m.index, m.logTerm)
  <2>. DEFINE b == [s EXCEPT !.lead = m.from]
  <2>1. b \in NodeState /\ NodeOK(n, b, K, C) /\ b.log = s.log
      BY <1>1, <1>2 DEF NodeOK, NodeState
  <2>2. HandleApp(n, s, m) = SendAll(b, {no})
      BY <1>5 DEF HandleApp
  <2>. HIDE DEF b, no
  <2>. QED  BY <1>3, <2>1, <2>2, SendAllOK
<1>. QED  BY <1>4, <1>5

\* handleHeartbeat only commits.
LEMMA HandleHeartbeatOK ==
    ASSUME NEW n \in Node, NEW s \in NodeState, NEW K, NEW C,
           NodeOK(n, s, K, C), NEW m \in Message, MsgOK(m, K, C),
           m.type = "MsgHeartbeat", m.term = s.term
    PROVE  /\ NodeOK(n, HandleHeartbeat(n, s, m), K, C)
           /\ HandleHeartbeat(n, s, m).log.applied = s.log.applied
<1>. DEFINE reply == NewMessage("MsgHeartbeatResp", n, m.from, s.term)
            l == CommitTo(s.log, m.commit)
            b == [s EXCEPT !.lead = m.from, !.log = l]
<1>1. m.from \in Node /\ m.commit \in Nat /\ s.log \in Log
    BY DEF Message, NodeState
<1>2. <<s.term, m.from>> \in C
    BY DEF MsgOK
<1>3. MsgOK(reply, K, C)
    BY DEF NewMessage, MsgOK
<1>4. l \in Log
    BY <1>1, CommitType
<1>5. /\ l.stored = s.log.stored /\ l.offset = s.log.offset
      /\ l.unstable = s.log.unstable
    BY <1>1, CommitOK
<1>6. l.applied = s.log.applied
    BY <1>1 DEF CommitTo, Log
<1>. HIDE DEF l
<1>7. b \in NodeState /\ NodeOK(n, b, K, C) /\ b.log = l
  <2>1. LogOK(l, K)
      BY <1>5, SameEntriesOK DEF NodeOK
  <2>. QED  BY <1>1, <1>2, <1>4, <2>1, ZenonT(60) DEF NodeOK, NodeState
<1>8. HandleHeartbeat(n, s, m) = SendAll(b, {reply})
    BY DEF HandleHeartbeat, l
<1>. HIDE DEF b, reply
<1>. QED  BY <1>3, <1>6, <1>7, <1>8, SendAllOK

\* Votes do not touch the log.
LEMMA HandleVoteOK ==
    ASSUME NEW n \in Node, NEW s \in NodeState, NEW K, NEW C,
           NodeOK(n, s, K, C), NEW m \in Message
    PROVE  /\ NodeOK(n, HandleVote(n, s, m), K, C)
           /\ HandleVote(n, s, m).log = s.log
<1>. DEFINE grant == s.vote \in {Nobody, m.from} /\ LogUpToDate(s, m)
            b == [s EXCEPT !.vote = IF grant THEN m.from ELSE s.vote]
            reply == [NewMessage("MsgVoteResp", n, m.from, s.term)
                          EXCEPT !.reject = ~grant]
<1>1. MsgOK(reply, K, C)
  <2>. HIDE DEF grant
  <2>. QED  BY DEF NewMessage, MsgOK
<1>2. b \in NodeState /\ NodeOK(n, b, K, C) /\ b.log = s.log
  <2>1. m.from \in Node
      BY DEF Message
  <2>. HIDE DEF grant
  <2>. QED  BY <2>1 DEF NodeOK, NodeState
<1>3. HandleVote(n, s, m) = SendAll(b, {reply})
    BY DEF HandleVote
<1>. HIDE DEF b, reply
<1>. QED  BY <1>1, <1>2, <1>3, SendAllOK

\* Nor does the refusal of a stale message.
LEMMA RefuseStaleOK ==
    ASSUME NEW n \in Node, NEW s \in NodeState, NEW K, NEW C,
           NodeOK(n, s, K, C), NEW m \in Message
    PROVE  /\ NodeOK(n, RefuseStale(n, s, m), K, C)
           /\ RefuseStale(n, s, m).log = s.log
<1>. DEFINE reply(type) == [NewMessage(type, n, m.from, s.term)
                                EXCEPT !.reject = TRUE]
            replies == {"MsgAppResp", "MsgHeartbeatResp", "MsgVoteResp"}
<1>1. \A type \in replies : MsgOK(reply(type), K, C)
    BY DEF NewMessage, MsgOK
<1>2. \/ RefuseStale(n, s, m) = s
      \/ \E type \in replies : RefuseStale(n, s, m) = SendAll(s, {reply(type)})
    BY DEF RefuseStale
<1>. HIDE DEF reply
<1>. QED  BY <1>1, <1>2, SendAllOK

\* becomeFollower drops every claim but the one it is told of.
LEMMA BecomeFollowerOK ==
    ASSUME NEW n \in Node, NEW s \in NodeState, NEW K, NEW C,
           NodeOK(n, s, K, C), NEW t \in Nat, NEW x \in Node \cup {Nobody},
           x # Nobody => <<t, x>> \in C
    PROVE  LET b == BecomeFollower(s, t, x)
           IN  /\ b \in NodeState /\ NodeOK(n, b, K, C) /\ b.log = s.log
               /\ b.term = t /\ b.role = "Follower"
    BY ZenonT(60) DEF BecomeFollower, NodeOK, NodeState

\* A follower's log changes by the leader's messages only.
LEMMA StepFollowerOK ==
    ASSUME NEW n \in Node, NEW s \in NodeState, NEW K, NEW C,
           NodeOK(n, s, K, C), NEW m \in Message, MsgOK(m, K, C),
           m.term = s.term
    PROVE  /\ NodeOK(n, StepFollower(n, s, m), K, C)
           /\ StepFollower(n, s, m).log.applied = s.log.applied
<1>1. CASE m.type = "MsgApp"
    BY <1>1, HandleAppOK DEF StepFollower
<1>2. CASE m.type = "MsgHeartbeat"
    BY <1>2, HandleHeartbeatOK DEF StepFollower
<1>3. CASE m.type = "MsgVote"
    BY <1>3, HandleVoteOK DEF StepFollower
<1>4. CASE m.type \notin {"MsgApp", "MsgHeartbeat", "MsgVote"}
    BY <1>4 DEF StepFollower
<1>. QED  BY <1>1, <1>2, <1>3, <1>4

\* It stays a follower.
LEMMA StepFollowerRole ==
    ASSUME NEW n \in Node, NEW s \in NodeState, NEW m \in Message,
           m.from \in Peers(n), s.role = "Follower", m.term = s.term
    PROVE  StepFollower(n, s, m).role = "Follower"
<1>1. CASE m.type = "MsgApp"
    BY <1>1, HandleAppQuiet DEF StepFollower, Quiet
<1>2. CASE m.type = "MsgHeartbeat"
    BY <1>2, HandleHeartbeatQuiet DEF StepFollower, Quiet
<1>3. CASE m.type = "MsgVote"
    BY <1>3, HandleVoteSteps DEF StepFollower, Quiet, Grants
<1>4. CASE m.type \notin {"MsgApp", "MsgHeartbeat", "MsgVote"}
    BY <1>4 DEF StepFollower
<1>. QED  BY <1>1, <1>2, <1>3, <1>4

-----------------------------------------------------------------------------
(* Elections *)

\* Growth is about log and term only.
LEMMA GrowsFrom ==
    ASSUME NEW n, NEW s, NEW b, NEW s2, NEW K, NEW C, b.log = s.log,
           b.term = s.term, Grows(n, b, s2, K, C)
    PROVE  Grows(n, s, s2, K, C)
    BY DEF Grows, Own

\* becomeLeader claims the term and appends the no-op.
LEMMA BecomeLeaderOK ==
    ASSUME NEW n \in Node, NEW s \in NodeState, NEW K, NEW C,
           NodeOK(n, s, K, C), s.term >= 1
    PROVE  Grows(n, s, BecomeLeader(n, s), K, C \cup {<<s.term, n>>})
<1>. DEFINE D == C \cup {<<s.term, n>>}
            last == LastIndex(s.log)
            own == BecomeReplicate([ResetProgress(last) EXCEPT !.match = last])
            pr == [p \in Node |-> IF p = n THEN own ELSE ResetProgress(last)]
            s1 == [s EXCEPT !.role = "Leader", !.lead = n, !.pr = pr]
            s2 == IF last >= FirstIndex THEN AppendOwn(n, s1) ELSE s1
<1>1. pr \in [Node -> PeerProgress]
    BY FreshProgressType
<1>2. NodeOK(n, s, K, D)
    BY NodeOKMore
<1>3. BecomeLeader(n, s) = BroadcastAppend(n, s2)
    BY DEF BecomeLeader
<1>. HIDE DEF pr
<1>4. /\ s1 \in NodeState /\ s1.role = "Leader" /\ s1.term = s.term
      /\ s1.lead = n /\ s1.log = s.log /\ s1.msgs = s.msgs
    BY <1>1, ZenonT(60) DEF NodeState
<1>. HIDE DEF s1
<1>5. NodeOK(n, s1, K, D)
    BY <1>2, <1>4 DEF NodeOK
<1>6. s2 \in NodeState /\ s2.role = "Leader"
    BY <1>4, AppendOwnQuiet DEF Quiet
<1>7. Grows(n, s1, s2, K, D)
  <2>1. CASE last >= FirstIndex
      BY <1>4, <1>5, <2>1, AppendOwnOK
  <2>2. CASE ~(last >= FirstIndex)
      BY <1>5, <2>2 DEF Grows, LogKept
  <2>. QED  BY <2>1, <2>2
<1>. HIDE DEF s2, D
<1>8. Grows(n, s1, BecomeLeader(n, s), K, D)
    BY <1>3, <1>6, <1>7, GrowsThenSends
<1>. QED  BY <1>4, <1>8, GrowsFrom DEF D

\* becomeCandidate claims nothing.
LEMMA BecomeCandidateOK ==
    ASSUME NEW n \in Node, NEW s \in NodeState, NEW K, NEW C,
           NodeOK(n, s, K, C)
    PROVE  LET c == BecomeCandidate(n, s)
           IN  /\ c \in NodeState /\ NodeOK(n, c, K, C)
               /\ c.log = s.log /\ c.term = s.term + 1 /\ c.term >= 1
<1>. DEFINE c == BecomeCandidate(n, s)
<1>1. /\ c \in NodeState /\ c.role = "Candidate" /\ c.lead = Nobody
      /\ c.log = s.log /\ c.term = s.term + 1 /\ c.msgs = s.msgs
  <2>. DEFINE t == s.term + 1
  <2>1. t \in Nat /\ s.term \in Nat
      BY DEF NodeState
  <2>2. c = [s EXCEPT !.role = "Candidate", !.term = t, !.lead = Nobody,
                      !.vote = n, !.votes = {n}]
      BY DEF BecomeCandidate, NodeState
  <2>. HIDE DEF c, t
  <2>3. /\ c \in NodeState /\ c.role = "Candidate" /\ c.lead = Nobody
        /\ c.log = s.log /\ c.term = t /\ c.msgs = s.msgs
      BY <2>1, <2>2, ZenonT(60) DEF NodeState
  <2>. QED  BY <2>3 DEF t
<1>2. c.term >= 1
  <2>1. s.term \in Nat
      BY DEF NodeState
  <2>. HIDE DEF c
  <2>. QED  BY <1>1, <2>1
<1>. HIDE DEF c
<1>3. NodeOK(n, c, K, C)
    BY <1>1, <1>2 DEF NodeOK
<1>. QED  BY <1>1, <1>2, <1>3 DEF c

\* campaign sends requests, or leads at once in a cluster of one.
LEMMA CampaignOK ==
    ASSUME NEW n \in Node, NEW s \in NodeState, NEW K, NEW C,
           NodeOK(n, s, K, C)
    PROVE  LET c  == BecomeCandidate(n, s)
               s2 == Campaign(n, s)
           IN  \/ Quorum # 1 /\ NodeOK(n, s2, K, C) /\ s2.log = s.log
               \/ Quorum = 1 /\ Grows(n, c, s2, K, C \cup {<<c.term, n>>})
<1>. DEFINE c == BecomeCandidate(n, s)
            request(p) == [NewMessage("MsgVote", n, p, c.term) EXCEPT
                              !.logTerm = LastTerm(c.log),
                              !.index   = LastIndex(c.log)]
            ms == {request(p) : p \in Peers(n)}
<1>1. c \in NodeState /\ NodeOK(n, c, K, C) /\ c.log = s.log /\ c.term >= 1
    BY BecomeCandidateOK
<1>2. \A m \in ms : MsgOK(m, K, C)
  <2>. HIDE DEF c
  <2>. QED  BY ZenonT(60) DEF NewMessage, MsgOK
<1>3. CASE Quorum = 1
  <2>1. Campaign(n, s) = BecomeLeader(n, c)
      BY <1>3 DEF Campaign
  <2>. HIDE DEF c
  <2>2. Grows(n, c, Campaign(n, s), K, C \cup {<<c.term, n>>})
      BY <1>1, <2>1, BecomeLeaderOK
  <2>. QED  BY <1>3, <2>2 DEF c
<1>4. CASE Quorum # 1
  <2>1. Campaign(n, s) = SendAll(c, ms)
      BY <1>4 DEF Campaign
  <2>. HIDE DEF c, ms
  <2>. QED  BY <1>1, <1>2, <1>4, <2>1, SendAllOK
<1>. QED  BY <1>3, <1>4

\* pollVote counts the vote, and with the quorum's last one leads.
LEMMA PollVoteOK ==
    ASSUME NEW n \in Node, NEW s \in NodeState, NEW K, NEW C,
           NodeOK(n, s, K, C), s.role = "Candidate", NEW from \in Node,
           NEW granted
    PROVE  LET s2 == PollVote(n, s, from, granted)
           IN  \/ NodeOK(n, s2, K, C) /\ s2.log = s.log /\ s2.role = "Candidate"
               \/ /\ Grows(n, s, s2, K, C \cup {<<s.term, n>>})
                  /\ s2.role = "Leader" /\ s2.term = s.term
<1>. DEFINE v == [s EXCEPT !.votes = @ \cup {from}]
            s2 == PollVote(n, s, from, granted)
<1>1. /\ v \in NodeState /\ v.log = s.log /\ v.term = s.term
      /\ v.role = s.role /\ NodeOK(n, v, K, C) /\ v.term >= 1
    BY DEF NodeState, NodeOK
<1>2. s2 = s \/ s2 = v \/ s2 = BecomeLeader(n, v)
    BY DEF PollVote
<1>. HIDE DEF v
<1>3. /\ BecomeLeader(n, v).role = "Leader"
      /\ BecomeLeader(n, v).term = v.term
  <2>1. Quiet(n, [v EXCEPT !.role = "Leader"], BecomeLeader(n, v))
      BY <1>1, BecomeLeaderQuiet
  <2>. QED  BY <1>1, <2>1 DEF Quiet, NodeState
<1>4. Grows(n, v, BecomeLeader(n, v), K, C \cup {<<v.term, n>>})
    BY <1>1, BecomeLeaderOK
<1>5. Grows(n, s, BecomeLeader(n, v), K, C \cup {<<s.term, n>>})
    BY <1>1, <1>4, GrowsFrom
<1>. HIDE DEF s2
<1>. QED  BY <1>1, <1>2, <1>3, <1>5 DEF s2

-----------------------------------------------------------------------------
(* step, and what the server does around it *)

\* A step passes on the links and claims it was given; a leader that stays
\* one keeps its log.  Otherwise it won its election.
LEMMA StepOK ==
    ASSUME NEW n \in Node, NEW s \in NodeState, NEW K, NEW C,
           NodeOK(n, s, K, C), NEW m \in Message, MsgOK(m, K, C),
           m.from \in Peers(n)
    PROVE  LET s2 == Step(n, s, m)
           IN  \/ /\ NodeOK(n, s2, K, C)
                  /\ s2.log.applied = s.log.applied
                  /\ s2.role = "Leader" => /\ s.role = "Leader"
                                           /\ s2.term = s.term
                                           /\ LogKept(s.log, s2.log)
               \/ /\ Grows(n, s, s2, K, C \cup {<<s.term, n>>})
                  /\ s.role = "Candidate" /\ s2.role = "Leader"
                  /\ s2.term = s.term
<1>. DEFINE s2 == Step(n, s, m)
            down == BecomeFollower(s, m.term, Nobody)
<1>1. s.term \in Nat /\ m.term \in Nat /\ m.from \in Node
    BY DEF NodeState, Message
<1>2. CASE m.term < s.term
  <2>1. s2 = RefuseStale(n, s, m)
      BY <1>2 DEF Step
  <2>2. Quiet(n, s, s2)
      BY <2>1, RefuseStaleQuiet
  <2>. HIDE DEF s2
  <2>3. NodeOK(n, s2, K, C) /\ s2.log = s.log
      BY <2>1, RefuseStaleOK
  <2>. QED  BY <2>2, <2>3 DEF Quiet, LogKept, s2
<1>3. CASE m.term > s.term
  <2>1. /\ down \in NodeState /\ NodeOK(n, down, K, C) /\ down.log = s.log
        /\ down.term = m.term /\ down.role = "Follower"
      BY <1>1, ZenonT(60) DEF BecomeFollower, NodeOK, NodeState
  <2>2. s2 = Dispatch(n, down, m)
      BY <1>1, <1>3 DEF Step
  <2>. HIDE DEF s2, down
  <2>3. s2 = StepFollower(n, down, m)
      BY <2>1, <2>2 DEF Dispatch
  <2>4. NodeOK(n, s2, K, C) /\ s2.log.applied = s.log.applied
      BY <2>1, <2>3, StepFollowerOK
  <2>5. s2.role = "Follower"
      BY <2>1, <2>3, StepFollowerRole
  <2>. QED  BY <2>4, <2>5 DEF s2
<1>4. CASE m.term = s.term
  <2>1. s2 = Dispatch(n, s, m)
      BY <1>1, <1>4 DEF Step
  <2>. HIDE DEF s2
  <2>2. CASE s.role = "Leader"
    <3>1. s2 = StepLeader(n, s, m)
        BY <2>1, <2>2 DEF Dispatch
    <3>2. Quiet(n, s, s2)
        BY <3>1, StepLeaderQuiet
    <3>3. NodeOK(n, s2, K, C) /\ LogKept(s.log, s2.log)
        BY <2>2, <3>1, StepLeaderOK
    <3>. QED  BY <2>2, <3>2, <3>3 DEF Quiet, LogKept, s2
  <2>3. CASE s.role = "Follower"
    <3>1. s2 = StepFollower(n, s, m)
        BY <2>1, <2>3 DEF Dispatch
    <3>2. NodeOK(n, s2, K, C) /\ s2.log.applied = s.log.applied
        BY <1>4, <3>1, StepFollowerOK
    <3>3. s2.role = "Follower"
        BY <1>4, <2>3, <3>1, StepFollowerRole
    <3>. QED  BY <3>2, <3>3 DEF s2
  <2>4. CASE s.role = "Candidate"
    <3>1. s2 = StepCandidate(n, s, m)
        BY <2>1, <2>4 DEF Dispatch
    <3>2. CASE m.type = "MsgVoteResp"
      <4>1. s2 = PollVote(n, s, m.from, ~m.reject)
          BY <3>1, <3>2 DEF StepCandidate
      <4>2. \/ /\ NodeOK(n, s2, K, C) /\ s2.log = s.log
               /\ s2.role = "Candidate"
            \/ /\ Grows(n, s, s2, K, C \cup {<<s.term, n>>})
               /\ s2.role = "Leader" /\ s2.term = s.term
          BY <1>1, <2>4, <4>1, PollVoteOK
      <4>. QED  BY <2>4, <4>2 DEF s2
    <3>3. CASE m.type \in {"MsgApp", "MsgHeartbeat"}
      <4>. DEFINE b == BecomeFollower(s, m.term, m.from)
      <4>1. <<m.term, m.from>> \in C
          BY <3>3 DEF MsgOK
      <4>2. /\ b \in NodeState /\ NodeOK(n, b, K, C) /\ b.log = s.log
            /\ b.term = m.term /\ b.role = "Follower"
          BY <1>1, <4>1, BecomeFollowerOK
      <4>3. s2 = StepFollower(n, b, m)
          BY <3>1, <3>3 DEF StepCandidate
      <4>. HIDE DEF b
      <4>4. NodeOK(n, s2, K, C) /\ s2.log.applied = s.log.applied
          BY <4>2, <4>3, StepFollowerOK
      <4>5. s2.role = "Follower"
          BY <4>2, <4>3, StepFollowerRole
      <4>. QED  BY <4>4, <4>5 DEF s2
    <3>4. CASE m.type \notin {"MsgVoteResp", "MsgApp", "MsgHeartbeat"}
      <4>1. s2 = s
          BY <3>1, <3>4 DEF StepCandidate
      <4>. QED  BY <2>4, <4>1 DEF s2
    <3>. QED  BY <3>2, <3>3, <3>4
  <2>. QED  BY <2>2, <2>3, <2>4 DEF NodeState
<1>. QED  BY <1>1, <1>2, <1>3, <1>4

\* MsgUnreachable only pauses a peer.
LEMMA UnreachableOK ==
    ASSUME NEW n \in Node, NEW s \in NodeState, NEW K, NEW C,
           NodeOK(n, s, K, C), NEW p \in Node
    PROVE  /\ NodeOK(n, StepUnreachable(s, p), K, C)
           /\ StepUnreachable(s, p).log = s.log
    BY DEF StepUnreachable, NodeOK, NodeState

\* A restarted node has what is on its disk.
LEMMA StartNodeOK ==
    ASSUME NEW n \in Node, NEW t \in Nat, NEW v \in Node \cup {Nobody},
           NEW e \in Seq(Entry), NEW K, NEW C, Run(e, 0, 0, K)
    PROVE  /\ NodeOK(n, StartNode(t, v, e), K, C)
           /\ StartNode(t, v, e).log.applied = 0
    BY DEF StartNode, NodeOK, OpenLog, LogOK, FirstIndex

\* Persisting and advancing keep every entry, and move applied_ past what was
\* handed out.
LEMMA ReadyOK ==
    ASSUME NEW n \in Node, NEW s \in NodeState, NEW K, NEW C,
           NodeOK(n, s, K, C)
    PROVE  LET disk == AppendNoSync(s.log.stored, s.log.unstable)
               s2   == [Advance(s) EXCEPT !.log.stored = disk]
               done == NextCommittedEntries(s.log)
           IN  /\ NodeOK(n, s2, K, C)
               /\ LastIndex(s2.log) = LastIndex(s.log)
               /\ \A i \in 1..LastIndex(s.log) :
                     Term(s2.log, i) = Term(s.log, i)
               /\ s2.log.applied = s.log.applied + Len(done)
<1>. DEFINE disk == AppendNoSync(s.log.stored, s.log.unstable)
            s2 == [Advance(s) EXCEPT !.log.stored = disk]
            ents == s.log.unstable
            done == NextCommittedEntries(s.log)
            l == IF ents = <<>> THEN s.log
                 ELSE StableTo(s.log, ents[Len(ents)].index)
            l2 == IF done = <<>> THEN l ELSE AppliedTo(l, done[Len(done)].index)
            l3 == [l2 EXCEPT !.stored = disk]
<1>1. /\ s.log \in Log /\ LogOK(s.log, K) /\ ents \in Seq(Entry)
      /\ s.log.stored \in Seq(Entry) /\ done \in Seq(Entry)
    BY NextCommittedType DEF NodeState, NodeOK, Log
<1>2. disk \in Seq(Entry)
    BY <1>1, AppendNoSyncType
<1>3. ASSUME NEW e \in Seq(Entry), e # <<>> PROVE e[Len(e)].index \in Nat
  <2>1. e[Len(e)] \in Entry
      BY <1>3, EmptySeq, ElementOfSeq, LenProperties
  <2>. QED  BY <2>1 DEF Entry
<1>4. /\ \A k \in 1..Len(done) : done[k].index = s.log.applied + k
      /\ done # <<>> => s.log.applied + Len(done) <= s.log.committed
    BY <1>1, NextCommittedOK
<1>5. Advance(s) = [s EXCEPT !.msgs = {}, !.log = l2]
    BY DEF Advance
<1>. HIDE DEF done, disk
<1>6. /\ l \in Log /\ l.unstable = <<>> /\ l.applied = s.log.applied
      /\ l.committed = s.log.committed
    BY <1>1, <1>3, StableToType, StableToLast
<1>. HIDE DEF l
<1>7. l2 \in Log /\ l2.unstable = <<>>
  <2>1. CASE done = <<>>
      BY <1>6, <2>1
  <2>2. CASE done # <<>>
    <3>1. done[Len(done)].index \in Nat
        BY <1>1, <1>3, <2>2
    <3>. QED  BY <1>6, <2>2, <3>1, CommitType, CommitOK, ZenonT(60)
  <2>. QED  BY <2>1, <2>2
<1>8. l2.applied = s.log.applied + Len(done)
  <2>1. l.applied \in Nat /\ l.committed \in Nat /\ Len(done) \in Nat
      BY <1>1, <1>6, LenProperties DEF Log
  <2>2. CASE done = <<>>
      BY <1>6, <2>1, <2>2, EmptySeq
  <2>3. CASE done # <<>>
    <3>1. Len(done) >= 1
        BY <1>1, <2>1, <2>3, EmptySeq
    <3>2. done[Len(done)].index = s.log.applied + Len(done)
        BY <1>4, <2>1, <3>1
    <3>3. l2 = AppliedTo(l, l.applied + Len(done))
        BY <1>6, <2>3, <3>2
    <3>4. l.applied + Len(done) <= l.committed
        BY <1>4, <1>6, <2>3
    <3>. HIDE DEF l2
    <3>5. l2 = [l EXCEPT !.applied = l.applied + Len(done)]
        BY <2>1, <3>3, <3>4 DEF AppliedTo
    <3>. QED  BY <1>6, <3>5 DEF Log, l2
  <2>. QED  BY <2>2, <2>3
<1>. HIDE DEF l2
<1>9. /\ l3 \in Log /\ l3.unstable = <<>> /\ l3.stored = disk
      /\ l3.applied = l2.applied
    BY <1>2, <1>7 DEF Log
<1>10. s2 = [s EXCEPT !.msgs = {}, !.log = l3]
    BY <1>5, ZenonT(60) DEF NodeState
<1>. HIDE DEF l3
<1>11. /\ LogOK(l3, K) /\ LastIndex(l3) = LastIndex(s.log)
       /\ \A i \in 1..LastIndex(s.log) : Term(l3, i) = Term(s.log, i)
    BY <1>1, <1>9, StableOK DEF disk
<1>12. s2.log = l3 /\ NodeOK(n, s2, K, C)
  <2>. HIDE DEF s2
  <2>1. /\ s2.log = l3 /\ s2.role = s.role /\ s2.term = s.term
        /\ s2.lead = s.lead /\ s2.msgs = {}
      BY <1>10 DEF NodeState
  <2>. QED  BY <1>11, <2>1 DEF NodeOK
<1>. HIDE DEF s2
<1>. QED  BY <1>8, <1>9, <1>11, <1>12 DEF s2, done, disk
=============================================================================
