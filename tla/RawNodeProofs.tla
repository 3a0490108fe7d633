---------------------------- MODULE RawNodeProofs ----------------------------
(***************************************************************************)
(* What the operations of RawNode may do to a node: each keeps its type,   *)
(* and each is a step of one of the kinds of RawNodeSteps.  The lemmas on  *)
(* RaftLog, Progress and WriteAheadLog come first: every operation takes   *)
(* well-typed values to well-typed values, whatever the arguments a        *)
(* message brings.                                                         *)
(***************************************************************************)
EXTENDS RawNode, RawNodeSteps, WriteAheadLog, SequenceTheorems, TLAPS

\* Zenon is quick where there is no arithmetic; the solver has time for the
\* rest, whatever the machine.  Leaves that only Zenon finds name it.
USE ZenonT(3), SMTT(60)

\* A part of a sequence between valid bounds, empty ones included, is a
\* sequence of the same elements.
LEMMA SubSeqType ==
    ASSUME NEW S, NEW s \in Seq(S), NEW m \in Int, NEW n \in Int,
           m >= 1, n <= Len(s) \/ n < m
    PROVE  SubSeq(s, m, n) \in Seq(S)
<1>1. \A i \in m..n : s[i] \in S
    BY ElementOfSeq, LenProperties
<1>. QED  BY <1>1, SubSeqProperties

\* The rest of a sequence from one of its positions on.
LEMMA SuffixType ==
    ASSUME NEW S, NEW s \in Seq(S), NEW m \in 1..Len(s)
    PROVE  SubSeq(s, m, Len(s)) \in Seq(S) /\ SubSeq(s, m, Len(s)) # <<>>
<1>1. Len(s) \in Nat /\ \A i \in m..Len(s) : s[i] \in S
    BY ElementOfSeq, LenProperties
<1>2. Len(SubSeq(s, m, Len(s))) = Len(s) - m + 1
    BY <1>1, SubSeqProperties
<1>3. Len(<<>>) = 0
    BY EmptySeq
<1>4. SubSeq(s, m, Len(s)) \in Seq(S)
    BY <1>1, SubSeqProperties
<1>5. SubSeq(s, m, Len(s)) # <<>>
    BY <1>1, <1>2, <1>3
<1>. QED  BY <1>4, <1>5

\* LastIndex and Term are naturals, whichever of the two parts answers.
LEMMA IndexType ==
    ASSUME NEW l \in Log
    PROVE  /\ LastIndex(l) \in Nat
           /\ \A i \in Int : Term(l, i) \in Nat
<1>1. LastIndex(l) \in Nat
    BY EmptySeq, LenProperties DEF Log, LastIndex
<1>2. ASSUME NEW i \in Int PROVE Term(l, i) \in Nat
  <2>1. CASE InUnstable(l, i)
    <3>1. i - l.offset + 1 \in 1..Len(l.unstable)
        BY <2>1, LenProperties DEF InUnstable, Log
    <3>2. l.unstable[i - l.offset + 1] \in Entry
        BY <3>1, ElementOfSeq DEF Log
    <3>. QED  BY <2>1, <3>2 DEF Term, Entry
  <2>2. CASE ~InUnstable(l, i)
    <3>1. i \in 1..Len(l.stored) => l.stored[i] \in Entry
        BY ElementOfSeq DEF Log
    <3>. QED  BY <2>2, <3>1 DEF Term, Entry
  <2>. QED  BY <2>1, <2>2
<1>. QED  BY <1>1, <1>2

\* The operations of LogUnstable and the commit and apply indexes.
LEMMA TruncateFromType ==
    ASSUME NEW l \in Log, NEW i \in Int
    PROVE  TruncateFrom(l, i) \in Log
<1>1. CASE i - l.offset < Len(l.unstable)
  <2>1. SubSeq(l.unstable, 1, i - l.offset) \in Seq(Entry)
    <3>1. l.unstable \in Seq(Entry) /\ l.offset \in Nat
        BY DEF Log
    <3>. QED  BY <1>1, <3>1, LenProperties, SubSeqType
  <2>. QED  BY <1>1, <2>1, ZenonT(60) DEF TruncateFrom, Log
<1>2. CASE ~(i - l.offset < Len(l.unstable))
    BY <1>2 DEF TruncateFrom
<1>. QED  BY <1>1, <1>2

\* LogUnstable::truncateAndAppend keeps a log a log, in each of its cases.
LEMMA TruncateAndAppendType ==
    ASSUME NEW l \in Log, NEW ents \in Seq(Entry), ents # <<>>
    PROVE  TruncateAndAppend(l, ents) \in Log
<1>1. ents[1] \in Entry
    BY EmptySeq, ElementOfSeq
<1>2. ents[1].index \in Nat /\ l.unstable \in Seq(Entry) /\ l.offset \in Nat
    BY <1>1 DEF Entry, Log
<1>3. CASE l.offset < ents[1].index /\ ents[1].index <= LastIndex(l) + 1
              /\ l.unstable # <<>>
  <2>1. ents[1].index - l.offset <= Len(l.unstable)
      BY <1>2, <1>3, LenProperties DEF LastIndex
  <2>2. SubSeq(l.unstable, 1, ents[1].index - l.offset) \in Seq(Entry)
      BY <1>2, <2>1, LenProperties, SubSeqType
  <2>3. SubSeq(l.unstable, 1, ents[1].index - l.offset) \o ents \in Seq(Entry)
      BY <2>2, ConcatProperties
  <2>. QED  BY <1>3, <2>3, ZenonT(60) DEF TruncateAndAppend, Log
<1>4. CASE ~(l.offset < ents[1].index /\ ents[1].index <= LastIndex(l) + 1
              /\ l.unstable # <<>>)
    BY <1>2, <1>4, ZenonT(60) DEF TruncateAndAppend, Log
<1>. QED  BY <1>3, <1>4

\* LogUnstable::stableTo keeps a log a log.
LEMMA StableToType ==
    ASSUME NEW l \in Log, NEW i \in Nat
    PROVE  StableTo(l, i) \in Log
<1>1. CASE l.unstable = <<>> \/ i < l.offset
    BY <1>1 DEF StableTo
<1>2. CASE ~(l.unstable = <<>> \/ i < l.offset)
  <2>. DEFINE rest == SubSeq(l.unstable, i + 2 - l.offset, Len(l.unstable))
  <2>. DEFINE first == i + 1
  <2>1. rest \in Seq(Entry) /\ first \in Nat
    <3>1. l.unstable \in Seq(Entry) /\ l.offset \in Nat
        BY DEF Log
    <3>. QED  BY <1>2, <3>1, LenProperties, SubSeqType
  <2>2. StableTo(l, i) = [l EXCEPT !.offset = first, !.unstable = rest]
      BY <1>2 DEF StableTo
  <2>. HIDE DEF rest, first
  <2>. QED  BY <2>1, <2>2, ZenonT(60) DEF Log
<1>. QED  BY <1>1, <1>2

\* So do commitTo, maybeCommit and appliedTo.
LEMMA CommitType ==
    ASSUME NEW l \in Log, NEW i \in Nat
    PROVE  /\ CommitTo(l, i) \in Log
           /\ \A t : MaybeCommit(l, i, t) \in Log
           /\ AppliedTo(l, i) \in Log
<1>1. LastIndex(l) \in Nat
    BY IndexType
<1>. QED  BY <1>1, ZenonT(60) DEF CommitTo, MaybeCommit, AppliedTo, Smaller, Log

\* What maybeAppend makes of entries of any shape.
LEMMA AcceptType ==
    ASSUME NEW l \in Log, NEW prev \in Nat, NEW ents \in Seq(Entry)
    PROVE  Accept(l, prev, ents) \in Log
<1>. DEFINE a == Accept(l, prev, ents)
            lastNew == prev + Len(ents)
            K == FindConflict(l, ents)
            k == CHOOSE j \in K : TRUE
<1>1. lastNew \in Nat
    BY LenProperties
<1>2. CASE K = {}
    BY <1>1, <1>2, TruncateFromType DEF Accept
<1>3. CASE K # {} /\ ents[k].index <= l.committed
    BY <1>3 DEF Accept
<1>4. CASE K # {} /\ ~(ents[k].index <= l.committed)
  <2>1. k \in K
      BY <1>4
  <2>2. k \in 1..Len(ents)
      BY <2>1 DEF FindConflict
  <2>3. /\ SubSeq(ents, k, Len(ents)) \in Seq(Entry)
        /\ SubSeq(ents, k, Len(ents)) # <<>>
      BY <2>2, SuffixType, ZenonT(60)
  <2>4. a = TruncateAndAppend(l, SubSeq(ents, k, Len(ents)))
      BY <1>4 DEF Accept
  <2>. QED  BY <2>3, <2>4, TruncateAndAppendType, ZenonT(60)
<1>. QED  BY <1>2, <1>3, <1>4

\* maybeAppend with the commit index, and the leader's own append.
LEMMA MaybeAppendType ==
    ASSUME NEW l \in Log, NEW prev \in Nat, NEW commit \in Nat,
           NEW ents \in Seq(Entry)
    PROVE  MaybeAppend(l, prev, commit, ents) \in Log
<1>. DEFINE a == Accept(l, prev, ents)
            lastNew == prev + Len(ents)
<1>1. lastNew \in Nat
    BY LenProperties
<1>2. a \in Log
    BY AcceptType
<1>3. MaybeAppend(l, prev, commit, ents)
        = IF commit > a.committed
          THEN [a EXCEPT !.committed = Smaller(commit, lastNew)] ELSE a
    BY DEF MaybeAppend
<1>4. Smaller(commit, lastNew) \in Nat
    BY <1>1 DEF Smaller
<1>. HIDE DEF a, lastNew
<1>. QED  BY <1>2, <1>3, <1>4, ZenonT(60) DEF Log

\* So does RaftLog::append.
LEMMA AppendEntriesType ==
    ASSUME NEW l \in Log, NEW ents \in Seq(Entry), ents # <<>>
    PROVE  AppendEntries(l, ents) \in Log
    BY TruncateAndAppendType DEF AppendEntries

\* A slice that does not throw is made of entries.
LEMMA SliceType ==
    ASSUME NEW l \in Log, NEW lo \in Nat, NEW hi \in Nat, lo >= 1,
           hi <= LastIndex(l) + 1 \/ lo < hi, ~SliceThrows(l, lo, hi)
    PROVE  Slice(l, lo, hi) \in Seq(Entry)
<1>. DEFINE fromStored == SubSeq(l.stored, lo, Smaller(hi, l.offset) - 1)
            from == IF lo < l.offset THEN l.offset ELSE lo
            fromUnstable ==
                IF from < hi /\ hi <= l.offset + Len(l.unstable)
                THEN SubSeq(l.unstable, from - l.offset + 1, hi - l.offset)
                ELSE <<>>
<1>1. /\ l.stored \in Seq(Entry) /\ l.unstable \in Seq(Entry)
      /\ l.offset \in Nat /\ Len(l.stored) \in Nat /\ Len(l.unstable) \in Nat
      /\ <<>> \in Seq(Entry)
    BY LenProperties, EmptySeq DEF Log
<1>2. fromUnstable \in Seq(Entry)
    BY <1>1, SubSeqType
<1>3. CASE lo < l.offset
  <2>1. Smaller(hi, l.offset) - 1 <= Len(l.stored)
           \/ Smaller(hi, l.offset) - 1 < lo
      BY <1>1, <1>3 DEF SliceThrows, Smaller
  <2>2. fromStored \in Seq(Entry)
      BY <1>1, <2>1, SubSeqType DEF Smaller
  <2>. QED  BY <1>2, <1>3, <2>2, ConcatProperties DEF Slice
<1>4. CASE ~(lo < l.offset)
  <2>1. Slice(l, lo, hi) = <<>> \o fromUnstable
      BY <1>4 DEF Slice
  <2>. QED  BY <1>1, <1>2, <2>1, ConcatProperties
<1>. QED  BY <1>3, <1>4

\* Cutting a slice to the size limit leaves entries.
LEMMA AtMostType ==
    ASSUME NEW ents \in Seq(Entry), NEW max \in Nat
    PROVE  AtMost(ents, max) \in Seq(Entry)
<1>1. Smaller(Len(ents), max) \in Int /\ Smaller(Len(ents), max) <= Len(ents)
    BY LenProperties DEF Smaller
<1>. QED  BY <1>1, SubSeqType DEF AtMost

\* nextCommittedEntries hands out entries.
LEMMA NextCommittedType ==
    ASSUME NEW l \in Log
    PROVE  NextCommittedEntries(l) \in Seq(Entry)
<1>1. l.applied \in Nat /\ l.committed \in Nat /\ <<>> \in Seq(Entry)
    BY EmptySeq DEF Log
<1>2. CASE l.committed <= l.applied
               \/ SliceThrows(l, l.applied + 1, l.committed + 1)
    BY <1>1, <1>2 DEF NextCommittedEntries
<1>3. CASE ~(l.committed <= l.applied
               \/ SliceThrows(l, l.applied + 1, l.committed + 1))
    BY <1>1, <1>3, SliceType DEF NextCommittedEntries
<1>. QED  BY <1>2, <1>3

\* The empty window.
LEMMA EmptyWindow == <<>> \in Window
<1>1. <<>> \in Seq(Nat) /\ Len(<<>>) = 0
    BY EmptySeq
<1>. QED  BY <1>1, MaxInflightAssumption DEF Window

\* freeTo leaves a window that is not longer.
LEMMA FreeToType ==
    ASSUME NEW inflights \in Window, NEW to \in Nat
    PROVE  FreeTo(inflights, to) \in Window
<1>. DEFINE first == {k \in 1..Len(inflights) :
                        /\ to < inflights[k]
                        /\ \A j \in 1..(k - 1) : inflights[j] <= to}
            k == CHOOSE j \in first : TRUE
            rest == SubSeq(inflights, k, Len(inflights))
<1>1. /\ inflights \in Seq(Nat) /\ Len(inflights) \in Nat
      /\ Len(inflights) <= MaxInflight
    BY LenProperties DEF Window
<1>2. CASE first = {}
    BY <1>2, EmptyWindow DEF FreeTo
<1>3. CASE first # {}
  <2>1. k \in first
      BY <1>3, ZenonT(60)
  <2>2. k \in 1..Len(inflights)
      BY <2>1
  <2>. HIDE DEF k
  <2>3. rest \in Seq(Nat)
      BY <1>1, <2>2, SuffixType, ZenonT(60)
  <2>4. Len(rest) = Len(inflights) - k + 1
      BY <1>1, <2>2, ElementOfSeq, SubSeqProperties
  <2>5. Len(rest) <= MaxInflight
      BY <1>1, <2>2, <2>4, MaxInflightAssumption
  <2>6. FreeTo(inflights, to) = rest
      BY <1>3, ZenonT(60) DEF FreeTo, k
  <2>. QED  BY <2>3, <2>5, <2>6 DEF Window
<1>. QED  BY <1>2, <1>3

\* Every method of Progress keeps a progress a progress.
LEMMA ProgressType ==
    ASSUME NEW pr \in PeerProgress, NEW i \in Nat, NEW j \in Nat
    PROVE  /\ ResetProgress(i) \in PeerProgress
           /\ BecomeProbe(pr) \in PeerProgress
           /\ BecomeReplicate(pr) \in PeerProgress
           /\ Update(pr, i) \in PeerProgress
           /\ MaybeDecrFromRejectHint(pr, i, j) \in PeerProgress
<1>. USE DEF PeerProgress
<1>1. <<>> \in Window
    BY EmptyWindow
<1>2. ResetProgress(i) \in PeerProgress
    BY <1>1 DEF ResetProgress
<1>3. BecomeProbe(pr) \in PeerProgress
    BY ZenonT(60) DEF BecomeProbe
<1>4. BecomeReplicate(pr) \in PeerProgress
  <2>. DEFINE next == pr.match + 1
  <2>1. next \in Nat
      OBVIOUS
  <2>2. BecomeReplicate(pr) = [pr EXCEPT !.state = "Replicate",
            !.paused = FALSE, !.next = next, !.inflights = <<>>]
      BY DEF BecomeReplicate
  <2>. HIDE DEF next
  <2>. QED  BY <1>1, <2>1, <2>2, ZenonT(60)
<1>5. Update(pr, i) \in PeerProgress
  <2>. DEFINE match == Larger(pr.match, i)
              next == i + 1
              left == FreeTo(pr.inflights, i)
              p == [pr EXCEPT !.match = match]
  <2>1. match \in Nat /\ next \in Nat /\ left \in Window
      BY FreeToType DEF Larger
  <2>2. Update(pr, i) = IF pr.state = "Replicate"
                        THEN [p EXCEPT !.next = next, !.inflights = left]
                        ELSE p
      BY DEF Update
  <2>. HIDE DEF match, next, left
  <2>. QED  BY <2>1, <2>2, ZenonT(60)
<1>6. MaybeDecrFromRejectHint(pr, i, j) \in PeerProgress
  <2>1. \A next \in Nat : [pr EXCEPT !.next = next] \in PeerProgress
      OBVIOUS
  <2>2. pr.match + 1 \in Nat /\ j + 1 \in Nat /\ Larger(i, 1) \in Nat
      BY DEF Larger
  <2>. QED  BY <2>1, <2>2 DEF MaybeDecrFromRejectHint
<1>. QED  BY <1>2, <1>3, <1>4, <1>5, <1>6

\* What replay() finds.
LEMMA ReplaysType ==
    ASSUME NEW ents \in Seq(Entry)
    PROVE  Replays(ents) \subseteq Seq(Entry)
<1>1. ASSUME NEW i \in 0..Len(ents) PROVE SubSeq(ents, 1, i) \in Seq(Entry)
    BY <1>1, LenProperties, SubSeqType
<1>. QED  BY <1>1 DEF Replays

\* What a write, whole or torn, leaves in log.bin.
LEMMA AppendNoSyncType ==
    ASSUME NEW stored \in Seq(Entry), NEW ents \in Seq(Entry)
    PROVE  /\ AppendNoSync(stored, ents) \in Seq(Entry)
           /\ TornAppends(stored, ents) \subseteq Seq(Entry)
<1>1. AppendNoSync(stored, ents) \in Seq(Entry)
  <2>1. CASE Rewrites(stored, ents)
    <3>1. ents[1] \in Entry
        BY <2>1, EmptySeq, ElementOfSeq DEF Rewrites
    <3>2. ents[1].index \in Nat
        BY <3>1 DEF Entry
    <3>3. ents[1].index - 1 < Len(stored) /\ Len(stored) \in Nat
        BY <2>1, <3>2, LenProperties DEF Rewrites
    <3>4. SubSeq(stored, 1, ents[1].index - 1) \in Seq(Entry)
      <4>1. CASE ents[1].index = 0
        <5>1. 0 - 1 \in Int /\ 1 > 0 - 1
            OBVIOUS
        <5>2. SubSeq(stored, 1, 0 - 1) = <<>>
            BY <5>1, SubSeqProperties
        <5>. QED  BY <4>1, <5>2, EmptySeq
      <4>2. CASE ents[1].index # 0
          BY <3>2, <3>3, <4>2, SubSeqType
      <4>. QED  BY <4>1, <4>2
    <3>. QED  BY <2>1, <3>4, ConcatProperties DEF AppendNoSync
  <2>2. CASE ~Rewrites(stored, ents)
      BY <2>2, ConcatProperties DEF AppendNoSync
  <2>. QED  BY <2>1, <2>2
<1>. DEFINE full == AppendNoSync(stored, ents)
            kept == IF Rewrites(stored, ents) THEN 0 ELSE Len(stored)
<1>2. ASSUME NEW k \in kept..Len(full)
      PROVE  Replays(SubSeq(full, 1, k)) \subseteq Seq(Entry)
  <2>1. SubSeq(full, 1, k) \in Seq(Entry)
      BY <1>1, LenProperties, SubSeqType
  <2>. QED  BY <2>1, ReplaysType
<1>. HIDE DEF full, kept
<1>. QED  BY <1>1, <1>2, ZenonT(60) DEF TornAppends, full, kept

-----------------------------------------------------------------------------
(* Steps of a node *)

\* Doing nothing is quiet.
LEMMA QuietRefl ==
    ASSUME NEW n, NEW s \in NodeState
    PROVE  Quiet(n, s, s)
    BY DEF Quiet

\* Quiet steps compose.
LEMMA QuietTrans ==
    ASSUME NEW n, NEW s1, NEW s2, NEW s3, Quiet(n, s1, s2), Quiet(n, s2, s3)
    PROVE  Quiet(n, s1, s3)
    BY DEF Quiet

-----------------------------------------------------------------------------
(* Quiet steps *)

\* A message with default fields is a message.
LEMMA NewMessageType ==
    ASSUME NEW n \in Node, NEW p \in Node, NEW type \in MessageType,
           NEW t \in Nat
    PROVE  NewMessage(type, n, p, t) \in Message
    BY EmptySeq DEF NewMessage, Message

\* Sending messages that grant nothing is quiet.
LEMMA SendAllQuiet ==
    ASSUME NEW n \in Node, NEW s \in NodeState, NEW ms \in SUBSET Message,
           \A m \in ms : Harmless(n, s.term, m)
    PROVE  Quiet(n, s, SendAll(s, ms))
    BY DEF Quiet, SendAll, NodeState

\* Replacing the log or the progress of the peers is quiet.
LEMMA LogQuiet ==
    ASSUME NEW n \in Node, NEW s \in NodeState, NEW l \in Log
    PROVE  Quiet(n, s, [s EXCEPT !.log = l])
    BY DEF Quiet, NodeState

\* So is replacing all of pr_,
LEMMA PrQuiet ==
    ASSUME NEW n \in Node, NEW s \in NodeState,
           NEW pr \in [Node -> PeerProgress]
    PROVE  Quiet(n, s, [s EXCEPT !.pr = pr])
    BY DEF Quiet, NodeState

\* the leader hint,
LEMMA LeadQuiet ==
    ASSUME NEW n \in Node, NEW s \in NodeState, NEW x \in Node \cup {Nobody}
    PROVE  Quiet(n, s, [s EXCEPT !.lead = x])
    BY DEF Quiet, NodeState

\* or the progress of one peer.
LEMMA PeerQuiet ==
    ASSUME NEW n \in Node, NEW s \in NodeState, NEW p \in Node,
           NEW x \in PeerProgress
    PROVE  Quiet(n, s, [s EXCEPT !.pr[p] = x])
    BY DEF Quiet, NodeState

\* What sendAppend puts into a MsgApp are entries.
LEMMA AppendSliceType ==
    ASSUME NEW s \in NodeState, NEW p \in Node, CanSendAppend(s, p)
    PROVE  AppendSlice(s, p) \in Seq(Entry)
<1>. DEFINE next == s.pr[p].next
            last == LastIndex(s.log)
<1>1. s.log \in Log /\ next \in Nat /\ last \in Nat /\ next >= 1
    BY IndexType DEF NodeState, PeerProgress, CanSendAppend, FirstIndex
<1>2. ~SliceThrows(s.log, next, last + 1)
    BY DEF CanSendAppend
<1>3. Slice(s.log, next, last + 1) \in Seq(Entry)
    BY <1>1, <1>2, SliceType
<1>. QED  BY <1>3, AtMostType, MaxEntriesAssumption DEF AppendSlice

\* The MsgApp of sendAppend is well formed and grants nothing.
LEMMA AppendMessageType ==
    ASSUME NEW n \in Node, NEW s \in NodeState, NEW p \in Peers(n),
           CanSendAppend(s, p)
    PROVE  /\ AppendMessage(n, s, p) \in Message
           /\ Harmless(n, s.term, AppendMessage(n, s, p))
<1>. DEFINE prev == s.pr[p].next - 1
            t == Term(s.log, prev)
            c == s.log.committed
            e == AppendSlice(s, p)
            base == NewMessage("MsgApp", n, p, s.term)
<1>0. /\ s.log \in Log /\ s.term \in Nat
      /\ p \in Node /\ s.pr[p] \in PeerProgress
    BY DEF NodeState, Peers
<1>1. s.log \in Log /\ s.term \in Nat /\ p \in Node /\ c \in Nat /\ prev \in Nat
  <2>1. s.pr[p].next \in Nat /\ s.pr[p].next >= 1
      BY <1>0 DEF PeerProgress, CanSendAppend, FirstIndex
  <2>2. c \in Nat
      BY <1>0 DEF Log
  <2>. QED  BY <1>0, <2>1, <2>2
<1>2. t \in Nat
    BY <1>1, IndexType
<1>3. e \in Seq(Entry)
    BY <1>1, AppendSliceType
<1>4. base \in Message
    BY <1>1, NewMessageType DEF MessageType
<1>5. base.from = n /\ base.to = p /\ base.term = s.term /\ base.type = "MsgApp"
    BY DEF NewMessage
<1>6. AppendMessage(n, s, p) = [base EXCEPT !.logTerm = t, !.index = prev,
                                            !.commit = c, !.entries = e]
    BY DEF AppendMessage
<1>. HIDE DEF prev, t, c, e, base
<1>7. AppendMessage(n, s, p) \in Message
    BY <1>1, <1>2, <1>3, <1>4, <1>6, ZenonT(60) DEF Message
<1>8. Harmless(n, s.term, AppendMessage(n, s, p))
    BY <1>4, <1>5, <1>6 DEF Harmless, Message
<1>. QED  BY <1>7, <1>8

\* sendAppend leaves the progress of the peer well formed.
LEMMA ProgressAfterAppendType ==
    ASSUME NEW s \in NodeState, NEW p \in Node, CanSendAppend(s, p)
    PROVE  ProgressAfterAppend(s, p) \in PeerProgress
<1>. DEFINE pr == s.pr[p]
            e == AppendSlice(s, p)
            last == e[Len(e)].index
            in == Append(pr.inflights, last)
<1>1. pr \in PeerProgress
    BY DEF NodeState
<1>2. CASE pr.state = "Replicate"
  <2>1. e \in Seq(Entry) /\ e # <<>>
      BY <1>2, AppendSliceType DEF CanSendAppend
  <2>2. Len(e) \in 1..Len(e)
      BY <2>1, EmptySeq, LenProperties
  <2>3. e[Len(e)] \in Entry
      BY <2>1, <2>2, ElementOfSeq
  <2>4. last \in Nat
      BY <2>3 DEF Entry
  <2>5. in \in Window
    <3>1. /\ pr.inflights \in Seq(Nat) /\ Len(pr.inflights) \in Nat
          /\ Len(pr.inflights) <= MaxInflight /\ Len(pr.inflights) # MaxInflight
        BY <1>1, <1>2, LenProperties DEF PeerProgress, Window, CanSendAppend, Full
    <3>. HIDE DEF pr, last
    <3>2. in \in Seq(Nat) /\ Len(in) = Len(pr.inflights) + 1
        BY <2>4, <3>1, AppendProperties
    <3>. QED  BY <3>1, <3>2, MaxInflightAssumption DEF Window
  <2>6. ProgressAfterAppend(s, p) = [pr EXCEPT !.inflights = in]
      BY <1>2 DEF ProgressAfterAppend
  <2>. HIDE DEF pr, in
  <2>. QED  BY <1>1, <2>5, <2>6 DEF PeerProgress
<1>3. CASE pr.state # "Replicate"
  <2>1. ProgressAfterAppend(s, p) = [pr EXCEPT !.paused = TRUE]
      BY <1>3 DEF ProgressAfterAppend
  <2>. HIDE DEF pr
  <2>. QED  BY <1>1, <2>1, ZenonT(60) DEF PeerProgress
<1>. QED  BY <1>2, <1>3

\* sendAppend does not touch role, term or vote.
LEMMA SendAppendQuiet ==
    ASSUME NEW n \in Node, NEW s \in NodeState, NEW peers \in SUBSET Peers(n)
    PROVE  Quiet(n, s, SendAppend(n, s, peers))
<1>. DEFINE now == {p \in peers : CanSendAppend(s, p)}
            ms == {AppendMessage(n, s, p) : p \in now}
            pr == [p \in Node |-> IF p \in now THEN ProgressAfterAppend(s, p)
                                  ELSE s.pr[p]]
<1>1. ms \in SUBSET Message /\ \A m \in ms : Harmless(n, s.term, m)
    BY AppendMessageType
<1>2. pr \in [Node -> PeerProgress]
    BY ProgressAfterAppendType DEF NodeState
<1>3. SendAppend(n, s, peers) = [s EXCEPT !.msgs = @ \cup ms, !.pr = pr]
    BY DEF SendAppend
<1>. HIDE DEF ms, pr
<1>. QED  BY <1>1, <1>2, <1>3, ZenonT(60) DEF Quiet, NodeState

\* Neither do broadcastAppend and broadcastHeartbeat.
LEMMA BroadcastQuiet ==
    ASSUME NEW n \in Node, NEW s \in NodeState
    PROVE  /\ Quiet(n, s, BroadcastAppend(n, s))
           /\ Quiet(n, s, BroadcastHeartbeat(n, s))
<1>1. Quiet(n, s, BroadcastAppend(n, s))
    BY SendAppendQuiet DEF BroadcastAppend
<1>2. Quiet(n, s, BroadcastHeartbeat(n, s))
  <2>. DEFINE beat(p) == [NewMessage("MsgHeartbeat", n, p, s.term)
                             EXCEPT !.commit = s.log.committed]
  <2>1. ASSUME NEW p \in Peers(n)
        PROVE  beat(p) \in Message /\ Harmless(n, s.term, beat(p))
    <3>. DEFINE base == NewMessage("MsgHeartbeat", n, p, s.term)
                c == s.log.committed
    <3>1. c \in Nat /\ s.term \in Nat /\ p \in Node
        BY DEF NodeState, Log, Peers
    <3>2. /\ base \in Message /\ base.from = n /\ base.to = p
          /\ base.term = s.term /\ base.type = "MsgHeartbeat"
        BY <3>1, NewMessageType DEF MessageType, NewMessage
    <3>3. beat(p) = [base EXCEPT !.commit = c]
        OBVIOUS
    <3>. HIDE DEF base, c, beat
    <3>. QED  BY <3>1, <3>2, <3>3 DEF Message, Harmless
  <2>. QED  BY <2>1, SendAllQuiet DEF BroadcastHeartbeat
<1>. QED  BY <1>1, <1>2

\* Nor does a leader that appends an entry of its own,
LEMMA AppendOwnQuiet ==
    ASSUME NEW n \in Node, NEW s \in NodeState
    PROVE  Quiet(n, s, AppendOwn(n, s))
<1>. DEFINE e == [index |-> LastIndex(s.log) + 1, term |-> s.term]
            l == AppendEntries(s.log, <<e>>)
            last == LastIndex(l)
            own == [s.pr[n] EXCEPT !.match = last, !.next = last + 1]
<1>1. s.log \in Log /\ s.term \in Nat /\ s.pr[n] \in PeerProgress
    BY DEF NodeState
<1>2. LastIndex(s.log) \in Nat
    BY <1>1, IndexType
<1>3. <<e>> \in Seq(Entry) /\ <<e>> # <<>>
    BY <1>1, <1>2 DEF Entry
<1>4. l \in Log
    BY <1>1, <1>3, AppendEntriesType, ZenonT(60)
<1>5. last \in Nat /\ last + 1 \in Nat
    BY <1>4, IndexType
<1>6. own \in PeerProgress
  <2>. DEFINE next == last + 1
  <2>1. own = [s.pr[n] EXCEPT !.match = last, !.next = next]
      OBVIOUS
  <2>. HIDE DEF last, next
  <2>. QED  BY <1>1, <1>5, <2>1, ZenonT(60) DEF PeerProgress, next
<1>. DEFINE s1 == [s EXCEPT !.log = l]
<1>7. AppendOwn(n, s) = [s1 EXCEPT !.pr[n] = own]
    BY <1>1, ZenonT(60) DEF AppendOwn, NodeState
<1>8. Quiet(n, s, s1)
    BY <1>4, LogQuiet
<1>. HIDE DEF s1, own
<1>9. Quiet(n, s1, AppendOwn(n, s))
    BY <1>6, <1>7, <1>8, PeerQuiet DEF Quiet
<1>. QED  BY <1>8, <1>9, QuietTrans

\* and so propose.
LEMMA ProposeQuiet ==
    ASSUME NEW n \in Node, NEW s \in NodeState
    PROVE  Quiet(n, s, Propose(n, s))
<1>1. Quiet(n, s, AppendOwn(n, s))
    BY AppendOwnQuiet
<1>2. Quiet(n, AppendOwn(n, s), Propose(n, s))
    BY <1>1, BroadcastQuiet DEF Propose, Quiet
<1>. QED  BY <1>1, <1>2, QuietTrans

\* Handling an acknowledgement, an append, a heartbeat or a stale message.
LEMMA HandleRejectQuiet ==
    ASSUME NEW n \in Node, NEW s \in NodeState, NEW m \in Message,
           m.from \in Peers(n)
    PROVE  Quiet(n, s, HandleReject(n, s, m))
<1>. DEFINE pr == BecomeProbe(MaybeDecrFromRejectHint(s.pr[m.from], m.index,
                                                      m.rejectHint))
            s1 == [s EXCEPT !.pr[m.from] = pr]
<1>1. /\ m.from \in Node /\ m.index \in Nat /\ m.rejectHint \in Nat
      /\ s.pr[m.from] \in PeerProgress
    BY DEF Message, NodeState
<1>2. pr \in PeerProgress
    BY <1>1, ProgressType
<1>3. Quiet(n, s, s1)
    BY <1>1, <1>2, PeerQuiet
<1>4. HandleReject(n, s, m) = SendAppend(n, s1, {m.from})
    BY DEF HandleReject
<1>. HIDE DEF s1
<1>5. Quiet(n, s1, HandleReject(n, s, m))
    BY <1>3, <1>4, SendAppendQuiet DEF Quiet
<1>. QED  BY <1>3, <1>5, QuietTrans

\* An accepted append may advance the commit index, and is quiet.
LEMMA HandleAcceptQuiet ==
    ASSUME NEW n \in Node, NEW s \in NodeState, NEW m \in Message,
           m.from \in Peers(n)
    PROVE  Quiet(n, s, HandleAccept(n, s, m))
<1>. DEFINE up == Update(s.pr[m.from], m.index)
            pr == IF up.state = "Probe" THEN BecomeReplicate(up) ELSE up
            s1 == [s EXCEPT !.pr[m.from] = pr]
            i == CHOOSE j \in Committable(n, s1) : TRUE
            l == MaybeCommit(s1.log, i, s1.term)
            s2 == IF Committable(n, s1) # {}
                  THEN BroadcastAppend(n, [s1 EXCEPT !.log = l]) ELSE s1
<1>1. m.from \in Node /\ m.index \in Nat /\ s.pr[m.from] \in PeerProgress
    BY DEF Message, NodeState
<1>2. up \in PeerProgress
    BY <1>1, ProgressType
<1>3. pr \in PeerProgress
    BY <1>2, ProgressType
<1>4. Quiet(n, s, s1)
    BY <1>1, <1>3, PeerQuiet
<1>5. HandleAccept(n, s, m) = SendAppend(n, s2, {m.from})
    BY DEF HandleAccept
<1>. HIDE DEF pr, s1
<1>6. s1 \in NodeState
    BY <1>4 DEF Quiet
<1>7. Quiet(n, s1, s2)
  <2>1. CASE Committable(n, s1) # {}
    <3>1. i \in Committable(n, s1)
        BY <2>1
    <3>2. s1.log \in Log /\ \A p \in Node : s1.pr[p].match \in Nat
        BY <1>6 DEF NodeState, PeerProgress
    <3>3. \A p \in Node : Match(n, s1, p) \in Nat
        BY <3>2, IndexType DEF Match
    <3>4. i \in Nat
        BY <3>1, <3>3, ZenonT(60) DEF Committable
    <3>5. l \in Log
        BY <3>2, <3>4, CommitType
    <3>6. Quiet(n, s1, [s1 EXCEPT !.log = l])
        BY <1>6, <3>5, LogQuiet
    <3>. HIDE DEF l
    <3>7. Quiet(n, [s1 EXCEPT !.log = l],
                BroadcastAppend(n, [s1 EXCEPT !.log = l]))
        BY <3>6, BroadcastQuiet, ZenonT(60) DEF Quiet
    <3>. QED  BY <2>1, <3>6, <3>7, QuietTrans
  <2>2. CASE Committable(n, s1) = {}
      BY <1>6, <2>2, QuietRefl
  <2>. QED  BY <2>1, <2>2
<1>. HIDE DEF s2
<1>8. Quiet(n, s2, HandleAccept(n, s, m))
    BY <1>5, <1>7, SendAppendQuiet DEF Quiet
<1>. QED  BY <1>4, <1>7, <1>8, QuietTrans

\* All of stepLeader is quiet.
LEMMA StepLeaderQuiet ==
    ASSUME NEW n \in Node, NEW s \in NodeState, NEW m \in Message,
           m.from \in Peers(n)
    PROVE  Quiet(n, s, StepLeader(n, s, m))
<1>1. CASE m.type = "MsgAppResp" /\ m.reject
    BY <1>1, HandleRejectQuiet DEF StepLeader
<1>2. CASE m.type = "MsgAppResp" /\ ~m.reject
    BY <1>2, HandleAcceptQuiet DEF StepLeader
<1>3. CASE m.type = "MsgHeartbeatResp"
    BY <1>3, SendAppendQuiet DEF StepLeader
<1>4. CASE m.type \notin {"MsgAppResp", "MsgHeartbeatResp"}
    BY <1>4, QuietRefl DEF StepLeader
<1>. QED  BY <1>1, <1>2, <1>3, <1>4

\* The addressing of a reply.
LEMMA ReplyBase ==
    ASSUME NEW n \in Node, NEW s \in NodeState, NEW m \in Message,
           m.from \in Peers(n), NEW type \in MessageType
    PROVE  LET base == NewMessage(type, n, m.from, s.term)
           IN  /\ base \in Message /\ base.from = n /\ base.to = m.from
               /\ base.term = s.term /\ base.type = type
<1>1. s.term \in Nat /\ m.from \in Node
    BY DEF NodeState, Message
<1>. QED  BY <1>1, NewMessageType DEF NewMessage

\* handling MsgApp as a follower is quiet,
LEMMA HandleAppQuiet ==
    ASSUME NEW n \in Node, NEW s \in NodeState, NEW m \in Message,
           m.from \in Peers(n)
    PROVE  Quiet(n, s, HandleApp(n, s, m))
<1>. DEFINE s1 == [s EXCEPT !.lead = m.from]
            l == MaybeAppend(s.log, m.index, m.commit, m.entries)
            s2 == [s1 EXCEPT !.log = l]
            base == NewMessage("MsgAppResp", n, m.from, s.term)
            acked == m.index + Len(m.entries)
            yes == [base EXCEPT !.index = acked]
            prev == m.index
            last == LastIndex(s.log)
            no == [base EXCEPT !.reject = TRUE, !.index = prev,
                               !.rejectHint = last]
<1>1. /\ m.from \in Node /\ prev \in Nat /\ m.commit \in Nat
      /\ m.entries \in Seq(Entry) /\ s.log \in Log
    BY DEF Message, NodeState
<1>2. l \in Log
    BY <1>1, MaybeAppendType
<1>3. last \in Nat /\ acked \in Nat
  <2>1. Len(m.entries) \in Nat
      BY <1>1, LenProperties
  <2>2. last \in Nat
      BY <1>1, IndexType, ZenonT(60)
  <2>. QED  BY <1>1, <2>1, <2>2
<1>4. Quiet(n, s, s1)
    BY <1>1, LeadQuiet
<1>5. Quiet(n, s1, s2)
    BY <1>2, <1>4, LogQuiet, ZenonT(60) DEF Quiet
<1>6. s1.term = s.term /\ s2.term = s.term /\ s1 \in NodeState /\ s2 \in NodeState
    BY <1>4, <1>5 DEF Quiet
<1>7. /\ yes \in Message /\ Harmless(n, s.term, yes)
      /\ no \in Message /\ Harmless(n, s.term, no)
  <2>1. /\ base \in Message /\ base.from = n /\ base.to = m.from
        /\ base.term = s.term /\ base.type = "MsgAppResp"
      BY ReplyBase DEF MessageType
  <2>. HIDE DEF base, acked, prev, last
  <2>. QED  BY <1>1, <1>3, <2>1, ZenonT(60) DEF Message, Harmless
<1>8. Quiet(n, s2, SendAll(s2, {yes})) /\ Quiet(n, s1, SendAll(s1, {no}))
  <2>. HIDE DEF s1, s2, yes, no
  <2>. QED  BY <1>6, <1>7, SendAllQuiet
<1>9. HandleApp(n, s, m) \in {SendAll(s2, {yes}), SendAll(s1, {no})}
    BY DEF HandleApp
<1>. HIDE DEF s1, s2, yes, no
<1>. QED  BY <1>4, <1>5, <1>8, <1>9, QuietTrans

\* and so is handling MsgHeartbeat.
LEMMA HandleHeartbeatQuiet ==
    ASSUME NEW n \in Node, NEW s \in NodeState, NEW m \in Message,
           m.from \in Peers(n)
    PROVE  Quiet(n, s, HandleHeartbeat(n, s, m))
<1>. DEFINE s1 == [s EXCEPT !.lead = m.from]
            l == CommitTo(s.log, m.commit)
            s2 == [s1 EXCEPT !.log = l]
            base == NewMessage("MsgHeartbeatResp", n, m.from, s.term)
<1>1. m.from \in Node /\ m.commit \in Nat /\ s.log \in Log
    BY DEF Message, NodeState
<1>2. l \in Log
    BY <1>1, CommitType
<1>3. Quiet(n, s, s1)
    BY <1>1, LeadQuiet
<1>4. Quiet(n, s1, s2)
    BY <1>2, <1>3, LogQuiet, ZenonT(60) DEF Quiet
<1>5. s2.term = s.term /\ s2 \in NodeState
    BY <1>3, <1>4 DEF Quiet
<1>6. base \in Message /\ Harmless(n, s.term, base)
    BY ReplyBase DEF MessageType, Harmless
<1>7. Quiet(n, s2, SendAll(s2, {base}))
  <2>. HIDE DEF s2, base
  <2>. QED  BY <1>5, <1>6, SendAllQuiet
<1>8. HandleHeartbeat(n, s, m) = SendAll(s2, {base})
    BY DEF HandleHeartbeat
<1>. HIDE DEF s1, s2, base
<1>. QED  BY <1>3, <1>4, <1>7, <1>8, QuietTrans

\* Refusing a message of an older term is quiet.
LEMMA RefuseStaleQuiet ==
    ASSUME NEW n \in Node, NEW s \in NodeState, NEW m \in Message,
           m.from \in Peers(n)
    PROVE  Quiet(n, s, RefuseStale(n, s, m))
<1>. DEFINE no(type) == [NewMessage(type, n, m.from, s.term)
                            EXCEPT !.reject = TRUE]
            reply(type) == SendAll(s, {no(type)})
<1>1. ASSUME NEW type \in MessageType
      PROVE  no(type) \in Message /\ Harmless(n, s.term, no(type))
  <2>. DEFINE base == NewMessage(type, n, m.from, s.term)
  <2>1. /\ base \in Message /\ base.from = n /\ base.to = m.from
        /\ base.term = s.term /\ base.type = type
      BY ReplyBase
  <2>2. no(type) = [base EXCEPT !.reject = TRUE]
      OBVIOUS
  <2>. HIDE DEF base, no
  <2>. QED  BY <2>1, <2>2, ZenonT(60) DEF Message, Harmless
<1>2. ASSUME NEW type \in MessageType
      PROVE  Quiet(n, s, reply(type))
  <2>. HIDE DEF no
  <2>. QED  BY <1>1, SendAllQuiet
<1>3. RefuseStale(n, s, m) \in
         {reply("MsgAppResp"), reply("MsgHeartbeatResp"), reply("MsgVoteResp"), s}
    BY DEF RefuseStale
<1>. HIDE DEF reply
<1>. QED  BY <1>2, <1>3, QuietRefl DEF MessageType

-----------------------------------------------------------------------------
(* Election steps *)

\* becomeFollower is a SteppedDown step when it is called for a higher term,
\* or by a candidate.
LEMMA BecomeFollowerSteps ==
    ASSUME NEW s \in NodeState, NEW t \in Nat, NEW x \in Node \cup {Nobody},
           t > s.term \/ (t = s.term /\ s.role = "Candidate")
    PROVE  SteppedDown(s, BecomeFollower(s, t, x))
    BY ZenonT(60) DEF SteppedDown, BecomeFollower, NodeState

\* becomeLeader starts with fresh progress for every peer.
LEMMA FreshProgressType ==
    ASSUME NEW n \in Node, NEW s \in NodeState
    PROVE  LET last == LastIndex(s.log)
               own  == BecomeReplicate([ResetProgress(last) EXCEPT !.match = last])
           IN  [p \in Node |-> IF p = n THEN own ELSE ResetProgress(last)]
                   \in [Node -> PeerProgress]
<1>. DEFINE last == LastIndex(s.log)
            reset == [ResetProgress(last) EXCEPT !.match = last]
            own == BecomeReplicate(reset)
            pr == [p \in Node |-> IF p = n THEN own ELSE ResetProgress(last)]
<1>1. last \in Nat
    BY IndexType DEF NodeState
<1>2. ResetProgress(last) \in PeerProgress
  <2>. HIDE DEF last
  <2>. QED  BY <1>1, EmptyWindow DEF ResetProgress, PeerProgress
<1>3. reset \in PeerProgress
  <2>. HIDE DEF last
  <2>. QED  BY <1>1, <1>2 DEF PeerProgress
<1>4. own \in PeerProgress
  <2>. HIDE DEF reset
  <2>. QED  BY <1>3, ProgressType
<1>5. pr \in [Node -> PeerProgress]
  <2>. HIDE DEF own, last
  <2>. QED  BY <1>2, <1>4
<1>. QED  BY <1>5

\* Apart from the role, becomeLeader is quiet.
LEMMA BecomeLeaderQuiet ==
    ASSUME NEW n \in Node, NEW s \in NodeState
    PROVE  Quiet(n, [s EXCEPT !.role = "Leader"], BecomeLeader(n, s))
<1>. DEFINE s0 == [s EXCEPT !.role = "Leader"]
            last == LastIndex(s.log)
            own == BecomeReplicate([ResetProgress(last) EXCEPT !.match = last])
            pr == [p \in Node |-> IF p = n THEN own ELSE ResetProgress(last)]
            s1 == [s EXCEPT !.role = "Leader", !.lead = n, !.pr = pr]
            s2 == IF last >= FirstIndex THEN AppendOwn(n, s1) ELSE s1
<1>5. pr \in [Node -> PeerProgress]
    BY FreshProgressType
<1>6. Quiet(n, s0, s1)
  <2>. HIDE DEF pr
  <2>. QED  BY <1>5, ZenonT(60) DEF Quiet, NodeState
<1>7. BecomeLeader(n, s) = BroadcastAppend(n, s2)
    BY DEF BecomeLeader
<1>. HIDE DEF s0, s1
<1>8. Quiet(n, s1, s2)
    BY <1>6, AppendOwnQuiet, QuietRefl DEF Quiet
<1>. HIDE DEF s2
<1>9. Quiet(n, s2, BecomeLeader(n, s))
    BY <1>7, <1>8, BroadcastQuiet DEF Quiet
<1>10. Quiet(n, s0, BecomeLeader(n, s))
    BY <1>6, <1>8, <1>9, QuietTrans
<1>. QED  BY <1>10 DEF s0

\* campaign is a Campaigns step.
LEMMA CampaignSteps ==
    ASSUME NEW n \in Node, NEW s \in NodeState
    PROVE  Campaigns(n, s, Campaign(n, s))
<1>. DEFINE c == BecomeCandidate(n, s)
            t == s.term + 1
<1>1. /\ c \in NodeState /\ c.role = "Candidate" /\ c.term = t
      /\ c.vote = n /\ c.votes = {n} /\ c.msgs = s.msgs
  <2>1. t \in Nat
      BY DEF NodeState
  <2>2. c = [s EXCEPT !.role = "Candidate", !.term = t, !.lead = Nobody,
                      !.vote = n, !.votes = {n}]
      BY DEF BecomeCandidate
  <2>. HIDE DEF t, c
  <2>. QED  BY <2>1, <2>2, ZenonT(60) DEF NodeState
<1>. HIDE DEF c
<1>2. CASE Quorum = 1
  <2>1. Campaign(n, s) = BecomeLeader(n, c)
      BY <1>2 DEF Campaign, c
  <2>2. Quiet(n, [c EXCEPT !.role = "Leader"], Campaign(n, s))
      BY <1>1, <2>1, BecomeLeaderQuiet
  <2>. QED  BY <1>1, <1>2, <2>2 DEF Quiet, Campaigns, NodeState
<1>3. CASE Quorum # 1
  <2>. DEFINE ask(p) == [NewMessage("MsgVote", n, p, c.term) EXCEPT
                            !.logTerm = LastTerm(c.log),
                            !.index   = LastIndex(c.log)]
              ms == {ask(p) : p \in Peers(n)}
  <2>1. ASSUME NEW p \in Peers(n)
        PROVE  ask(p) \in Message /\ Harmless(n, c.term, ask(p))
    <3>. DEFINE base == NewMessage("MsgVote", n, p, c.term)
                lt == LastTerm(c.log)
                li == LastIndex(c.log)
    <3>1. c.log \in Log /\ c.term \in Nat /\ p \in Node
        BY <1>1 DEF NodeState, Peers
    <3>2. li \in Nat
        BY <3>1, IndexType
    <3>3. lt \in Nat
        BY <3>1, <3>2, IndexType DEF LastTerm
    <3>4. /\ base \in Message /\ base.from = n /\ base.to = p
          /\ base.term = c.term /\ base.type = "MsgVote"
        BY <3>1, NewMessageType DEF MessageType, NewMessage
    <3>5. ask(p) = [base EXCEPT !.logTerm = lt, !.index = li]
        OBVIOUS
    <3>. HIDE DEF base, lt, li, ask
    <3>. QED  BY <3>2, <3>3, <3>4, <3>5, ZenonT(60) DEF Message, Harmless
  <2>2. Campaign(n, s) = SendAll(c, ms)
      BY <1>3 DEF Campaign, c
  <2>3. ms \in SUBSET Message /\ \A m \in ms : Harmless(n, c.term, m)
    <3>. HIDE DEF ask
    <3>. QED  BY <2>1
  <2>. HIDE DEF ms
  <2>4. Quiet(n, c, Campaign(n, s))
      BY <1>1, <2>2, <2>3, SendAllQuiet
  <2>. QED  BY <1>1, <2>4 DEF Quiet, Campaigns
<1>. QED  BY <1>2, <1>3

\* pollVote is quiet or counts a vote.
LEMMA PollVoteSteps ==
    ASSUME NEW n \in Node, NEW s \in NodeState, NEW m \in Message,
           m.type = "MsgVoteResp", s.role = "Candidate", m.term = s.term
    PROVE  LET s2 == PollVote(n, s, m.from, ~m.reject)
           IN  Quiet(n, s, s2) \/ Counts(n, s, m, s2)
<1>. DEFINE s2 == PollVote(n, s, m.from, ~m.reject)
            v == [s EXCEPT !.votes = @ \cup {m.from}]
<1>1. m.from \in Node
    BY DEF Message
<1>2. /\ v \in NodeState /\ v.role = s.role /\ v.term = s.term
      /\ v.vote = s.vote /\ v.votes = s.votes \cup {m.from} /\ v.msgs = s.msgs
    BY <1>1 DEF NodeState
<1>3. CASE m.from \in s.votes \/ m.reject
    BY <1>3, QuietRefl DEF PollVote
<1>4. CASE ~(m.from \in s.votes \/ m.reject)
  <2>1. s2 = IF Cardinality(v.votes) >= Quorum THEN BecomeLeader(n, v) ELSE v
      BY <1>4 DEF PollVote
  <2>. HIDE DEF v
  <2>2. CASE Cardinality(v.votes) >= Quorum
    <3>1. Quiet(n, [v EXCEPT !.role = "Leader"], s2)
        BY <1>2, <2>1, <2>2, BecomeLeaderQuiet
    <3>2. /\ s2 \in NodeState /\ s2.role = "Leader" /\ s2.term = s.term
          /\ s2.vote = s.vote /\ s2.votes = v.votes
          /\ \A x \in s2.msgs : x \in s.msgs \/ Harmless(n, s.term, x)
        BY <1>2, <3>1 DEF Quiet, NodeState
    <3>. QED  BY <1>2, <1>4, <2>2, <3>2 DEF Counts
  <2>3. CASE ~(Cardinality(v.votes) >= Quorum)
      BY <1>2, <1>4, <2>1, <2>3 DEF Counts
  <2>. QED  BY <2>2, <2>3
<1>. QED  BY <1>3, <1>4

\* Handling MsgVote as a follower is quiet or grants the vote.
LEMMA HandleVoteSteps ==
    ASSUME NEW n \in Node, NEW s \in NodeState, NEW m \in Message,
           m.from \in Peers(n), m.type = "MsgVote", s.role = "Follower",
           m.term = s.term
    PROVE  LET s2 == HandleVote(n, s, m)
           IN  Quiet(n, s, s2) \/ Grants(n, s, m, s2)
<1>. DEFINE s2 == HandleVote(n, s, m)
            base == NewMessage("MsgVoteResp", n, m.from, s.term)
            yes == [base EXCEPT !.reject = FALSE]
            no == [base EXCEPT !.reject = TRUE]
            grant == s.vote \in {Nobody, m.from} /\ LogUpToDate(s, m)
<1>1. /\ base \in Message /\ base.from = n /\ base.to = m.from
      /\ base.term = s.term /\ base.type = "MsgVoteResp"
    BY ReplyBase DEF MessageType
<1>2. CASE grant
  <2>1. s2 = [s EXCEPT !.vote = m.from, !.msgs = @ \cup {yes}]
      BY <1>2, ZenonT(60) DEF HandleVote, SendAll, NodeState
  <2>. HIDE DEF base
  <2>2. yes \in Message /\ yes.from = n /\ yes.to = m.from /\ yes.term = s.term
      BY <1>1, ZenonT(60) DEF Message
  <2>. HIDE DEF yes, s2
  <2>3. m.from \in Node
      BY DEF Message
  <2>4. Grants(n, s, m, s2)
      BY <1>2, <2>1, <2>2, <2>3, ZenonT(60) DEF Grants, NodeState
  <2>. QED  BY <2>4 DEF s2
<1>3. CASE ~grant
  <2>1. s2 = SendAll([s EXCEPT !.vote = s.vote], {no})
      BY <1>3, ZenonT(60) DEF HandleVote
  <2>2. [s EXCEPT !.vote = s.vote] = s
      BY DEF NodeState
  <2>. HIDE DEF base
  <2>3. no \in Message /\ Harmless(n, s.term, no)
      BY <1>1, ZenonT(60) DEF Message, Harmless
  <2>. HIDE DEF no
  <2>. QED  BY <2>1, <2>2, <2>3, SendAllQuiet
<1>. QED  BY <1>2, <1>3

\* Any message, in any role: perhaps a step down, then one of the kinds.
LEMMA StepKinds ==
    ASSUME NEW n \in Node, NEW s \in NodeState, NEW m \in Message,
           m.from \in Peers(n)
    PROVE  LET s2 == Step(n, s, m)
           IN  \E b \in NodeState :
                  /\ b = s \/ SteppedDown(s, b)
                  /\ b.term >= m.term
                  /\ \/ Quiet(n, b, s2)
                     \/ Grants(n, b, m, s2)
                     \/ Counts(n, b, m, s2)
<1>. DEFINE s2 == Step(n, s, m)
<1>1. m.term \in Nat /\ s.term \in Nat /\ m.from \in Node
    BY DEF Message, NodeState
<1>2. CASE m.term < s.term
  <2>1. Quiet(n, s, s2)
      BY <1>2, RefuseStaleQuiet DEF Step
  <2>. QED  BY <1>1, <1>2, <2>1
<1>3. CASE ~(m.term < s.term)
  <2>. DEFINE b == IF m.term > s.term THEN BecomeFollower(s, m.term, Nobody)
                   ELSE s
  <2>1. b \in NodeState /\ b.term = m.term /\ (b = s \/ SteppedDown(s, b))
    <3>1. CASE m.term > s.term
      <4>1. SteppedDown(s, b)
          BY <1>1, <3>1, BecomeFollowerSteps
      <4>2. b.term = m.term
          BY <3>1 DEF BecomeFollower, NodeState
      <4>. QED  BY <4>1, <4>2 DEF SteppedDown
    <3>2. CASE ~(m.term > s.term)
        BY <1>1, <1>3, <3>2
    <3>. QED  BY <3>1, <3>2
  <2>2. s2 = Dispatch(n, b, m)
      BY <1>3 DEF Step
  <2>. HIDE DEF b
  <2>3. CASE b.role = "Leader"
    <3>1. Quiet(n, b, s2)
        BY <2>1, <2>2, <2>3, StepLeaderQuiet DEF Dispatch
    <3>. QED  BY <1>1, <2>1, <3>1
  <2>4. CASE b.role = "Follower"
    <3>1. s2 = StepFollower(n, b, m)
        BY <2>2, <2>4 DEF Dispatch
    <3>2. Quiet(n, b, s2) \/ Grants(n, b, m, s2)
        BY <2>1, <2>4, <3>1, HandleAppQuiet, HandleHeartbeatQuiet,
           HandleVoteSteps, QuietRefl DEF StepFollower
    <3>. QED  BY <1>1, <2>1, <3>2
  <2>5. CASE b.role = "Candidate"
    <3>1. s2 = StepCandidate(n, b, m)
        BY <2>2, <2>5 DEF Dispatch
    <3>2. CASE m.type = "MsgVoteResp"
      <4>1. Quiet(n, b, s2) \/ Counts(n, b, m, s2)
          BY <2>1, <2>5, <3>1, <3>2, PollVoteSteps DEF StepCandidate
      <4>. QED  BY <1>1, <2>1, <4>1
    <3>3. CASE m.type \in {"MsgApp", "MsgHeartbeat"}
      <4>. DEFINE c == BecomeFollower(b, m.term, m.from)
      <4>1. s2 = StepFollower(n, c, m)
          BY <3>1, <3>3 DEF StepCandidate
      <4>2. b = s /\ c.term = m.term
          BY <2>1, <2>5 DEF SteppedDown, BecomeFollower, NodeState
      <4>3. SteppedDown(s, c)
          BY <1>1, <2>1, <2>5, <4>2, BecomeFollowerSteps
      <4>. HIDE DEF c
      <4>4. c \in NodeState
          BY <4>3 DEF SteppedDown
      <4>5. Quiet(n, c, s2)
          BY <3>3, <4>1, <4>4, HandleAppQuiet, HandleHeartbeatQuiet
             DEF StepFollower
      <4>. QED  BY <1>1, <4>2, <4>3, <4>4, <4>5
    <3>4. CASE m.type \notin {"MsgVoteResp", "MsgApp", "MsgHeartbeat"}
      <4>1. Quiet(n, b, s2)
          BY <2>1, <3>1, <3>4, QuietRefl DEF StepCandidate
      <4>. QED  BY <1>1, <2>1, <4>1
    <3>. QED  BY <3>2, <3>3, <3>4
  <2>. QED  BY <2>1, <2>3, <2>4, <2>5 DEF NodeState
<1>. QED  BY <1>2, <1>3


-----------------------------------------------------------------------------
(* What the server loop needs *)

\* A step keeps the node's type, and what it sends goes from n to a peer.
LEMMA StepType ==
    ASSUME NEW n \in Node, NEW s \in NodeState, NEW m \in Message,
           m.from \in Peers(n)
    PROVE  /\ Step(n, s, m) \in NodeState
           /\ \A x \in Step(n, s, m).msgs :
                 x \in s.msgs \/ (x.from = n /\ x.to \in Peers(n))
<1>. DEFINE s2 == Step(n, s, m)
<1>1. PICK b \in NodeState :
         /\ b = s \/ SteppedDown(s, b)
         /\ Quiet(n, b, s2) \/ Grants(n, b, m, s2) \/ Counts(n, b, m, s2)
    BY StepKinds
<1>2. b.msgs = s.msgs
    BY <1>1 DEF SteppedDown
<1>. HIDE DEF s2
<1>3. s2 \in NodeState
    BY <1>1 DEF Quiet, Grants, Counts
<1>4. \A x \in s2.msgs : x \in s.msgs \/ (x.from = n /\ x.to \in Peers(n))
    BY <1>1, <1>2 DEF Quiet, Grants, Counts, Harmless
<1>. QED  BY <1>3, <1>4 DEF s2

\* An unreachable report touches the progress of one peer only.
LEMMA StepUnreachableQuiet ==
    ASSUME NEW n \in Node, NEW s \in NodeState, NEW p \in Node
    PROVE  Quiet(n, s, StepUnreachable(s, p))
<1>. DEFINE pr == BecomeProbe(s.pr[p])
<1>1. pr \in PeerProgress
    BY ProgressType DEF NodeState
<1>2. StepUnreachable(s, p) = [s EXCEPT !.pr[p] = pr]
    BY DEF StepUnreachable, NodeState
<1>. HIDE DEF pr
<1>. QED  BY <1>1, <1>2, PeerQuiet

\* A restarted node is a follower with the term and the vote of the disk.
LEMMA StartNodeType ==
    ASSUME NEW t \in Nat, NEW v \in Node \cup {Nobody}, NEW e \in Seq(Entry)
    PROVE  LET s == StartNode(t, v, e)
           IN  /\ s \in NodeState /\ s.role = "Follower" /\ s.term = t
               /\ s.vote = v /\ s.msgs = {}
<1>1. OpenLog(e) \in Log
    BY EmptySeq DEF OpenLog, Log, FirstIndex
<1>2. ResetProgress(0) \in PeerProgress
    BY EmptyWindow DEF ResetProgress, PeerProgress
<1>. QED  BY <1>1, <1>2 DEF StartNode, NodeState

\* A Ready leaves role, term and votes alone and empties the outbox.
LEMMA ReadyType ==
    ASSUME NEW s \in NodeState, NEW stored \in Seq(Entry)
    PROVE  LET s2 == [Advance(s) EXCEPT !.log.stored = stored]
           IN  /\ s2 \in NodeState
               /\ s2.role = s.role /\ s2.term = s.term
               /\ s2.vote = s.vote /\ s2.votes = s.votes
               /\ s2.msgs = {}
<1>. DEFINE ents == s.log.unstable
            done == NextCommittedEntries(s.log)
            l == IF ents = <<>> THEN s.log
                 ELSE StableTo(s.log, ents[Len(ents)].index)
            l2 == IF done = <<>> THEN l ELSE AppliedTo(l, done[Len(done)].index)
            l3 == [l2 EXCEPT !.stored = stored]
<1>1. s.log \in Log /\ ents \in Seq(Entry) /\ done \in Seq(Entry)
    BY NextCommittedType DEF NodeState, Log
<1>2. ASSUME NEW e \in Seq(Entry), e # <<>> PROVE e[Len(e)].index \in Nat
  <2>1. e[Len(e)] \in Entry
      BY <1>2, EmptySeq, ElementOfSeq, LenProperties
  <2>. QED  BY <2>1 DEF Entry
<1>. HIDE DEF done
<1>3. l \in Log
    BY <1>1, <1>2, StableToType
<1>. HIDE DEF l
<1>4. l2 \in Log
    BY <1>1, <1>2, <1>3, CommitType
<1>5. Advance(s) = [s EXCEPT !.msgs = {}, !.log = l2]
    BY DEF Advance, l, done
<1>. HIDE DEF l2
<1>6. l3 \in Log
    BY <1>4 DEF Log
<1>7. [Advance(s) EXCEPT !.log.stored = stored]
         = [s EXCEPT !.msgs = {}, !.log = l3]
    BY <1>5, ZenonT(60) DEF NodeState
<1>. HIDE DEF l3
<1>. QED  BY <1>6, <1>7, ZenonT(60) DEF NodeState
=============================================================================
