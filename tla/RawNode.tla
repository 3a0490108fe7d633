------------------------------- MODULE RawNode -------------------------------
(***************************************************************************)
(* raft::RawNode, the deterministic Raft core of one node: tick, step,     *)
(* propose, poll and advance as operators on the node's state.  Each       *)
(* operator is a member function; n is id_.                                *)
(*                                                                         *)
(* Left out because nothing in the program reaches it: PreVote (no caller  *)
(* of becomePreCandidate), MsgTimeoutNow, MsgTransferLeader, learners,     *)
(* ConfChange, snapshots (see RaftLog), and MsgPropose / MsgReadIndex      *)
(* (no sender; their term 0 would be refused as stale).  ReadIndex         *)
(* contexts are left out: no MsgHeartbeatResp carries one.  Timers are     *)
(* left out: a randomised timeout may fire at any tick.                    *)
(***************************************************************************)
EXTENDS RaftTypes

CONSTANT MaxEntries     \* maxSizePerMsg, in entries

ASSUME MaxEntriesAssumption == MaxEntries \in Nat \ {0}

\* A message with the defaults of struct Message.
NewMessage(type, from, to, term) ==
    [type |-> type, from |-> from, to |-> to, term |-> term, logTerm |-> 0,
     index |-> 0, commit |-> 0, entries |-> <<>>, reject |-> FALSE,
     rejectHint |-> 0]

\* The constructor: term and vote from the hard state, the log from disk.
\* The hard state's commit index is not used.
StartNode(term, vote, entries) ==
    [role |-> "Follower", term |-> term, vote |-> vote, lead |-> Nobody,
     votes |-> {}, log |-> OpenLog(entries),
     pr |-> [p \in Node |-> ResetProgress(0)], msgs |-> {}]

SendAll(s, ms) == [s EXCEPT !.msgs = @ \cup ms]

-----------------------------------------------------------------------------
(* Replication, leader side *)

\* sendAppend returns before building a message: paused, no entries to slice,
\* nothing new in Replicate, or the in-flight window is full.
AppendSlice(s, to) ==
    AtMost(Slice(s.log, s.pr[to].next, LastIndex(s.log) + 1), MaxEntries)

CanSendAppend(s, to) ==
    LET pr == s.pr[to]
    IN  /\ ~pr.paused
        /\ pr.next >= FirstIndex
        /\ ~SliceThrows(s.log, pr.next, LastIndex(s.log) + 1)
        /\ pr.state = "Replicate" => AppendSlice(s, to) # <<>> /\ ~Full(pr)

AppendMessage(n, s, to) ==
    [NewMessage("MsgApp", n, to, s.term) EXCEPT
        !.logTerm = Term(s.log, s.pr[to].next - 1),
        !.index   = s.pr[to].next - 1,
        !.commit  = s.log.committed,
        !.entries = AppendSlice(s, to)]

\* Replicate records the last index sent; Probe pauses until the ack.
\* nextIndex stays where it is.
ProgressAfterAppend(s, to) ==
    IF s.pr[to].state = "Replicate"
    THEN [s.pr[to] EXCEPT !.inflights =
             Append(@, AppendSlice(s, to)[Len(AppendSlice(s, to))].index)]
    ELSE [s.pr[to] EXCEPT !.paused = TRUE]

\* sendAppend to every peer of the set (they do not affect one another).
SendAppend(n, s, peers) ==
    LET now == {p \in peers : CanSendAppend(s, p)}
    IN  [s EXCEPT !.msgs = @ \cup {AppendMessage(n, s, p) : p \in now},
                  !.pr = [p \in Node |-> IF p \in now
                                         THEN ProgressAfterAppend(s, p)
                                         ELSE s.pr[p]]]

BroadcastAppend(n, s) == SendAppend(n, s, Peers(n))

BroadcastHeartbeat(n, s) ==
    SendAll(s, {[NewMessage("MsgHeartbeat", n, p, s.term)
                     EXCEPT !.commit = s.log.committed] : p \in Peers(n)})

\* matches: a leader has its own log.
Match(n, s, p) == IF p = n THEN LastIndex(s.log) ELSE s.pr[p].match

IsQuorumIndexShort(n, s, i) ==      \* mutant: position quorum - 2
    /\ Cardinality({p \in Node : Match(n, s, p) >= i}) >= Quorum - 1
    /\ Cardinality({p \in Node : Match(n, s, p) > i}) < Quorum - 1

\* The index that a quorum has reached: matches sorted in descending order, at
\* position quorum - 1.
IsQuorumIndex(n, s, i) ==
    /\ Cardinality({p \in Node : Match(n, s, p) >= i}) >= Quorum
    /\ Cardinality({p \in Node : Match(n, s, p) > i}) < Quorum

\* maybeCommit: entries of this term only.
Committable(n, s) ==
    {i \in {Match(n, s, p) : p \in Node} :
        IsQuorumIndex(n, s, i) /\ i > s.log.committed /\ Term(s.log, i) = s.term}

\* The leader appends an entry of its own (propose, and becomeLeader's no-op).
AppendOwn(n, s) ==
    LET l == AppendEntries(s.log, <<[index |-> LastIndex(s.log) + 1,
                                     term  |-> s.term]>>)
    IN  [s EXCEPT !.log = l, !.pr[n].match = LastIndex(l),
                  !.pr[n].next = LastIndex(l) + 1]

Propose(n, s) == BroadcastAppend(n, AppendOwn(n, s))

-----------------------------------------------------------------------------
(* Roles and elections *)

BecomeFollowerKeepsLead(s, term, lead) ==      \* mutant: lead_ kept
    [s EXCEPT !.role = "Follower", !.term = term, !.vote = Nobody, !.votes = {}]

\* vote_ is cleared even when the term does not change.
BecomeFollower(s, term, lead) ==
    [s EXCEPT !.role = "Follower", !.term = term, !.lead = lead,
              !.vote = Nobody, !.votes = {}]

BecomeCandidate(n, s) ==
    [s EXCEPT !.role = "Candidate", !.term = @ + 1, !.lead = Nobody,
              !.vote = n, !.votes = {n}]

\* Progress starts over; a no-op is appended unless the log is empty.
BecomeLeader(n, s) ==
    LET last == LastIndex(s.log)
        own  == BecomeReplicate([ResetProgress(last) EXCEPT !.match = last])
        s1   == [s EXCEPT !.role = "Leader", !.lead = n,
                          !.pr = [p \in Node |-> IF p = n THEN own
                                                 ELSE ResetProgress(last)]]
    IN  BroadcastAppend(n, IF last >= FirstIndex THEN AppendOwn(n, s1) ELSE s1)

Campaign(n, s) ==
    LET c == BecomeCandidate(n, s)
    IN  IF Quorum = 1 THEN BecomeLeader(n, c)
        ELSE SendAll(c, {[NewMessage("MsgVote", n, p, c.term) EXCEPT
                             !.logTerm = LastTerm(c.log),
                             !.index   = LastIndex(c.log)] : p \in Peers(n)})

PollVote(n, s, from, granted) ==
    IF from \in s.votes \/ ~granted THEN s
    ELSE LET v == [s EXCEPT !.votes = @ \cup {from}]
         IN  IF Cardinality(v.votes) >= Quorum THEN BecomeLeader(n, v) ELSE v

-----------------------------------------------------------------------------
(* step *)

\* A rejected append moves nextIndex back and probes again.
HandleReject(n, s, m) ==
    LET pr == BecomeProbe(MaybeDecrFromRejectHint(s.pr[m.from], m.index,
                                                  m.rejectHint))
    IN  SendAppend(n, [s EXCEPT !.pr[m.from] = pr], {m.from})

\* An accepted append moves match forward, may commit (then every peer is
\* sent the new commit index) and keeps the pipeline going.
HandleAccept(n, s, m) ==
    LET up == Update(s.pr[m.from], m.index)
        s1 == [s EXCEPT !.pr[m.from] = IF up.state = "Probe"
                                       THEN BecomeReplicate(up) ELSE up]
        s2 == IF Committable(n, s1) # {}
              THEN BroadcastAppend(n, [s1 EXCEPT !.log = MaybeCommit(s1.log,
                       CHOOSE i \in Committable(n, s1) : TRUE, s1.term)])
              ELSE s1
    IN  SendAppend(n, s2, {m.from})

\* A heartbeat response is the trigger to send to a peer that is behind.
StepLeader(n, s, m) ==
    CASE m.type = "MsgAppResp" /\ m.reject  -> HandleReject(n, s, m)
      [] m.type = "MsgAppResp" /\ ~m.reject -> HandleAccept(n, s, m)
      [] m.type = "MsgHeartbeatResp"        -> SendAppend(n, s, {m.from})
      [] OTHER                              -> s

HandleAppAcksTail(n, s, m) ==      \* mutant: acknowledges its whole log
    LET l == MaybeAppend(s.log, m.index, m.commit, m.entries)
    IN  SendAll([s EXCEPT !.log = l],
                {[NewMessage("MsgAppResp", n, m.from, s.term)
                      EXCEPT !.index = LastIndex(l)]})

\* maybeAppend and the reply: on success the index of the last entry of the
\* message, otherwise prevLogIndex and our last index as the hint.
HandleApp(n, s, m) ==
    LET resp == NewMessage("MsgAppResp", n, m.from, s.term)
    IN  IF MatchesPrev(s.log, m.index, m.logTerm)
        THEN SendAll([s EXCEPT !.lead = m.from,
                               !.log = MaybeAppend(s.log, m.index, m.commit,
                                                   m.entries)],
                     {[resp EXCEPT !.index = m.index + Len(m.entries)]})
        ELSE SendAll([s EXCEPT !.lead = m.from],
                     {[resp EXCEPT !.reject = TRUE, !.index = m.index,
                                   !.rejectHint = LastIndex(s.log)]})

HandleHeartbeatNoCommit(n, s, m) ==      \* mutant: its commit index is ignored
    SendAll([s EXCEPT !.lead = m.from],
            {NewMessage("MsgHeartbeatResp", n, m.from, s.term)})

\* The commit index of the heartbeat is taken up to our last index.
HandleHeartbeat(n, s, m) ==
    SendAll([s EXCEPT !.lead = m.from, !.log = CommitTo(s.log, m.commit)],
            {NewMessage("MsgHeartbeatResp", n, m.from, s.term)})

LogUpToDateAlways(s, m) == TRUE      \* mutant: any candidate is up to date

LogUpToDate(s, m) ==
    \/ m.logTerm > LastTerm(s.log)
    \/ m.logTerm = LastTerm(s.log) /\ m.index >= LastIndex(s.log)

HandleVoteAgain(n, s, m) ==      \* mutant: vote_ is not consulted
    LET grant == LogUpToDate(s, m)
    IN  SendAll([s EXCEPT !.vote = IF grant THEN m.from ELSE s.vote],
                {[NewMessage("MsgVoteResp", n, m.from, s.term)
                      EXCEPT !.reject = ~grant]})

HandleVote(n, s, m) ==
    LET grant == s.vote \in {Nobody, m.from} /\ LogUpToDate(s, m)
    IN  SendAll([s EXCEPT !.vote = IF grant THEN m.from ELSE s.vote],
                {[NewMessage("MsgVoteResp", n, m.from, s.term)
                      EXCEPT !.reject = ~grant]})

StepFollower(n, s, m) ==
    CASE m.type = "MsgApp"       -> HandleApp(n, s, m)
      [] m.type = "MsgHeartbeat" -> HandleHeartbeat(n, s, m)
      [] m.type = "MsgVote"      -> HandleVote(n, s, m)
      [] OTHER                   -> s

\* A message of a leader of this term makes the candidate its follower.
StepCandidate(n, s, m) ==
    CASE m.type = "MsgVoteResp" -> PollVote(n, s, m.from, ~m.reject)
      [] m.type \in {"MsgApp", "MsgHeartbeat"} ->
             StepFollower(n, BecomeFollower(s, m.term, m.from), m)
      [] OTHER -> s

\* A stale request is answered with our term, a stale response dropped.
RefuseStale(n, s, m) ==
    LET reply(type) == SendAll(s, {[NewMessage(type, n, m.from, s.term)
                                        EXCEPT !.reject = TRUE]})
    IN  CASE m.type = "MsgApp"       -> reply("MsgAppResp")
          [] m.type = "MsgHeartbeat" -> reply("MsgHeartbeatResp")
          [] m.type = "MsgVote"      -> reply("MsgVoteResp")
          [] OTHER                   -> s

Dispatch(n, s, m) ==
    CASE s.role = "Leader"    -> StepLeader(n, s, m)
      [] s.role = "Candidate" -> StepCandidate(n, s, m)
      [] s.role = "Follower"  -> StepFollower(n, s, m)

\* step: a higher term first makes us a follower of nobody, a lower one is
\* refused, then the role decides.
Step(n, s, m) ==
    IF m.term < s.term THEN RefuseStale(n, s, m)
    ELSE Dispatch(n, IF m.term > s.term THEN BecomeFollower(s, m.term, Nobody)
                     ELSE s, m)

\* MsgUnreachable: a message to the peer could not be sent.
StepUnreachable(s, peer) == [s EXCEPT !.pr[peer] = BecomeProbe(@)]

\* advance: what poll handed out is persisted and applied.
Advance(s) ==
    LET ents == s.log.unstable
        done == NextCommittedEntries(s.log)
        l == IF ents = <<>> THEN s.log ELSE StableTo(s.log, ents[Len(ents)].index)
    IN  [s EXCEPT !.msgs = {},
                  !.log = IF done = <<>> THEN l
                          ELSE AppliedTo(l, done[Len(done)].index)]
=============================================================================
