------------------------------- MODULE Cluster -------------------------------
(***************************************************************************)
(* A cluster of NexusLOB servers: every Server runs raftLoop over its      *)
(* RawNode and its write-ahead log, and RaftTransport carries messages     *)
(* between them.                                                           *)
(*                                                                         *)
(* One iteration of raftLoop is a tick, the steps of the drained messages  *)
(* and one Ready (poll, processReady, advance).  Client threads propose    *)
(* between any two of them (raftMutex_).  Poll to advance is one action:   *)
(* the only thing that can come in between is propose, which commutes with *)
(* persisting and applying what poll has already handed out.               *)
(*                                                                         *)
(* net holds the messages in flight.  They are not ordered: processReady   *)
(* sends from one thread per message, heartbeats and data use separate     *)
(* connections, and a reconnect leaves the reader of the old connection    *)
(* running beside the new one.  A message that is never delivered is lost. *)
(***************************************************************************)
EXTENDS RawNode, WriteAheadLog

CONSTANTS MaxElections,   \* bound: election timeouts in a behaviour
          MaxLog,         \* bound: no proposal on a log this long
          MaxBeats,       \* bound: heartbeat ticks in a behaviour
          MaxCrashes,     \* bound: process kills in a behaviour
          MaxBatch,       \* bound: messages drained in one loop iteration
          Duplicates,     \* identical copies of a message may be in flight
          TornWrites,     \* files a kill may leave half-written
          MaxMisread,     \* bound: length of a misread log
          MisreadTerm,    \* bound: terms in a misread log
          Unreachables    \* the driver reports unreachable peers

ASSUME BoundsAssumption ==
    /\ MaxElections \in Nat /\ MaxBeats \in Nat /\ MaxCrashes \in Nat
    /\ MaxLog \in Nat /\ MaxBatch \in Nat \ {0} /\ MaxMisread \in Nat
    /\ MisreadTerm \subseteq Nat
    /\ Duplicates \in BOOLEAN /\ Unreachables \in BOOLEAN
    /\ TornWrites \subseteq {"log", "hardstate"}

VARIABLES nd,       \* nd[n]: RawNode of server n; nd[n].log.stored is log.bin
          hs,       \* hs[n]: hardstate.bin
          tail,     \* tail[n]: how log.bin ends
          misread,  \* the servers that have started on a buried log.bin
          fsm,      \* fsm[n]: the entries applied to n's state machine
          net,      \* messages in flight
          batch,    \* batch[n]: 0 before n's tick, else 1 + messages stepped
          elections, beats, crashes   \* how often each has happened

vars == <<nd, hs, tail, misread, fsm, net, batch, elections, beats, crashes>>

Init ==
    /\ nd = [n \in Node |-> StartNode(0, Nobody, <<>>)]
    /\ hs = [n \in Node |-> EmptyHardState(Nobody)]
    /\ tail = [n \in Node |-> "whole"]
    /\ misread = {}
    /\ fsm = [n \in Node |-> <<>>]
    /\ net = {}
    /\ batch = [n \in Node |-> 0]
    /\ elections = 0
    /\ beats = 0
    /\ crashes = 0

-----------------------------------------------------------------------------
(* raftLoop: tick *)

\* tickElection reaches the randomised timeout.
TickElection(n) ==
    /\ batch[n] = 0
    /\ nd[n].role # "Leader"
    /\ elections < MaxElections
    /\ nd' = [nd EXCEPT ![n] = Campaign(n, @)]
    /\ batch' = [batch EXCEPT ![n] = 1]
    /\ elections' = elections + 1
    /\ UNCHANGED <<hs, tail, misread, fsm, net, beats, crashes>>

TickHeartbeat(n) ==
    /\ batch[n] = 0
    /\ nd[n].role = "Leader"
    /\ beats < MaxBeats
    /\ nd' = [nd EXCEPT ![n] = BroadcastHeartbeat(n, @)]
    /\ batch' = [batch EXCEPT ![n] = 1]
    /\ beats' = beats + 1
    /\ UNCHANGED <<hs, tail, misread, fsm, net, elections, crashes>>

-----------------------------------------------------------------------------
(* raftLoop: step *)

Receive(m) ==
    /\ batch[m.to] <= MaxBatch
    /\ nd' = [nd EXCEPT ![m.to] = Step(m.to, @, m)]
    /\ batch' = [batch EXCEPT ![m.to] = Larger(@, 1) + 1]
    /\ net' = IF Duplicates THEN net ELSE net \ {m}
    /\ UNCHANGED <<hs, tail, misread, fsm, elections, beats, crashes>>

ReceiveVote == \E m \in net : m.type = "MsgVote" /\ Receive(m)
ReceiveVoteResp == \E m \in net : m.type = "MsgVoteResp" /\ Receive(m)
ReceiveApp == \E m \in net : m.type = "MsgApp" /\ Receive(m)
ReceiveAppResp == \E m \in net : m.type = "MsgAppResp" /\ Receive(m)
ReceiveHeartbeat == \E m \in net : m.type = "MsgHeartbeat" /\ Receive(m)
ReceiveHeartbeatResp ==
    \E m \in net : m.type = "MsgHeartbeatResp" /\ Receive(m)

\* MsgUnreachable for a peer of a leader (elsewhere pr_ is not read).  The test
\* harness sends it when a peer cannot be reached; Server ignores a failed send.
Unreachable(n, peer) ==
    /\ Unreachables
    /\ batch[n] <= MaxBatch
    /\ nd[n].role = "Leader"
    /\ nd' = [nd EXCEPT ![n] = StepUnreachable(@, peer)]
    /\ batch' = [batch EXCEPT ![n] = Larger(@, 1) + 1]
    /\ UNCHANGED <<hs, tail, misread, fsm, net, elections, beats, crashes>>

-----------------------------------------------------------------------------
(* Client threads *)

\* onClientRequest / submitRaw up to the wait for the result.
ClientProposes(n) ==
    /\ nd[n].role = "Leader"
    /\ LastIndex(nd[n].log) < MaxLog
    /\ nd' = [nd EXCEPT ![n] = Propose(n, @)]
    /\ UNCHANGED <<hs, tail, misread, fsm, net, batch, elections, beats, crashes>>

-----------------------------------------------------------------------------
(* raftLoop: poll, processReady, advance *)

\* The hard state is written unless term and commit are both 0.
SavedHardState(n) ==
    LET s == nd[n]
    IN  IF s.term # 0 \/ s.log.committed # 0
        THEN [term |-> s.term, vote |-> s.vote, commit |-> s.log.committed]
        ELSE hs[n]

\* Entries and hard state go to disk, then the messages go out, then the
\* committed entries are applied, then advance.
Ready(n) ==
    LET s == nd[n]
    IN  /\ nd' = [nd EXCEPT ![n] = [Advance(s) EXCEPT
                      !.log.stored = AppendNoSync(s.log.stored, s.log.unstable)]]
        /\ tail' = [tail EXCEPT ![n] = TailAfter(@, s.log.stored, s.log.unstable)]
        /\ hs' = [hs EXCEPT ![n] = SavedHardState(n)]
        /\ net' = net \cup s.msgs
        /\ fsm' = [fsm EXCEPT ![n] = @ \o NextCommittedEntries(s.log)]
        /\ batch' = [batch EXCEPT ![n] = 0]
        /\ UNCHANGED <<misread, elections, beats, crashes>>

-----------------------------------------------------------------------------
(* Process kills; the restart is part of the action *)

Restart(n, entries, h, t) ==
    /\ crashes < MaxCrashes
    /\ nd' = [nd EXCEPT ![n] = StartNode(h.term, h.vote, entries)]
    /\ hs' = [hs EXCEPT ![n] = h]
    /\ tail' = [tail EXCEPT ![n] = t]
    /\ fsm' = [fsm EXCEPT ![n] = <<>>]
    /\ batch' = [batch EXCEPT ![n] = 0]
    /\ crashes' = crashes + 1
    /\ UNCHANGED <<net, elections, beats>>

NextTail(n) == TailAfter(tail[n], nd[n].log.stored, nd[n].log.unstable)

\* Between two writes: the files are as the last Ready left them.
Kill(n) ==
    /\ tail[n] # "buried"
    /\ \E entries \in Replays(nd[n].log.stored) : Restart(n, entries, hs[n], tail[n])
    /\ UNCHANGED misread

KillInAppend(n) ==
    /\ "log" \in TornWrites
    /\ nd[n].log.unstable # <<>> /\ NextTail(n) = "whole"
    /\ \E entries \in TornAppends(nd[n].log.stored, nd[n].log.unstable),
          t \in {"whole", "torn"} : Restart(n, entries, hs[n], t)
    /\ UNCHANGED misread

\* saveHardState has truncated hardstate.bin and not yet written it.
KillInSaveHardState(n) ==
    /\ "hardstate" \in TornWrites
    /\ nd[n].term # 0 /\ NextTail(n) # "buried"
    /\ \E entries \in Replays(AppendNoSync(nd[n].log.stored, nd[n].log.unstable)) :
          Restart(n, entries, EmptyHardState(Nobody), NextTail(n))
    /\ UNCHANGED misread

Misreads ==
    {ents \in UNION {[1..k -> [index : 0..MaxMisread, term : MisreadTerm]] :
                     k \in 0..MaxMisread} : InPlaceLog(ents)}

\* The start after an append behind half a record, complete or not.
KillMisread(n) ==
    /\ tail[n] = "buried" \/ NextTail(n) = "buried"
    /\ \E entries \in Misreads, t \in {"whole", "torn"} :
          \/ Restart(n, entries, hs[n], t)
          \/ /\ "hardstate" \in TornWrites /\ nd[n].term # 0
             /\ Restart(n, entries, EmptyHardState(Nobody), t)
    /\ misread' = misread \cup {n}

-----------------------------------------------------------------------------
Next ==
    \/ \E n \in Node :
          \/ TickElection(n) \/ TickHeartbeat(n) \/ ClientProposes(n)
          \/ Ready(n)
          \/ Kill(n) \/ KillInAppend(n) \/ KillInSaveHardState(n)
          \/ KillMisread(n)
          \/ \E peer \in Peers(n) : Unreachable(n, peer)
    \/ ReceiveVote \/ ReceiveVoteResp \/ ReceiveApp \/ ReceiveAppResp
    \/ ReceiveHeartbeat \/ ReceiveHeartbeatResp

Spec == Init /\ [][Next]_vars

-----------------------------------------------------------------------------
(* Properties *)

\* Every component of the state has its type.
TypeOK ==
    /\ nd \in [Node -> NodeState]
    /\ hs \in [Node -> HardState]
    /\ tail \in [Node -> TailState] /\ misread \subseteq Node
    /\ fsm \in [Node -> Seq(Entry)]
    /\ net \subseteq Message
    /\ batch \in [Node -> Nat]
    /\ elections \in Nat /\ beats \in Nat /\ crashes \in Nat

\* Two nodes are never both leader of one term, although step-down clears the
\* vote of a candidate within its term and a killed node forgets every vote
\* that its last Ready had not written.
ElectionSafety ==
    \A a, b \in Node :
        nd[a].role = "Leader" /\ nd[b].role = "Leader" /\ nd[a].term = nd[b].term
            => a = b

\* If two logs hold an entry of the same index and term, they agree on the
\* entry below it, and so on every entry down to the first.  maybeAppend keeps
\* this across truncation of the unstable tail, the in-place rewrite of the log
\* file, entries of old leaders and kills that tear an append; until a server
\* starts on a log.bin that it has written on behind half a record.
LogMatching ==
    misread = {} =>
        \A a \in Node : \A b \in Node \ {a} :
            \A i \in 2..Smaller(LastIndex(nd[a].log), LastIndex(nd[b].log)) :
                Term(nd[a].log, i) = Term(nd[b].log, i)
                    => Term(nd[a].log, i - 1) = Term(nd[b].log, i - 1)

\* State machines never apply different commands at one position, whatever
\* the leaders that committed them: maybeCommit counts a quorum of matchIndex
\* and only for entries of its own term.
StateMachineSafety ==
    \A a, b \in Node :
        \A i \in 1..Smaller(Len(fsm[a]), Len(fsm[b])) : fsm[a][i] = fsm[b][i]

\* The leader of the newest term has every entry that anyone has applied: a
\* vote goes only to a candidate whose log is at least as up to date.
LeaderCompleteness ==
    \A a \in Node :
        nd[a].role = "Leader" /\ (\A b \in Node : nd[b].term <= nd[a].term)
            => \A n \in Node : \A i \in 1..Len(fsm[n]) :
                   Term(nd[a].log, i) = fsm[n][i].term

\* Each state machine is fed every index once and in order, also after a
\* restart with a torn log: applied_ moves with the entries handed out.  A
\* misread log, with its gaps, is the one exception, for the server that has it
\* and for those it replicates to.
AppliedInOrder ==
    misread = {} => \A n \in Node : \A i \in 1..Len(fsm[n]) : fsm[n][i].index = i

\* No node counts as committed what its log does not hold, so that
\* nextCommittedEntries can always be sliced.
CommitWithinLog == \A n \in Node : nd[n].log.committed <= LastIndex(nd[n].log)

\* What a leader counts towards the commit quorum (matchIndex) is on the
\* follower's disk, since processReady writes before it sends the ack.
MatchIsDurable ==
    \A a \in Node : \A p \in Peers(a) :
        nd[a].role = "Leader" /\ nd[p].term = nd[a].term
            => /\ nd[a].pr[p].match <= Len(nd[p].log.stored)
               /\ \A i \in 1..nd[a].pr[p].match :
                     nd[p].log.stored[i].term = Term(nd[a].log, i)

\* The leader a node names to its clients (leaderHint) is the leader of the
\* node's term, if that term has one.
LeaderHint ==
    \A a, n \in Node :
        nd[a].role = "Leader" /\ nd[n].term = nd[a].term /\ nd[n].lead # Nobody
            => nd[n].lead = a

VoteStays ==
    \A n \in Node :
        /\ hs'[n].term >= hs[n].term
        /\ hs'[n].term = hs[n].term /\ hs[n].vote \notin {Nobody, n}
              => hs'[n].vote = hs[n].vote

\* hardstate.bin never goes back to an earlier term, and a vote for another
\* node that it holds stays there for the rest of the term: processReady
\* writes what the node remembers, and becomeFollower's reset of vote_ within
\* a term never meets a vote for somebody else.
VoteKept == [][VoteStays]_vars

LeaderKeeps ==
    misread' = {} => \A n \in Node :
        nd[n].role = "Leader" /\ nd'[n].role = "Leader" /\ nd'[n].term = nd[n].term
            => \A i \in 1..LastIndex(nd[n].log) :
                   Term(nd'[n].log, i) = Term(nd[n].log, i)

\* A leader never changes or loses an entry it has while it leads a term, on
\* disk or not yet: append only adds to the unstable tail, and what advance
\* takes from there processReady has written.
LeaderAppendOnly == [][LeaderKeeps]_vars
=============================================================================
