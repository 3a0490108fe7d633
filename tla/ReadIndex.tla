------------------------------ MODULE ReadIndex ------------------------------
(***************************************************************************)
(* Book reads in read mode ReadIndex on the server that leads: readBids    *)
(* and readAsks on client threads, the rounds of the raft loop, ReadOnly,  *)
(* and the followers' answers.  Each element of Call is one call of        *)
(* readBids or readAsks and its token, which readTokenCounter_ makes       *)
(* unique.                                                                 *)
(***************************************************************************)
EXTENDS Integers, Sequences, FiniteSets

CONSTANTS Follower, Call, NoContext,
          MaxCommit         \* bound: entries committed in a behaviour

VARIABLES
    running,        \* running_, cleared by stop()
    leads,          \* role_ is Leader
    commit,         \* log_.commitIndex()
    applied,        \* appliedIndex_
    readOnly,       \* pending_, acks_ and recvQueue_: the reads in recvQueue_
    msgs,           \* messages for the next Ready
    readStates,     \* readStates_, for the next Ready
    net,            \* messages under way, both directions
    pendingReads,   \* pendingReads_: the tokens filed
    done,           \* the reads whose PendingRead is done
    pc              \* where each call is

raft == <<leads, commit, readOnly, msgs, readStates>>
server == <<running, applied, pendingReads, done, pc>>
vars == <<raft, server, net>>

Quorum == (Cardinality(Follower) + 1) \div 2 + 1

Init ==
    /\ running = TRUE /\ leads = TRUE
    /\ commit = 0 /\ applied = 0
    /\ readOnly = <<>> /\ msgs = {} /\ readStates = <<>> /\ net = {}
    /\ pendingReads = {} /\ done = {}
    /\ pc = [c \in Call |-> "idle"]

Heartbeats(ctx) ==
    {[type |-> "MsgHeartbeat", peer |-> f, context |-> ctx] : f \in Follower}

-----------------------------------------------------------------------------
(* ReadOnly *)

Contexts(ro) == {ro[i].context : i \in DOMAIN ro}

Add(ro, index, ctx) ==
    IF ctx \in Contexts(ro) THEN ro
    ELSE Append(ro, [context |-> ctx, index |-> index, acks |-> {}])

\* Where the read with this context waits.
Place(ro, ctx) == CHOOSE i \in DOMAIN ro : ro[i].context = ctx

RecvAck(ro, ctx, from) ==
    IF ctx \notin Contexts(ro) THEN ro
    ELSE [ro EXCEPT ![Place(ro, ctx)].acks = @ \cup {from}]

\* The leader counts itself.
Acked(ro, ctx) ==
    /\ ctx \in Contexts(ro)
    /\ Cardinality(ro[Place(ro, ctx)].acks) + 1 >= Quorum

\* Everything up to and including ctx leaves the queue.
AdvanceTo(ro, ctx) == SubSeq(ro, Place(ro, ctx) + 1, Len(ro))

-----------------------------------------------------------------------------
(* Client threads: readBids, readAsks *)

\* Up to the entry in pendingReads_; a server that does not lead says {}.
Begin(c) ==
    /\ pc[c] = "idle" /\ running
    /\ pc' = [pc EXCEPT ![c] = IF leads THEN "filed" ELSE "empty"]
    /\ pendingReads' = IF leads THEN pendingReads \cup {c} ELSE pendingReads
    /\ UNCHANGED <<raft, running, applied, done, net>>

\* node_.readIndex, whose result nobody looks at, then the wait.
AskRaft(c) ==
    /\ pc[c] = "filed"
    /\ pc' = [pc EXCEPT ![c] = "waits"]
    /\ IF leads
       THEN /\ readOnly' = Add(readOnly, commit, c)
            /\ msgs' = msgs \cup Heartbeats(c)
       ELSE UNCHANGED <<readOnly, msgs>>
    /\ UNCHANGED <<leads, commit, readStates, running, applied, pendingReads,
                   done, net>>

\* readCv_ wakes the call: the read is done, or the server stops.
Return(c) ==
    /\ pc[c] = "waits"
    /\ c \in done \/ ~running
    /\ pc' = [pc EXCEPT ![c] = IF c \in done THEN "read" ELSE "empty"]
    /\ UNCHANGED <<raft, running, applied, pendingReads, done, net>>

-----------------------------------------------------------------------------
(* The raft loop *)

TickHeartbeat ==
    /\ running /\ leads
    /\ msgs' = msgs \cup Heartbeats(NoContext)
    /\ UNCHANGED <<leads, commit, readOnly, readStates, server, net>>

\* The ReadState is for the context that was acknowledged; reads that were
\* before it in the queue go without one.
HeartbeatResp(f, ctx) ==
    \E m \in net :
        /\ running
        /\ m.type = "MsgHeartbeatResp" /\ m.peer = f /\ m.context = ctx
        /\ net' = net \ {m}
        /\ IF leads /\ m.context # NoContext
           THEN LET ro == RecvAck(readOnly, m.context, m.peer)
                IN  IF Acked(ro, m.context)
                    THEN /\ readOnly' = AdvanceTo(ro, m.context)
                         /\ readStates' = Append(readStates,
                                [context |-> m.context,
                                 index |-> ro[Place(ro, m.context)].index])
                    ELSE readOnly' = ro /\ UNCHANGED readStates
           ELSE UNCHANGED <<readOnly, readStates>>
        /\ UNCHANGED <<leads, commit, msgs, server>>

\* poll and processReady: send, apply, then handleReadStates for the reads
\* that are still filed.  applied then covers every index a read waits for.
Ready ==
    LET answered == {readStates[i].context : i \in DOMAIN readStates}
                        \cap pendingReads
    IN  /\ running
        /\ net' = net \cup msgs /\ msgs' = {}
        /\ applied' = commit
        /\ done' = done \cup answered
        /\ pendingReads' = pendingReads \ answered
        /\ readStates' = <<>>
        /\ UNCHANGED <<leads, commit, readOnly, running, pc>>

\* A quorum has acknowledged a proposal.
Commit ==
    /\ running /\ leads /\ commit < MaxCommit
    /\ commit' = commit + 1
    /\ UNCHANGED <<leads, readOnly, msgs, readStates, server, net>>

\* A message of a newer term: becomeFollower resets readOnly_.
StepDown ==
    /\ running /\ leads
    /\ leads' = FALSE /\ readOnly' = <<>>
    /\ UNCHANGED <<commit, msgs, readStates, server, net>>

Stop ==
    /\ running /\ running' = FALSE
    /\ UNCHANGED <<raft, applied, pendingReads, done, pc, net>>

-----------------------------------------------------------------------------
(* Followers *)

\* Whatever the heartbeat carried, the answer carries no context.
FollowerAnswers(f, ctx) ==
    \E m \in net :
        /\ m.type = "MsgHeartbeat" /\ m.peer = f /\ m.context = ctx
        /\ net' = (net \ {m}) \cup
                  {[type |-> "MsgHeartbeatResp", peer |-> f, context |-> NoContext]}
        /\ UNCHANGED <<raft, server>>

-----------------------------------------------------------------------------
CallSteps(c) == Begin(c) \/ AskRaft(c) \/ Return(c)

Next ==
    \/ \E c \in Call : CallSteps(c)
    \/ TickHeartbeat \/ Ready \/ Commit \/ StepDown \/ Stop
    \/ \E f \in Follower, ctx \in Call \cup {NoContext} :
          HeartbeatResp(f, ctx) \/ FollowerAnswers(f, ctx)

\* Threads past their first step go on, the loop goes round, and every message
\* that is sent arrives.
Fairness ==
    /\ \A c \in Call : WF_vars(AskRaft(c)) /\ WF_vars(Return(c))
    /\ WF_vars(TickHeartbeat) /\ WF_vars(Ready)
    /\ \A f \in Follower, ctx \in Call \cup {NoContext} :
          WF_vars(HeartbeatResp(f, ctx)) /\ WF_vars(FollowerAnswers(f, ctx))

Spec == Init /\ [][Next]_vars /\ Fairness

-----------------------------------------------------------------------------
(* Properties *)

\* A read is answered as long as the server leads and runs: "leader broadcasts
\* heartbeat with token, waits for quorum acks, emits `ReadState`".
ReadAnswered ==
    \A c \in Call : pc[c] = "waits" ~> (pc[c] = "read" \/ ~leads \/ ~running)
=============================================================================
