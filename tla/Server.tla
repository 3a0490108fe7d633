-------------------------------- MODULE Server --------------------------------
(***************************************************************************)
(* The threads of one Server around its RawNode: the two client front ends *)
(* (ClientServer with onClientRequest, OrderClientServer with submitRaw),  *)
(* each of which serves one request at a time and waits on pendingCv_; the *)
(* raftLoop thread, which steps the node and applies what is committed;    *)
(* and the thread that calls stop().                                       *)
(*                                                                         *)
(* Each action is one critical section, or one unlocked access to shared   *)
(* state.  The RawNode is reduced to what these threads see of it: its     *)
(* role, its log and its commit index.  pending->done is read and written  *)
(* by two threads without a common lock; either value can be read.         *)
(***************************************************************************)
EXTENDS Integers, Sequences

CONSTANTS Frontend,      \* the two client-serving threads
          Foreign, None, \* an entry of another origin; no value
          MaxRequests,   \* bound: requests per front end
          MaxLog,        \* bound: entries
          MaxDeposals,   \* bound: times the node loses its leadership
          Stops          \* whether stop() is called

ASSUME ServerAssumption ==
    /\ MaxRequests \in Nat /\ MaxLog \in Nat /\ MaxDeposals \in Nat
    /\ Stops \in BOOLEAN

\* A request stands for its command and for its PendingProposal.
Request == Frontend \X (1..MaxRequests)

ASSUME ForeignAssumption == Foreign \notin Request /\ None \notin Request

VARIABLES leader, log, commit,      \* the RawNode
          deposals,                 \* counts towards MaxDeposals
          copies,                   \* history: the log up to each proposal, as
                                    \* the other nodes may have it
          displaced,                \* history: proposals that were replaced in
                                    \* pending_
          applied,                  \* appliedIndex_
          pending,                  \* pending_: index to PendingProposal
          result,                   \* rawResult of the proposals that are done
          running,                  \* running_
          pc, req,                  \* front ends: program counter, request
          loop,                     \* raftLoop: program counter, Ready, proposal
          stopper                   \* the caller of stop()

raft == <<leader, log, commit, deposals, copies, displaced>>
vars == <<raft, applied, pending, result, running, pc, req, loop, stopper>>

Init ==
    /\ leader = FALSE /\ log = <<>> /\ commit = 0 /\ deposals = 0 /\ applied = 0
    /\ copies = <<>> /\ displaced = {}
    /\ pending = <<>> /\ result = <<>>
    /\ running = TRUE
    /\ pc = [f \in Frontend |-> "idle"]
    /\ req = [f \in Frontend |-> 0]
    /\ loop = [pc |-> "top", batch |-> <<>>, waiter |-> None]
    /\ stopper = "idle"

Mine(f) == <<f, req[f]>>
Done(r) == r \in DOMAIN result
Enter(f, place) == pc' = [pc EXCEPT ![f] = place]

\* pendingMutex_ stays locked from a false predicate until the wait blocks.
Locked == \E f \in Frontend : pc[f] = "blocking"

Put(f, k, v) == [x \in DOMAIN f \cup {k} |-> IF x = k THEN v ELSE f[x]]

-----------------------------------------------------------------------------
(* onClientRequest and submitRaw *)

\* isLeader() without a lock.  A follower answers at once, as does the codec
\* on a bad request: neither changes anything here.
Call(f) ==
    /\ pc[f] = "idle" /\ req[f] < MaxRequests
    /\ leader
    /\ req' = [req EXCEPT ![f] = @ + 1]
    /\ Enter(f, "called")
    /\ UNCHANGED <<raft, applied, pending, result, running, loop, stopper>>

RegisteredBefore(f) == Put(pending, Len(log), Mine(f))      \* mutant
RegisteredAlone(f) == [i \in {Len(log) + 1} |-> Mine(f)]      \* mutant

\* pending_ with f's proposal, at the lastIndex() that propose() gives it.
Registered(f) == Put(pending, Len(log) + 1, Mine(f))

\* propose(), lastIndex() and the registration, all under raftMutex_.
Propose(f) ==
    /\ pc[f] = "called" /\ ~Locked
    /\ leader => Len(log) < MaxLog
    /\ IF leader
       THEN /\ log' = Append(log, Mine(f))
            /\ pending' = Registered(f)
            /\ copies' = Put(copies, Mine(f), log')
            /\ displaced' = displaced \cup
                   {pending[i] : i \in DOMAIN pending \cap {Len(log')}}
            /\ Enter(f, "proposed")
       ELSE Enter(f, "idle") /\ UNCHANGED <<log, pending, copies, displaced>>
    /\ UNCHANGED <<leader, commit, deposals, applied, result, running, req, loop,
                   stopper>>

\* The predicate of pendingCv_.wait, on entry and after every wakeup.
Check(f) ==
    /\ pc[f] \in {"proposed", "woken"} /\ ~Locked
    /\ Enter(f, IF Done(Mine(f)) \/ ~running THEN "returning" ELSE "blocking")
    /\ UNCHANGED <<raft, applied, pending, result, running, req, loop, stopper>>

Sleep(f) ==
    /\ pc[f] = "blocking"
    /\ Enter(f, "asleep")
    /\ UNCHANGED <<raft, applied, pending, result, running, req, loop, stopper>>

\* The result, or "shutting down" if there is none.
Return(f) ==
    /\ pc[f] = "returning"
    /\ Enter(f, "idle")
    /\ UNCHANGED <<raft, applied, pending, result, running, req, loop, stopper>>

-----------------------------------------------------------------------------
(* raftLoop: tick() and step(), under raftMutex_ *)

Stepping == loop.pc = "step"

\* becomeLeader appends a no-op unless the log is empty.
Elected ==
    /\ Stepping /\ ~leader
    /\ log # <<>> => Len(log) < MaxLog
    /\ leader' = TRUE
    /\ log' = IF log = <<>> THEN log ELSE Append(log, Foreign)
    /\ UNCHANGED <<commit, deposals, copies, displaced, applied, pending, result,
                   running, pc, req, loop, stopper>>

\* A higher term: the pending proposals stay registered.
Deposed ==
    /\ Stepping /\ leader /\ deposals < MaxDeposals
    /\ leader' = FALSE
    /\ deposals' = deposals + 1
    /\ UNCHANGED <<log, commit, copies, displaced, applied, pending, result,
                   running, pc, req, loop, stopper>>

\* What a MsgApp of another leader can make of the log, above what is
\* committed: it cuts it, puts entries of other origin there, or brings back
\* proposals of this node that were cut off before.
Overwritten ==
    LET kept == {SubSeq(log, 1, k) : k \in commit..Len(log)}
    IN  kept \cup {Append(l, Foreign) : l \in {l \in kept : Len(l) < MaxLog}}
        \cup {copies[r] : r \in {r \in DOMAIN copies :
                  /\ Len(copies[r]) >= commit
                  /\ SubSeq(copies[r], 1, commit) = SubSeq(log, 1, commit)}}

\* Without deposals the node leads from its election on: nobody else writes.
Replicated ==
    /\ Stepping /\ ~leader /\ deposals > 0
    /\ log' \in Overwritten
    /\ UNCHANGED <<leader, commit, deposals, copies, displaced, applied, pending,
                   result, running, pc, req, loop, stopper>>

Committed(i) ==
    /\ Stepping /\ commit < i /\ i <= Len(log)
    /\ commit' = i
    /\ UNCHANGED <<leader, log, deposals, copies, displaced, applied, pending,
                   result, running, pc, req, loop, stopper>>

BatchShort == SubSeq(log, applied + 1, commit - 1)      \* mutant

\* nextCommittedEntries: what is committed and not yet applied, if anything.
Batch == SubSeq(log, applied + 1, commit)

Poll ==
    /\ Stepping
    /\ loop' = [loop EXCEPT !.pc = "apply", !.batch = Batch]
    /\ UNCHANGED <<raft, applied, pending, result, running, pc, req, stopper>>

GoOnWhilePending == running \/ pending # <<>>      \* mutant

\* while (running_), once per round.
GoOn == running

Round ==
    /\ loop.pc = "top"
    /\ loop' = [loop EXCEPT !.pc = IF GoOn THEN "step" ELSE "ended"]
    /\ UNCHANGED <<raft, applied, pending, result, running, pc, req, stopper>>

-----------------------------------------------------------------------------
(* applyCommittedEntries *)

NotErased(i) == pending      \* mutant

Erased(i) == [x \in DOMAIN pending \ {i} |-> pending[x]]

\* apply(), appliedIndex_ and, under pendingMutex_, the proposal registered
\* at this index.
Apply ==
    /\ loop.pc = "apply" /\ loop.batch # <<>> /\ ~Locked
    /\ applied' = applied + 1
    /\ IF applied' \in DOMAIN pending
       THEN /\ pending' = Erased(applied')
            /\ loop' = [loop EXCEPT !.pc = "finish", !.waiter = pending[applied']]
       ELSE loop' = [loop EXCEPT !.batch = Tail(@)] /\ UNCHANGED pending
    /\ UNCHANGED <<raft, result, running, pc, req, stopper>>

LastResult == loop.batch[Len(loop.batch)]      \* mutant

\* What apply() returned for the entry at hand.
ApplyResult == Head(loop.batch)

\* rawResult and done, without a lock.
Finish ==
    /\ loop.pc = "finish"
    /\ result' = Put(result, loop.waiter, ApplyResult)
    /\ loop' = [loop EXCEPT !.pc = "notify", !.batch = Tail(@)]
    /\ UNCHANGED <<raft, applied, pending, running, pc, req, stopper>>

\* notify_one wakes any one thread that sleeps, if there is one.
Notify ==
    /\ loop.pc = "notify"
    /\ loop' = [loop EXCEPT !.pc = "apply", !.waiter = None]
    /\ \/ \E f \in Frontend : pc[f] = "asleep" /\ Enter(f, "woken")
       \/ (\A f \in Frontend : pc[f] # "asleep") /\ UNCHANGED pc
    /\ UNCHANGED <<raft, applied, pending, result, running, req, stopper>>

\* advance(), and the next round.
Advance ==
    /\ loop.pc = "apply" /\ loop.batch = <<>>
    /\ loop' = [loop EXCEPT !.pc = "top"]
    /\ UNCHANGED <<raft, applied, pending, result, running, pc, req, stopper>>

-----------------------------------------------------------------------------
(* stop *)

StopFlag ==
    /\ Stops /\ stopper = "idle"
    /\ running' = FALSE /\ stopper' = "notify"
    /\ UNCHANGED <<raft, applied, pending, result, pc, req, loop>>

\* notify_all, without pendingMutex_: only who sleeps now is woken.
StopNotify ==
    /\ stopper = "notify"
    /\ pc' = [f \in Frontend |-> IF pc[f] = "asleep" THEN "woken" ELSE pc[f]]
    /\ stopper' = "join"
    /\ UNCHANGED <<raft, applied, pending, result, running, req, loop>>

StopJoin ==
    /\ stopper = "join" /\ loop.pc = "ended"
    /\ stopper' = "stopped"
    /\ UNCHANGED <<raft, applied, pending, result, running, pc, req, loop>>

-----------------------------------------------------------------------------
FrontendStep(f) == Propose(f) \/ Check(f) \/ Sleep(f) \/ Return(f)

LoopStep == Round \/ Poll \/ Apply \/ Finish \/ Notify \/ Advance

Raft ==
    \/ Elected \/ Deposed \/ Replicated
    \/ \E i \in 1..MaxLog : Committed(i)

Next ==
    \/ \E f \in Frontend : Call(f) \/ FrontendStep(f)
    \/ Raft
    \/ LoopStep
    \/ StopFlag \/ StopNotify \/ StopJoin

\* Threads that can go on do so.  Nothing obliges a client to call, Raft to
\* elect or to commit, or anybody to call stop().
Fairness ==
    /\ \A f \in Frontend : WF_vars(FrontendStep(f))
    /\ WF_vars(LoopStep)
    /\ WF_vars(StopNotify) /\ WF_vars(StopJoin)

Spec == Init /\ [][Next]_vars /\ Fairness

-----------------------------------------------------------------------------
(* Properties *)

\* The shapes of the state.
TypeOK ==
    /\ leader \in BOOLEAN /\ running \in BOOLEAN
    /\ log \in Seq(Request \cup {Foreign}) /\ Len(log) <= MaxLog
    /\ applied \in 0..commit /\ commit \in 0..Len(log)
    /\ DOMAIN pending \subseteq 1..MaxLog
    /\ \A i \in DOMAIN pending : pending[i] \in Request
    /\ \A r \in DOMAIN result : r \in Request /\ result[r] \in Request \cup {Foreign}
    /\ pc \in [Frontend -> {"idle", "called", "proposed", "blocking", "asleep",
                            "woken", "returning"}]
    /\ req \in [Frontend -> 0..MaxRequests]

\* No proposal is registered at an index that was already applied, where
\* nobody would look for it again: propose() and the registration exclude
\* poll(), even if the entry commits at once.
RegisteredInTime == \A i \in DOMAIN pending : i > applied

\* A waiter is answered with what its own command returned: the handler is to
\* wait until "the command is committed and applied".
OwnResult == \A r \in DOMAIN result : result[r] = r

\* A command that is in the committed log is never answered with the result
\* of another one, also when leadership was lost in between; so a client that
\* gets a foreign answer was at least not executed.
CommittedOwn ==
    \A r \in DOMAIN result : (\E i \in 1..commit : log[i] = r) => result[r] = r

\* As long as the node keeps its leadership, a front end that waits and is not
\* answered yet can still be: its proposal is registered, or in the hands of
\* the loop.  (A later leadership may register another one at its index.)
WaiterKnown ==
    \A f \in Frontend :
        deposals = 0 /\ pc[f] \in {"proposed", "blocking", "asleep"} =>
            \/ Done(Mine(f)) \/ loop.waiter = Mine(f)
            \/ \E i \in DOMAIN pending : pending[i] = Mine(f)

\* A command that was committed gets its result, unless the server stops, or a
\* later leadership has registered another command at its index: what comes
\* back after that is applied and not answered.
CommittedAnswered ==
    \A r \in Request :
        (\E i \in 1..commit : log[i] = r)
            ~> (Done(r) \/ r \in displaced \/ ~running)

\* A front end whose command has a result returns to its client.
AnsweredReturns ==
    \A f \in Frontend :
        (pc[f] # "idle" /\ Done(Mine(f))) ~> (pc[f] = "idle")

\* stop() ends the loop, whatever the loop was doing.
StopEnds == (stopper # "idle") ~> (stopper = "stopped")
=============================================================================
