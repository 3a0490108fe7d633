------------------------------- MODULE CatchUp -------------------------------
(***************************************************************************)
(* One term of Cluster from the election on: Lead replicates to Behind     *)
(* over a connection that may lose messages, the other servers are down.   *)
(* Lead goes on sending heartbeats and Behind, hearing them, does not      *)
(* campaign.  The question is whether Behind gets the whole log.           *)
(***************************************************************************)
EXTENDS Cluster

CONSTANTS Lead, Behind,
          MaxLost       \* bound: messages lost in a behaviour

ASSUME LinkAssumption ==
    Lead \in Node /\ Behind \in Node \ {Lead} /\ MaxLost \in Nat

VARIABLE lost           \* counts towards MaxLost

linkvars == <<vars, lost>>

-----------------------------------------------------------------------------
\* Logs, as terms, that Lead and Behind can have when the servers that are
\* down now elected Lead in term 3: Behind may miss entries, have entries
\* that nobody else has, or have them in place of Lead's.
Starts == {[lead |-> <<>>,     behind |-> <<>>],
           [lead |-> <<1, 1>>, behind |-> <<>>],
           [lead |-> <<1>>,    behind |-> <<1, 1>>],
           [lead |-> <<2>>,    behind |-> <<1, 1>>]}

Entries(terms) == [i \in 1..Len(terms) |-> [index |-> i, term |-> terms[i]]]

Elected(entries) ==
    BecomeLeader(Lead, BecomeCandidate(Lead, StartNode(2, Nobody, entries)))

LinkInit ==
    /\ \E start \in Starts :
          nd = [n \in Node |->
                  CASE n = Lead   -> Elected(Entries(start.lead))
                    [] n = Behind -> StartNode(2, Nobody, Entries(start.behind))
                    [] OTHER      -> StartNode(3, Lead, <<>>)]
    /\ hs = [n \in Node |-> [term |-> nd[n].term, vote |-> nd[n].vote, commit |-> 0]]
    /\ tail = [n \in Node |-> "whole"] /\ misread = {}
    /\ fsm = [n \in Node |-> <<>>]
    /\ net = {}
    /\ batch = [n \in Node |-> 0]
    /\ elections = 0 /\ beats = 0 /\ crashes = 0
    /\ lost = 0

-----------------------------------------------------------------------------
\* A round of n's raftLoop in one step: s is n after the tick or the message,
\* then poll, processReady and advance as in Ready.
Round(n, s, rest) ==
    /\ nd' = [nd EXCEPT ![n] = [Advance(s) EXCEPT
                  !.log.stored = AppendNoSync(s.log.stored, s.log.unstable)]]
    /\ tail' = [tail EXCEPT ![n] = TailAfter(@, s.log.stored, s.log.unstable)]
    /\ hs' = [hs EXCEPT ![n] = [term |-> s.term, vote |-> s.vote,
                                commit |-> s.log.committed]]
    /\ net' = rest \cup s.msgs
    /\ fsm' = [fsm EXCEPT ![n] = @ \o NextCommittedEntries(s.log)]
    /\ UNCHANGED <<misread, batch, elections, beats, crashes, lost>>

\* tickHeartbeat, as often as it likes.
Beat == Round(Lead, BroadcastHeartbeat(Lead, nd[Lead]), net)

Deliver(type) ==
    \E m \in net : /\ m.type = type /\ m.to \in {Lead, Behind}
                   /\ Round(m.to, Step(m.to, nd[m.to], m), net \ {m})

LinkPropose == ClientProposes(Lead) /\ UNCHANGED lost

\* sendOnConn failed, or the connection broke with the message in it.
Lose ==
    \E m \in net : /\ lost < MaxLost /\ m.to \in {Lead, Behind}
                   /\ net' = net \ {m} /\ lost' = lost + 1
                   /\ UNCHANGED <<nd, hs, tail, misread, fsm, batch, elections, beats, crashes>>

\* Behind is killed and started again.
LinkKill == Kill(Behind) /\ UNCHANGED lost

Carried == {"MsgApp", "MsgAppResp", "MsgHeartbeat", "MsgHeartbeatResp"}

LinkNext ==
    \/ Beat \/ LinkPropose \/ Lose \/ LinkKill
    \/ \E type \in Carried : Deliver(type)

\* raftLoop goes round and ticks: again and again all Lead had to say is on its
\* way, a heartbeat with its commit index included.
Beats ==
    /\ nd[Lead].msgs = {}
    /\ \E m \in net : /\ m.type = "MsgHeartbeat" /\ m.to = Behind
                      /\ m.commit = nd[Lead].log.committed

Waiting(type) == \E m \in net : m.type = type /\ m.to \in {Lead, Behind}

\* What only Deliver does: a message leaves net, and is not lost.
Taken(type) == lost' = lost /\ \E m \in net : m.type = type /\ m \notin net'

\* What a connection carries and does not lose it delivers, each kind on its
\* own: weak fairness of Deliver, which is enabled when a message waits.
LinkFairness ==
    /\ []<>Beats
    /\ \A type \in Carried : []<><<Waiting(type) => Taken(type)>>_linkvars

LinkSpec == LinkInit /\ [][LinkNext]_linkvars /\ LinkFairness

-----------------------------------------------------------------------------
(* Properties *)

\* Nothing of the exchange of MsgApp and MsgAppResp is under way.
Quiet ==
    \A m \in net \cup nd[Lead].msgs \cup nd[Behind].msgs :
        {m.from, m.to} = {Lead, Behind} => m.type \notin {"MsgApp", "MsgAppResp"}

\* Lead waits for an answer before it sends on: the probe is paused or the
\* in-flight window is full.
Waits ==
    LET pr == nd[Lead].pr[Behind]
    IN  pr.paused \/ (pr.state = "Replicate" /\ Full(pr))

\* sendAppend stops only while an answer is still to come: as long as nothing
\* was lost, a paused probe or a full window has its MsgApp or MsgAppResp on
\* the way.
PauseEnds == lost = 0 => ~(Waits /\ Quiet)

AllApplied == Len(fsm[Behind]) = LastIndex(nd[Lead].log)

\* LogUnstable's offset_ is 0 as after a start, and slice takes nothing from
\* storage below it.
NoEntrySinceStart ==
    nd[Behind].log.offset = 0 /\ nd[Behind].log.stored # <<>>

\* Behind applies every entry Lead has, out of any of the starting logs and
\* although messages are lost and Behind is restarted, except where a loss has
\* left Lead waiting for good, or no new entry has come since the restart.
CatchesUp == []<>(AllApplied \/ (Waits /\ Quiet) \/ NoEntrySinceStart)

\* What Lead has in flight never exceeds maxInflightMsgs and never passes the
\* end of its log, though lost and resent appends are counted again.
WindowKept ==
    LET pr == nd[Lead].pr[Behind]
    IN  /\ Len(pr.inflights) <= MaxInflight
        /\ \A i \in 1..Len(pr.inflights) : pr.inflights[i] <= LastIndex(nd[Lead].log)
        /\ pr.next <= LastIndex(nd[Lead].log) + 1
=============================================================================
