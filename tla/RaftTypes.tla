------------------------------ MODULE RaftTypes ------------------------------
(***************************************************************************)
(* The nodes of a cluster, the messages between them, the state of a       *)
(* RawNode and what is in hardstate.bin.                                   *)
(***************************************************************************)
EXTENDS Integers, Sequences, FiniteSets, RaftLog, Progress

CONSTANTS Node,          \* the voters, config.peers on every node
          Nobody         \* NodeId 0

ASSUME NodeAssumption ==
    IsFiniteSet(Node) /\ Node # {} /\ Nobody \notin Node

MessageType == {"MsgVote", "MsgVoteResp", "MsgApp", "MsgAppResp",
                "MsgHeartbeat", "MsgHeartbeatResp"}

Message == [type : MessageType, from : Node, to : Node, term : Nat,
            logTerm : Nat, index : Nat, commit : Nat, entries : Seq(Entry),
            reject : BOOLEAN, rejectHint : Nat]

NodeState == [role : {"Follower", "Candidate", "Leader"}, term : Nat,
              vote : Node \cup {Nobody}, lead : Node \cup {Nobody},
              votes : SUBSET Node, log : Log, pr : [Node -> PeerProgress],
              msgs : SUBSET Message]

HardState == [term : Nat, vote : Node \cup {Nobody}, commit : Nat]

Quorum == Cardinality(Node) \div 2 + 1

Peers(n) == Node \ {n}
=============================================================================
