---------------------------- MODULE KVStateMachine ----------------------------
(***************************************************************************)
(* KVStateMachine on the replicas of a cluster in mode kv: the committed   *)
(* log, and replicas that apply it at their own pace, are killed, and      *)
(* start again with an empty map and the log from its first entry.         *)
(***************************************************************************)
EXTENDS Integers, Sequences

CONSTANTS Replica, Key, Value,
          NoValue,          \* the empty string of a reply
          MaxCommitted,     \* bound: length of the log
          MaxRestarts       \* bound: kills in a behaviour

ASSUME KVAssumption ==
    NoValue \notin Key /\ MaxCommitted \in Nat /\ MaxRestarts \in Nat

VARIABLES
    commands,       \* the committed log of a cluster in mode kv
    kv,             \* kv[r]: map_, the commands applied, the last reply, up
    restarts        \* counts towards MaxRestarts

kvvars == <<commands, kv, restarts>>

\* decode: a command, or bytes that are none (the empty entry of a new leader,
\* an unknown opcode, a command cut short).
Command == [op : {"SET"}, key : Key, value : Value]
           \cup [op : {"GET", "DEL"}, key : Key, value : {NoValue}]
           \cup {[op |-> "BAD", key |-> NoValue, value |-> NoValue]}

\* Also what decodeApplyResult makes of the empty result of a bad command.
NotFound == [found |-> FALSE, value |-> NoValue]

Fresh == [map |-> <<>>, applied |-> 0, reply |-> NotFound, up |-> TRUE]

KVInit == commands = <<>> /\ kv = [r \in Replica |-> Fresh] /\ restarts = 0

\* [existed:1][valLen:4][val], the value the key had.
Previous(map, key) ==
    IF key \in DOMAIN map THEN [found |-> TRUE, value |-> map[key]] ELSE NotFound

-----------------------------------------------------------------------------
WrittenSetOnce(map, c) ==      \* mutant: map_.emplace
    CASE c.op = "SET" -> [k \in DOMAIN map \cup {c.key} |->
                             IF k \in DOMAIN map THEN map[k] ELSE c.value]
      [] c.op = "DEL" -> [k \in DOMAIN map \ {c.key} |-> map[k]]
      [] OTHER -> map

\* map_ after the command.
Written(map, c) ==
    CASE c.op = "SET" -> [k \in DOMAIN map \cup {c.key} |->
                             IF k = c.key THEN c.value ELSE map[k]]
      [] c.op = "DEL" -> [k \in DOMAIN map \ {c.key} |-> map[k]]
      [] OTHER -> map

\* erase(it) with it = end(): the hash table follows a null pointer.
Kills(map, c) == c.op = "DEL" /\ c.key \notin DOMAIN map

\* apply() on the raft loop of r.
KVApply(r) ==
    LET s == kv[r]
        c == commands[s.applied + 1]
    IN  /\ s.up /\ s.applied < Len(commands)
        /\ kv' = [kv EXCEPT ![r] =
                     IF Kills(s.map, c) THEN [s EXCEPT !.up = FALSE]
                     ELSE [s EXCEPT !.map = Written(s.map, c),
                                    !.applied = @ + 1,
                                    !.reply = IF c.op = "BAD" THEN NotFound
                                              ELSE Previous(s.map, c.key)]]
        /\ UNCHANGED <<commands, restarts>>

KVCommit(c) ==
    /\ Len(commands) < MaxCommitted
    /\ commands' = Append(commands, c)
    /\ UNCHANGED <<kv, restarts>>

\* The process is killed, and started again.
KVKill(r) ==
    /\ kv[r].up /\ restarts < MaxRestarts
    /\ restarts' = restarts + 1
    /\ kv' = [kv EXCEPT ![r] = Fresh]
    /\ UNCHANGED commands

\* A process that died in apply() is started again.
KVRestart(r) ==
    /\ ~kv[r].up
    /\ kv' = [kv EXCEPT ![r] = Fresh]
    /\ UNCHANGED <<commands, restarts>>

KVNext ==
    \/ \E c \in Command : KVCommit(c)
    \/ \E r \in Replica : KVApply(r) \/ KVKill(r) \/ KVRestart(r)

KVSpec == KVInit /\ [][KVNext]_kvvars

\* The raft loop goes on applying, and whoever runs the cluster starts a dead
\* replica again.
KVFair ==
    KVSpec /\ \A r \in Replica : WF_kvvars(KVApply(r)) /\ WF_kvvars(KVRestart(r))

-----------------------------------------------------------------------------
(* Properties *)

\* The SETs that position i of the log can see: of its key, before it, and
\* with no other write of the key in between.
LastSet(i) ==
    {j \in 1..(i - 1) :
        /\ commands[j].op = "SET" /\ commands[j].key = commands[i].key
        /\ \A k \in (j + 1)..(i - 1) :
              commands[k].op \in {"SET", "DEL"}
                  => commands[k].key # commands[i].key}

\* Every reply is the value of the last SET of the key before the command in
\* the log, on every replica and in every replay: "return previous value (or
\* empty if missing)".
RepliesLastWrite ==
    \A r \in Replica :
        LET i == kv[r].applied
        IN  i > 0 => kv[r].reply =
                        IF LastSet(i) = {} THEN NotFound
                        ELSE [found |-> TRUE,
                              value |-> commands[CHOOSE j \in LastSet(i) : TRUE].value]

\* Every replica answers every command of the log in the end: "DEL - delete key,
\* return previous value (or empty if missing)" (KVStateMachine.h:19).
EveryCommandApplied ==
    \A r \in Replica : []<>(kv[r].applied = Len(commands))
=============================================================================
