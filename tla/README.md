# A formal model of NexusLOB

NexusLOB is a limit order book replicated by its own Raft library. This
directory holds TLA+ models of it, the TLC runs that check them on small
instances, and TLAPS proofs for every size of cluster. `PROJECT.json` lists the
components, the runs, the source lines behind each definition, the hazards, the
findings and the theorems.

## The system

| part | source | module | state of the model |
|---|---|---|---|
| Raft core: elections, replication, commit, Ready/advance | `raft/src/RawNode.cpp` | `RawNode`, `Cluster` | modelled |
| log: storage and unstable tail | `raft/src/RaftLog.cpp`, `LogUnstable.cpp` | `RaftLog` | modelled but for snapshots |
| peer progress, in-flight window | `raft/src/tracker/Progress.cpp` | `Progress`, `CatchUp` | Probe and Replicate |
| write-ahead log, hard state | `app/storage/WriteAheadLog.cpp` | `WriteAheadLog`, `LogFile`, `LogStore` | process kills |
| server: raft loop, waiting clients, stop | `app/server/Server.cpp` | `Cluster`, `Server`, `ReadIndex` | `stop()` up to the join of the loop |
| order book on `std::map` | `app/statemachine/MapOrderBook.cpp` | `OrderBook` | modelled |
| order book on skip lists | `SkipList.h`, `SkipListOrderBook.cpp` | `SkipList`, `SkipListOrderBook` | `reset` left out |
| order-book state machine | `LOBStateMachine.cpp` | `LOBStateMachine` | modelled |
| command and result encoding | `app/protocol/` | `LOBStateMachine` | decoded or malformed |
| transport between nodes | `app/net/RaftTransport.cpp` | `Cluster` (`net`) | whole messages |
| client front ends | `app/net/ClientServer.cpp`, `OrderClientServer.cpp` | `Server` | threads, no sockets |
| ReadIndex reads | `raft/src/ReadOnly.cpp`, `Server::readBids` | `ReadIndex` | modelled on the leader |
| key-value state machine | `KVStateMachine.cpp` | `KVStateMachine` | snapshots left out |
| choice of the state machine | `main.cpp` | `MCParts` | modelled |
| shards | `app/server/ShardManager.cpp` | - | created by nobody |
| snapshots, membership, PreVote, transfer | several | - | no caller in the program |
| memory pool, configuration | `MemoryPool.h`, `Config.cpp` | - | unused, or wiring |

A client's command goes from a front-end thread into `RawNode::propose`, is
replicated by the raft loops of the nodes, written to each write-ahead log,
committed by a quorum, applied to each order book, and the result returns to
the thread that waits at the command's log index.

## Modules

`RaftLog`, `Progress`, `WriteAheadLog` and `RawNode` are operators on values,
one per C++ member function, named as in the source; `RaftTypes` has the shapes
of nodes and messages. `Cluster` composes them into the state machine: `nd[n]` is
a node's RawNode with its log, `hs[n]` is `hardstate.bin`, `tail[n]` how `log.bin`
ends, `fsm[n]` what the node has applied, `net` the messages in flight. Its actions are the parts of one iteration of `Server::raftLoop`:

| action | code |
|---|---|
| `TickElection`, `TickHeartbeat` | `RawNode::tick`; a randomised timeout may fire at any tick |
| `Receive...` | `RawNode::step` for one drained message |
| `ClientProposes` | `onClientRequest`, `submitRaw` up to the wait |
| `Ready` | `poll`, `processReady` (log, hard state, send, apply), `advance` |
| `Kill`, `KillInAppend`, `KillInSaveHardState` | the process dies, between or inside writes, and starts again |
| `KillMisread` | the same, on a `log.bin` with records behind half a record, which `replay` misreads |
| `Unreachable` | `MsgUnreachable`; the test harness sends it, `Server` does not |

`OrderBook` and `LOBStateMachine` model matching: a book is two functions from
prices to queues and an index, `match` is a fold, `apply` an action per
command. `SkipList` keeps the towers of forward pointers, and
`SkipListOrderBook` runs the engine on them in lockstep with the map engine;
the height of a new tower is any value the coin flips can give.

`Server` looks at one node from inside: two front-end threads, the loop thread
and the caller of `stop()`, one action per critical section or per unlocked
access, with the RawNode reduced to role, log and commit index. Another leader's
append (`Replicated`) may cut the log, overwrite its end, or bring back entries
that this node proposed; two history variables keep what is needed to say so,
the log up to each proposal (`copies`) and the proposals that were replaced in
`pending_` (`displaced`). `stop()` is modelled up to the join of the loop. Spurious wakeups are left out: nothing
guarantees one.

`CatchUp` is one term of `Cluster` seen from the connection between a leader
and one follower, for liveness: a round of `raftLoop` is one step (`Round`),
messages can be lost (`Lose`), and the follower is restarted (`LinkKill`). It
starts right after the election, with logs that agree, that miss entries on
either side, or that conflict. The operators are those of `RawNode`.

`ReadIndex` is the leader's side of a read: the client threads in `readBids`
and `readAsks` (`Begin`, `AskRaft`, `Return`), the raft loop (`TickHeartbeat`,
`HeartbeatResp`, `Ready`, which ends in `handleReadStates`), `ReadOnly`'s queue,
and the followers' answers.

`LogStore` is the abstract log of one server: writes that take effect, and kills
that leave a prefix of the log being written and possibly half a record. The
file is opened for append all the same. Once something was written behind the
half record (`tail` is `"buried"`), a start may find any log whose entries are in
the places of their indexes (`CrashMisread`); a rewrite starts the file afresh.
`LogStore` uses the operators that `Cluster` uses. `LogFile` is `log.bin` itself,
a sequence of fields, with `writeEntry`, `readEntry`, `replay` and the rewrite in
place; its history variable `appended` says whether this process has written.

`KVStateMachine` has the committed log and the replicas that apply, die and
replay it. `MCParts` puts the sequential parts of a server side by side for TLC:
`log.bin`, and the order book on both engines or the key-value store, between
which `main()` chooses.

`MCCluster` adds the symmetry set, the initial state with conflicting logs, and
the action constraints. `RawNodeSteps`, `Elections`
and `Links` have the kinds of steps and the invariants of the proofs, and
`...Proofs` the proofs. Definitions marked `mutant` are plausible slips of the
code; replacing the definition that follows by one makes the property named in
`PROJECT.json` fail.

### Abstractions

- An entry is its index and term. A leader writes one entry per index and term
  (`LeaderAppendOnly`), so these identify the payload.
- Messages are a set: lost by never being delivered, reordered, and with
  `Duplicates` delivered again and again.
- `OneAtATime` (an action constraint) lets only one node at a time be inside a
  loop iteration. What a node does before its Ready is seen by nobody, so
  iterations of different nodes commute.
- `Effective` (in `replication` and `recovery`) leaves a message in flight that would change
  nothing, which is as if it had been lost. The proofs use no constraint.
- poll to advance is one step. Only `propose` can run in between, and it adds
  to the end of the log, which persisting an earlier part does not touch.
- What `flush()` handed to the operating system survives a kill. Power
  failures are left out. `Cluster` has whole entries in its log, with gaps once
  it was misread; that `log.bin` gives it no less is what `LogFile` shows.
- A misread record can have any index and length. In the models the resize of
  the vector succeeds; in the program it can also fail, and end the process.
- In `ReadIndex` the appends that a heartbeat response sets off, and the
  election of the next leader, are left out: neither touches a read.
- `erase` of the end iterator (`Kills`) ends the process: libstdc++'s hash table
  reads the hash of the node it is given, and is given a null pointer.
- `maxSizePerMsg` counts entries, not bytes.

## Runs

| run | instance | what it shows |
|---|---|---|
| `replication` | 3 nodes, new or restarted with conflicting logs, 2 elections, 1 proposal besides no-ops | one leader per term; replicas agree; leaders have what was applied; logs match; acknowledged means stored; a vote on disk stays |
| `recovery` | 2 nodes, 2 elections, 2 kills also inside writes, the second of a server with half a record in its log; misread logs of up to 2 entries with terms 0 and 2; 1 heartbeat | indexes and windows keep their range; each index applied once, in order, until a log is misread |
| `catch_up` | leader and follower, 1 proposal on logs of 0 to 2 entries, 2 lost messages, 2 kills, window of 2 | flow control waits only for answers that are due; the follower applies the whole log, but for two stalls; leaders only append |
| `server_parts` | book: 3 ids, 3 prices, quantities 0-2, 4 commands, 2 tower heights; store: 2 replicas, 2 keys, 2 values, 3 commands, 1 kill; file: 2 entries, 2 terms, 2 kills | index, time order, priority, limits, conservation, snapshots; both engines agree, towers are sound; replies are the last write; `LogFile` implements `LogStore`, and what it reads is in place |
| `server_threads` | 1 request per front end, 3 entries, leadership lost twice, stop | proposals registered in time, what commits is answered with its own result unless its place in `pending_` was taken, no waiter forgotten while the node leads, `stop()` ends the loop |

Why the bounds are enough: two elections give a leader, its successor and a
stale candidate; one proposal besides the no-ops gives a committed entry and a
conflicting one. Half of the initial states of `replication` are where a longer
history would lead, so that the repair of logs is reached at once. No passing
run of `Cluster` duplicates messages; what is proved of it covers duplicates. One
lost message is enough to stall a probe, and a window of two to fill it. With
two kills a record torn by the first is read by the replay after the second,
and whatever follows it in between is misread. In `recovery` the second kill is
for that (`KillsAfterTorn`), and what a server applies from a log with gaps is
cut at two entries (`MaxApplied`), since a gap at the end of the committed entries
is handed out again by every Ready. Two losses of leadership let a proposal be
replaced in `pending_` by a later one and its entry come back.
Four commands let a book hold three makers and be swept by the fourth, which
then takes up the id of a maker, so three ids do. Wider instances also pass and
take longer: four ids, five commands with two prices, and three tower heights.
`CHECK_DEADLOCK FALSE` is set where the bounds end a behaviour.

`catch_up` excepts two stalls from its liveness property, since the code has
them. A lost probe, or a window of lost appends, leaves the leader waiting for
an answer that nobody owes it, because a heartbeat response neither resumes the
probe nor empties the window (`Waits /\ Quiet`). After a restart the offset of
the unstable log is 0, and `slice` takes nothing from storage until a new entry
has come (`NoEntrySinceStart`), although the repository's README says that the
nodes "recover automatically". Without either exception TLC refutes
`CatchesUp` within seconds, the second one with no message lost.

`LogStore` shows how little the log file promises. A kill leaves a prefix of the
log being written; if it was a rewrite, that can be shorter than what had been
committed. Half a record at the end stays in the file, the next process writes
behind it, and what a start after that reads is any log that is in place. So the
properties of logs are stated up to the first such start (`misread = {}`): before
it, logs match, leaders only append and each index is applied in order; after it,
a log may have gaps and entries that no leader wrote, and only `TypeOK`,
`ElectionSafety` and `VoteKept` are claimed.

`CommittedAnswered` excepts the proposals that were replaced in `pending_`. A node
that proposes, loses its leadership, has its log cut, leads again and proposes
at the same index forgets the first client; when the first entry comes back from
another leader and is committed, nobody answers it. Without the exception TLC
finds this.

Seven runs are expected to fail. Each states what the repository says of itself
and finds a behaviour of the code that contradicts it (`findings`):

| run | what happens |
|---|---|
| `heartbeat_commit` | a heartbeat's commit index is capped by the length of the follower's log only, so a deposed leader applies its own uncommitted entry |
| `stale_append` | a late, shorter append cuts off entries already acknowledged in the same batch |
| `torn_hardstate` | a kill while `hardstate.bin` is truncated allows a second vote in a term |
| `wrong_result` | a client gets the result of the command that took its log index |
| `lost_wakeup` | a notification outside the mutex is missed and the client waits on |
| `read_index` | followers answer a heartbeat without its token, so no ReadIndex read is ever answered |
| `kv_delete` | a DEL of a missing key ends every replica that applies or replays it, so nothing after it is answered |

`replication` passes for two reasons, and both are bounds: it has no heartbeats
(the first finding) and drains one message per iteration (the second).

### Fairness

`Server`: weak fairness of the threads that can continue, a front end past its
call, the loop thread, and `stop()` once called. The operating system schedules
runnable threads and no lock is held for ever. Nothing obliges a client to call,
Raft to elect or to commit, or anybody to stop the server.

`CatchUp`: a message that is not lost is delivered, each type on its own, as the
two connections between a pair of servers do; and again and again the leader's
messages are sent and a heartbeat with its commit index is on the way, as
`raftLoop` ticks for ever. Losing, killing and proposing have no fairness. The
leader stays leader, which is the case of interest: the follower hears
heartbeats and does not campaign.

`KVStateMachine` (in `kv_delete`): replicas go on applying, and dead ones are
started again.

`ReadIndex`: reads under way continue, the loop goes round, and every message is
delivered. This is more than the network gives, and the reads still wait.

## Proofs

Fifteen theorems, each for every number of nodes, threads or replicas and for
every bound. All but `OneWinnerHolds` state a property that a run checks on its
small instance.

| theorem | module | states | proviso |
|---|---|---|---|
| `TypeCorrect` | `ClusterProofs` | `Spec => []TypeOK` | |
| `AppliedInOrderHolds` | `ClusterProofs` | `Spec => []AppliedInOrder` | M |
| `LeaderAppendOnlyHolds` | `ClusterProofs` | `Spec => LeaderAppendOnly` | M |
| `ElectionSafetyHolds` | `ReplicationProofs` | `Spec => []ElectionSafety` | H |
| `OneWinnerHolds` | `ReplicationProofs` | `Spec => [](Leads(a, t) => [](Leads(b, t) => b = a))` | H |
| `VoteKeptHolds` | `ReplicationProofs` | `Spec => VoteKept` | H |
| `LeaderHintHolds` | `ReplicationProofs` | `Spec => [](misread = {} => LeaderHint)` | H, M |
| `LogMatchingHolds` | `ReplicationProofs` | `Spec => []LogMatching` | H, M |
| `ServerTypeCorrect` | `ServiceProofs` | `Spec => []TypeOK` of `Server` | |
| `RegisteredInTimeHolds` | `ServiceProofs` | `Spec => []RegisteredInTime` | |
| `CommittedOwnHolds` | `ServiceProofs` | `Spec => []CommittedOwn` | |
| `WaiterKnownHolds` | `ServiceProofs` | `Spec => []WaiterKnown` | |
| `RepliesLastWriteHolds` | `ServiceProofs` | `KVSpec => []RepliesLastWrite` | |
| `InPlaceHolds` | `LogFileProofs` | `FileSpec => []InPlace` | |
| `ImplementsStoreHolds` | `LogFileProofs` | `FileSpec => ImplementsStore` | |

H: no kill tears `hardstate.bin` (`"hardstate" \notin TornWrites`);
`torn_hardstate` shows that one leader per term fails without it. M: up to the
first start on a `log.bin` with records behind half a record (`misread = {}`, a
condition in the property or the theorem). Appends to `log.bin` may be torn, at
every kill, messages lost, repeated and reordered. The other
assumptions are those of the constants, which TLC evaluates: a finite, non-empty
set of nodes, a positive window, batch and number of entries per message,
natural numbers for the other bounds, and `Nobody` being no node, `Foreign` and
`None` no request, `NoValue` no key.

How the modules build on each other:

- `RawNodeProofs`: every operation of RaftLog, Progress, WriteAheadLog and
  RawNode keeps types, and is a step of one of the kinds in `RawNodeSteps`.
- `LogProofs`: each operation on a log keeps it in order, in the sense of
  `Links`. `NodeLogProofs`: so does each handler of RawNode, with its messages.
- `ElectionProofs`: each kind of step keeps the invariant in `Elections`, and
  what won elections mean for the logs.
- `ClusterProofs`: the steps of `Cluster` keep types and the order of the logs.
- `ReplicationProofs`: they keep the invariant of elections; both together,
  quorums, and the theorems with proviso H.
- `ServiceProofs`: `Server`, then `KVStateMachine`. `LogFileProofs`: `LogFile`.

Invariants are stated of values (`ElectionInv(N, H, M, S)`), not of variables:
one handler is several operations, and each is followed from one intermediate
state to the next.

**Types.** `TypeCorrect` needs that messages go to others than their sender
(`Addressed`). It says that no index wraps below zero and, since the window in
`PeerProgress` has at most `MaxInflight` places, that the abort in
`Inflights::add` is never reached.

**Elections.** `ElectionSafety` is not inductive. `ElectionInv` says that a vote
that is queued, in flight or counted pins its sender (`VotesAgree`,
`VotesPinned`), in memory and, once it is out, on disk (`VotesSaved`), until the
sender's term has passed; and that the disk is never ahead of memory
(`DiskBehind`). The delicate case is `becomeFollower`, which clears the vote even
within a term: a candidate has then voted for itself only, and stops being a
candidate, so no vote for another is forgotten. Two leaders of a term would need
two quorums, which share a node pinned to both. `Settled` extends this over
time: a won election stays won when its winner has been killed, as a quorum will
not vote for another in that term (`OneWinnerHolds`). `LogMatching` needs that.
That quorums meet (`QuorumsOK`) is a hypothesis of the lemmas, proved once.

**Logs.** A link is an index, the term of the entry there and the term of the
entry below it; a claim is a term and the node that won it. `LogOK` says that a
log, stored part and unstable overlay, has no gaps and its links are in a set K.
Every operation but the leader's own append only moves links that the log or the
message had, and only a won election adds a claim. With K and C all there ever
were (`History`), each term has one winner, each index and term one entry below,
and the entries of a term are the winner's, who has all of them while leading
(`OneStory`); two logs that agree on an entry then agree on the link below it.
K and C are not variables: the invariant says that such sets exist, and every
step gives the witness for the next.

**Applying.** `AppliedOK` does not need H: with K all triples, logs without gaps
are enough for `nextCommittedEntries` to hand out each index once and in order,
and no operation of a leader truncates its log.

**Server.** `ServerInv` relates the log, `pending_`, the batch being applied and
each front end. Each request is proposed once (`UsedOnce`), for one index (`At`),
and wherever its entry is, in the log or in what other nodes may have of it, it is
at that index (`Placed`). The place where a request is registered is that index
(`PendingOK`), so a result given there is its own if its entry is in the log at
all (`ResultOK`). An append of another leader keeps what is committed, and
results are only given for that.
Registration is in time since `propose` and the registration hold the lock that
the loop needs to take the next Ready (`BatchOK`, `Base`).

**Key-value store.** `KVInv` says that the map is what the last SET of each key in
the applied prefix left (`MapIs`), so replies depend on the log alone.

**Log file.** `FileInv` says that entries are in place and that, as long as the
process has not written, they are what `replay` makes of the file. `replay` is a
recursive function of the number of turns; its defining equation is proved
through the least-number principle (`Least`, `Induct`, `Recursion`), which takes
sets where the library's induction takes operators. From there: reading whole
records gives them back, reading a prefix of them gives a prefix, and whatever
is read is put in place. A kill then maps to `Crash` while the file is `Clean` or
is being rewritten, and to `CrashMisread` otherwise.

Only model-checked:

- `StateMachineSafety`, `LeaderCompleteness`, `MatchIsDurable` and
  `CommitWithinLog` are not claimed of every instance: they hold within the bounds of their runs, without heartbeats of a commit index
  above the follower's match and without two appends in one batch, and the
  findings show how they fail beyond.
- `PauseEnds` and `WindowKept` (beyond the length of the window) speak of
  `CatchUp`, and need a record of what was lost.
- The properties of both order books: `match` and the towers are folds, and each
  would need an induction of its own, as `replay` did.
- `CatchesUp`, `CommittedAnswered`, `StopEnds`, and the findings: liveness or
  violations.

## Not modelled

- Snapshots, membership changes, PreVote and leadership transfer: no code path
  of the program reaches them.
- `ShardManager`: nothing creates one. Read as it stands it answers no `submit`,
  so there is no behaviour to check.
- Sockets, framing and byte layouts of the three ports, and two sender threads
  that write to one socket at once: the models have whole messages.
- Power failures. On POSIX `sync()` does nothing past `flush()`, so nothing
  could be claimed.
- The joins of the front ends in `stop()`, the ring buffer behind the in-flight
  window, `MemoryPool` (unused) and the configuration.

## Hazards and plan

`PROJECT.json` lists the hazards at their lines, those without a property with
the reason. Next:

1. Proofs of `StateMachineSafety` and `LeaderCompleteness` once the two findings
   that refute them (`heartbeat_commit`, `stale_append`) are repaired in the
   code; the links and claims of `ReplicationProofs` are what they would rest on.
2. An abstract specification of a linearizable command service for `Server`,
   and an abstract price-time queue for the order book.
3. The ring buffer as a refinement of the FIFO window; the joins in `stop()`.
