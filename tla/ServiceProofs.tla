---------------------------- MODULE ServiceProofs ----------------------------
(***************************************************************************)
(* What the clients of a server are told.  First the threads of the server *)
(* around pending_: what they keep true of the results and of the waiting  *)
(* clients, for any number of front ends, requests, entries and changes of *)
(* leadership.  Then the key-value store: what map_ holds is a function of *)
(* the applied prefix of the log, for any replicas, keys, values and length*)
(* of the log, so replies depend on the log alone.                         *)
(***************************************************************************)
EXTENDS Server, KVStateMachine, SequenceTheorems, TLAPS

\* Zenon is quick where there is no arithmetic; the solver has time for the
\* rest, whatever the machine.  Leaves that only Zenon finds name it.
USE ZenonT(3), SMTT(60)

-----------------------------------------------------------------------------
(* The threads of a server *)

LoopState ==
    [pc : {"top", "step", "apply", "finish", "notify", "ended"},
     batch : Seq(Request \cup {Foreign}), waiter : Request \cup {None}]

\* TypeOK, with the shapes of what only the loop and the bounds use, and no
\* front end under way without a request.
TypeInv ==
    /\ TypeOK /\ loop \in LoopState /\ deposals \in Nat
    /\ \A f \in Frontend : pc[f] # "idle" => req[f] >= 1

Indexes == 1..Len(log)

\* The index of the last entry the loop has done with: apply() has counted the
\* entry it is about to answer for.
Base == IF loop.pc = "finish" THEN applied - 1 ELSE applied

\* The batch in hand is the part of the log that follows, and is committed.
BatchOK ==
    loop.pc \in {"apply", "finish", "notify"} =>
        /\ Base + Len(loop.batch) <= commit
        /\ \A i \in 1..Len(loop.batch) : loop.batch[i] = log[Base + i]
        /\ loop.pc = "finish" => applied >= 1 /\ loop.batch # <<>>

\* Command r was proposed, and for index i.
At(r, i) == r \in DOMAIN copies /\ Len(copies[r]) = i

\* Every command of a log is at the index for which it was proposed.
Placed(l) == \A j \in 1..Len(l) : l[j] = Foreign \/ At(l[j], j)

CopiesOK ==
    /\ \A r \in DOMAIN copies :
          /\ r \in Request
          /\ copies[r] \in Seq(Request \cup {Foreign}) /\ Len(copies[r]) <= MaxLog
          /\ Placed(copies[r])
    /\ Placed(log)

\* The loop has a proposal in hand while it answers: the one for the entry just
\* applied.
HandOK ==
    /\ loop.waiter # None <=> loop.pc \in {"finish", "notify"}
    /\ loop.pc = "notify" => Done(loop.waiter)
    /\ loop.pc = "finish" => At(loop.waiter, applied)

\* Each request is proposed once.
UsedOnce ==
    \A f \in Frontend : \A k \in 1..MaxRequests :
        <<f, k>> \in DOMAIN copies => k <= req[f] /\ (pc[f] = "called" => k < req[f])

\* A proposal is registered at its index.
PendingOK == \A i \in DOMAIN pending : At(pending[i], i)

\* A command with a result was proposed for an index that is applied by now,
\* and if it is in the log the result is its own.
ResultOK ==
    \A r \in DOMAIN result :
        /\ r \in DOMAIN copies /\ Len(copies[r]) <= applied
        /\ \A j \in Indexes : log[j] = r => result[r] = r

\* Until the first loss of leadership the log never shrinks below a proposal.
LedOK == deposals = 0 => DOMAIN pending \subseteq Indexes

\* WaiterKnown, also for a front end that was woken and has not looked yet.
Waiting == {"proposed", "blocking", "asleep", "woken"}

KnownOK ==
    \A f \in Frontend :
        deposals = 0 /\ pc[f] \in Waiting =>
            \/ Done(Mine(f)) \/ loop.waiter = Mine(f)
            \/ \E i \in DOMAIN pending : pending[i] = Mine(f)

ServerInv ==
    /\ TypeInv /\ CopiesOK /\ BatchOK /\ HandOK /\ UsedOnce
    /\ PendingOK /\ ResultOK /\ RegisteredInTime /\ LedOK /\ KnownOK

-----------------------------------------------------------------------------
\* A map with one more entry, or with an entry replaced.
LEMMA PutProps ==
    ASSUME NEW f, NEW k, NEW v
    PROVE  /\ DOMAIN Put(f, k, v) = DOMAIN f \cup {k}
           /\ Put(f, k, v)[k] = v
           /\ \A x \in DOMAIN f \ {k} : Put(f, k, v)[x] = f[x]
    BY DEF Put

\* The request a front end is at, and no other front end's.
LEMMA MineProps ==
    ASSUME TypeInv, NEW f \in Frontend
    PROVE  /\ req[f] \in 0..MaxRequests
           /\ req[f] >= 1 => Mine(f) \in Request
           /\ \A g \in Frontend : \A k : <<g, k>> = Mine(f) => g = f /\ k = req[f]
           /\ Mine(f) # Foreign \/ req[f] = 0
           /\ Mine(f) # None \/ req[f] = 0
<1>1. req[f] \in 0..MaxRequests
    BY DEF TypeInv, TypeOK
<1>2. req[f] >= 1 => Mine(f) \in Request
    BY <1>1 DEF Mine, Request
<1>3. \A g \in Frontend : \A k : <<g, k>> = Mine(f) => g = f /\ k = req[f]
    BY DEF Mine
<1>. QED  BY <1>1, <1>2, <1>3, ForeignAssumption, ServerAssumption

\* A step that moves one front end and touches nothing else.
LEMMA PcStep ==
    ASSUME ServerInv, NEW f \in Frontend,
           NEW place \in {"idle", "proposed", "blocking", "asleep", "woken",
                          "returning"},
           place \in Waiting => pc[f] \in Waiting, pc[f] # "idle",
           Enter(f, place),
           UNCHANGED <<raft, applied, pending, result, running, req, loop, stopper>>
    PROVE  ServerInv'
<1>. USE DEF ServerInv, raft
<1>1. pc \in [Frontend -> {"idle", "called", "proposed", "blocking", "asleep",
                           "woken", "returning"}]
    BY DEF TypeInv, TypeOK
<1>2. pc' = [pc EXCEPT ![f] = place]
    BY DEF Enter
<1>3. TypeInv'
    BY <1>1, <1>2 DEF TypeInv, TypeOK
<1>4. /\ CopiesOK' /\ BatchOK' /\ HandOK' /\ PendingOK' /\ ResultOK'
      /\ RegisteredInTime' /\ LedOK'
    BY SMTT(30) DEF CopiesOK, Placed, At, BatchOK, Base, HandOK, Done, Indexes, PendingOK,
           ResultOK, RegisteredInTime, LedOK
<1>5. UsedOnce'
    BY <1>1, <1>2 DEF UsedOnce
<1>6. KnownOK'
    BY <1>1, <1>2 DEF KnownOK, Done, Mine
<1>. QED  BY <1>3, <1>4, <1>5, <1>6

\* The unlocked isLeader() and the start of a new request.
LEMMA CallOK ==
    ASSUME ServerInv, NEW f \in Frontend, Call(f)
    PROVE  ServerInv'
<1>. USE DEF ServerInv, raft
<1>1. /\ pc \in [Frontend -> {"idle", "called", "proposed", "blocking", "asleep",
                              "woken", "returning"}]
      /\ req \in [Frontend -> 0..MaxRequests] /\ req[f] < MaxRequests
    BY DEF TypeInv, TypeOK, Call
<1>2. /\ pc' = [pc EXCEPT ![f] = "called"] /\ req' = [req EXCEPT ![f] = req[f] + 1]
      /\ UNCHANGED <<leader, log, commit, deposals, copies, applied, pending, result,
                     running, loop, stopper>>
    BY DEF Call, Enter
<1>3. TypeInv'
    BY SMTT(30), <1>1, <1>2, ServerAssumption DEF TypeInv, TypeOK
<1>4. /\ CopiesOK' /\ BatchOK' /\ HandOK' /\ PendingOK' /\ ResultOK'
      /\ RegisteredInTime' /\ LedOK'
    BY SMTT(30), <1>2 DEF CopiesOK, Placed, At, BatchOK, Base, HandOK, Done, Indexes,
                PendingOK, ResultOK, RegisteredInTime, LedOK
<1>5. UsedOnce'
    BY SMTT(30), <1>1, <1>2, ServerAssumption DEF UsedOnce
<1>6. KnownOK'
    BY <1>1, <1>2 DEF KnownOK, Done, Mine, Waiting
<1>. QED  BY <1>3, <1>4, <1>5, <1>6

\* propose() and the registration under raftMutex_: the request is new, so it
\* is in the log once, where it is registered, and above what was applied.
LEMMA ProposeOK ==
    ASSUME ServerInv, NEW f \in Frontend, Propose(f)
    PROVE  ServerInv'
<1>. USE DEF ServerInv
<1>1. CASE ~leader
  <2>1. Enter(f, "idle") /\ UNCHANGED <<raft, applied, pending, result, running,
                                         req, loop, stopper>>
      BY <1>1 DEF Propose, raft
  <2>2. pc[f] # "idle"
      BY DEF Propose
  <2>. QED  BY <2>1, <2>2, PcStep DEF Waiting
<1>2. CASE leader
  <2>. DEFINE r == Mine(f)
              n == Len(log) + 1
  <2>0. /\ TypeOK /\ loop \in LoopState /\ deposals \in Nat
        /\ log \in Seq(Request \cup {Foreign}) /\ Len(log) \in Nat
        /\ Len(log) < MaxLog /\ n \in 1..MaxLog
        /\ applied \in 0..commit /\ commit \in 0..Len(log)
        /\ pc[f] = "called"
        /\ pc \in [Frontend -> {"idle", "called", "proposed", "blocking",
                                "asleep", "woken", "returning"}]
        /\ req \in [Frontend -> 0..MaxRequests]
      BY SMTT(30), <1>2, LenProperties, ServerAssumption DEF Propose, TypeInv, TypeOK
  <2>1. /\ log' = Append(log, r) /\ pending' = Put(pending, n, r)
        /\ copies' = Put(copies, r, log')
        /\ pc' = [pc EXCEPT ![f] = "proposed"]
        /\ UNCHANGED <<leader, commit, deposals, applied, result, running, req,
                       loop, stopper>>
      BY <1>2 DEF Propose, Registered, Enter
  <2>2. req[f] >= 1 /\ r \in Request /\ r # Foreign /\ r # None
           /\ \A g \in Frontend : \A k : <<g, k>> = r => g = f /\ k = req[f]
    <3>1. req[f] >= 1
        BY <2>0 DEF TypeInv
    <3>. QED  BY <3>1, MineProps
  <2>3. r \notin DOMAIN copies
      BY <2>0, <2>2 DEF UsedOnce, Mine
  <2>. HIDE DEF r, n
  <2>4. /\ log' \in Seq(Request \cup {Foreign}) /\ Len(log') = n
        /\ log'[n] = r /\ \A j \in 1..Len(log) : log'[j] = log[j]
      BY SMTT(30), <2>0, <2>1, <2>2, AppendProperties DEF n
  <2>5. /\ DOMAIN pending' = DOMAIN pending \cup {n} /\ pending'[n] = r
        /\ \A i \in DOMAIN pending \ {n} : pending'[i] = pending[i]
    <3>1. pending' = Put(pending, n, r)
        BY <2>1
    <3>. QED  BY <3>1 DEF Put
  <2>6. Indexes' = Indexes \cup {n} /\ n \notin Indexes
           /\ \A j \in Indexes : log'[j] = log[j]
      BY <2>0, <2>4 DEF Indexes, n
  <2>7. TypeInv'
    <3>1. /\ leader' \in BOOLEAN /\ running' \in BOOLEAN
          /\ applied' \in 0..commit' /\ commit' \in 0..Len(log') /\ Len(log') <= MaxLog
          /\ req' \in [Frontend -> 0..MaxRequests]
        BY <2>0, <2>1, <2>4, ServerAssumption DEF TypeOK, n
    <3>2. /\ DOMAIN pending' \subseteq 1..MaxLog
          /\ \A i \in DOMAIN pending' : pending'[i] \in Request
        BY <2>0, <2>2, <2>5 DEF TypeOK
    <3>3. /\ pc' \in [Frontend -> {"idle", "called", "proposed", "blocking",
                                   "asleep", "woken", "returning"}]
          /\ \A g \in Frontend : pc'[g] # "idle" => req'[g] >= 1
        BY <2>0, <2>1, <2>2 DEF TypeInv
    <3>4. \A x \in DOMAIN result' :
             x \in Request /\ result'[x] \in Request \cup {Foreign}
        BY <2>0, <2>1 DEF TypeOK
    <3>5. TypeOK'
        BY <2>4, <3>1, <3>2, <3>3, <3>4 DEF TypeOK
    <3>. QED  BY <2>0, <2>1, <3>3, <3>5 DEF TypeInv
  <2>8. BatchOK'
    <3>1. ASSUME loop.pc \in {"apply", "finish", "notify"},
                 NEW i \in 1..Len(loop.batch)
          PROVE  log'[Base + i] = log[Base + i]
      <4>1. Len(loop.batch) \in Nat
          BY <2>0, LenProperties DEF LoopState
      <4>2. /\ Base + Len(loop.batch) <= commit
            /\ loop.pc = "finish" => applied >= 1
          BY <3>1 DEF BatchOK
      <4>3. commit \in Nat /\ applied \in Nat /\ commit <= Len(log)
          BY <2>0
      <4>4. Base \in Nat
          BY <4>2, <4>3 DEF Base
      <4>5. Base + i \in 1..Len(log)
          BY SMTT(30), <2>0, <3>1, <4>1, <4>2, <4>3, <4>4
      <4>. QED  BY <2>4, <4>5, ZenonT(60)
    <3>2. Base' = Base
        BY <2>1 DEF Base
    <3>. QED  BY <2>1, <3>1, <3>2, ZenonT(60) DEF BatchOK
  <2>9. /\ DOMAIN copies' = DOMAIN copies \cup {r} /\ copies'[r] = log'
        /\ \A x \in DOMAIN copies : copies'[x] = copies[x]
    <3>1. copies' = Put(copies, r, log')
        BY <2>1
    <3>. QED  BY <2>3, <3>1 DEF Put
  <2>10. Len(copies'[r]) = n
      BY <2>4, <2>9
  <2>. HIDE DEF n
  <2>11. HandOK' /\ PendingOK'
    <3>1. HandOK'
        BY <2>1, <2>9 DEF HandOK, At, Done
    <3>2. ASSUME NEW i \in DOMAIN pending'
          PROVE  pending'[i] \in DOMAIN copies' /\ Len(copies'[pending'[i]]) = i
        BY <2>5, <2>9, <2>10 DEF PendingOK, At
    <3>. QED  BY <3>1, <3>2 DEF PendingOK, At
  <2>12. UsedOnce'
      BY SMTT(30), <2>0, <2>1, <2>2, <2>9 DEF UsedOnce
  <2>13. ResultOK'
    <3>1. result' = result /\ applied' = applied
        BY <2>1
    <3>2. ASSUME NEW x \in DOMAIN result, NEW j \in Indexes', log'[j] = x
          PROVE  result[x] = x
        BY <2>3, <2>4, <2>6, <3>2 DEF ResultOK
    <3>3. \A x \in DOMAIN result :
             x \in DOMAIN copies' /\ Len(copies'[x]) <= applied
        BY <2>9 DEF ResultOK
    <3>. QED  BY <3>1, <3>2, <3>3 DEF ResultOK
  <2>17. CopiesOK'
    <3>1. ASSUME NEW j \in 1..Len(log')
          PROVE  log'[j] = Foreign \/ (log'[j] \in DOMAIN copies' /\ Len(copies'[log'[j]]) = j)
      <4>1. CASE j = n
          BY <2>4, <2>9, <2>10, <4>1
      <4>2. CASE j # n
        <5>1. j \in 1..Len(log) /\ log'[j] = log[j]
            BY <2>4, <2>6, <4>2 DEF Indexes
        <5>2. log[j] = Foreign \/ (log[j] \in DOMAIN copies /\ Len(copies[log[j]]) = j)
            BY <5>1 DEF CopiesOK, Placed, At
        <5>. QED  BY <2>9, <5>1, <5>2
      <4>. QED  BY <4>1, <4>2
    <3>2. ASSUME NEW x \in DOMAIN copies
          PROVE  /\ x \in Request /\ copies'[x] \in Seq(Request \cup {Foreign})
                 /\ Len(copies'[x]) <= MaxLog
                 /\ \A j \in 1..Len(copies'[x]) :
                       \/ copies'[x][j] = Foreign
                       \/ /\ copies'[x][j] \in DOMAIN copies'
                          /\ Len(copies'[copies'[x][j]]) = j
      <4>1. /\ x \in Request /\ copies[x] \in Seq(Request \cup {Foreign})
            /\ Len(copies[x]) <= MaxLog
            /\ \A j \in 1..Len(copies[x]) :
                  \/ copies[x][j] = Foreign
                  \/ copies[x][j] \in DOMAIN copies /\ Len(copies[copies[x][j]]) = j
          BY DEF CopiesOK, Placed, At
      <4>2. copies'[x] = copies[x]
          BY <2>9
      <4>. QED  BY <2>9, <4>1, <4>2
    <3>3. Len(log') <= MaxLog
        BY <2>0, <2>4 DEF n
    <3>. QED  BY SMTT(30), <2>2, <2>4, <2>9, <3>1, <3>2, <3>3 DEF CopiesOK, Placed, At
  <2>. USE DEF n
  <2>14. RegisteredInTime'
      BY SMTT(30), <2>0, <2>1, <2>5 DEF RegisteredInTime, n
  <2>15. LedOK'
      BY <2>1, <2>5, <2>6 DEF LedOK
  <2>16. KnownOK'
    <3>1. SUFFICES ASSUME NEW g \in Frontend, deposals' = 0, pc'[g] \in Waiting
                   PROVE  \/ Done(Mine(g))' \/ loop'.waiter = Mine(g)'
                          \/ \E i \in DOMAIN pending' : pending'[i] = Mine(g)'
        BY DEF KnownOK
    <3>2. CASE g = f
        BY <2>1, <2>5, <3>2 DEF Mine, r
    <3>3. CASE g # f
      <4>1. pc[g] \in Waiting /\ deposals = 0 /\ Mine(g)' = Mine(g)
          BY <2>0, <2>1, <3>1, <3>3 DEF Mine
      <4>2. n \notin DOMAIN pending
          BY <2>6, <4>1 DEF LedOK
      <4>. QED  BY <2>1, <2>5, <4>1, <4>2 DEF KnownOK, Done
    <3>. QED  BY <3>2, <3>3
  <2>. QED  BY <2>7, <2>8, <2>11, <2>12, <2>13, <2>14, <2>15, <2>16, <2>17
<1>. QED  BY <1>1, <1>2

\* What tick() and step() do to the node: the log keeps what is committed, has
\* commands of this server only where they were proposed, and shrinks only
\* after a loss of leadership.
LEMMA RaftStepOK ==
    ASSUME ServerInv, loop.pc = "step",
           leader' \in BOOLEAN, deposals' \in Nat,
           log' \in Seq(Request \cup {Foreign}), Len(log') <= MaxLog,
           commit' \in Nat, commit <= commit', commit' <= Len(log'),
           Placed(log'), \A j \in 1..commit : log'[j] = log[j],
           deposals' = 0 => deposals = 0 /\ Len(log) <= Len(log'),
           UNCHANGED <<copies, applied, pending, result, running, pc, req, loop,
                       stopper>>
    PROVE  ServerInv'
<1>. USE DEF ServerInv
<1>0. /\ TypeOK /\ loop \in LoopState /\ Len(log') \in Nat /\ Len(log) \in Nat
      /\ \A r \in DOMAIN result : r \in Request
      /\ applied \in 0..commit /\ commit \in 0..Len(log)
    BY LenProperties DEF TypeInv, TypeOK, LoopState
<1>1. TypeInv'
    BY SMTT(30), <1>0 DEF TypeInv, TypeOK
<1>2. BatchOK' /\ HandOK' /\ RegisteredInTime'
    BY DEF BatchOK, HandOK, RegisteredInTime, Done
<1>3. CopiesOK' /\ PendingOK'
    BY DEF CopiesOK, Placed, At, PendingOK
<1>4. UsedOnce'
    BY DEF UsedOnce
<1>6. ResultOK'
  <2>1. ASSUME NEW r \in DOMAIN result, NEW j \in 1..Len(log'), log'[j] = r
        PROVE  result[r] = r
    <3>1. At(r, j)
        BY <1>0, <2>1, ForeignAssumption DEF Placed
    <3>2. j <= applied
        BY <3>1 DEF ResultOK, At
    <3>3. j \in 1..commit /\ j \in Indexes
        BY <1>0, <3>2 DEF Indexes
    <3>. QED  BY <2>1, <3>3 DEF ResultOK
  <2>. QED  BY <2>1 DEF ResultOK, Indexes
<1>7. LedOK'
    BY <1>0 DEF LedOK, Indexes
<1>8. KnownOK'
    BY DEF KnownOK, Done, Mine
<1>. QED  BY <1>1, <1>2, <1>3, <1>4, <1>6, <1>7, <1>8

\* A part of the log, and the part with an entry of other origin, are placed.
LEMMA CutPlaced ==
    ASSUME ServerInv, NEW k \in commit..Len(log)
    PROVE  LET l == SubSeq(log, 1, k)
           IN  /\ l \in Seq(Request \cup {Foreign}) /\ Len(l) = k /\ Placed(l)
               /\ Append(l, Foreign) \in Seq(Request \cup {Foreign})
               /\ Len(Append(l, Foreign)) = k + 1 /\ Placed(Append(l, Foreign))
               /\ \A j \in 1..commit : l[j] = log[j] /\ Append(l, Foreign)[j] = log[j]
<1>. DEFINE l == SubSeq(log, 1, k)
            a == Append(l, Foreign)
<1>1. /\ log \in Seq(Request \cup {Foreign}) /\ Len(log) \in Nat /\ k \in Nat
      /\ k <= Len(log) /\ commit \in Nat /\ commit <= k
    BY LenProperties DEF ServerInv, TypeInv, TypeOK
<1>2. /\ l \in Seq(Request \cup {Foreign}) /\ Len(l) = k
      /\ \A j \in 1..k : l[j] = log[j]
    BY SMTT(30), <1>1, SubSeqProperties
<1>. HIDE DEF l
<1>3. /\ a \in Seq(Request \cup {Foreign}) /\ Len(a) = k + 1
      /\ a[k + 1] = Foreign /\ \A j \in 1..k : a[j] = l[j]
    BY SMTT(30), <1>2, AppendProperties
<1>. HIDE DEF a
<1>4. \A j \in 1..k : log[j] = Foreign \/ At(log[j], j)
    BY <1>1 DEF ServerInv, CopiesOK, Placed
<1>5. Placed(l)
    BY <1>2, <1>4 DEF Placed
<1>6. Placed(a)
    BY <1>1, <1>2, <1>3, <1>4 DEF Placed
<1>7. \A j \in 1..commit : l[j] = log[j] /\ a[j] = log[j]
    BY <1>1, <1>2, <1>3
<1>. QED  BY <1>2, <1>3, <1>5, <1>6, <1>7 DEF a, l

\* becomeLeader, with its no-op.
LEMMA ElectedOK ==
    ASSUME ServerInv, Elected
    PROVE  ServerInv'
<1>1. /\ log \in Seq(Request \cup {Foreign}) /\ Len(log) \in Nat /\ Len(log) <= MaxLog
      /\ commit \in Nat /\ commit <= Len(log) /\ deposals \in Nat
    BY SMTT(30), LenProperties DEF ServerInv, TypeInv, TypeOK
<1>2. CASE log = <<>>
    BY <1>1, <1>2, RaftStepOK DEF Elected, Stepping, ServerInv, CopiesOK
<1>3. CASE log # <<>>
  <2>1. /\ log' = Append(log, Foreign) /\ Len(log) < MaxLog
        /\ loop.pc = "step" /\ leader' = TRUE
        /\ UNCHANGED <<commit, deposals, copies, applied, pending, result, running,
                       pc, req, loop, stopper>>
      BY <1>3 DEF Elected, Stepping
  <2>2. SubSeq(log, 1, Len(log)) = log /\ Len(log) \in commit..Len(log)
      BY <1>1
  <2>3. /\ log' \in Seq(Request \cup {Foreign}) /\ Len(log') = Len(log) + 1
        /\ Placed(log') /\ \A j \in 1..commit : log'[j] = log[j]
      BY <2>1, <2>2, CutPlaced
  <2>4. Len(log') <= MaxLog /\ commit <= Len(log') /\ Len(log) <= Len(log')
      BY <1>1, <2>1, <2>3, ServerAssumption
  <2>5. leader' \in BOOLEAN
      BY <2>1, ZenonT(60)
  <2>. QED  BY <1>1, <2>1, <2>3, <2>4, <2>5, RaftStepOK
<1>. QED  BY <1>2, <1>3

\* A higher term.
LEMMA DeposedOK ==
    ASSUME ServerInv, Deposed
    PROVE  ServerInv'
<1>1. /\ log \in Seq(Request \cup {Foreign}) /\ Len(log) \in Nat /\ Len(log) <= MaxLog
      /\ commit \in Nat /\ commit <= Len(log) /\ deposals \in Nat
      /\ Placed(log)
    BY SMTT(30), LenProperties DEF ServerInv, TypeInv, TypeOK, CopiesOK
<1>2. /\ leader' = FALSE /\ deposals' = deposals + 1 /\ loop.pc = "step"
      /\ UNCHANGED <<log, commit, copies, applied, pending, result, running, pc, req,
                     loop, stopper>>
    BY DEF Deposed, Stepping
<1>3. deposals' \in Nat /\ deposals' # 0
    BY <1>1, <1>2
<1>4. leader' \in BOOLEAN
    BY <1>2, ZenonT(60)
<1>. QED  BY <1>1, <1>2, <1>3, <1>4, RaftStepOK

\* A MsgApp of another leader.
LEMMA ReplicatedOK ==
    ASSUME ServerInv, Replicated
    PROVE  ServerInv'
<1>1. /\ log \in Seq(Request \cup {Foreign}) /\ Len(log) \in Nat /\ Len(log) <= MaxLog
      /\ commit \in Nat /\ commit <= Len(log) /\ deposals \in Nat
      /\ leader \in BOOLEAN
    BY SMTT(30), LenProperties DEF ServerInv, TypeInv, TypeOK
<1>2. /\ log' \in Overwritten /\ deposals > 0 /\ loop.pc = "step"
      /\ UNCHANGED <<leader, commit, deposals, copies, applied, pending, result,
                     running, pc, req, loop, stopper>>
    BY DEF Replicated, Stepping
<1>3. ASSUME NEW k \in commit..Len(log), log' = SubSeq(log, 1, k)
      PROVE  /\ log' \in Seq(Request \cup {Foreign}) /\ Len(log') <= MaxLog
             /\ commit <= Len(log') /\ Placed(log')
             /\ \A j \in 1..commit : log'[j] = log[j]
  <2>1. /\ log' \in Seq(Request \cup {Foreign}) /\ Len(log') = k /\ Placed(log')
        /\ \A j \in 1..commit : log'[j] = log[j]
      BY <1>3, CutPlaced
  <2>. QED  BY <1>1, <2>1, ServerAssumption
<1>4. ASSUME NEW k \in commit..Len(log), Len(SubSeq(log, 1, k)) < MaxLog,
             log' = Append(SubSeq(log, 1, k), Foreign)
      PROVE  /\ log' \in Seq(Request \cup {Foreign}) /\ Len(log') <= MaxLog
             /\ commit <= Len(log') /\ Placed(log')
             /\ \A j \in 1..commit : log'[j] = log[j]
  <2>1. /\ log' \in Seq(Request \cup {Foreign}) /\ Len(log') = k + 1 /\ Placed(log')
        /\ \A j \in 1..commit : log'[j] = log[j]
        /\ Len(SubSeq(log, 1, k)) = k
      BY <1>4, CutPlaced
  <2>. QED  BY <1>1, <1>4, <2>1, ServerAssumption
<1>5. ASSUME NEW r \in DOMAIN copies, log' = copies[r], Len(copies[r]) >= commit,
             SubSeq(copies[r], 1, commit) = SubSeq(log, 1, commit)
      PROVE  /\ log' \in Seq(Request \cup {Foreign}) /\ Len(log') <= MaxLog
             /\ commit <= Len(log') /\ Placed(log')
             /\ \A j \in 1..commit : log'[j] = log[j]
  <2>1. /\ log' \in Seq(Request \cup {Foreign}) /\ Len(log') <= MaxLog
        /\ Placed(log') /\ Len(log') \in Nat
      BY <1>5, LenProperties DEF ServerInv, CopiesOK
  <2>2. commit <= Len(log')
      BY <1>1, <1>5, <2>1
  <2>3. /\ \A j \in 1..commit : SubSeq(log', 1, commit)[j] = log'[j]
        /\ \A j \in 1..commit : SubSeq(log, 1, commit)[j] = log[j]
      BY SMTT(30), <1>1, <2>1, <2>2, SubSeqProperties
  <2>4. SubSeq(log', 1, commit) = SubSeq(log, 1, commit)
      BY <1>5
  <2>. QED  BY <2>1, <2>2, <2>3, <2>4
<1>6. /\ log' \in Seq(Request \cup {Foreign}) /\ Len(log') <= MaxLog
      /\ commit <= Len(log') /\ Placed(log')
      /\ \A j \in 1..commit : log'[j] = log[j]
  <2>1. \/ \E k \in commit..Len(log) : log' = SubSeq(log, 1, k)
        \/ \E k \in commit..Len(log) :
              /\ Len(SubSeq(log, 1, k)) < MaxLog
              /\ log' = Append(SubSeq(log, 1, k), Foreign)
        \/ \E r \in DOMAIN copies :
              /\ log' = copies[r] /\ Len(copies[r]) >= commit
              /\ SubSeq(copies[r], 1, commit) = SubSeq(log, 1, commit)
      BY <1>2, ZenonT(60) DEF Overwritten
  <2>. QED  BY <1>3, <1>4, <1>5, <2>1
<1>7. deposals' # 0
    BY <1>1, <1>2
<1>. QED  BY <1>1, <1>2, <1>6, <1>7, RaftStepOK

\* The commit index moves up, within the log.
LEMMA CommittedOK ==
    ASSUME ServerInv, NEW i \in 1..MaxLog, Committed(i)
    PROVE  ServerInv'
<1>1. /\ log \in Seq(Request \cup {Foreign}) /\ Len(log) \in Nat /\ Len(log) <= MaxLog
      /\ commit \in Nat /\ deposals \in Nat /\ leader \in BOOLEAN /\ Placed(log)
    BY SMTT(30), LenProperties DEF ServerInv, TypeInv, TypeOK, CopiesOK
<1>2. /\ commit' = i /\ commit < i /\ i <= Len(log) /\ loop.pc = "step"
      /\ UNCHANGED <<leader, log, deposals, copies, applied, pending, result, running,
                     pc, req, loop, stopper>>
    BY DEF Committed, Stepping
<1>. QED  BY <1>1, <1>2, RaftStepOK

-----------------------------------------------------------------------------
\* A step of the loop between two entries: no proposal is in its hands.
LEMMA LoopStepOK ==
    ASSUME ServerInv, loop' \in LoopState, BatchOK',
           loop.waiter = None, loop'.waiter = None,
           loop'.pc \notin {"finish", "notify"},
           UNCHANGED <<raft, applied, pending, result, running, pc, req, stopper>>
    PROVE  ServerInv'
<1>. USE DEF ServerInv, raft
<1>1. TypeInv'
    BY DEF TypeInv, TypeOK
<1>2. /\ CopiesOK' /\ HandOK' /\ RegisteredInTime' /\ PendingOK' /\ ResultOK'
      /\ LedOK'
    BY SMTT(30) DEF CopiesOK, Placed, At, HandOK, RegisteredInTime, PendingOK, ResultOK, LedOK,
           Indexes
<1>3. UsedOnce'
    BY DEF UsedOnce
<1>4. KnownOK'
    BY DEF KnownOK, Done, Mine
<1>. QED  BY <1>1, <1>2, <1>3, <1>4

\* while (running_).
LEMMA RoundOK ==
    ASSUME ServerInv, Round
    PROVE  ServerInv'
<1>1. loop \in LoopState /\ loop.waiter = None
    BY DEF ServerInv, TypeInv, HandOK, LoopState, Round
<1>2. PICK place \in {"step", "ended"} : loop' = [loop EXCEPT !.pc = place]
    BY DEF Round
<1>3. /\ loop' \in LoopState /\ loop'.waiter = None
      /\ loop'.pc \notin {"apply", "finish", "notify"}
    BY <1>1, <1>2 DEF LoopState
<1>4. BatchOK'
    BY <1>3 DEF BatchOK
<1>5. UNCHANGED <<raft, applied, pending, result, running, pc, req, stopper>>
    BY DEF Round
<1>. QED  BY <1>1, <1>3, <1>4, <1>5, LoopStepOK

\* poll(): the Ready holds what is committed and not applied.
LEMMA PollOK ==
    ASSUME ServerInv, Poll
    PROVE  ServerInv'
<1>1. /\ loop \in LoopState /\ loop.waiter = None
      /\ log \in Seq(Request \cup {Foreign}) /\ Len(log) \in Nat
      /\ applied \in 0..commit /\ commit \in 0..Len(log)
    BY LenProperties DEF ServerInv, TypeInv, TypeOK, HandOK, LoopState, Poll, Stepping
<1>2. /\ Batch \in Seq(Request \cup {Foreign}) /\ Len(Batch) = commit - applied
      /\ \A i \in 1..Len(Batch) : Batch[i] = log[applied + i]
  <2>1. /\ SubSeq(log, applied + 1, commit) \in Seq(Request \cup {Foreign})
        /\ Len(SubSeq(log, applied + 1, commit)) = commit - applied
        /\ \A i \in 1..(commit - applied) :
              SubSeq(log, applied + 1, commit)[i] = log[applied + i]
    <3>. DEFINE m == applied + 1
    <3>1. /\ m \in Int /\ commit \in Int /\ commit - m + 1 = commit - applied
          /\ \A i \in m..commit : i \in 1..Len(log)
          /\ \A i \in 1..(commit - applied) : m + i - 1 = applied + i
          /\ IF m <= commit THEN TRUE ELSE commit - applied = 0
        BY <1>1
    <3>2. \A i \in m..commit : log[i] \in Request \cup {Foreign}
        BY <1>1, <3>1, ElementOfSeq
    <3>. HIDE DEF m
    <3>3. /\ SubSeq(log, m, commit) \in Seq(Request \cup {Foreign})
          /\ Len(SubSeq(log, m, commit)) = IF m <= commit THEN commit - m + 1 ELSE 0
          /\ \A i \in 1..(commit - m + 1) : SubSeq(log, m, commit)[i] = log[m + i - 1]
        BY SMTT(30), <3>1, <3>2, SubSeqProperties
    <3>4. Len(SubSeq(log, m, commit)) = commit - applied
        BY <3>1, <3>3, Zenon
    <3>5. \A i \in 1..(commit - applied) : SubSeq(log, m, commit)[i] = log[applied + i]
        BY <3>1, <3>3, Zenon
    <3>. QED  BY <3>3, <3>4, <3>5, Zenon DEF m
  <2>2. Batch = SubSeq(log, applied + 1, commit)
      BY DEF Batch
  <2>3. /\ Batch \in Seq(Request \cup {Foreign}) /\ Len(Batch) = commit - applied
        /\ \A i \in 1..(commit - applied) : Batch[i] = log[applied + i]
      BY <2>1, <2>2, Zenon
  <2>. QED  BY <2>3, Zenon
<1>. HIDE DEF Batch
<1>3. /\ loop' = [loop EXCEPT !.pc = "apply", !.batch = Batch]
      /\ UNCHANGED <<raft, applied, pending, result, running, pc, req, stopper>>
    BY DEF Poll
<1>4. /\ loop' \in LoopState /\ loop'.waiter = None /\ loop'.pc = "apply"
      /\ loop'.batch = Batch
    BY <1>1, <1>2, <1>3, ZenonT(60) DEF LoopState
<1>5. BatchOK'
    BY SMTT(30), <1>1, <1>2, <1>3, <1>4 DEF BatchOK, Base, raft
<1>. QED  BY <1>1, <1>3, <1>4, <1>5, LoopStepOK

\* advance().
LEMMA AdvanceOK ==
    ASSUME ServerInv, Advance
    PROVE  ServerInv'
<1>1. loop \in LoopState /\ loop.waiter = None
    BY DEF ServerInv, TypeInv, HandOK, LoopState, Advance
<1>2. /\ loop' = [loop EXCEPT !.pc = "top"]
      /\ UNCHANGED <<raft, applied, pending, result, running, pc, req, stopper>>
    BY DEF Advance
<1>3. loop' \in LoopState /\ loop'.waiter = None /\ loop'.pc = "top"
    BY <1>1, <1>2 DEF LoopState
<1>4. BatchOK'
    BY <1>3 DEF BatchOK
<1>. QED  BY <1>1, <1>2, <1>3, <1>4, LoopStepOK

\* apply() and the search for the proposal of this entry: the proposal leaves
\* pending_ for the hands of the loop.
LEMMA ApplyOK ==
    ASSUME ServerInv, Apply
    PROVE  ServerInv'
<1>. USE DEF ServerInv
<1>. DEFINE a == applied + 1
<1>0. /\ TypeOK /\ loop \in LoopState /\ loop.waiter = None /\ loop.pc = "apply"
      /\ loop.batch \in Seq(Request \cup {Foreign}) /\ loop.batch # <<>>
      /\ applied \in 0..commit /\ commit \in 0..Len(log) /\ Len(log) \in Nat
      /\ DOMAIN pending \subseteq 1..MaxLog
      /\ \A i \in DOMAIN pending : pending[i] \in Request
    BY LenProperties DEF TypeInv, TypeOK, HandOK, LoopState, Apply
<1>1. /\ Len(loop.batch) \in Nat /\ Len(loop.batch) >= 1
      /\ applied + Len(loop.batch) <= commit
      /\ \A i \in 1..Len(loop.batch) : loop.batch[i] = log[applied + i]
    BY SMTT(30), <1>0, EmptySeq, LenProperties DEF BatchOK, Base
<1>2. /\ applied' = a
      /\ UNCHANGED <<leader, log, commit, deposals, copies, result, running, pc, req,
                     stopper>>
    BY DEF Apply, raft
<1>3. a \in 1..commit /\ a \in 0..commit /\ a - 1 = applied
    BY <1>0, <1>1
<1>n. /\ applied \in Nat /\ commit \in Nat /\ Len(loop.batch) \in Nat
      /\ Len(loop.batch) >= 1 /\ applied + Len(loop.batch) <= commit
    BY <1>0, <1>1
<1>c. CopiesOK' /\ UsedOnce' /\ ResultOK'
  <2>1. CopiesOK' /\ UsedOnce'
      BY SMTT(30), <1>2 DEF CopiesOK, Placed, At, UsedOnce
  <2>2. \A r \in DOMAIN result : Len(copies[r]) <= a
    <3>1. ASSUME NEW r \in DOMAIN result PROVE Len(copies[r]) <= a
      <4>1. copies[r] \in Seq(Request \cup {Foreign}) /\ Len(copies[r]) <= applied
          BY DEF ResultOK, CopiesOK
      <4>2. Len(copies[r]) \in Nat
          BY <4>1, LenProperties
      <4>. QED  BY <1>n, <4>1, <4>2
    <3>. QED  BY <3>1
  <2>. HIDE DEF a
  <2>3. ResultOK'
      BY <1>2, <2>2 DEF ResultOK, Indexes
  <2>. QED  BY <2>1, <2>3
<1>4. CASE a \in DOMAIN pending
  <2>1. /\ pending' = [x \in DOMAIN pending \ {a} |-> pending[x]]
        /\ loop' = [loop EXCEPT !.pc = "finish", !.waiter = pending[a]]
      BY <1>2, <1>4 DEF Apply, Erased
  <2>. DEFINE w == pending[a]
  <2>2. w \in Request /\ w # None
      BY <1>0, <1>4, ForeignAssumption
  <2>. HIDE DEF a, w
  <2>3. /\ loop' \in LoopState /\ loop'.waiter = w /\ loop'.pc = "finish"
        /\ loop'.batch = loop.batch
      BY <1>0, <2>1, <2>2, ZenonT(60) DEF LoopState, w
  <2>4. /\ DOMAIN pending' = DOMAIN pending \ {a}
        /\ \A i \in DOMAIN pending' : i \in DOMAIN pending /\ pending'[i] = pending[i]
      BY <2>1
  <2>5. TypeInv'
      BY <1>0, <1>2, <1>3, <2>3, <2>4 DEF TypeInv, TypeOK
  <2>6. BatchOK'
    <3>1. Base' = applied
        BY <1>2, <1>3, <2>3 DEF Base
    <3>2. commit' = commit /\ log' = log /\ applied' >= 1
        BY <1>2, <1>3, <1>n
    <3>. QED  BY <1>0, <1>1, <2>3, <3>1, <3>2 DEF BatchOK
  <2>7. HandOK'
      BY <1>2, <1>4, <2>2, <2>3 DEF HandOK, PendingOK, At, w
  <2>9. PendingOK' /\ LedOK'
      BY <1>2, <2>4 DEF PendingOK, At, LedOK, Indexes
  <2>10. RegisteredInTime'
      BY SMTT(30), <1>0, <1>2, <2>4 DEF RegisteredInTime, a
  <2>11. KnownOK'
    <3>1. \A x : (\E i \in DOMAIN pending : pending[i] = x) =>
                 x = w \/ \E i \in DOMAIN pending' : pending'[i] = x
        BY <2>4 DEF w
    <3>2. SUFFICES ASSUME NEW g \in Frontend, deposals = 0, pc[g] \in Waiting
                   PROVE  \/ Done(Mine(g)) \/ loop'.waiter = Mine(g)
                          \/ \E i \in DOMAIN pending' : pending'[i] = Mine(g)
        BY <1>2 DEF KnownOK, Done, Mine
    <3>3. CASE loop.waiter = Mine(g)
      <4>1. Mine(g) # None
          BY <3>2, MineProps DEF TypeInv, Waiting
      <4>. QED  BY <1>0, <3>3, <4>1
    <3>4. CASE loop.waiter # Mine(g)
        BY <2>3, <3>1, <3>2, <3>4 DEF KnownOK
    <3>. QED  BY <3>3, <3>4
  <2>. QED  BY <1>c, <2>5, <2>6, <2>7, <2>9, <2>10, <2>11
<1>5. CASE a \notin DOMAIN pending
  <2>1. pending' = pending /\ loop' = [loop EXCEPT !.batch = Tail(loop.batch)]
      BY <1>2, <1>5 DEF Apply
  <2>. DEFINE b == Tail(loop.batch)
  <2>2. /\ b \in Seq(Request \cup {Foreign}) /\ Len(b) = Len(loop.batch) - 1
        /\ \A i \in 1..Len(b) : b[i] = loop.batch[i + 1]
      BY <1>0, <1>1, HeadTailProperties
  <2>. HIDE DEF a, b
  <2>3. /\ loop' \in LoopState /\ loop'.waiter = None /\ loop'.pc = "apply"
        /\ loop'.batch = b
      BY <1>0, <2>1, <2>2, ZenonT(60) DEF LoopState, b
  <2>4. TypeInv'
      BY <1>0, <1>2, <1>3, <2>1, <2>3 DEF TypeInv, TypeOK
  <2>5. BatchOK'
    <3>1. Base' = a /\ a = applied + 1
        BY <1>2, <2>3 DEF Base, a
    <3>2. \A i \in 1..Len(b) : i + 1 \in 1..Len(loop.batch) /\ applied + (i + 1) = a + i
        BY <1>n, <2>2 DEF a
    <3>3. \A i \in 1..Len(b) : b[i] = log[a + i]
        BY <1>1, <2>2, <3>2
    <3>4. a + Len(b) <= commit
      <4>1. PICK k \in Nat : k = Len(loop.batch) /\ applied + k <= commit
          BY <1>n
      <4>2. Len(b) = k - 1
          BY <2>2, <4>1
      <4>3. (applied + 1) + (k - 1) = applied + k
          BY <1>n
      <4>. QED  BY <4>1, <4>2, <4>3 DEF a
    <3>. QED  BY <1>2, <2>3, <3>1, <3>3, <3>4 DEF BatchOK
  <2>6. HandOK' /\ PendingOK' /\ LedOK'
      BY <1>2, <2>1, <2>3 DEF HandOK, PendingOK, At, LedOK, Indexes
  <2>8. RegisteredInTime'
    <3>1. ASSUME NEW i \in DOMAIN pending
          PROVE  i > applied + 1
        BY <1>0, <1>5 DEF RegisteredInTime, a
    <3>. QED  BY <1>2, <2>1, <3>1 DEF RegisteredInTime, a
  <2>9. KnownOK'
      BY <1>0, <1>2, <2>1, <2>3 DEF KnownOK, Done, Mine
  <2>. QED  BY <1>c, <2>4, <2>5, <2>6, <2>8, <2>9
<1>. QED  BY <1>4, <1>5

\* rawResult and done: the result is that of the entry just applied.
LEMMA FinishOK ==
    ASSUME ServerInv, Finish
    PROVE  ServerInv'
<1>. USE DEF ServerInv
<1>. DEFINE b == Tail(loop.batch)
            w == loop.waiter
            h == Head(loop.batch)
<1>0. /\ TypeOK /\ loop \in LoopState /\ w \in Request /\ w # None /\ loop.pc = "finish"
      /\ loop.batch \in Seq(Request \cup {Foreign}) /\ loop.batch # <<>>
      /\ applied \in 0..commit /\ commit \in 0..Len(log) /\ Len(log) \in Nat
      /\ applied >= 1
    BY LenProperties DEF TypeInv, TypeOK, HandOK, BatchOK, LoopState, Finish
<1>1. /\ Len(loop.batch) \in Nat /\ Len(loop.batch) >= 1 /\ applied \in Nat
      /\ commit \in Nat /\ (applied - 1) + Len(loop.batch) <= commit
    BY SMTT(30), <1>0, EmptySeq, LenProperties DEF BatchOK, Base
<1>2. \A i \in 1..Len(loop.batch) : loop.batch[i] = log[(applied - 1) + i]
    BY <1>0 DEF BatchOK, Base
<1>3. /\ result' = Put(result, w, h)
      /\ loop' = [loop EXCEPT !.pc = "notify", !.batch = b]
      /\ UNCHANGED <<leader, log, commit, deposals, copies, applied, pending, running,
                     pc, req, stopper>>
    BY DEF Finish, ApplyResult, raft
<1>4. /\ b \in Seq(Request \cup {Foreign}) /\ Len(b) = Len(loop.batch) - 1
      /\ \A i \in 1..Len(b) : b[i] = loop.batch[i + 1]
      /\ h \in Request \cup {Foreign} /\ h = loop.batch[1]
    BY SMTT(30), <1>0, HeadTailProperties
<1>. HIDE DEF b, w, h
<1>5. h = log[applied]
  <2>1. 1 \in 1..Len(loop.batch) /\ (applied - 1) + 1 = applied
      BY <1>1
  <2>. QED  BY <1>2, <1>4, <2>1
<1>6. /\ loop' \in LoopState /\ loop'.waiter = w /\ loop'.pc = "notify" /\ loop'.batch = b
    BY <1>0, <1>3, <1>4, ZenonT(60) DEF LoopState, w
<1>7. /\ DOMAIN result' = DOMAIN result \cup {w} /\ result'[w] = h
      /\ \A r \in DOMAIN result \ {w} : result'[r] = result[r]
    BY <1>3 DEF Put
<1>8. TypeInv'
    BY SMTT(30), <1>0, <1>3, <1>4, <1>6, <1>7 DEF TypeInv, TypeOK
<1>9. BatchOK'
  <2>1. Base' = applied
      BY <1>3, <1>6 DEF Base
  <2>2. \A i \in 1..Len(b) : i + 1 \in 1..Len(loop.batch)
                               /\ (applied - 1) + (i + 1) = applied + i
      BY SMTT(30), <1>1, <1>4
  <2>3. \A i \in 1..Len(b) : b[i] = log[applied + i]
      BY <1>2, <1>4, <2>2
  <2>4. applied + Len(b) <= commit
      BY <1>1, <1>4
  <2>. QED  BY <1>3, <1>6, <2>1, <2>3, <2>4 DEF BatchOK
<1>10. HandOK'
    BY <1>0, <1>6, <1>7 DEF HandOK, Done
<1>11. CopiesOK' /\ UsedOnce'
    BY <1>3 DEF CopiesOK, Placed, At, UsedOnce
<1>12. PendingOK' /\ LedOK' /\ RegisteredInTime'
    BY <1>3 DEF PendingOK, At, LedOK, RegisteredInTime, Indexes
<1>13. ResultOK'
  <2>1. At(w, applied)
      BY <1>0 DEF HandOK, w
  <2>2. ASSUME NEW j \in Indexes, log[j] = w PROVE h = w
    <3>1. At(w, j)
        BY <1>0, <2>2, ForeignAssumption DEF CopiesOK, Placed, Indexes
    <3>2. j = applied
        BY <2>1, <3>1 DEF At
    <3>. QED  BY <1>5, <2>2, <3>2
  <2>3. w \in DOMAIN copies /\ Len(copies[w]) <= applied
      BY <1>1, <2>1 DEF At
  <2>. QED  BY <1>3, <1>7, <2>2, <2>3 DEF ResultOK, Indexes
<1>14. KnownOK'
    BY <1>3, <1>6, <1>7 DEF KnownOK, Done, Mine, w
<1>. QED  BY <1>8, <1>9, <1>10, <1>11, <1>12, <1>13, <1>14

\* notify_one: the proposal is done when the loop lets go of it.
LEMMA NotifyOK ==
    ASSUME ServerInv, Notify
    PROVE  ServerInv'
<1>. USE DEF ServerInv
<1>0. /\ TypeOK /\ loop \in LoopState /\ loop.pc = "notify" /\ Done(loop.waiter)
      /\ pc \in [Frontend -> {"idle", "called", "proposed", "blocking", "asleep",
                             "woken", "returning"}]
    BY DEF TypeInv, TypeOK, HandOK, Notify
<1>1. /\ loop' = [loop EXCEPT !.pc = "apply", !.waiter = None]
      /\ UNCHANGED <<leader, log, commit, deposals, copies, applied, pending, result,
                     running, req, stopper>>
    BY DEF Notify, raft
<1>2. /\ loop' \in LoopState /\ loop'.waiter = None /\ loop'.pc = "apply"
      /\ loop'.batch = loop.batch
    BY <1>0, <1>1, ZenonT(60) DEF LoopState
<1>3. /\ pc' \in [Frontend -> {"idle", "called", "proposed", "blocking", "asleep",
                               "woken", "returning"}]
      /\ \A f \in Frontend :
            pc'[f] = pc[f] \/ (pc[f] = "asleep" /\ pc'[f] = "woken")
  <2>1. CASE \E f \in Frontend : pc[f] = "asleep" /\ Enter(f, "woken")
      BY <1>0, <2>1 DEF Enter
  <2>2. CASE UNCHANGED pc
      BY <1>0, <2>2
  <2>. QED  BY <2>1, <2>2 DEF Notify
<1>4. TypeInv'
    BY <1>0, <1>1, <1>2, <1>3 DEF TypeInv, TypeOK
<1>5. BatchOK'
    BY <1>0, <1>1, <1>2 DEF BatchOK, Base
<1>6. /\ CopiesOK' /\ HandOK' /\ PendingOK' /\ LedOK' /\ RegisteredInTime'
      /\ ResultOK'
    BY <1>1, <1>2 DEF CopiesOK, Placed, At, HandOK, PendingOK, LedOK,
                      RegisteredInTime, ResultOK, Indexes
<1>7. UsedOnce'
    BY <1>1, <1>3 DEF UsedOnce
<1>8. KnownOK'
    BY <1>0, <1>1, <1>3 DEF KnownOK, Done, Mine, Waiting
<1>. QED  BY <1>4, <1>5, <1>6, <1>7, <1>8

-----------------------------------------------------------------------------
\* stop() touches only the flag, the sleepers and its own progress.
LEMMA StopOK ==
    ASSUME ServerInv, StopFlag \/ StopNotify \/ StopJoin
    PROVE  ServerInv'
<1>. USE DEF ServerInv
<1>0. /\ TypeOK /\ running \in BOOLEAN
      /\ pc \in [Frontend -> {"idle", "called", "proposed", "blocking", "asleep",
                             "woken", "returning"}]
    BY DEF TypeInv, TypeOK
<1>1. UNCHANGED <<leader, log, commit, deposals, copies, applied, pending, result, req,
                  loop>>
    BY DEF StopFlag, StopNotify, StopJoin, raft
<1>2. running' \in BOOLEAN
    BY <1>0, ZenonT(60) DEF StopFlag, StopNotify, StopJoin
<1>3. /\ pc' \in [Frontend -> {"idle", "called", "proposed", "blocking", "asleep",
                               "woken", "returning"}]
      /\ \A f \in Frontend :
            pc'[f] = pc[f] \/ (pc[f] = "asleep" /\ pc'[f] = "woken")
    BY <1>0 DEF StopFlag, StopNotify, StopJoin
<1>4. TypeInv'
    BY <1>0, <1>1, <1>2, <1>3 DEF TypeInv, TypeOK
<1>5. /\ CopiesOK' /\ BatchOK' /\ HandOK' /\ PendingOK' /\ ResultOK'
      /\ RegisteredInTime' /\ LedOK'
    BY SMTT(30), <1>1 DEF CopiesOK, Placed, At, BatchOK, Base, HandOK, Done, Indexes, PendingOK,
                ResultOK, RegisteredInTime, LedOK
<1>6. UsedOnce'
    BY <1>1, <1>3 DEF UsedOnce
<1>7. KnownOK'
    BY <1>1, <1>3 DEF KnownOK, Done, Mine, Waiting
<1>. QED  BY <1>4, <1>5, <1>6, <1>7

\* The server starts with an empty log and nobody waiting.
LEMMA ServerStart ==
    ASSUME Init
    PROVE  ServerInv
<1>. USE DEF Init
<1>1. log = <<>> /\ Len(log) = 0 /\ Indexes = {}
    BY DEF Indexes
<1>2. DOMAIN pending = {} /\ DOMAIN result = {} /\ DOMAIN copies = {}
    OBVIOUS
<1>3. /\ loop \in LoopState /\ loop.waiter = None /\ loop.pc = "top"
    BY DEF LoopState
<1>4. TypeInv
  <2>1. /\ leader \in BOOLEAN /\ running \in BOOLEAN
        /\ log \in Seq(Request \cup {Foreign})
      BY EmptySeq, ZenonT(60)
  <2>2. /\ Len(log) <= MaxLog /\ applied \in 0..commit /\ commit \in 0..Len(log)
        /\ deposals \in Nat
      BY <1>1, ServerAssumption
  <2>3. /\ pc \in [Frontend -> {"idle", "called", "proposed", "blocking", "asleep",
                               "woken", "returning"}]
        /\ req \in [Frontend -> 0..MaxRequests]
        /\ \A f \in Frontend : pc[f] = "idle"
      BY ServerAssumption
  <2>. QED  BY <1>2, <1>3, <2>1, <2>2, <2>3 DEF TypeInv, TypeOK
<1>5. BatchOK /\ HandOK
  <2>. HIDE DEF Init
  <2>1. loop.pc \notin {"apply", "finish", "notify"}
      BY <1>3
  <2>. QED  BY <1>3, <2>1 DEF BatchOK, HandOK
<1>8. PendingOK /\ ResultOK /\ RegisteredInTime /\ LedOK
    BY <1>1, <1>2 DEF PendingOK, ResultOK, RegisteredInTime, LedOK
<1>6. UsedOnce /\ CopiesOK
    BY <1>1, <1>2 DEF UsedOnce, CopiesOK, Placed
<1>7. KnownOK
    BY DEF KnownOK, Waiting
<1>. QED  BY <1>4, <1>5, <1>6, <1>7, <1>8 DEF ServerInv

\* Every step of every thread keeps the invariant.
LEMMA ServerStep ==
    ASSUME ServerInv, [Next]_vars
    PROVE  ServerInv'
<1>1. ASSUME NEW f \in Frontend, Check(f) \/ Sleep(f) \/ Return(f)
      PROVE  ServerInv'
  <2>1. PICK place \in {"idle", "blocking", "asleep", "returning"} :
            Enter(f, place) /\ (place \in Waiting => pc[f] \in Waiting)
      BY <1>1 DEF Check, Sleep, Return, Waiting
  <2>2. pc[f] # "idle"
      BY <1>1 DEF Check, Sleep, Return
  <2>3. UNCHANGED <<raft, applied, pending, result, running, req, loop, stopper>>
      BY <1>1 DEF Check, Sleep, Return
  <2>. QED  BY <2>1, <2>2, <2>3, PcStep
<1>2. CASE \E f \in Frontend : Call(f) \/ FrontendStep(f)
    BY <1>1, <1>2, CallOK, ProposeOK DEF FrontendStep
<1>3. CASE Raft
    BY <1>3, ElectedOK, DeposedOK, ReplicatedOK, CommittedOK DEF Raft
<1>4. CASE LoopStep
    BY <1>4, RoundOK, PollOK, ApplyOK, FinishOK, NotifyOK, AdvanceOK DEF LoopStep
<1>5. CASE StopFlag \/ StopNotify \/ StopJoin
    BY <1>5, StopOK
<1>6. CASE UNCHANGED vars
  <2>1. UNCHANGED <<leader, log, commit, deposals, copies, applied, pending, result,
                    running, pc, req, loop, stopper>>
      BY <1>6 DEF vars, raft
  <2>2. TypeInv'
    <3>1. TypeOK'
        BY <2>1 DEF ServerInv, TypeInv, TypeOK
    <3>. QED  BY <2>1, <3>1 DEF ServerInv, TypeInv
  <2>3. CopiesOK' /\ PendingOK' /\ ResultOK'
      BY SMTT(30), <2>1 DEF ServerInv, CopiesOK, Placed, At, PendingOK, ResultOK, Indexes
  <2>4. BatchOK' /\ HandOK' /\ UsedOnce' /\ RegisteredInTime' /\ LedOK' /\ KnownOK'
      BY <2>1, ZenonT(60) DEF ServerInv, BatchOK, Base, HandOK, At, UsedOnce, Done, Indexes,
                              RegisteredInTime, LedOK, KnownOK, Mine
  <2>. QED  BY <2>2, <2>3, <2>4 DEF ServerInv
<1>. QED  BY <1>2, <1>3, <1>4, <1>5, <1>6 DEF Next

-----------------------------------------------------------------------------
\* The state of the threads keeps its shape, with any number of front ends.
THEOREM ServerTypeCorrect == Spec => []TypeOK
<1>1. ServerInv => TypeOK
    BY DEF ServerInv, TypeInv
<1>. QED  BY <1>1, ServerStart, ServerStep, PTL DEF Spec

\* propose() and the registration in pending_ are never overtaken by the loop:
\* no proposal is registered at an index that was applied already.
THEOREM RegisteredInTimeHolds == Spec => []RegisteredInTime
<1>1. ServerInv => RegisteredInTime
    BY DEF ServerInv
<1>. QED  BY <1>1, ServerStart, ServerStep, PTL DEF Spec

\* applyCommittedEntries never answers a command that is in the committed log
\* with the result of another one, however often leadership changes.
THEOREM CommittedOwnHolds == Spec => []CommittedOwn
<1>1. ServerInv => CommittedOwn
  <2>1. ASSUME ServerInv
        PROVE  \A i \in 1..commit : i \in Indexes
      BY SMTT(30), <2>1, LenProperties DEF ServerInv, TypeInv, TypeOK, Indexes
  <2>. QED  BY <2>1 DEF ServerInv, ResultOK, CommittedOwn
<1>. QED  BY <1>1, ServerStart, ServerStep, PTL DEF Spec

\* While the node keeps its leadership, a front end that waits on pendingCv_
\* without a result is registered, or in the hands of the loop.
THEOREM WaiterKnownHolds == Spec => []WaiterKnown
<1>1. ServerInv => WaiterKnown
    BY DEF ServerInv, KnownOK, WaiterKnown, Waiting
<1>. QED  BY <1>1, ServerStart, ServerStep, PTL DEF Spec

-----------------------------------------------------------------------------
(* The key-value store *)

Map == UNION {[K -> Value] : K \in SUBSET Key}

Reply == [found : BOOLEAN, value : Value \cup {NoValue}]

Machine == [map : Map, applied : Nat, reply : Reply, up : BOOLEAN]

\* The SET of k that the first n commands of l leave in force.
SetsIn(l, k, n) ==
    {j \in 1..n :
        /\ l[j].op = "SET" /\ l[j].key = k
        /\ \A x \in (j + 1)..n : l[x].op \in {"SET", "DEL"} => l[x].key # k}

\* map holds exactly the values of the SETs in force after n commands.
MapIs(l, map, n) ==
    \A k \in Key :
        /\ k \in DOMAIN map <=> SetsIn(l, k, n) # {}
        /\ \A j \in SetsIn(l, k, n) : map[k] = l[j].value

\* What command i is answered.
ReplyIs(l, i) ==
    LET S == SetsIn(l, l[i].key, i - 1)
    IN  IF S = {} THEN NotFound
        ELSE [found |-> TRUE, value |-> l[CHOOSE j \in S : TRUE].value]

\* One replica, against the log.
MachineOK(l, s) ==
    /\ s \in Machine /\ s.applied <= Len(l)
    /\ MapIs(l, s.map, s.applied)
    /\ s.applied > 0 => s.reply = ReplyIs(l, s.applied)

KVInv ==
    /\ commands \in Seq(Command)
    /\ kv \in [Replica -> Machine]
    /\ \A r \in Replica : MachineOK(commands, kv[r])

-----------------------------------------------------------------------------
\* The keys of commands, and what DEL and GET carry.
LEMMA CommandShape ==
    ASSUME NEW c \in Command
    PROVE  /\ c.op \in {"SET", "GET", "DEL", "BAD"}
           /\ c.op # "BAD" => c.key \in Key
           /\ c.op = "BAD" => c.key = NoValue
           /\ c.op = "SET" => c.value \in Value
    BY DEF Command

\* A longer log has the same SETs in force after its first n commands.
LEMMA SetsExtend ==
    ASSUME NEW l, NEW l2, NEW n \in Nat, \A j \in 1..n : l2[j] = l[j], NEW k
    PROVE  SetsIn(l2, k, n) = SetsIn(l, k, n)
    BY SMTT(30) DEF SetsIn

\* One more command: a write of the key replaces what was in force.
LEMMA SetsStep ==
    ASSUME NEW l, NEW n \in Nat, NEW k
    PROVE  /\ l[n + 1].op = "SET" /\ l[n + 1].key = k
                  => SetsIn(l, k, n + 1) = {n + 1}
           /\ l[n + 1].op = "DEL" /\ l[n + 1].key = k
                  => SetsIn(l, k, n + 1) = {}
           /\ l[n + 1].op \notin {"SET", "DEL"} \/ l[n + 1].key # k
                  => SetsIn(l, k, n + 1) = SetsIn(l, k, n)
<1>1. n + 1 \in Nat /\ \A j \in 1..(n + 1) : j \in 1..n \/ j = n + 1
    OBVIOUS
<1>2. \A j \in 1..n : n + 1 \in (j + 1)..(n + 1)
    OBVIOUS
<1>3. \A j \in 1..n : \A x \in (j + 1)..(n + 1) : x \in (j + 1)..n \/ x = n + 1
    OBVIOUS
<1>4. \A j \in 1..n : \A x \in (j + 1)..n : x \in (j + 1)..(n + 1)
    OBVIOUS
<1>5. CASE l[n + 1].op = "SET" /\ l[n + 1].key = k
  <2>1. n + 1 \in SetsIn(l, k, n + 1)
      BY SMTT(30), <1>5 DEF SetsIn
  <2>2. \A j \in SetsIn(l, k, n + 1) : j = n + 1
      BY <1>1, <1>2, <1>5 DEF SetsIn
  <2>. QED  BY <1>5, <2>1, <2>2
<1>6. CASE l[n + 1].op = "DEL" /\ l[n + 1].key = k
  <2>1. \A j \in SetsIn(l, k, n + 1) : FALSE
      BY <1>1, <1>2, <1>6 DEF SetsIn
  <2>. QED  BY <1>6, <2>1
<1>7. CASE l[n + 1].op \notin {"SET", "DEL"} \/ l[n + 1].key # k
  <2>1. \A j : j \in SetsIn(l, k, n + 1) => j \in SetsIn(l, k, n)
      BY <1>1, <1>4, <1>7 DEF SetsIn
  <2>2. \A j : j \in SetsIn(l, k, n) => j \in SetsIn(l, k, n + 1)
      BY SMTT(30), <1>1, <1>3, <1>7 DEF SetsIn
  <2>3. SetsIn(l, k, n + 1) = SetsIn(l, k, n)
      BY <2>1, <2>2
  <2>. QED  BY <1>7, <2>3
<1>. QED  BY <1>5, <1>6, <1>7

\* map_ stays a map of keys to values.
LEMMA WrittenType ==
    ASSUME NEW map \in Map, NEW c \in Command
    PROVE  Written(map, c) \in Map
<1>1. PICK K \in SUBSET Key : map \in [K -> Value]
    BY DEF Map
<1>2. CASE c.op = "SET"
  <2>1. c.key \in Key /\ c.value \in Value
      BY <1>2, CommandShape
  <2>2. Written(map, c) = [k \in K \cup {c.key} |->
                              IF k = c.key THEN c.value ELSE map[k]]
      BY <1>1, <1>2 DEF Written
  <2>3. Written(map, c) \in [K \cup {c.key} -> Value]
      BY <1>1, <2>1, <2>2
  <2>4. K \cup {c.key} \in SUBSET Key
      BY <2>1
  <2>. QED  BY <2>3, <2>4 DEF Map
<1>3. CASE c.op = "DEL"
  <2>1. Written(map, c) = [k \in K \ {c.key} |-> map[k]]
      BY <1>1, <1>3 DEF Written
  <2>2. Written(map, c) \in [K \ {c.key} -> Value]
      BY <1>1, <2>1
  <2>. QED  BY <2>2 DEF Map
<1>4. CASE c.op \notin {"SET", "DEL"}
    BY <1>4 DEF Written
<1>. QED  BY <1>2, <1>3, <1>4

\* The command that is applied next brings map_ to the next prefix.
LEMMA WrittenIs ==
    ASSUME NEW l, NEW n \in Nat, NEW map \in Map, MapIs(l, map, n),
           l[n + 1] \in Command
    PROVE  MapIs(l, Written(map, l[n + 1]), n + 1)
<1>. DEFINE c == l[n + 1]
            m2 == Written(map, c)
<1>1. SUFFICES ASSUME NEW k \in Key
               PROVE  /\ k \in DOMAIN m2 <=> SetsIn(l, k, n + 1) # {}
                      /\ \A j \in SetsIn(l, k, n + 1) : m2[k] = l[j].value
    BY DEF MapIs
<1>2. /\ k \in DOMAIN map <=> SetsIn(l, k, n) # {}
      /\ \A j \in SetsIn(l, k, n) : map[k] = l[j].value
    BY DEF MapIs
<1>3. CASE c.op = "SET" /\ c.key = k
  <2>1. m2 = [x \in DOMAIN map \cup {k} |-> IF x = k THEN c.value ELSE map[x]]
      BY <1>3 DEF Written
  <2>2. SetsIn(l, k, n + 1) = {n + 1}
      BY <1>3, SetsStep, ZenonT(60)
  <2>. QED  BY <2>1, <2>2
<1>4. CASE c.op = "DEL" /\ c.key = k
  <2>1. m2 = [x \in DOMAIN map \ {k} |-> map[x]]
      BY <1>4 DEF Written
  <2>2. SetsIn(l, k, n + 1) = {}
      BY <1>4, SetsStep, ZenonT(60)
  <2>. QED  BY <2>1, <2>2
<1>5. CASE c.op \notin {"SET", "DEL"} \/ c.key # k
  <2>1. SetsIn(l, k, n + 1) = SetsIn(l, k, n)
      BY <1>5, SetsStep
  <2>2. (k \in DOMAIN m2 <=> k \in DOMAIN map)
           /\ (k \in DOMAIN map => m2[k] = map[k])
      BY <1>5 DEF Written
  <2>. QED  BY <1>2, <2>1, <2>2
<1>. QED  BY <1>3, <1>4, <1>5

\* What apply() answers is the value of the SET in force before the command.
LEMMA PreviousIs ==
    ASSUME NEW l \in Seq(Command), NEW n \in Nat, n < Len(l), NEW map,
           MapIs(l, map, n)
    PROVE  (IF l[n + 1].op = "BAD" THEN NotFound
            ELSE Previous(map, l[n + 1].key)) = ReplyIs(l, n + 1)
<1>. DEFINE c == l[n + 1]
            S == SetsIn(l, c.key, n)
<1>0. l[n + 1] \in Command /\ \A j \in 1..n : l[j] \in Command
    BY SMTT(30), ElementOfSeq, LenProperties
<1>1. ReplyIs(l, n + 1) = IF S = {} THEN NotFound
                ELSE [found |-> TRUE, value |-> l[CHOOSE j \in S : TRUE].value]
    BY DEF ReplyIs
<1>2. CASE c.op = "BAD"
  <2>1. c.key = NoValue
      BY <1>0, <1>2, CommandShape
  <2>2. \A j \in 1..n : l[j].op = "SET" => l[j].key # NoValue
      BY <1>0, CommandShape, KVAssumption
  <2>3. S = {}
      BY <2>1, <2>2 DEF SetsIn
  <2>. QED  BY <1>1, <1>2, <2>3
<1>3. CASE c.op # "BAD"
  <2>1. c.key \in Key
      BY <1>0, <1>3, CommandShape
  <2>2. (c.key \in DOMAIN map <=> S # {}) /\ \A j \in S : map[c.key] = l[j].value
      BY <2>1 DEF MapIs
  <2>3. S # {} => (CHOOSE j \in S : TRUE) \in S
      OBVIOUS
  <2>. HIDE DEF S
  <2>. QED  BY <1>1, <1>3, <2>2, <2>3, ZenonT(60) DEF Previous
<1>. QED  BY <1>2, <1>3

-----------------------------------------------------------------------------
\* A replica is right about the log also when the log grows.
LEMMA MachineExtend ==
    ASSUME NEW l \in Seq(Command), NEW c \in Command, NEW s, MachineOK(l, s)
    PROVE  MachineOK(Append(l, c), s)
<1>. DEFINE l2 == Append(l, c)
<1>1. /\ Len(l) \in Nat /\ Len(l2) = Len(l) + 1
      /\ \A j \in 1..Len(l) : l2[j] = l[j]
    BY SMTT(30), AppendProperties, LenProperties
<1>2. s \in Machine /\ s.applied \in Nat /\ s.applied <= Len(l)
    BY DEF MachineOK, Machine
<1>. HIDE DEF l2
<1>3. \A n \in 0..Len(l) : \A k : SetsIn(l2, k, n) = SetsIn(l, k, n)
  <2>1. SUFFICES ASSUME NEW n \in 0..Len(l), NEW k
                 PROVE  SetsIn(l2, k, n) = SetsIn(l, k, n)
      OBVIOUS
  <2>2. n \in Nat /\ \A j \in 1..n : l2[j] = l[j]
      BY <1>1
  <2>. QED  BY <2>2, SetsExtend, ZenonT(60)
<1>4. MapIs(l2, s.map, s.applied)
  <2>1. s.applied \in 0..Len(l)
      BY <1>1, <1>2
  <2>2. \A k \in Key : \A j \in SetsIn(l, k, s.applied) : l2[j] = l[j]
      BY SMTT(30), <1>1, <2>1 DEF SetsIn
  <2>. QED  BY SMTT(30), <1>3, <2>1, <2>2 DEF MachineOK, MapIs
<1>5. s.applied > 0 => s.reply = ReplyIs(l2, s.applied)
  <2>1. SUFFICES ASSUME s.applied > 0 PROVE ReplyIs(l2, s.applied) = ReplyIs(l, s.applied)
      BY DEF MachineOK
  <2>2. s.applied - 1 \in 0..Len(l) /\ s.applied \in 1..Len(l)
      BY <1>1, <1>2, <2>1
  <2>. DEFINE S == SetsIn(l, l[s.applied].key, s.applied - 1)
  <2>3. S \subseteq 1..Len(l)
      BY SMTT(30), <1>1, <2>2 DEF SetsIn
  <2>4. SetsIn(l2, l2[s.applied].key, s.applied - 1) = S
      BY <1>1, <1>3, <2>2
  <2>. HIDE DEF S
  <2>5. S # {} => (CHOOSE j \in S : TRUE) \in S
      OBVIOUS
  <2>6. S # {} => l2[CHOOSE j \in S : TRUE] = l[CHOOSE j \in S : TRUE]
      BY <1>1, <2>3, <2>5, ZenonT(60)
  <2>. QED  BY <2>4, <2>6, ZenonT(60) DEF ReplyIs, S
<1>. QED  BY <1>1, <1>2, <1>4, <1>5 DEF MachineOK, l2

\* An empty map is right about the empty prefix.
LEMMA FreshOK ==
    ASSUME NEW l \in Seq(Command)
    PROVE  Fresh \in Machine /\ MachineOK(l, Fresh)
<1>1. <<>> \in Map /\ DOMAIN <<>> = {}
  <2>1. <<>> \in [{} -> Value]
      BY EmptySeq
  <2>. QED  BY <2>1, ZenonT(60) DEF Map
<1>2. Fresh \in Machine
    BY <1>1 DEF Fresh, Machine, Reply, NotFound
<1>3. \A k : SetsIn(l, k, 0) = {}
    BY SMTT(30) DEF SetsIn
<1>4. MapIs(l, <<>>, 0)
    BY <1>1, <1>3 DEF MapIs
<1>. QED  BY <1>2, <1>4, LenProperties DEF MachineOK, Fresh

\* apply() takes a replica that is right about the log to one that is.
LEMMA KVApplyOK ==
    ASSUME KVInv, NEW r \in Replica, KVApply(r)
    PROVE  KVInv'
<1>. DEFINE s == kv[r]
            n == s.applied
            c == commands[n + 1]
            m2 == Written(s.map, c)
            reply == IF c.op = "BAD" THEN NotFound ELSE Previous(s.map, c.key)
            killed == [s EXCEPT !.up = FALSE]
            next == n + 1
            done == [s EXCEPT !.map = m2, !.applied = next, !.reply = reply]
<1>1. /\ commands \in Seq(Command) /\ s \in Machine /\ MachineOK(commands, s)
      /\ n \in Nat /\ n < Len(commands) /\ s.up /\ s.map \in Map
    BY DEF KVInv, KVApply, Machine
<1>2. c \in Command
    BY SMTT(30), <1>1, ElementOfSeq, LenProperties
<1>3. commands' = commands /\ kv' = [kv EXCEPT ![r] = IF Kills(s.map, c) THEN killed ELSE done]
    BY DEF KVApply
<1>4. MachineOK(commands, killed)
  <2>1. /\ killed \in Machine /\ killed.map = s.map /\ killed.applied = n
        /\ killed.reply = s.reply
      BY <1>1, ZenonT(60) DEF Machine
  <2>. HIDE DEF killed
  <2>. QED  BY <1>1, <2>1 DEF MachineOK
<1>5. ASSUME ~Kills(s.map, c) PROVE MachineOK(commands, done)
  <2>1. m2 \in Map
      BY <1>1, <1>2, WrittenType
  <2>2. MapIs(commands, m2, next)
      BY <1>1, <1>2, WrittenIs DEF MachineOK
  <2>3. reply = ReplyIs(commands, next)
      BY <1>1, PreviousIs DEF MachineOK
  <2>4. reply \in Reply
    <3>1. PICK K \in SUBSET Key : s.map \in [K -> Value]
        BY <1>1, ZenonT(60) DEF Map
    <3>. QED  BY <3>1 DEF Reply, NotFound, Previous
  <2>5. next \in Nat /\ next <= Len(commands)
      BY <1>1, LenProperties
  <2>. HIDE DEF m2, reply, next
  <2>6. /\ done \in Machine /\ done.map = m2 /\ done.applied = next
        /\ done.reply = reply /\ done.up
      BY <1>1, <2>1, <2>4, <2>5, ZenonT(60) DEF Machine
  <2>. QED  BY <2>2, <2>3, <2>5, <2>6 DEF MachineOK
<1>. HIDE DEF killed, done
<1>6. \A x \in Replica : MachineOK(commands, kv'[x])
    BY <1>3, <1>4, <1>5 DEF KVInv
<1>7. kv' \in [Replica -> Machine]
    BY <1>3, <1>4, <1>5 DEF KVInv, MachineOK
<1>. QED  BY <1>1, <1>3, <1>6, <1>7 DEF KVInv

\* Every replica starts right about the empty log,
LEMMA KVInvInit == KVInit => KVInv
<1>1. <<>> \in Seq(Command)
    BY EmptySeq
<1>2. Fresh \in Machine /\ MachineOK(<<>>, Fresh)
    BY <1>1, FreshOK, ZenonT(60)
<1>. QED  BY <1>1, <1>2 DEF KVInit, KVInv

\* and stays right.
LEMMA KVInvNext == KVInv /\ [KVNext]_kvvars => KVInv'
<1>1. SUFFICES ASSUME KVInv, [KVNext]_kvvars PROVE KVInv'
    OBVIOUS
<1>. USE <1>1
<1>2. ASSUME NEW c \in Command, KVCommit(c) PROVE KVInv'
  <2>1. commands' = Append(commands, c) /\ kv' = kv
      BY <1>2 DEF KVCommit
  <2>2. commands' \in Seq(Command)
      BY <2>1, AppendProperties DEF KVInv
  <2>3. \A r \in Replica : MachineOK(commands', kv[r])
      BY <2>1, MachineExtend DEF KVInv
  <2>. QED  BY <2>1, <2>2, <2>3 DEF KVInv
<1>3. ASSUME NEW r \in Replica, KVRestart(r) PROVE KVInv'
  <2>1. commands' = commands /\ kv' = [kv EXCEPT ![r] = Fresh]
      BY <1>3 DEF KVRestart
  <2>2. Fresh \in Machine /\ MachineOK(commands, Fresh)
      BY FreshOK DEF KVInv
  <2>. QED  BY <2>1, <2>2 DEF KVInv
<1>4. ASSUME NEW r \in Replica, KVKill(r) PROVE KVInv'
  <2>1. commands' = commands /\ kv' = [kv EXCEPT ![r] = Fresh]
      BY <1>4 DEF KVKill
  <2>2. Fresh \in Machine /\ MachineOK(commands, Fresh)
      BY FreshOK DEF KVInv
  <2>. QED  BY <2>1, <2>2 DEF KVInv
<1>5. CASE UNCHANGED kvvars
    BY <1>5 DEF kvvars, KVInv
<1>. QED  BY <1>2, <1>3, <1>4, <1>5, KVApplyOK DEF KVNext

\* Every reply of the key-value store is the value that the last SET before
\* the command left, on every replica and in every replay after a restart:
\* map_ is determined by the applied prefix of the log.
THEOREM RepliesLastWriteHolds == KVSpec => []RepliesLastWrite
<1>1. KVInv => RepliesLastWrite
  <2>1. SUFFICES ASSUME KVInv, NEW r \in Replica, kv[r].applied > 0
                 PROVE  kv[r].reply = ReplyIs(commands, kv[r].applied)
      BY ZenonT(60) DEF RepliesLastWrite, ReplyIs, LastSet, SetsIn
  <2>. QED  BY <2>1 DEF KVInv, MachineOK
<1>. QED  BY <1>1, KVInvInit, KVInvNext, PTL DEF KVSpec
=============================================================================
