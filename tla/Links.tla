-------------------------------- MODULE Links --------------------------------
(***************************************************************************)
(* What it is for logs to be in order.  A link is a triple of an index,    *)
(* the term of the entry there and the term of the entry below it, and K   *)
(* is a set of links.  A claim <<t, x>> says that x leads term t, and C is *)
(* a set of claims.  A log is in order when its entries are numbered       *)
(* without gaps and its links are in K, a node or a message when also its  *)
(* claims are in C.                                                        *)
(***************************************************************************)
EXTENDS RaftTypes

\* The term below position k of ents, when t is the one below the first.
Below(ents, t, k) == IF k = 1 THEN t ELSE ents[k - 1].term

\* ents are numbered from prev + 1 on, are of terms some leader had, and their
\* links, the first one to term t at prev, are in K.
Run(ents, prev, t, K) ==
    \A k \in 1..Len(ents) :
        /\ ents[k].index = prev + k
        /\ ents[k].term >= 1
        /\ <<prev + k, ents[k].term, Below(ents, t, k)>> \in K

StoredTerm(stored, i) == IF i = 0 THEN 0 ELSE stored[i].term

\* The stored entries are in order from the first index on, the unstable ones
\* from the end or the middle of them.
LogOK(l, K) ==
    /\ Run(l.stored, 0, 0, K)
    /\ l.unstable # <<>> =>
          /\ l.offset >= 1 /\ l.offset <= Len(l.stored) + 1
          /\ Run(l.unstable, l.offset - 1, StoredTerm(l.stored, l.offset - 1), K)

\* Entries come in one piece and, above the first index, with the term of an
\* entry that their sender has below them.
MsgOK(m, K, C) ==
    /\ m.type = "MsgApp" =>
          /\ Run(m.entries, m.index, m.logTerm, K)
          /\ m.entries # <<>> /\ m.index >= 1 => m.logTerm >= 1
    /\ m.type \in {"MsgApp", "MsgHeartbeat"} => <<m.term, m.from>> \in C

NodeOK(n, s, K, C) ==
    /\ LogOK(s.log, K)
    /\ s.role # "Follower" => s.term >= 1
    /\ s.lead # Nobody => <<s.term, s.lead>> \in C
    /\ s.role = "Leader" => <<s.term, n>> \in C
    /\ \A m \in s.msgs : MsgOK(m, K, C)

\* All but the commit index stays.
LogKept(l, l2) ==
    /\ l2.stored = l.stored /\ l2.offset = l.offset /\ l2.unstable = l.unstable
    /\ l2.applied = l.applied

\* The link of the entry that the leader s appends next.
Own(s) == <<LastIndex(s.log) + 1, s.term, LastTerm(s.log)>>

\* The log stays, or it has one more entry, of s's term.
Grows(n, s, s2, K, C) ==
    \/ NodeOK(n, s2, K, C) /\ LogKept(s.log, s2.log)
    \/ /\ NodeOK(n, s2, K \cup {Own(s)}, C)
       /\ LastIndex(s2.log) = LastIndex(s.log) + 1
       /\ s2.log.applied = s.log.applied
       /\ \A i \in 1..LastIndex(s.log) : Term(s2.log, i) = Term(s.log, i)

\* All nodes N and messages M are in order.
Logs(N, M, K, C) ==
    /\ \A n \in Node : NodeOK(n, N[n], K, C)
    /\ \A m \in M : MsgOK(m, K, C)

\* One operation of n: it goes on with the log and the leadership it has, it
\* proposes, it wins its election, or it is alone and wins at once.
Moves(n, s, s2, K, C) ==
    \/ /\ NodeOK(n, s2, K, C) /\ s2.log.applied = s.log.applied
       /\ s2.role = "Leader" => /\ s.role = "Leader" /\ s2.term = s.term
                                /\ LogKept(s.log, s2.log)
    \/ /\ Grows(n, s, s2, K, C)
       /\ s.role = "Leader" /\ s2.role = "Leader" /\ s2.term = s.term
    \/ /\ Grows(n, s, s2, K, C \cup {<<s.term, n>>})
       /\ s.role = "Candidate" /\ s2.role = "Leader" /\ s2.term = s.term
    \/ /\ Quorum = 1 /\ s.role # "Leader"
       /\ Grows(n, [s EXCEPT !.term = @ + 1], s2, K, C \cup {<<s.term + 1, n>>})

AllLinks == Nat \X Nat \X Nat

AllClaims == Nat \X Node
=============================================================================
