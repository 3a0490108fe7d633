------------------------------ MODULE MCCluster ------------------------------
(***************************************************************************)
(* Cluster for model checking.                                             *)
(***************************************************************************)
EXTENDS Cluster, TLC

\* Nodes differ in nothing but their ids, which no operator compares.
NodeSymmetry == Permutations(Node)

\* What a node does before its Ready is seen by nobody else, so iterations of
\* different nodes can be taken one after the other: any state with several
\* nodes inside an iteration is like one in which all but one of them have
\* finished theirs, except that Ready has persisted, sent and applied more.
Busy(n) == batch[n] # 0 \/ nd[n].msgs # {}

OneAtATime == \A a, b \in Node : Busy(a)' /\ Busy(b)' => a = b

\* A message that would change nothing is left in flight: the behaviours in
\* which it is delivered are those in which it is lost, and nothing that is
\* checked here looks at net.
Effective == \A m \in net \ net' : nd'[m.to] # nd[m.to]

\* A gap has no index for appliedTo: when the committed entries end in one,
\* every Ready hands them out again.  Bound: entries applied after a misread.
MaxApplied == 2

AppliedBounded == misread' # {} => \A n \in Node : Len(fsm'[n]) <= MaxApplied

\* Bound: after the first kill, only a server whose log.bin has half a record
\* in it is killed again.
KillsAfterTorn ==
    crashes # 0 /\ crashes' # crashes =>
        \E n \in Node : tail[n] # "whole" /\ \A m \in Node \ {n} : nd'[m] = nd[m]

-----------------------------------------------------------------------------
\* A cluster restarted with logs in conflict.  a led term 1, wrote two entries
\* and reached nobody.  So did, with one entry, b as the leader of term 2,
\* which c elected while a refused.
Old(t, k) == [i \in 1..k |-> [index |-> i, term |-> t]]

InitConflict ==
    /\ \E a, b, c \in Node :
          LET start == (a :> [t |-> 2, vote |-> Nobody, log |-> Old(1, 2)])
                       @@ (b :> [t |-> 2, vote |-> b, log |-> Old(2, 1)])
                       @@ (c :> [t |-> 2, vote |-> b, log |-> <<>>])
          IN  /\ Cardinality({a, b, c}) = 3
              /\ nd = [n \in Node |-> StartNode(start[n].t, start[n].vote,
                                                start[n].log)]
              /\ hs = [n \in Node |-> [term |-> start[n].t, vote |-> start[n].vote,
                                       commit |-> 0]]
    /\ tail = [n \in Node |-> "whole"] /\ misread = {}
    /\ fsm = [n \in Node |-> <<>>]
    /\ net = {}
    /\ batch = [n \in Node |-> 0]
    /\ elections = MaxElections - 1     \* leave one election
    /\ beats = 0 /\ crashes = 0

\* Both ways to begin.
SpecAny == (Init \/ InitConflict) /\ [][Next]_vars
=============================================================================
