------------------------------- MODULE LogStore -------------------------------
(***************************************************************************)
(* What Cluster relies on: the log of one server as raft::Storage, through *)
(* writes and through kills of the process.  A kill in the middle of a     *)
(* write leaves a prefix of what was being written, and possibly half a    *)
(* record (tail).  That one is harmless until something is appended behind *)
(* it: then the next start can find anything that is in place, unless a    *)
(* rewrite comes first.                                                    *)
(***************************************************************************)
EXTENDS WriteAheadLog

CONSTANT Batches(_)     \* Batches(stored): what may be appended next

VARIABLES stored,   \* the log of the running process
          tail      \* how log.bin ends

storevars == <<stored, tail>>

StoreInit == stored = <<>> /\ tail = "whole"

\* appendNoSync and sync.
Write ==
    \E ents \in Batches(stored) :
        /\ stored' = AppendNoSync(stored, ents)
        /\ tail' = TailAfter(tail, stored, ents)

\* Killed at any point of a write of ents, or (ents empty) outside of one.
Crash ==
    \E ents \in Batches(stored) \cup {<<>>} :
        /\ TailAfter(tail, stored, ents) = "whole"
        /\ stored' \in TornAppends(stored, ents)
        /\ tail' \in {"whole", "torn"}
        /\ ents = <<>> => tail' = "whole"

\* Killed with records behind half a one, or while they are being written.
\* (With half a record at the end, a kill outside of a write changes nothing.)
CrashMisread ==
    /\ tail = "buried" \/ (tail = "torn" /\ Batches(stored) # {})
    /\ stored' \in Seq([index : Nat, term : Nat]) /\ InPlaceLog(stored')
    /\ tail' \in {"whole", "torn"}

\* (Leaving the log alone is allowed by the specification in any case; as a
\* disjunct TLC looks at it first.)
StoreNext == UNCHANGED storevars \/ Write \/ Crash \/ CrashMisread

StoreSpec == StoreInit /\ [][StoreNext]_storevars
=============================================================================
