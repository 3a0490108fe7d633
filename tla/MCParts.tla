------------------------------- MODULE MCParts -------------------------------
(***************************************************************************)
(* For TLC, the sequential parts of a server side by side: log.bin, and    *)
(* the state machines main() chooses from, an order book (on the map and   *)
(* on the skip lists) or the key-value store.  They share no state; every  *)
(* behaviour exercises one.                                                *)
(***************************************************************************)
EXTENDS SkipListOrderBook, KVStateMachine, LogFile

VARIABLE part       \* the part that a behaviour is about

allvars == <<svars, kvvars, filevars, part>>

InitParts == part \in {"lob", "kv", "file"} /\ InitBoth /\ KVInit /\ FileInit

NextParts ==
    /\ UNCHANGED part
    /\ \/ part = "lob" /\ NextBoth /\ UNCHANGED <<kvvars, filevars>>
       \/ part = "kv" /\ KVNext /\ UNCHANGED <<svars, filevars>>
       \/ part = "file" /\ FileNext /\ UNCHANGED <<svars, kvvars>>

SpecParts == InitParts /\ [][NextParts]_allvars

\* Ids are interchangeable.
IdSymmetry == Permutations(Id)
=============================================================================
