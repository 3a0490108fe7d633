---------------------------- MODULE WriteAheadLog ----------------------------
(***************************************************************************)
(* WriteAheadLog: what log.bin and hardstate.bin hold after a write, and   *)
(* what the next start can find there when the process was killed in the   *)
(* middle of one.  log.bin is the sequence of entries replay() rebuilds,   *)
(* and how its records end:                                                *)
(*   "whole"   with a whole record;                                        *)
(*   "torn"    with half a record, at which replay() stops;                *)
(*   "buried"  records were appended behind such a half one, which replay  *)
(*             then takes for a part of it, and misreads what follows.     *)
(* What flush() handed to the operating system survives the process.       *)
(***************************************************************************)
EXTENDS Integers, Sequences, RaftLog

TailState == {"whole", "torn", "buried"}

\* An append below the end of the log first rewrites the file without the
\* entries it replaces.
Rewrites(stored, ents) == ents # <<>> /\ ents[1].index <= Len(stored)

AppendNoSync(stored, ents) ==
    IF Rewrites(stored, ents)
    THEN SubSeq(stored, 1, ents[1].index - 1) \o ents
    ELSE stored \o ents

\* Only a rewrite starts the file afresh.  It is opened for append, also when
\* it ends in half a record.
TailAfter(tail, stored, ents) ==
    IF ents = <<>> THEN tail
    ELSE IF tail = "whole" \/ Rewrites(stored, ents) THEN "whole"
    ELSE "buried"

\* What replay() makes of whole records (one log, as a set): each goes to the
\* place of its index, so that gaps, whose index is 0, are lost unless an entry
\* comes after them.
Replays(ents) ==
    {SubSeq(ents, 1, i) : i \in {i \in 0..Len(ents) :
        /\ i # 0 => ents[i].index # 0
        /\ \A j \in (i + 1)..Len(ents) : ents[j].index = 0}}

\* Killed inside appendNoSync: a prefix of the file being written is there.
\* A plain append keeps the old entries, a rewrite starts from an empty file.
TornAppends(stored, ents) ==
    LET full == AppendNoSync(stored, ents)
        kept == IF Rewrites(stored, ents) THEN 0 ELSE Len(stored)
    IN  UNION {Replays(SubSeq(full, 1, k)) : k \in kept..Len(full)}

\* What replay() can make of any file: entry i has index i, or nothing was
\* read for it and the resized vector has a gap there; the last one was read.
InPlaceLog(ents) ==
    /\ \A i \in 1..Len(ents) :
          ents[i].index = i \/ ents[i] = [index |-> 0, term |-> 0]
    /\ ents # <<>> => ents[Len(ents)].index = Len(ents)

\* What a process finds when hardstate.bin is missing or empty.
EmptyHardState(nobody) == [term |-> 0, vote |-> nobody, commit |-> 0]
=============================================================================
