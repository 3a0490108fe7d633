------------------------------- MODULE RaftLog -------------------------------
(***************************************************************************)
(* The replicated log of one node: RaftLog over its Storage (the entries   *)
(* the write-ahead log holds, WriteAheadLog::entries_ without its dummy)   *)
(* and its LogUnstable (entries accepted in memory, not yet persisted).    *)
(* Operators from a log value to a log value, one per member function.     *)
(*                                                                         *)
(* No Ready ever carries a snapshot and nothing calls SnapshotFile::save,  *)
(* so snapIndex_ is 0, unstable_.snapshot_ is empty and firstIndex() is 1. *)
(* An entry's payload is left out: a leader appends at most one entry at   *)
(* an index in a term, so index and term identify it.                      *)
(***************************************************************************)
EXTENDS Integers, Sequences

\* Index 0 is that of a gap, the Entry{} that replay() puts where it has read
\* nothing.
Entry == [index : Nat, term : Nat]

\* offset is LogUnstable::offset_, the index of the first unstable entry.
Log == [stored : Seq(Entry), offset : Nat, unstable : Seq(Entry),
        committed : Nat, applied : Nat]

FirstIndex == 1

\* The log a process starts with: the entries on disk, nothing unstable,
\* offset_ 0, committed_ and applied_ just below the first index.
OpenLog(entries) ==
    [stored |-> entries, offset |-> 0, unstable |-> <<>>,
     committed |-> FirstIndex - 1, applied |-> FirstIndex - 1]

-----------------------------------------------------------------------------
(* Term and index queries *)

InUnstable(l, i) == l.offset <= i /\ i < l.offset + Len(l.unstable)

\* The unstable entries answer first; an index nobody holds has term 0.
Term(l, i) ==
    IF i = FirstIndex - 1 THEN 0
    ELSE IF InUnstable(l, i) THEN l.unstable[i - l.offset + 1].term
    ELSE IF i \in 1..Len(l.stored) THEN l.stored[i].term
    ELSE 0

LastIndex(l) ==
    IF l.unstable # <<>> THEN l.offset + Len(l.unstable) - 1 ELSE Len(l.stored)

LastTerm(l) == Term(l, LastIndex(l))

Smaller(a, b) == IF a <= b THEN a ELSE b

-----------------------------------------------------------------------------
(* LogUnstable *)

TruncateFrom(l, i) ==
    IF i - l.offset < Len(l.unstable)
    THEN [l EXCEPT !.unstable = SubSeq(@, 1, i - l.offset)]
    ELSE l

TruncateAndAppendAll(l, ents) ==      \* mutant: the window is always replaced
    [l EXCEPT !.offset = ents[1].index, !.unstable = ents]

\* New entries inside or just above the unstable window replace its tail;
\* below the window, above a gap, or with no window, they replace all of it.
TruncateAndAppend(l, ents) ==
    LET first == ents[1].index
    IN  IF l.offset < first /\ first <= LastIndex(l) + 1 /\ l.unstable # <<>>
        THEN [l EXCEPT !.unstable = SubSeq(@, 1, first - l.offset) \o ents]
        ELSE [l EXCEPT !.offset = first, !.unstable = ents]

StableTo(l, i) ==
    IF l.unstable = <<>> \/ i < l.offset THEN l
    ELSE [l EXCEPT !.offset = i + 1,
                   !.unstable = SubSeq(@, i + 2 - l.offset, Len(@))]

-----------------------------------------------------------------------------
(* RaftLog *)

MaybeCommit(l, i, t) ==
    IF i > l.committed /\ Term(l, i) = t THEN [l EXCEPT !.committed = i] ELSE l

CommitTo(l, i) ==
    IF i > l.committed
    THEN [l EXCEPT !.committed = Smaller(i, LastIndex(l))]
    ELSE l

\* The first incoming entry whose term differs from ours, if there is one, by
\* its position in the message (its index minus prevLogIndex).
FindConflict(l, ents) ==
    LET differs(k) == Term(l, ents[k].index) # ents[k].term
    IN  {k \in 1..Len(ents) : differs(k) /\ \A j \in 1..(k - 1) : ~differs(j)}

\* What maybeAppend makes of the entries once prevLogIndex matches.
\* A conflict at or below committed_ falls through an empty branch.
Accept(l, prev, ents) ==
    LET lastNew == prev + Len(ents)
        k == CHOOSE j \in FindConflict(l, ents) : TRUE
    IN  IF FindConflict(l, ents) = {}
        THEN IF lastNew < LastIndex(l) THEN TruncateFrom(l, lastNew + 1) ELSE l
        ELSE IF ents[k].index <= l.committed THEN l
        ELSE TruncateAndAppend(l, SubSeq(ents, k, Len(ents)))

MatchesPrevIndexOnly(l, prev, prevTerm) == prev <= LastIndex(l)      \* mutant

MatchesPrev(l, prev, prevTerm) == Term(l, prev) = prevTerm

MaybeAppendUncapped(l, prev, leaderCommit, ents) ==      \* mutant: no min
    LET a == Accept(l, prev, ents)
    IN  IF leaderCommit > a.committed THEN [a EXCEPT !.committed = leaderCommit]
        ELSE a

\* The log after maybeAppend returned true (MatchesPrev is its condition).
MaybeAppend(l, prev, leaderCommit, ents) ==
    LET a == Accept(l, prev, ents)
    IN  IF leaderCommit > a.committed
        THEN [a EXCEPT !.committed = Smaller(leaderCommit, prev + Len(ents))]
        ELSE a

\* RaftLog::append: the leader's own entries, refused below committed_.
AppendEntries(l, ents) ==
    IF ents[1].index - 1 < l.committed THEN l ELSE TruncateAndAppend(l, ents)

\* slice(lo, hi) throws: out of the log, or storage lacks what it is asked.
SliceThrows(l, lo, hi) ==
    /\ lo < hi
    /\ \/ lo < FirstIndex
       \/ hi > LastIndex(l) + 1
       \/ lo < l.offset /\ Smaller(hi, l.offset) > Len(l.stored) + 1

\* [lo, hi) from storage below offset_ and from unstable above it.
\* LogUnstable::slice gives nothing at all when hi is beyond its window.
Slice(l, lo, hi) ==
    LET fromStored == SubSeq(l.stored, lo, Smaller(hi, l.offset) - 1)
        from       == IF lo < l.offset THEN l.offset ELSE lo
        fromUnstable ==
            IF from < hi /\ hi <= l.offset + Len(l.unstable)
            THEN SubSeq(l.unstable, from - l.offset + 1, hi - l.offset)
            ELSE <<>>
    IN  (IF lo < l.offset THEN fromStored ELSE <<>>) \o fromUnstable

\* At most max entries; maxSizePerMsg counted in entries.
AtMost(ents, max) == SubSeq(ents, 1, Smaller(Len(ents), max))

NextCommittedEntries(l) ==
    IF l.committed <= l.applied \/ SliceThrows(l, l.applied + 1, l.committed + 1)
    THEN <<>>
    ELSE Slice(l, l.applied + 1, l.committed + 1)

AppliedToForgotten(l, i) == l      \* mutant: applied_ is never advanced

AppliedTo(l, i) ==
    IF i < l.applied \/ i > l.committed THEN l ELSE [l EXCEPT !.applied = i]
=============================================================================
