------------------------------- MODULE Progress ------------------------------
(***************************************************************************)
(* tracker::Progress, what a leader knows of one peer, with its Inflights. *)
(* The ring buffer of in-flight indexes is the FIFO sequence it holds.     *)
(* The Snapshot state is left out: sendSnapshot finds no snapshot to send  *)
(* (see RaftLog), so becomeSnapshot is never called.                       *)
(***************************************************************************)
EXTENDS Integers, Sequences, RaftLog

CONSTANT MaxInflight     \* maxInflightMsgs, the capacity of Inflights

ASSUME MaxInflightAssumption == MaxInflight \in Nat \ {0}

\* The ring buffer has MaxInflight places, and add() aborts the process when
\* none is free: a longer window would be such an abort.
Window == {q \in Seq(Nat) : Len(q) <= MaxInflight}

PeerProgress == [match : Nat, next : Nat, state : {"Probe", "Replicate"},
                 paused : BOOLEAN, inflights : Window]

FullAbove(pr) == Len(pr.inflights) > MaxInflight      \* mutant: one too many

Full(pr) == Len(pr.inflights) = MaxInflight

Larger(a, b) == IF a >= b THEN a ELSE b

\* Drop the leading in-flight indexes the acknowledgement covers; freeTo
\* stops at the first one above it.
FreeTo(inflights, to) ==
    LET first == {k \in 1..Len(inflights) :
                    /\ to < inflights[k]
                    /\ \A j \in 1..(k - 1) : inflights[j] <= to}
    IN  IF first = {} THEN <<>>
        ELSE SubSeq(inflights, CHOOSE k \in first : TRUE, Len(inflights))

\* Progress::reset for a new leader whose log ends at last.
ResetProgress(last) ==
    [match |-> 0, next |-> last + 1, state |-> "Probe", paused |-> FALSE,
     inflights |-> <<>>]

\* In Replicate, nextIndex follows the acknowledgement, even an old one.
Update(pr, acked) ==
    LET p == [pr EXCEPT !.match = Larger(@, acked)]
    IN  IF p.state = "Replicate"
        THEN [p EXCEPT !.next = acked + 1,
                       !.inflights = FreeTo(@, acked)]
        ELSE p

MaybeDecrPastHint(pr, rejected, hint) ==      \* mutant: one too far back
    [pr EXCEPT !.next = IF hint < rejected THEN hint - 1 ELSE rejected - 1]

\* In Replicate only a rejection above match counts and nextIndex falls back
\* to match + 1; in Probe it falls to the hint or to the rejected index.
MaybeDecrFromRejectHint(pr, rejected, hint) ==
    IF pr.state = "Replicate"
    THEN IF rejected <= pr.match THEN pr ELSE [pr EXCEPT !.next = pr.match + 1]
    ELSE IF rejected < pr.next - 1 THEN pr
    ELSE [pr EXCEPT !.next = IF hint < rejected THEN hint + 1
                             ELSE Larger(rejected, 1)]

BecomeProbeStillPaused(pr) == [pr EXCEPT !.state = "Probe"]    \* mutant

BecomeProbe(pr) == [pr EXCEPT !.state = "Probe", !.paused = FALSE]

BecomeReplicate(pr) ==
    [pr EXCEPT !.state = "Replicate", !.paused = FALSE,
               !.next = pr.match + 1, !.inflights = <<>>]
=============================================================================
