------------------------------- MODULE LogFile -------------------------------
(***************************************************************************)
(* WriteAheadLog on log.bin, field by field: writeEntry and readEntry, the *)
(* replay of the constructor, plain appends, the rewrite in place, and a   *)
(* kill after any number of fields.  Every field (term, index, length) is  *)
(* one cell of the file, as is every byte of data; the type, always        *)
(* Normal, is left out.                                                    *)
(***************************************************************************)
EXTENDS Integers, Sequences, SequencesExt

CONSTANTS Byte,         \* what a data byte can be
          MaxIndex, MaxTerm,    \* bounds: entries, terms
          MaxKills      \* bound: kills in a behaviour

ASSUME FileAssumption ==
    Byte \subseteq Nat /\ MaxIndex \in Nat /\ MaxTerm \in Nat /\ MaxKills \in Nat

VARIABLES file,       \* log.bin, as far as the operating system has it
          entries,    \* entries_ without its dummy
          appended,   \* history: this process has written to the file
          kills       \* counts towards MaxKills

filevars == <<file, entries, appended, kills>>

-----------------------------------------------------------------------------
(* Records *)

\* writeEntry; no data (a no-op) is length 0 and nothing after it.
Record(e) == <<e.term, e.index, Len(e.data)>> \o e.data

Records(ents) == FlattenSeq([i \in 1..Len(ents) |-> Record(ents[i])])

\* readEntry at position p, as a set: empty when the file ends too early.
ReadEntry(f, p) ==
    IF p + 2 <= Len(f) /\ p + 2 + f[p + 2] <= Len(f)
    THEN {[term |-> f[p], index |-> f[p + 1],
           data |-> SubSeq(f, p + 3, p + 2 + f[p + 2])]}
    ELSE {}

Blank == [term |-> 0, index |-> 0, data |-> <<>>]

PlaceAtEnd(ents, e) == Append(ents, e)      \* mutant: push_back

\* entries_[e.index] = e, in a vector grown as far as that; index 0 is the
\* dummy.
Place(ents, e) ==
    IF e.index = 0 THEN ents
    ELSE LET old(i) == IF i <= Len(ents) THEN ents[i] ELSE Blank
             last   == IF e.index > Len(ents) THEN e.index ELSE Len(ents)
         IN  [i \in 1..last |-> IF i = e.index THEN e ELSE old(i)]

\* One turn of the loop of replay: it stands at pos, and ends when readEntry
\* finds no whole record.
ReplayNext(f, s) ==
    IF ReadEntry(f, s.pos) = {} THEN s
    ELSE LET e == CHOOSE e \in ReadEntry(f, s.pos) : TRUE
         IN  [pos |-> s.pos + 3 + Len(e.data), ents |-> Place(s.ents, e)]

ReplayLoop(f) ==
    LET loop[n \in 0..Len(f)] ==
            IF n = 0 THEN [pos |-> 1, ents |-> <<>>]
            ELSE ReplayNext(f, loop[n - 1])
    IN  loop

\* A record has more than one field: Len(f) turns are enough.
Replay(f) == ReplayLoop(f)[Len(f)].ents

-----------------------------------------------------------------------------
FileInit == file = <<>> /\ entries = <<>> /\ appended = FALSE /\ kills = 0

EntriesFrom(first, term, datas) ==
    [i \in 1..Len(datas) |->
        [index |-> first + i - 1, term |-> term, data |-> datas[i]]]

\* The data of one or two entries from first on.
Datas(first) ==
    SeqOf({<<>>} \cup {<<d>> : d \in Byte}, Min({2, MaxIndex + 1 - first})) \ {<<>>}

\* Entries of one term, from an index of the log or just above it.
Batch(n) ==
    UNION {UNION {{EntriesFrom(first, term, datas) : datas \in Datas(first)} :
                  term \in 1..MaxTerm} :
           first \in 1..(n + 1)}

\* appendNoSync opens the file with trunc when it replaces entries.
Replaces(ents) == ents # <<>> /\ ents[1].index <= Len(entries)

Kept(ents) == SubSeq(entries, 1, ents[1].index - 1)

WrittenAfterAppend(ents) == file \o Records(ents)      \* mutant: no trunc

\* The file as the write leaves it, and the part it begins from.
WrittenAfter(ents) ==
    IF Replaces(ents) THEN Records(Kept(ents)) \o Records(ents)
    ELSE file \o Records(ents)

WrittenFrom(ents) == IF Replaces(ents) THEN 0 ELSE Len(file)

EntriesAfter(ents) == (IF Replaces(ents) THEN Kept(ents) ELSE entries) \o ents

AppendNoSync(ents) ==
    /\ file' = WrittenAfter(ents)
    /\ entries' = EntriesAfter(ents)
    /\ appended' = TRUE
    /\ UNCHANGED kills

\* Killed when a part of the write has reached the file, and started again.
KillAndReplay(ents) ==
    /\ kills < MaxKills
    /\ \E k \in WrittenFrom(ents)..Len(WrittenAfter(ents)) :
          file' = SubSeq(WrittenAfter(ents), 1, k)
    /\ entries' = Replay(file')
    /\ appended' = FALSE
    /\ kills' = kills + 1

FileNext ==
    \/ \E ents \in Batch(Len(entries)) : AppendNoSync(ents)
    \/ \E ents \in Batch(Len(entries)) \cup {<<>>} : KillAndReplay(ents)

FileSpec == FileInit /\ [][FileNext]_filevars

-----------------------------------------------------------------------------
(* Properties *)

Placed(ents) ==
    \A i \in 1..Len(ents) : ents[i] = Blank \/ ents[i].index = i

EndsInEntry(ents) == ents # <<>> => ents[Len(ents)].index = Len(ents)

\* entries_[i] is the entry of index i, or a gap that replay() left; whatever
\* the file has gone through, the log does not end in a gap.
InPlace == Placed(entries) /\ EndsInEntry(entries)

Headers(ents) ==
    [i \in 1..Len(ents) |-> [index |-> ents[i].index, term |-> ents[i].term]]

\* The file holds what the process has, record for record.
Clean == file = Records(entries)

HeaderBatches(s) == {Headers(b) : b \in Batch(Len(s))}

\* How log.bin ends, for Cluster: what a process appends behind the half record
\* it has started on is buried.
FileTail == IF Clean THEN "whole" ELSE IF appended THEN "buried" ELSE "torn"

Store == INSTANCE LogStore WITH
    stored <- Headers(entries), tail <- FileTail, Batches <- HeaderBatches

\* log.bin with its replay implements the log of Cluster: whatever the field
\* after which a kill hits an append or a rewrite, the next start finds a
\* prefix of the log that was being written, above all of the old one if it
\* was a plain append.  Only of a file that was written on behind half a
\* record can it make another log, and then still one in place.
ImplementsStore == Store!StoreSpec
=============================================================================
