------------------------------ MODULE LogProofs ------------------------------
(***************************************************************************)
(* What the operations of RaftLog and WriteAheadLog make of a log that is  *)
(* in order.  Every operation but the leader's own append only moves links *)
(* that the log or the message already had.                                *)
(***************************************************************************)
EXTENDS Links, RawNodeProofs

\* Zenon is quick where there is no arithmetic; the solver has time for the
\* rest, whatever the machine.  Leaves that only Zenon finds name it.
USE ZenonT(3), SMTT(60)

-----------------------------------------------------------------------------
(* Runs *)

\* No entries are in order.
LEMMA EmptyRun ==
    ASSUME NEW p, NEW t, NEW K
    PROVE  Run(<<>>, p, t, K)
    BY EmptySeq DEF Run

\* More links do no harm.
LEMMA RunMore ==
    ASSUME NEW e, NEW p, NEW t, NEW K, NEW K2, K \subseteq K2, Run(e, p, t, K)
    PROVE  Run(e, p, t, K2)
    BY DEF Run

\* One entry is in order on its own link.
LEMMA RunOne ==
    ASSUME NEW e \in Entry, NEW p \in Nat, NEW t, NEW K, e.index = p + 1,
           e.term >= 1, <<p + 1, e.term, t>> \in K
    PROVE  Run(<<e>>, p, t, K)
    BY DEF Run, Below

\* The part of a sequence between two of its positions.
LEMMA PartOf ==
    ASSUME NEW e \in Seq(Entry), NEW i \in Int, NEW j \in Int, 1 <= i, i <= j,
           j <= Len(e)
    PROVE  LET f == SubSeq(e, i, j)
           IN  /\ f \in Seq(Entry) /\ f # <<>> /\ Len(f) = j - i + 1
               /\ f[j - i + 1] = e[j]
               /\ \A x \in 1..(j - i + 1) : f[x] = e[i + x - 1]
<1>. DEFINE f == SubSeq(e, i, j)
<1>1. \A x \in i..j : e[x] \in Entry
    BY LenProperties, ElementOfSeq
<1>2. /\ f \in Seq(Entry) /\ Len(f) = j - i + 1
      /\ \A x \in 1..(j - i + 1) : f[x] = e[i + x - 1]
    BY <1>1, SubSeqProperties
<1>3. j - i + 1 \in 1..(j - i + 1) /\ i + (j - i + 1) - 1 = j /\ j - i + 1 # 0
    OBVIOUS
<1>. HIDE DEF f
<1>4. f[j - i + 1] = e[j]
    BY <1>2, <1>3
<1>5. f # <<>>
    BY <1>2, <1>3, EmptySeq
<1>. QED  BY <1>2, <1>4, <1>5 DEF f

\* Two sequences in a row.
LEMMA InARow ==
    ASSUME NEW e \in Seq(Entry), NEW f \in Seq(Entry)
    PROVE  /\ e \o f \in Seq(Entry) /\ Len(e \o f) = Len(e) + Len(f)
           /\ \A x \in 1..Len(e) : (e \o f)[x] = e[x]
           /\ \A x \in (Len(e) + 1)..(Len(e) + Len(f)) :
                 (e \o f)[x] = f[x - Len(e)]
    BY ConcatProperties, LenProperties

\* A part of a run is a run, above the term of the entry before it.
LEMMA RunPart ==
    ASSUME NEW e \in Seq(Entry), NEW p \in Nat, NEW t, NEW K, Run(e, p, t, K),
           NEW i \in Int, NEW j \in Int, i >= 1, j <= Len(e)
    PROVE  Run(SubSeq(e, i, j), p + i - 1, Below(e, t, i), K)
<1>. DEFINE f == SubSeq(e, i, j)
<1>1. CASE i <= j
  <2>1. \A x \in i..j : e[x] \in Entry
      BY <1>1, LenProperties, ElementOfSeq
  <2>2. Len(f) = j - i + 1 /\ \A x \in 1..Len(f) : f[x] = e[i + x - 1]
      BY <1>1, <2>1, SubSeqProperties, LenProperties
  <2>. HIDE DEF f
  <2>3. SUFFICES ASSUME NEW k \in 1..Len(f)
                 PROVE  /\ f[k].index = p + i - 1 + k /\ f[k].term >= 1
                        /\ <<p + i - 1 + k, f[k].term, Below(f, Below(e, t, i), k)>>
                              \in K
      BY DEF Run, f
  <2>. DEFINE x == i + k - 1
  <2>4. /\ x \in 1..Len(e) /\ f[k] = e[x] /\ p + i - 1 + k = p + x
        /\ k \in Int /\ (k # 1 => k - 1 \in 1..Len(f))
      BY <1>1, <2>2, <2>3, LenProperties
  <2>5. Below(f, Below(e, t, i), k) = Below(e, t, x)
    <3>1. CASE k = 1
        BY <3>1 DEF Below
    <3>2. CASE k # 1
      <4>1. f[k - 1] = e[i + (k - 1) - 1]
          BY <2>2, <2>4, <3>2
      <4>2. i + (k - 1) - 1 = x - 1 /\ x # 1
          BY <2>4, <3>2
      <4>. QED  BY <3>2, <4>1, <4>2 DEF Below
    <3>. QED  BY <3>1, <3>2
  <2>. HIDE DEF x
  <2>. QED  BY <2>4, <2>5, ZenonT(60) DEF Run
<1>2. CASE ~(i <= j)
  <2>1. f = <<>>
      BY <1>2, SubSeqProperties
  <2>. QED  BY <2>1, EmptyRun
<1>. QED  BY <1>1, <1>2

\* The beginning of a run.
LEMMA RunPrefix ==
    ASSUME NEW e \in Seq(Entry), NEW p \in Nat, NEW t, NEW K, Run(e, p, t, K),
           NEW j \in Int, j <= Len(e)
    PROVE  Run(SubSeq(e, 1, j), p, t, K)
<1>1. Run(SubSeq(e, 1, j), p + 1 - 1, Below(e, t, 1), K)
    BY RunPart
<1>2. p + 1 - 1 = p /\ Below(e, t, 1) = t
    BY DEF Below
<1>. QED  BY <1>1, <1>2

\* A run followed by a run that starts where it ends.
LEMMA RunConcat ==
    ASSUME NEW e \in Seq(Entry), NEW f \in Seq(Entry), NEW p \in Nat, NEW t,
           NEW K, Run(e, p, t, K),
           Run(f, p + Len(e), IF e = <<>> THEN t ELSE e[Len(e)].term, K)
    PROVE  Run(e \o f, p, t, K)
<1>. DEFINE g == e \o f
            last == IF e = <<>> THEN t ELSE e[Len(e)].term
<1>1. /\ Len(g) = Len(e) + Len(f) /\ Len(e) \in Nat /\ Len(f) \in Nat
      /\ \A x \in 1..Len(e) : g[x] = e[x]
      /\ \A x \in (Len(e) + 1)..(Len(e) + Len(f)) : g[x] = f[x - Len(e)]
    BY InARow, LenProperties
<1>2. Len(e) = 0 <=> e = <<>>
    BY EmptySeq
<1>. HIDE DEF g, last
<1>3. SUFFICES ASSUME NEW k \in 1..Len(g)
               PROVE  /\ g[k].index = p + k /\ g[k].term >= 1
                      /\ <<p + k, g[k].term, Below(g, t, k)>> \in K
    BY DEF Run, g
<1>4. CASE k <= Len(e)
  <2>1. k \in 1..Len(e) /\ g[k] = e[k] /\ (k # 1 => k - 1 \in 1..Len(e))
      BY <1>1, <1>4
  <2>2. Below(g, t, k) = Below(e, t, k)
      BY <1>1, <2>1 DEF Below
  <2>. QED  BY <2>1, <2>2 DEF Run
<1>5. CASE k > Len(e)
  <2>. DEFINE x == k - Len(e)
  <2>1. x \in 1..Len(f) /\ g[k] = f[x] /\ p + k = p + Len(e) + x
      BY <1>1, <1>5
  <2>2. Below(g, t, k) = Below(f, last, x)
    <3>1. CASE k = 1
      <4>1. e = <<>> /\ x = 1
          BY <1>1, <1>2, <1>5, <3>1
      <4>. QED  BY <3>1, <4>1 DEF Below, last
    <3>2. CASE k # 1 /\ x = 1
      <4>1. k - 1 = Len(e) /\ e # <<>> /\ k - 1 \in 1..Len(e)
          BY <1>1, <1>2, <1>5, <3>2
      <4>. QED  BY <1>1, <3>2, <4>1 DEF Below, last
    <3>3. CASE k # 1 /\ x # 1
      <4>1. k - 1 \in (Len(e) + 1)..(Len(e) + Len(f)) /\ k - 1 - Len(e) = x - 1
          BY <1>1, <1>5, <3>3
      <4>. QED  BY <1>1, <3>3, <4>1, ZenonT(60) DEF Below
    <3>. QED  BY <3>1, <3>2, <3>3
  <2>3. Run(f, p + Len(e), last, K)
      BY DEF last
  <2>. HIDE DEF x
  <2>. QED  BY <2>1, <2>2, <2>3 DEF Run
<1>. QED  BY <1>1, <1>4, <1>5

-----------------------------------------------------------------------------
(* Terms and links of a log in order *)

\* The types of the parts of a log.
LEMMA LogParts ==
    ASSUME NEW l \in Log
    PROVE  /\ l.stored \in Seq(Entry) /\ l.unstable \in Seq(Entry)
           /\ l.offset \in Nat /\ l.committed \in Nat /\ l.applied \in Nat
           /\ Len(l.stored) \in Nat /\ Len(l.unstable) \in Nat
           /\ (Len(l.unstable) = 0 <=> l.unstable = <<>>)
           /\ LastIndex(l) \in Nat
    BY LenProperties, EmptySeq, IndexType DEF Log

\* Which part of the log answers for an index, and below the unstable entries
\* it is the stored one.
LEMMA TermAt ==
    ASSUME NEW l \in Log, NEW K, LogOK(l, K), NEW i \in Nat
    PROVE  /\ InUnstable(l, i) /\ i >= 1
                 => /\ i - l.offset + 1 \in 1..Len(l.unstable)
                    /\ Term(l, i) = l.unstable[i - l.offset + 1].term
           /\ ~InUnstable(l, i) /\ i <= Len(l.stored)
                 => Term(l, i) = StoredTerm(l.stored, i)
           /\ i = 0 => Term(l, i) = 0
           /\ Term(l, i) >= 1 => i >= 1 /\ (InUnstable(l, i) \/ i <= Len(l.stored))
           /\ i >= 1 /\ i <= LastIndex(l)
                 => InUnstable(l, i) \/ (i <= Len(l.stored) /\ ~InUnstable(l, i))
<1>1. /\ l.offset \in Nat /\ Len(l.stored) \in Nat /\ Len(l.unstable) \in Nat
      /\ (Len(l.unstable) = 0 <=> l.unstable = <<>>)
    BY LogParts
<1>2. l.unstable # <<>> => l.offset >= 1 /\ l.offset <= Len(l.stored) + 1
    BY DEF LogOK
<1>3. InUnstable(l, i) => i - l.offset + 1 \in 1..Len(l.unstable)
    BY <1>1 DEF InUnstable
<1>4. i = 0 => ~InUnstable(l, i)
    BY <1>1, <1>2 DEF InUnstable
<1>5. i >= 1 /\ i <= LastIndex(l)
                 => InUnstable(l, i) \/ (i <= Len(l.stored) /\ ~InUnstable(l, i))
    BY <1>1, <1>2 DEF InUnstable, LastIndex
<1>. QED  BY <1>1, <1>3, <1>4, <1>5 DEF Term, FirstIndex, StoredTerm

\* Every entry the log holds has a leader's term, and the log's links are in K.
LEMMA LogLinks ==
    ASSUME NEW l \in Log, NEW K, LogOK(l, K), NEW i \in Nat, i >= 1,
           i <= LastIndex(l)
    PROVE  Term(l, i) >= 1 /\ <<i, Term(l, i), Term(l, i - 1)>> \in K
<1>1. /\ l.stored \in Seq(Entry) /\ l.unstable \in Seq(Entry)
      /\ l.offset \in Nat /\ Len(l.stored) \in Nat /\ Len(l.unstable) \in Nat
      /\ (Len(l.unstable) = 0 <=> l.unstable = <<>>)
    BY LogParts
<1>2. /\ Run(l.stored, 0, 0, K)
      /\ l.unstable # <<>> =>
          /\ l.offset >= 1 /\ l.offset <= Len(l.stored) + 1
          /\ Run(l.unstable, l.offset - 1, StoredTerm(l.stored, l.offset - 1), K)
    BY DEF LogOK
<1>3. i - 1 \in Nat
    OBVIOUS
<1>4. CASE InUnstable(l, i)
  <2>. DEFINE k == i - l.offset + 1
              t == StoredTerm(l.stored, l.offset - 1)
  <2>1. k \in 1..Len(l.unstable) /\ Term(l, i) = l.unstable[k].term
      BY <1>4, TermAt
  <2>2. l.unstable # <<>> /\ l.offset - 1 + k = i
      BY <1>1, <1>4 DEF InUnstable
  <2>3. l.unstable[k].term >= 1 /\ <<i, l.unstable[k].term, Below(l.unstable, t, k)>> \in K
      BY <1>2, <2>1, <2>2 DEF Run
  <2>4. Below(l.unstable, t, k) = Term(l, i - 1)
    <3>1. CASE k = 1
      <4>1. i = l.offset /\ i <= Len(l.stored) + 1
        <5>1. l.offset \in Nat /\ Len(l.stored) \in Nat /\ l.offset <= Len(l.stored) + 1
            BY <1>1, <1>2, <2>2
        <5>2. i - l.offset + 1 = 1
            BY <3>1
        <5>. QED  BY <5>1, <5>2
      <4>2. i - 1 = l.offset - 1 /\ ~InUnstable(l, i - 1) /\ i - 1 <= Len(l.stored)
          BY <1>1, <4>1 DEF InUnstable
      <4>3. Term(l, i - 1) = StoredTerm(l.stored, i - 1)
          BY <1>3, <4>2, TermAt
      <4>. QED  BY <3>1, <4>2, <4>3 DEF Below
    <3>2. CASE k # 1
      <4>1. InUnstable(l, i - 1) /\ i - 1 >= 1 /\ i - 1 - l.offset + 1 = k - 1
          BY <1>1, <1>2, <1>4, <2>2, <3>2 DEF InUnstable
      <4>2. Term(l, i - 1) = l.unstable[i - 1 - l.offset + 1].term
          BY <1>3, <4>1, TermAt
      <4>. QED  BY <3>2, <4>1, <4>2 DEF Below
    <3>. QED  BY <3>1, <3>2
  <2>. QED  BY <2>1, <2>3, <2>4
<1>5. CASE ~InUnstable(l, i)
  <2>1. i <= Len(l.stored)
      BY <1>5, TermAt
  <2>2. Term(l, i) = l.stored[i].term
      BY <1>5, <2>1, TermAt DEF StoredTerm
  <2>3. i \in 1..Len(l.stored) /\ 0 + i = i
      BY <1>1, <2>1
  <2>4. l.stored[i].term >= 1 /\ <<i, l.stored[i].term, Below(l.stored, 0, i)>> \in K
      BY <1>2, <2>3 DEF Run
  <2>5. ~InUnstable(l, i - 1)
      BY <1>1, <1>2, <1>5, <2>1 DEF InUnstable, LastIndex
  <2>6. Term(l, i - 1) = StoredTerm(l.stored, i - 1)
      BY <1>1, <1>3, <2>1, <2>5, TermAt
  <2>7. Below(l.stored, 0, i) = StoredTerm(l.stored, i - 1)
      BY DEF Below, StoredTerm
  <2>. QED  BY <2>2, <2>4, <2>6, <2>7
<1>. QED  BY <1>4, <1>5

-----------------------------------------------------------------------------
(* Operations *)

\* Cutting the unstable entries leaves a log in order, although stored entries
\* that they had replaced come to light again.
LEMMA TruncateFromOK ==
    ASSUME NEW l \in Log, NEW K, LogOK(l, K), NEW i \in Int
    PROVE  LogOK(TruncateFrom(l, i), K)
<1>1. CASE i - l.offset < Len(l.unstable)
  <2>. DEFINE u == SubSeq(l.unstable, 1, i - l.offset)
              t == StoredTerm(l.stored, l.offset - 1)
  <2>1. TruncateFrom(l, i) = [l EXCEPT !.unstable = u]
      BY <1>1 DEF TruncateFrom
  <2>2. ASSUME l.unstable # <<>> PROVE Run(u, l.offset - 1, t, K)
    <3>1. /\ l.unstable \in Seq(Entry) /\ l.offset \in Nat /\ l.offset >= 1
          /\ Run(l.unstable, l.offset - 1, t, K) /\ Len(l.unstable) \in Nat
        BY <2>2, LogParts DEF LogOK
    <3>2. l.offset - 1 \in Nat /\ i - l.offset \in Int /\ i - l.offset <= Len(l.unstable)
        BY <1>1, <3>1
    <3>. QED  BY <3>1, <3>2, RunPrefix
  <2>3. l.unstable = <<>> => u = <<>>
    <3>1. SUFFICES ASSUME l.unstable = <<>> PROVE u = <<>>
        OBVIOUS
    <3>2. Len(l.unstable) = 0 /\ l.offset \in Nat
        BY <3>1, LogParts
    <3>3. i - l.offset < 1 /\ i - l.offset \in Int
        BY <1>1, <3>2
    <3>. QED  BY <3>3, SubSeqProperties
  <2>. HIDE DEF u
  <2>. QED  BY <2>1, <2>2, <2>3 DEF LogOK, Log
<1>2. CASE ~(i - l.offset < Len(l.unstable))
    BY <1>2 DEF TruncateFrom
<1>. QED  BY <1>1, <1>2

\* Appending a run that starts where the log has the term below it.
LEMMA TruncateAndAppendOK ==
    ASSUME NEW l \in Log, NEW K, LogOK(l, K), NEW p \in Nat,
           NEW e \in Seq(Entry), e # <<>>, Run(e, p, Term(l, p), K),
           p = 0 \/ Term(l, p) >= 1
    PROVE  LogOK(TruncateAndAppend(l, e), K)
<1>. DEFINE first == e[1].index
            t == StoredTerm(l.stored, l.offset - 1)
            old == SubSeq(l.unstable, 1, first - l.offset)
            u == old \o e
            window == l.offset < first /\ first <= LastIndex(l) + 1
                        /\ l.unstable # <<>>
<1>1. /\ l.stored \in Seq(Entry) /\ l.unstable \in Seq(Entry)
      /\ l.offset \in Nat /\ Len(l.stored) \in Nat /\ Len(l.unstable) \in Nat
      /\ (Len(l.unstable) = 0 <=> l.unstable = <<>>)
    BY LogParts
<1>2. first = p + 1
  <2>1. 1 \in 1..Len(e)
      BY EmptySeq, LenProperties
  <2>. QED  BY <2>1, ZenonT(60) DEF Run
<1>. HIDE DEF first
<1>3. CASE window
  <2>. DEFINE d == first - l.offset
  <2>1. TruncateAndAppend(l, e) = [l EXCEPT !.unstable = u]
      BY <1>3 DEF TruncateAndAppend, first
  <2>2. /\ l.offset >= 1 /\ l.offset <= Len(l.stored) + 1
        /\ Run(l.unstable, l.offset - 1, t, K)
      BY <1>3 DEF LogOK
  <2>3. d \in 1..Len(l.unstable) /\ l.offset - 1 \in Nat
      BY <1>1, <1>2, <1>3, <2>2 DEF LastIndex
  <2>4. Run(old, l.offset - 1, t, K) /\ old \in Seq(Entry)
      BY <1>1, <2>2, <2>3, RunPrefix, SubSeqType
  <2>5. Len(old) = d /\ old[d] = l.unstable[d] /\ old # <<>>
    <3>1. \A x \in 1..d : l.unstable[x] \in Entry
        BY <1>1, <2>3, ElementOfSeq
    <3>2. Len(old) = d - 1 + 1 /\ \A x \in 1..(d - 1 + 1) : old[x] = l.unstable[1 + x - 1]
        BY <2>3, <3>1, SubSeqProperties
    <3>3. d - 1 + 1 = d /\ d \in 1..d /\ 1 + d - 1 = d /\ d # 0
        BY <2>3
    <3>4. Len(old) = d /\ old[d] = l.unstable[d]
        BY <3>2, <3>3
    <3>. QED  BY <3>3, <3>4, EmptySeq, ZenonT(60)
  <2>6. Term(l, p) = l.unstable[d].term
    <3>1. InUnstable(l, p) /\ p >= 1 /\ p - l.offset + 1 = d
        BY <1>1, <1>2, <2>2, <2>3 DEF InUnstable
    <3>. QED  BY <3>1, TermAt
  <2>7. l.offset - 1 + d = p
      BY <1>1, <1>2
  <2>. HIDE DEF old, d, t
  <2>8. Run(u, l.offset - 1, t, K)
    <3>1. l.offset - 1 + Len(old) = p
        BY <2>5, <2>7
    <3>. QED  BY <2>3, <2>4, <2>5, <2>6, <3>1, RunConcat, ZenonT(60)
  <2>9. LogOK([l EXCEPT !.unstable = u], K)
    <3>. HIDE DEF u
    <3>. QED  BY <2>2, <2>8 DEF LogOK, Log, t
  <2>. QED  BY <2>1, <2>9
<1>4. CASE ~window
  <2>1. TruncateAndAppend(l, e) = [l EXCEPT !.offset = first, !.unstable = e]
      BY <1>4 DEF TruncateAndAppend, first
  <2>2. ~InUnstable(l, p)
      BY <1>1, <1>2, <1>4 DEF InUnstable, LastIndex
  <2>3. p <= Len(l.stored)
      BY <1>1, <2>2, TermAt
  <2>4. Term(l, p) = StoredTerm(l.stored, p)
      BY <2>2, <2>3, TermAt
  <2>5. first >= 1 /\ first <= Len(l.stored) + 1 /\ first - 1 = p
      BY <1>1, <1>2, <2>3
  <2>6. Run(e, first - 1, StoredTerm(l.stored, first - 1), K)
      BY <2>4, <2>5
  <2>7. LogOK([l EXCEPT !.offset = first, !.unstable = e], K)
      BY <2>5, <2>6 DEF LogOK, Log
  <2>. QED  BY <2>1, <2>7
<1>. QED  BY <1>3, <1>4

\* What counts as in order are the entries alone.
LEMMA SameEntriesOK ==
    ASSUME NEW l, NEW l2, NEW K, LogOK(l, K), l2.stored = l.stored,
           l2.offset = l.offset, l2.unstable = l.unstable
    PROVE  LogOK(l2, K)
    BY DEF LogOK

\* More links do no harm.
LEMMA LogOKMore ==
    ASSUME NEW l, NEW K, NEW K2, K \subseteq K2, LogOK(l, K)
    PROVE  LogOK(l, K2)
    BY RunMore DEF LogOK

\* commitTo, maybeCommit and appliedTo touch no entry, and the first two leave
\* applied_ alone.
LEMMA CommitOK ==
    ASSUME NEW l \in Log, NEW i \in Nat, NEW t
    PROVE  \A l2 \in {CommitTo(l, i), MaybeCommit(l, i, t), AppliedTo(l, i)} :
               /\ l2.stored = l.stored /\ l2.offset = l.offset
               /\ l2.unstable = l.unstable
               /\ l2 = AppliedTo(l, i) \/ l2.applied = l.applied
    BY DEF CommitTo, MaybeCommit, AppliedTo, Log

\* maybeAppend of the entries of a message whose previous entry matches: it
\* starts with the first entry that differs, and the one below that is there.
LEMMA AcceptOK ==
    ASSUME NEW l \in Log, NEW K, LogOK(l, K), NEW p \in Nat,
           NEW e \in Seq(Entry), Run(e, p, Term(l, p), K),
           e # <<>> /\ p >= 1 => Term(l, p) >= 1
    PROVE  LogOK(Accept(l, p, e), K) /\ Accept(l, p, e).applied = l.applied
<1>. DEFINE D == FindConflict(l, e)
            k == CHOOSE j \in D : TRUE
            rest == SubSeq(e, k, Len(e))
            lastNew == p + Len(e)
<1>1. Len(e) \in Nat /\ lastNew \in Nat
    BY LenProperties
<1>2. CASE D = {}
  <2>1. Accept(l, p, e) \in {TruncateFrom(l, lastNew + 1), l}
      BY <1>2 DEF Accept
  <2>2. LogOK(TruncateFrom(l, lastNew + 1), K)
      BY <1>1, TruncateFromOK
  <2>3. TruncateFrom(l, lastNew + 1).applied = l.applied
      BY DEF TruncateFrom, Log
  <2>. QED  BY <2>1, <2>2, <2>3
<1>3. CASE D # {} /\ e[k].index <= l.committed
    BY <1>3 DEF Accept
<1>4. CASE D # {} /\ ~(e[k].index <= l.committed)
  <2>1. k \in D
      BY <1>4
  <2>2. /\ k \in 1..Len(e)
        /\ \A j \in 1..(k - 1) : Term(l, e[j].index) = e[j].term
      BY <2>1, ZenonT(60) DEF FindConflict
  <2>3. Accept(l, p, e) = TruncateAndAppend(l, rest)
      BY <1>4 DEF Accept
  <2>. HIDE DEF k, D
  <2>. DEFINE q == p + k - 1
  <2>4. q \in Nat /\ e # <<>>
      BY <1>1, <2>2, EmptySeq
  <2>5. rest \in Seq(Entry) /\ rest # <<>>
      BY <2>2, SuffixType
  <2>6. Term(l, q) = Below(e, Term(l, p), k) /\ (q = 0 \/ Term(l, q) >= 1)
    <3>1. CASE k = 1
        BY <2>4, <3>1 DEF Below
    <3>2. CASE k # 1
      <4>1. k - 1 \in 1..Len(e) /\ k - 1 \in 1..(k - 1) /\ p + (k - 1) = q
          BY <1>1, <2>2, <3>2
      <4>2. e[k - 1].index = p + (k - 1) /\ e[k - 1].term >= 1
          BY <4>1, ZenonT(60) DEF Run
      <4>3. Term(l, e[k - 1].index) = e[k - 1].term
          BY <2>2, <4>1
      <4>. QED  BY <3>2, <4>1, <4>2, <4>3 DEF Below
    <3>. QED  BY <3>1, <3>2
  <2>7. Run(rest, q, Term(l, q), K)
    <3>1. k \in Int /\ k >= 1 /\ Len(e) \in Int /\ Len(e) <= Len(e)
        BY <1>1, <2>2
    <3>2. Run(rest, p + k - 1, Below(e, Term(l, p), k), K)
        BY <3>1, RunPart
    <3>. QED  BY <2>6, <3>2
  <2>. HIDE DEF rest, q
  <2>8. LogOK(TruncateAndAppend(l, rest), K)
      BY <2>4, <2>5, <2>6, <2>7, TruncateAndAppendOK
  <2>9. TruncateAndAppend(l, rest).applied = l.applied
      BY DEF TruncateAndAppend, Log
  <2>. QED  BY <2>3, <2>8, <2>9
<1>. QED  BY <1>2, <1>3, <1>4

\* The commit index that comes with it changes nothing.
LEMMA MaybeAppendOK ==
    ASSUME NEW l \in Log, NEW K, LogOK(l, K), NEW p \in Nat, NEW c \in Nat,
           NEW e \in Seq(Entry), Run(e, p, Term(l, p), K),
           e # <<>> /\ p >= 1 => Term(l, p) >= 1
    PROVE  /\ LogOK(MaybeAppend(l, p, c, e), K)
           /\ MaybeAppend(l, p, c, e).applied = l.applied
<1>. DEFINE a == Accept(l, p, e)
            b == MaybeAppend(l, p, c, e)
<1>1. LogOK(a, K) /\ a.applied = l.applied /\ a \in Log
    BY AcceptOK, AcceptType
<1>2. b = a \/ b = [a EXCEPT !.committed = Smaller(c, p + Len(e))]
    BY DEF MaybeAppend
<1>. HIDE DEF a, b
<1>3. /\ b.stored = a.stored /\ b.offset = a.offset /\ b.unstable = a.unstable
      /\ b.applied = a.applied
    BY <1>1, <1>2 DEF Log
<1>. QED  BY <1>1, <1>3, SameEntriesOK DEF a, b

\* slice hands out consecutive entries from lo on, below hi, above the term
\* that the log has below lo.
LEMMA SliceOK ==
    ASSUME NEW l \in Log, NEW K, LogOK(l, K), NEW lo \in Nat, NEW hi \in Nat,
           lo >= 1, ~SliceThrows(l, lo, hi)
    PROVE  LET s == Slice(l, lo, hi)
           IN  /\ Run(s, lo - 1, Term(l, lo - 1), K)
               /\ s \in Seq(Entry)
               /\ s # <<>> => lo < hi /\ Len(s) <= hi - lo
<1>. DEFINE s == Slice(l, lo, hi)
            t == StoredTerm(l.stored, l.offset - 1)
            j == Smaller(hi, l.offset) - 1
            A == SubSeq(l.stored, lo, j)
            from == IF lo < l.offset THEN l.offset ELSE lo
            B == SubSeq(l.unstable, from - l.offset + 1, hi - l.offset)
            U == IF from < hi /\ hi <= l.offset + Len(l.unstable) THEN B ELSE <<>>
<1>1. /\ l.stored \in Seq(Entry) /\ l.unstable \in Seq(Entry)
      /\ l.offset \in Nat /\ Len(l.stored) \in Nat /\ Len(l.unstable) \in Nat
      /\ (Len(l.unstable) = 0 <=> l.unstable = <<>>)
      /\ <<>> \in Seq(Entry) /\ Len(<<>>) = 0 /\ lo - 1 \in Nat
    BY LogParts, EmptySeq
<1>0. /\ l.offset \in Nat /\ Len(l.stored) \in Nat /\ Len(l.unstable) \in Nat
      /\ lo - 1 \in Nat
    BY <1>1
<1>2. s = (IF lo < l.offset THEN A ELSE <<>>) \o U
    BY DEF Slice
<1>3. CASE lo >= hi
  <2>1. lo < l.offset => A = <<>>
    <3>1. j < lo /\ j \in Int
        BY <1>1, <1>3 DEF Smaller
    <3>. QED  BY <3>1, SubSeqProperties
  <2>2. U = <<>>
      BY <1>1, <1>3
  <2>3. s = <<>>
    <3>. HIDE DEF A, U, s
    <3>1. s = <<>> \o <<>>
        BY <1>2, <2>1, <2>2
    <3>. QED  BY <1>1, <3>1, ConcatEmptySeq
  <2>. QED  BY <1>1, <2>3, EmptyRun
<1>4. CASE lo < hi
  <2>1. hi <= LastIndex(l) + 1 /\ (lo < l.offset => j <= Len(l.stored))
      BY <1>1, <1>4, LogParts DEF SliceThrows, Smaller
  <2>2. l.unstable # <<>> =>
          /\ l.offset >= 1 /\ l.offset <= Len(l.stored) + 1
          /\ Run(l.unstable, l.offset - 1, t, K)
      BY DEF LogOK
  <2>3. CASE lo < l.offset
    <3>1. /\ j \in Int /\ lo <= j /\ j <= Len(l.stored) /\ j <= hi - 1
          /\ j <= l.offset - 1 /\ (l.offset < hi => j = l.offset - 1)
        BY <1>1, <1>4, <2>1, <2>3 DEF Smaller
    <3>. HIDE DEF j
    <3>2. Run(A, lo - 1, Term(l, lo - 1), K)
      <4>1. Run(A, 0 + lo - 1, Below(l.stored, 0, lo), K)
          BY <1>1, <3>1, RunPart DEF LogOK
      <4>2. 0 + lo - 1 = lo - 1 /\ ~InUnstable(l, lo - 1) /\ lo - 1 <= Len(l.stored)
          BY <1>1, <2>3, <3>1 DEF InUnstable
      <4>3. Below(l.stored, 0, lo) = Term(l, lo - 1)
          BY <1>1, <4>2, TermAt DEF Below, StoredTerm
      <4>. QED  BY <4>1, <4>2, <4>3
    <3>3. /\ A \in Seq(Entry) /\ Len(A) = j - lo + 1 /\ A # <<>>
          /\ A[Len(A)] = l.stored[j]
      <4>1. 1 <= lo /\ lo \in Int /\ lo <= j /\ j <= Len(l.stored) /\ j \in Int
          BY <3>1
      <4>2. /\ A \in Seq(Entry) /\ Len(A) = j - lo + 1 /\ A # <<>>
            /\ A[j - lo + 1] = l.stored[j]
          BY <1>1, <4>1, PartOf, ZenonT(60)
      <4>. HIDE DEF A
      <4>. QED  BY <4>2
    <3>4. CASE l.offset < hi /\ hi <= l.offset + Len(l.unstable)
      <4>1. PICK d \in Int : d = hi - l.offset
          BY <1>1
      <4>2. U = B /\ from - l.offset + 1 = 1
        <5>1. from = l.offset /\ l.offset - l.offset + 1 = 1
            BY <1>0, <2>3
        <5>. HIDE DEF B, from
        <5>. QED  BY <3>4, <5>1
      <4>3. B = SubSeq(l.unstable, 1, d)
          BY <4>1, <4>2
      <4>4. 1 <= d /\ d <= Len(l.unstable) /\ l.unstable # <<>>
          BY <1>1, <3>4, <4>1
      <4>5. l.offset - 1 \in Nat /\ Run(l.unstable, l.offset - 1, t, K)
          BY <1>1, <2>2, <4>4
      <4>. HIDE DEF A, B, U, t
      <4>6. Run(B, l.offset - 1, t, K)
          BY <1>1, <4>3, <4>4, <4>5, RunPrefix
      <4>7. B \in Seq(Entry) /\ Len(B) = d
        <5>1. B \in Seq(Entry) /\ Len(B) = d - 1 + 1
            BY <1>1, <4>3, <4>4, PartOf
        <5>. QED  BY <5>1
      <4>8. s = A \o B
          BY <1>2, <2>3, <4>2
      <4>9. l.offset - 1 = lo - 1 + Len(A) /\ t = A[Len(A)].term
        <5>1. j = l.offset - 1 /\ l.offset - 1 # 0
            BY <1>1, <2>3, <3>1, <3>4
        <5>2. t = A[Len(A)].term
            BY <3>3, <5>1 DEF StoredTerm, t
        <5>3. l.offset - 1 = lo - 1 + Len(A)
            BY <1>1, <3>1, <3>3, <5>1
        <5>. QED  BY <5>2, <5>3
      <4>10. Run(s, lo - 1, Term(l, lo - 1), K)
          BY <1>1, <3>2, <3>3, <4>6, <4>7, <4>8, <4>9, RunConcat, ZenonT(60)
      <4>11. s \in Seq(Entry) /\ Len(s) = Len(A) + Len(B)
          BY <3>3, <4>7, <4>8, ConcatProperties, ZenonT(60)
      <4>12. Len(s) <= hi - lo
        <5>1. Len(A) = l.offset - lo
            BY <1>0, <3>1, <3>3, <4>9
        <5>. QED  BY <1>0, <4>1, <4>7, <4>11, <5>1
      <4>. QED  BY <1>4, <4>10, <4>11, <4>12
    <3>5. CASE ~(l.offset < hi /\ hi <= l.offset + Len(l.unstable))
      <4>1. U = <<>>
          BY <1>1, <2>3, <3>5
      <4>. HIDE DEF A, U
      <4>2. s = A
          BY <1>2, <2>3, <3>3, <4>1, ConcatEmptySeq
      <4>3. Len(A) <= hi - lo
          BY <3>1, <3>3
      <4>. QED  BY <1>4, <3>2, <3>3, <4>2, <4>3
    <3>. QED  BY <3>4, <3>5
  <2>4. CASE ~(lo < l.offset)
    <3>1. CASE hi <= l.offset + Len(l.unstable)
      <4>1. PICK k \in Int, d \in Int : k = lo - l.offset + 1 /\ d = hi - l.offset
          BY <1>1
      <4>2. U = B /\ B = SubSeq(l.unstable, k, d)
          BY <1>1, <1>4, <2>4, <3>1, <4>1, ZenonT(60)
      <4>3. /\ 1 <= k /\ k <= d /\ d <= Len(l.unstable) /\ l.unstable # <<>>
            /\ d - k + 1 = hi - lo
        <5>1. 1 <= k /\ k <= d /\ d <= Len(l.unstable) /\ d - k + 1 = hi - lo
            BY <1>0, <1>4, <2>4, <3>1, <4>1
        <5>2. Len(l.unstable) # 0
            BY <1>0, <5>1
        <5>. QED  BY <1>1, <5>1, <5>2
      <4>4. /\ l.offset - 1 \in Nat /\ Run(l.unstable, l.offset - 1, t, K)
            /\ l.offset >= 1 /\ l.offset <= Len(l.stored) + 1
          BY <1>1, <2>2, <4>3
      <4>5. l.offset - 1 + k - 1 = lo - 1
          BY <1>0, <4>1
      <4>. HIDE DEF A, B, U, t
      <4>6. Run(B, l.offset - 1 + k - 1, Below(l.unstable, t, k), K)
          BY <1>1, <4>2, <4>3, <4>4, RunPart, ZenonT(60)
      <4>7. Below(l.unstable, t, k) = Term(l, lo - 1)
        <5>1. CASE k = 1
          <6>1. lo = l.offset
              BY <1>1, <4>1, <5>1
          <6>2. ~InUnstable(l, lo - 1) /\ lo - 1 <= Len(l.stored)
              BY <1>1, <4>4, <6>1 DEF InUnstable
          <6>3. Term(l, lo - 1) = StoredTerm(l.stored, lo - 1)
              BY <1>1, <6>2, TermAt
          <6>. QED  BY <5>1, <6>1, <6>3 DEF Below, t
        <5>2. CASE k # 1
          <6>1. InUnstable(l, lo - 1) /\ lo - 1 >= 1 /\ lo - 1 - l.offset + 1 = k - 1
            <7>1. l.offset <= lo - 1 /\ lo - 1 < l.offset + Len(l.unstable)
              <8>1. k <= Len(l.unstable)
                  BY <1>0, <4>3
              <8>. QED  BY <1>0, <2>4, <4>1, <5>2, <8>1
            <7>2. lo - 1 >= 1
                BY <1>1, <4>4, <7>1
            <7>3. lo - 1 - l.offset + 1 = k - 1
                BY <1>1, <4>1
            <7>. QED  BY <7>1, <7>2, <7>3 DEF InUnstable
          <6>2. Term(l, lo - 1) = l.unstable[lo - 1 - l.offset + 1].term
              BY <1>1, <6>1, TermAt
          <6>. QED  BY <5>2, <6>1, <6>2 DEF Below
        <5>. QED  BY <5>1, <5>2
      <4>8. B \in Seq(Entry) /\ Len(B) = hi - lo
          BY <1>1, <4>2, <4>3, PartOf
      <4>9. s = B
          BY <1>2, <2>4, <4>2, <4>8, ConcatEmptySeq
      <4>. HIDE DEF s
      <4>. QED  BY <1>1, <1>4, <4>5, <4>6, <4>7, <4>8, <4>9 DEF s
    <3>2. CASE ~(hi <= l.offset + Len(l.unstable))
      <4>1. U = <<>>
          BY <3>2
      <4>2. s = <<>>
        <5>. HIDE DEF A, U, s
        <5>1. s = <<>> \o <<>>
            BY <1>2, <2>4, <4>1
        <5>. QED  BY <1>1, <5>1, ConcatEmptySeq
      <4>. QED  BY <1>1, <4>2, EmptyRun
    <3>. QED  BY <3>1, <3>2
  <2>. QED  BY <2>3, <2>4
<1>. QED  BY <1>1, <1>3, <1>4

\* nextCommittedEntries hands out the entries that follow applied_, none above
\* committed_.
LEMMA NextCommittedOK ==
    ASSUME NEW l \in Log, NEW K, LogOK(l, K)
    PROVE  LET done == NextCommittedEntries(l)
           IN  /\ \A k \in 1..Len(done) : done[k].index = l.applied + k
               /\ done # <<>> => l.applied + Len(done) <= l.committed
<1>. DEFINE done == NextCommittedEntries(l)
            lo == l.applied + 1
            hi == l.committed + 1
<1>1. l.applied \in Nat /\ l.committed \in Nat /\ lo \in Nat /\ hi \in Nat /\ lo >= 1
    BY LogParts
<1>2. CASE done = <<>>
    BY <1>2, EmptySeq
<1>3. CASE done # <<>>
  <2>1. done = Slice(l, lo, hi) /\ ~SliceThrows(l, lo, hi)
      BY <1>3 DEF NextCommittedEntries
  <2>. HIDE DEF done, lo, hi
  <2>2. /\ Run(done, lo - 1, Term(l, lo - 1), K) /\ done \in Seq(Entry)
        /\ Len(done) <= hi - lo
      BY <1>1, <1>3, <2>1, SliceOK
  <2>3. \A k \in 1..Len(done) : done[k].index = lo - 1 + k
      BY <2>2, ZenonT(60) DEF Run
  <2>4. lo - 1 = l.applied /\ hi - lo = l.committed - l.applied
      BY <1>1 DEF lo, hi
  <2>5. \A k \in 1..Len(done) : done[k].index = l.applied + k
      BY <2>3, <2>4
  <2>6. Len(done) \in Nat
      BY <2>2, LenProperties
  <2>7. l.applied + Len(done) <= l.committed
      BY <1>1, <2>2, <2>4, <2>6
  <2>. QED  BY <2>5, <2>7 DEF done
<1>. QED  BY <1>2, <1>3

\* What appendNoSync writes over the stored entries is the log, in order: the
\* rewrite of the file drops exactly the entries that unstable ones replaced.
LEMMA DiskOK ==
    ASSUME NEW l \in Log, NEW K, LogOK(l, K)
    PROVE  LET e == AppendNoSync(l.stored, l.unstable)
           IN  /\ Run(e, 0, 0, K) /\ Len(e) = LastIndex(l)
               /\ \A i \in 1..LastIndex(l) : e[i].term = Term(l, i)
<1>. DEFINE e == AppendNoSync(l.stored, l.unstable)
            u == l.unstable
            o == l.offset - 1
            t == StoredTerm(l.stored, o)
            base == IF Rewrites(l.stored, u)
                    THEN SubSeq(l.stored, 1, u[1].index - 1) ELSE l.stored
<1>1. /\ l.stored \in Seq(Entry) /\ u \in Seq(Entry)
      /\ (Len(u) = 0 <=> u = <<>>) /\ <<>> \in Seq(Entry) /\ Len(<<>>) = 0
    BY LogParts, EmptySeq
<1>2. l.offset \in Nat /\ Len(l.stored) \in Nat /\ Len(u) \in Nat
    BY LogParts
<1>3. e = base \o u
    BY ZenonT(60) DEF AppendNoSync
<1>4. Run(l.stored, 0, 0, K)
    BY DEF LogOK
<1>5. CASE u = <<>>
  <2>1. e = l.stored
    <3>1. base = l.stored
        BY <1>5 DEF Rewrites
    <3>. HIDE DEF e, base
    <3>. QED  BY <1>1, <1>3, <1>5, <3>1, ConcatEmptySeq
  <2>2. LastIndex(l) = Len(l.stored)
      BY <1>5 DEF LastIndex
  <2>3. ASSUME NEW i \in 1..LastIndex(l) PROVE l.stored[i].term = Term(l, i)
    <3>1. Len(l.unstable) = 0
        BY <1>1, <1>5
    <3>2. ~InUnstable(l, i) /\ i \in 1..Len(l.stored) /\ i # 0
        BY <1>2, <2>2, <3>1 DEF InUnstable
    <3>. QED  BY <3>2 DEF Term, FirstIndex
  <2>. QED  BY <1>4, <2>1, <2>2, <2>3
<1>6. CASE u # <<>>
  <2>1. o \in Nat /\ o <= Len(l.stored) /\ Run(u, o, t, K)
      BY <1>2, <1>6 DEF LogOK
  <2>2. u[1].index = o + 1
    <3>1. 1 \in 1..Len(u)
        BY <1>1, <1>2, <1>6
    <3>. QED  BY <2>1, <3>1, ZenonT(60) DEF Run
  <2>. HIDE DEF o, t, u
  <2>3. /\ base \in Seq(Entry) /\ Len(base) = o /\ Run(base, 0, 0, K)
        /\ \A x \in 1..o : base[x] = l.stored[x]
    <3>1. CASE o = Len(l.stored)
      <4>1. ~Rewrites(l.stored, u)
          BY <1>2, <2>1, <2>2, <3>1 DEF Rewrites
      <4>2. base = l.stored
          BY <4>1
      <4>. QED  BY <1>1, <1>4, <3>1, <4>2, ZenonT(60)
    <3>2. CASE o # Len(l.stored)
      <4>1. Rewrites(l.stored, u) /\ u[1].index - 1 = o
          BY <1>2, <1>6, <2>1, <2>2, <3>2 DEF Rewrites
      <4>2. base = SubSeq(l.stored, 1, o)
          BY <4>1, ZenonT(60)
      <4>. HIDE DEF base
      <4>3. Run(base, 0, 0, K)
          BY <1>1, <1>2, <1>4, <2>1, <4>2, RunPrefix
      <4>4. CASE o = 0
        <5>1. base = <<>>
            BY <4>2, <4>4, SubSeqProperties
        <5>. QED  BY <1>1, <4>3, <4>4, <5>1
      <4>5. CASE o # 0
        <5>1. 1 <= o /\ o \in Int /\ o <= Len(l.stored) /\ o - 1 + 1 = o
            BY <1>2, <2>1, <4>5
        <5>2. /\ base \in Seq(Entry) /\ Len(base) = o - 1 + 1
              /\ \A x \in 1..(o - 1 + 1) : base[x] = l.stored[1 + x - 1]
            BY <1>1, <4>2, <5>1, PartOf
        <5>3. \A x \in 1..o : base[x] = l.stored[x]
            BY <5>1, <5>2
        <5>. QED  BY <4>3, <5>1, <5>2, <5>3
      <4>. QED  BY <4>4, <4>5
    <3>. QED  BY <3>1, <3>2
  <2>. HIDE DEF base, e
  <2>4. t = IF base = <<>> THEN 0 ELSE base[Len(base)].term
    <3>1. CASE o = 0
        BY <2>3, <3>1, EmptySeq DEF t, StoredTerm
    <3>2. CASE o # 0
      <4>1. o \in 1..o
          BY <2>1, <3>2
      <4>. QED  BY <2>3, <3>2, <4>1, EmptySeq DEF t, StoredTerm
    <3>. QED  BY <3>1, <3>2
  <2>5. Run(e, 0, 0, K)
    <3>1. 0 + Len(base) = o
        BY <2>1, <2>3
    <3>. QED  BY <1>1, <1>3, <2>1, <2>3, <2>4, <3>1, RunConcat
  <2>6. /\ Len(e) = o + Len(u)
        /\ \A x \in 1..o : e[x] = l.stored[x]
        /\ \A x \in (o + 1)..(o + Len(u)) : e[x] = u[x - o]
    <3>1. /\ Len(e) = Len(base) + Len(u)
          /\ \A x \in 1..Len(base) : e[x] = base[x]
          /\ \A x \in (Len(base) + 1)..(Len(base) + Len(u)) : e[x] = u[x - Len(base)]
        BY <1>1, <1>3, <2>3, InARow, ZenonT(60)
    <3>. QED  BY <2>3, <3>1
  <2>7. LastIndex(l) = o + Len(u)
    <3>1. LastIndex(l) = l.offset + Len(u) - 1
        BY <1>6 DEF LastIndex, u
    <3>2. o = l.offset - 1
        BY DEF o
    <3>. QED  BY <1>2, <3>1, <3>2
  <2>8. ASSUME NEW i \in 1..LastIndex(l) PROVE e[i].term = Term(l, i)
    <3>1. i \in Nat /\ i >= 1 /\ i <= o + Len(u)
        BY <1>2, <2>1, <2>7
    <3>2. CASE i <= o
      <4>1. e[i] = l.stored[i]
          BY <2>1, <2>6, <3>1, <3>2
      <4>2. ~InUnstable(l, i) /\ i <= Len(l.stored) /\ i # 0
          BY <1>2, <2>1, <3>1, <3>2 DEF InUnstable, o
      <4>. QED  BY <3>1, <4>1, <4>2, TermAt DEF StoredTerm
    <3>3. CASE i > o
      <4>1. e[i] = u[i - o]
          BY <2>1, <1>2, <2>6, <3>1, <3>3
      <4>2. InUnstable(l, i) /\ i - l.offset + 1 = i - o
          BY <1>2, <3>1, <3>3 DEF InUnstable, o, u
      <4>. QED  BY <3>1, <4>1, <4>2, TermAt DEF u
    <3>. QED  BY <2>1, <3>1, <3>2, <3>3
  <2>. QED  BY <2>5, <2>6, <2>7, <2>8 DEF e, u
<1>. QED  BY <1>5, <1>6

\* replay() finds the beginning of a log in order.
LEMMA ReplaysOK ==
    ASSUME NEW s \in Seq(Entry), NEW K, Run(s, 0, 0, K), NEW e \in Replays(s)
    PROVE  Run(e, 0, 0, K)
<1>1. PICK i \in 0..Len(s) : e = SubSeq(s, 1, i)
    BY DEF Replays
<1>2. Len(s) \in Nat
    BY LenProperties
<1>. QED  BY <1>1, <1>2, RunPrefix

\* A kill inside appendNoSync leaves the beginning of that.
LEMMA TornOK ==
    ASSUME NEW l \in Log, NEW K, LogOK(l, K),
           NEW e \in TornAppends(l.stored, l.unstable)
    PROVE  Run(e, 0, 0, K)
<1>. DEFINE full == AppendNoSync(l.stored, l.unstable)
            kept == IF Rewrites(l.stored, l.unstable) THEN 0 ELSE Len(l.stored)
<1>1. full \in Seq(Entry) /\ Run(full, 0, 0, K)
    BY AppendNoSyncType, DiskOK, LogParts
<1>2. PICK k \in kept..Len(full) : e \in Replays(SubSeq(full, 1, k))
    BY DEF TornAppends
<1>3. kept \in Nat /\ Len(full) \in Nat
    BY <1>1, LogParts, LenProperties
<1>. HIDE DEF full, kept
<1>4. Run(SubSeq(full, 1, k), 0, 0, K) /\ SubSeq(full, 1, k) \in Seq(Entry)
    BY <1>1, <1>2, <1>3, RunPrefix, SubSeqType
<1>. QED  BY <1>2, <1>4, ReplaysOK

\* advance after the write: everything is stored, nothing is unstable, and the
\* log reads as before.
LEMMA StableOK ==
    ASSUME NEW l \in Log, NEW K, LogOK(l, K), NEW l2 \in Log,
           l2.stored = AppendNoSync(l.stored, l.unstable), l2.unstable = <<>>
    PROVE  /\ LogOK(l2, K) /\ LastIndex(l2) = LastIndex(l)
           /\ \A i \in 1..LastIndex(l) : Term(l2, i) = Term(l, i)
<1>1. /\ Run(l2.stored, 0, 0, K) /\ Len(l2.stored) = LastIndex(l)
      /\ \A i \in 1..LastIndex(l) : l2.stored[i].term = Term(l, i)
    BY DiskOK
<1>2. LogOK(l2, K)
    BY <1>1 DEF LogOK
<1>3. LastIndex(l2) = LastIndex(l)
    BY <1>1 DEF LastIndex
<1>4. l2.offset \in Nat /\ Len(l2.unstable) = 0 /\ LastIndex(l) \in Nat
    BY LogParts
<1>5. \A i \in 1..LastIndex(l) : ~InUnstable(l2, i) /\ i # 0
    BY <1>4 DEF InUnstable
<1>6. \A i \in 1..LastIndex(l) : Term(l2, i) = Term(l, i)
    BY <1>1, <1>5 DEF Term, FirstIndex
<1>. QED  BY <1>2, <1>3, <1>6

\* stableTo the last unstable index leaves nothing unstable.
LEMMA StableToLast ==
    ASSUME NEW l \in Log, NEW K, LogOK(l, K), l.unstable # <<>>
    PROVE  LET l2 == StableTo(l, l.unstable[Len(l.unstable)].index)
           IN  /\ l2.unstable = <<>> /\ l2.applied = l.applied
               /\ l2.committed = l.committed
<1>. DEFINE u == l.unstable
            i == u[Len(u)].index
            rest == SubSeq(u, i + 2 - l.offset, Len(u))
<1>1. Len(u) \in Nat /\ l.offset \in Nat /\ Len(u) # 0
    BY LogParts
<1>2. i = l.offset - 1 + Len(u)
  <2>1. Run(u, l.offset - 1, StoredTerm(l.stored, l.offset - 1), K)
      BY DEF LogOK
  <2>2. Len(u) \in 1..Len(u)
      BY <1>1
  <2>. QED  BY <2>1, <2>2, ZenonT(60) DEF Run
<1>. HIDE DEF i
<1>3. i \in Int /\ ~(i < l.offset) /\ i + 2 - l.offset = Len(u) + 1
    BY <1>1, <1>2
<1>4. rest = <<>>
    BY <1>1, <1>3, SubSeqProperties
<1>5. StableTo(l, i) = [l EXCEPT !.offset = i + 1, !.unstable = rest]
    BY <1>3 DEF StableTo
<1>. HIDE DEF rest
<1>. QED  BY <1>4, <1>5 DEF Log, i

\* RaftLog::append of the leader's entry: refused below committed_, otherwise
\* one more link at the end, and every entry stays.
LEMMA AppendEntryOK ==
    ASSUME NEW l \in Log, NEW K, LogOK(l, K), NEW t \in Nat, t >= 1
    PROVE  LET e  == [index |-> LastIndex(l) + 1, term |-> t]
               l2 == AppendEntries(l, <<e>>)
           IN  \/ l2 = l
               \/ /\ LogOK(l2, K \cup {<<LastIndex(l) + 1, t, LastTerm(l)>>})
                  /\ LastIndex(l2) = LastIndex(l) + 1
                  /\ l2.applied = l.applied
                  /\ \A i \in 1..LastIndex(l) : Term(l2, i) = Term(l, i)
<1>. DEFINE last == LastIndex(l)
            e == [index |-> last + 1, term |-> t]
            K2 == K \cup {<<last + 1, t, LastTerm(l)>>}
            l2 == AppendEntries(l, <<e>>)
            ents == <<e>>
            l3 == TruncateAndAppend(l, ents)
            u == l.unstable
<1>1. /\ last \in Nat /\ l.offset \in Nat /\ Len(u) \in Nat
      /\ Len(l.stored) \in Nat
    BY LogParts
<1>2. e \in Entry /\ e.index = last + 1 /\ e.term = t
    BY <1>1 DEF Entry
<1>3. l2 = l \/ l2 = l3
    BY DEF AppendEntries
<1>4. LogOK(l3, K2)
  <2>1. Run(<<e>>, last, Term(l, last), K2)
    <3>. HIDE DEF e, last
    <3>1. <<last + 1, e.term, Term(l, last)>> \in K2
        BY <1>2 DEF LastTerm, last
    <3>. QED  BY <1>1, <1>2, <3>1, RunOne, ZenonT(60)
  <2>2. last = 0 \/ Term(l, last) >= 1
    <3>1. SUFFICES ASSUME last # 0 PROVE Term(l, last) >= 1
        OBVIOUS
    <3>2. last >= 1 /\ last <= LastIndex(l)
        BY <1>1, <3>1
    <3>. HIDE DEF last
    <3>. QED  BY <1>1, <3>2, LogLinks, ZenonT(60)
  <2>3. LogOK(l, K2)
      BY LogOKMore
  <2>4. <<e>> \in Seq(Entry) /\ <<e>> # <<>>
      BY <1>2
  <2>. HIDE DEF e, last, K2
  <2>. QED  BY <1>1, <2>1, <2>2, <2>3, <2>4, TruncateAndAppendOK, ZenonT(60)
<1>5. l3.applied = l.applied
    BY DEF TruncateAndAppend, Log
<1>6. LastIndex(l3) = last + 1 /\ \A i \in 1..last : Term(l3, i) = Term(l, i)
  <2>1. /\ u \in Seq(Entry) /\ ents \in Seq(Entry) /\ Len(ents) = 1
        /\ (Len(u) = 0 <=> u = <<>>) /\ ents # <<>> /\ ents[1].index = last + 1
      BY <1>2, LogParts
  <2>. HIDE DEF ents
  <2>2. CASE u = <<>>
    <3>1. l3 = [l EXCEPT !.offset = last + 1, !.unstable = ents]
        BY <2>1, <2>2 DEF TruncateAndAppend
    <3>. HIDE DEF l3
    <3>2. l3.offset = last + 1 /\ l3.unstable = ents /\ l3.stored = l.stored
        BY <3>1 DEF Log
    <3>3. last = Len(l.stored)
        BY <2>2 DEF LastIndex
    <3>4. LastIndex(l3) = last + 1
      <4>1. LastIndex(l3) = last + 1 + 1 - 1
          BY <2>1, <3>2, ZenonT(60) DEF LastIndex
      <4>. HIDE DEF last
      <4>. QED  BY <1>1, <4>1
    <3>5. ASSUME NEW i \in 1..last PROVE Term(l3, i) = Term(l, i)
      <4>. HIDE DEF last
      <4>1. ~(last + 1 <= i) /\ i < last + 1 /\ i # 0 /\ i \in 1..Len(l.stored)
          BY <1>1, <3>3
      <4>2. ~InUnstable(l3, i)
          BY <3>2, <4>1 DEF InUnstable
      <4>3. Len(l.unstable) = 0
          BY <2>1, <2>2
      <4>4. ~InUnstable(l, i)
          BY <1>1, <4>3 DEF InUnstable
      <4>. QED  BY <3>2, <4>1, <4>2, <4>4 DEF Term, FirstIndex
    <3>. QED  BY <3>4, <3>5
  <2>3. CASE u # <<>>
    <3>1. last = l.offset + Len(u) - 1 /\ Len(u) >= 1
      <4>1. last = l.offset + Len(u) - 1
          BY <2>3 DEF LastIndex
      <4>. QED  BY <1>1, <2>1, <2>3, <4>1
    <3>. DEFINE first == ents[1].index
                v == SubSeq(u, 1, first - l.offset) \o ents
    <3>2. l3 = [l EXCEPT !.unstable = v]
      <4>1. l.offset < last + 1 /\ last + 1 <= LastIndex(l) + 1
          BY <1>1, <3>1
      <4>2. first = last + 1
          BY <2>1
      <4>3. l.offset < first /\ first <= LastIndex(l) + 1 /\ l.unstable # <<>>
          BY <2>3, <4>1, <4>2
      <4>. QED  BY <4>3 DEF TruncateAndAppend
    <3>. HIDE DEF l3, last, u
    <3>3. first - l.offset = Len(u)
        BY <1>1, <2>1, <3>1
    <3>4. SubSeq(u, 1, Len(u)) = u
        BY <2>1, SubSeqFull
    <3>5. v = u \o ents
        BY <3>3, <3>4, ZenonT(60)
    <3>6. /\ Len(v) = Len(u) + 1 /\ v # <<>>
          /\ \A x \in 1..Len(u) : v[x] = u[x]
      <4>1. /\ Len(v) = Len(u) + 1 /\ v \in Seq(Entry)
            /\ \A x \in 1..Len(u) : v[x] = u[x]
        <5>1. u \in Seq(Entry) /\ ents \in Seq(Entry) /\ Len(ents) = 1
            BY <2>1
        <5>2. /\ Len(u \o ents) = Len(u) + Len(ents) /\ u \o ents \in Seq(Entry)
              /\ \A x \in 1..Len(u) : (u \o ents)[x] = u[x]
            BY <5>1, InARow, ZenonT(60)
        <5>. HIDE DEF v
        <5>. QED  BY <3>5, <5>1, <5>2
      <4>2. Len(v) # 0
          BY <1>1, <4>1
      <4>. QED  BY <4>1, <4>2, EmptySeq, ZenonT(60)
    <3>. HIDE DEF v
    <3>7. l3.offset = l.offset /\ l3.unstable = v /\ l3.stored = l.stored
        BY <3>2 DEF Log
    <3>8. LastIndex(l3) = last + 1
      <4>1. LastIndex(l3) = l.offset + (Len(u) + 1) - 1
          BY <3>6, <3>7 DEF LastIndex
      <4>. QED  BY <1>1, <3>1, <4>1
    <3>9. ASSUME NEW i \in 1..last PROVE Term(l3, i) = Term(l, i)
      <4>1. l.offset <= i => /\ i < l.offset + Len(u) /\ i < l.offset + Len(v)
                             /\ i - l.offset + 1 \in 1..Len(u)
          BY <1>1, <3>1, <3>6
      <4>2. InUnstable(l3, i) <=> l.offset <= i
          BY <3>7, <4>1 DEF InUnstable
      <4>3. InUnstable(l, i) <=> l.offset <= i
          BY <4>1 DEF InUnstable, u
      <4>4. InUnstable(l, i) => l3.unstable[i - l.offset + 1] = l.unstable[i - l.offset + 1]
          BY <3>6, <3>7, <4>1, <4>3 DEF u
      <4>. QED  BY <3>7, <4>2, <4>3, <4>4 DEF Term
    <3>. QED  BY <3>8, <3>9
  <2>. QED  BY <2>2, <2>3
<1>. QED  BY <1>3, <1>4, <1>5, <1>6
=============================================================================
