---------------------------- MODULE LogFileProofs ----------------------------
(***************************************************************************)
(* log.bin and its replay implement the log that Cluster works with        *)
(* (LogFile, LogStore).  The argument: writeEntry lays records end to end, *)
(* readEntry reads back the ones a kill has left whole, the loop of replay *)
(* puts them in place, and so finds a prefix of what was written.  The     *)
(* recursions are unrolled by induction over the natural numbers, which    *)
(* rests on their well-foundedness (Least).                                *)
(***************************************************************************)
EXTENDS LogFile, SequenceTheorems, WellFoundedInduction, TLAPS

USE ZenonT(3), SMTT(60)

\* Every set of numbers that is not empty has a least element.
LEMMA Least ==
  ASSUME NEW T \in SUBSET Nat, T # {}
  PROVE \E m \in T : \A n \in T : m <= n
<1>. DEFINE R == {ss \in Nat \X Nat : ss[1] < ss[2]}
<1>1. OpToRel(<, Nat) = R
  BY DEF OpToRel
<1>2. IsWellFoundedOn(R, Nat)
  BY <1>1, NatLessThanWellFounded
<1>3. PICK x \in T : \A y \in T : ~(<<y, x>> \in R)
  BY <1>2, WFMin
<1>4. ASSUME NEW y \in Nat, NEW z \in Nat, y < z PROVE <<y, z>> \in R
  BY <1>4
<1>5. \A y \in T : ~(y < x)
  <2>. HIDE DEF R
  <2>. QED BY <1>3, <1>4
<1>6. x \in Nat /\ \A y \in T : y \in Nat
  OBVIOUS
<1>. HIDE DEF R
<1>. QED BY <1>5, <1>6, SMT

\* Induction, for a set P: without a parameter P(_), so that it can be cited.
LEMMA Induct ==
  ASSUME NEW P, 0 \in P, \A n \in Nat : n \in P => n + 1 \in P
  PROVE Nat \subseteq P
<1>. DEFINE T == Nat \ P
<1>. SUFFICES ASSUME T # {} PROVE FALSE
  OBVIOUS
<1>1. PICK m \in T : \A n \in T : m <= n
  BY Least
<1>2. m - 1 \in Nat /\ m - 1 \in P
  BY <1>1
<1>. QED BY <1>2

\* g holds the values that F makes of s in n steps, F[i] in step i.
Unrolls(g, n, S, s, F) ==
    /\ g \in [0..n -> S] /\ g[0] = s
    /\ \A i \in 1..n : g[i] = F[i][g[i - 1]]

\* One step more can always be taken.
LEMMA UnrollsMore ==
    ASSUME NEW S, NEW s \in S, NEW N \in Nat, NEW F \in [1..N -> [S -> S]],
           NEW n \in Nat, n + 1 <= N, NEW g, Unrolls(g, n, S, s, F)
    PROVE  \E h : Unrolls(h, n + 1, S, s, F)
<1>. DEFINE h == [i \in 0..(n + 1) |->
                    IF i = n + 1 THEN F[n + 1][g[n]] ELSE g[i]]
<1>1. g \in [0..n -> S] /\ g[0] = s
  BY DEF Unrolls
<1>2. n + 1 \in 1..N /\ g[n] \in S
  BY SMTT(30), <1>1
<1>3. F[n + 1][g[n]] \in S
  BY <1>2
<1>4. h \in [0..(n + 1) -> S]
  BY SMTT(30), <1>1, <1>3
<1>5. h[0] = s
  BY <1>1
<1>6. ASSUME NEW i \in 1..(n + 1)
      PROVE  h[i] = F[i][h[i - 1]]
  <2>1. i - 1 \in 0..(n + 1) /\ i - 1 # n + 1 /\ i \in 0..(n + 1)
    BY SMTT(30)
  <2>2. h[i - 1] = g[i - 1]
    BY <2>1
  <2>3. CASE i = n + 1
    <3>1. i - 1 = n
      BY <2>3
    <3>. QED BY <2>1, <2>2, <2>3, <3>1
  <2>4. CASE i # n + 1
    <3>1. i \in 1..n
      BY SMTT(30), <2>4
    <3>2. h[i] = g[i]
      BY <2>1, <2>4
    <3>. QED BY <2>2, <3>1, <3>2 DEF Unrolls
  <2>. QED BY <2>3, <2>4
<1>. HIDE DEF h
<1>. QED BY <1>4, <1>5, <1>6 DEF Unrolls

\* Every recursion of N steps has a value: what the recursive functions of
\* LogFile (the replay loop) and the folds below it (Records) rest on.
LEMMA Recursion ==
    ASSUME NEW S, NEW s \in S, NEW N \in Nat, NEW F \in [1..N -> [S -> S]]
    PROVE  \E g : Unrolls(g, N, S, s, F)
<1>. DEFINE P == {n \in Nat : n <= N => \E g : Unrolls(g, n, S, s, F)}
<1>1. 0 \in P
  <2>1. Unrolls([i \in 0..0 |-> s], 0, S, s, F)
    BY DEF Unrolls
  <2>. QED BY <2>1
<1>2. ASSUME NEW n \in Nat, n \in P
      PROVE  n + 1 \in P
  <2>. SUFFICES ASSUME n + 1 <= N PROVE \E g : Unrolls(g, n + 1, S, s, F)
    OBVIOUS
  <2>1. n <= N
    OBVIOUS
  <2>. QED BY <1>2, <2>1, UnrollsMore
<1>3. Nat \subseteq P
  <2>. HIDE DEF P
  <2>. QED BY <1>1, <1>2, Induct
<1>4. N \in P /\ N <= N
  BY <1>3
<1>. QED BY <1>4

-----------------------------------------------------------------------------
\* An entry as writeEntry writes it.
EntryRec == [term : Nat, index : Nat, data : Seq(Nat)]

\* writeEntry writes three fields and the data.
LEMMA RecordType ==
    ASSUME NEW e \in EntryRec
    PROVE  Record(e) \in Seq(Nat) /\ Len(Record(e)) = 3 + Len(e.data)
<1>1. e.term \in Nat /\ e.index \in Nat /\ e.data \in Seq(Nat) /\ Len(e.data) \in Nat
  BY DEF EntryRec
<1>2. <<e.term, e.index, Len(e.data)>> \in Seq(Nat)
  BY <1>1
<1>. QED BY <1>1, <1>2 DEF Record

\* g[n] is what writeEntry has written after the first n entries of ents.
Writes(g, ents) ==
    /\ g \in [0..Len(ents) -> Seq(Nat)] /\ g[0] = <<>>
    /\ \A n \in 1..Len(ents) : g[n] = g[n - 1] \o Record(ents[n])

\* Records is what the loop of writeEntry calls in appendNoSync writes.
LEMMA RecordsWrites ==
    ASSUME NEW ents \in Seq(EntryRec)
    PROVE  \E g : Writes(g, ents) /\ Records(ents) = g[Len(ents)]
<1>. DEFINE N == Len(ents)
            s == [i \in 1..N |-> Record(ents[i])]
            F == [n \in 1..N |-> [y \in Seq(Nat) |-> y \o s[n]]]
<1>1. N \in Nat /\ \A i \in 1..N : s[i] \in Seq(Nat) /\ s[i] = Record(ents[i])
  BY RecordType
<1>2. s \in Seq(Seq(Nat)) /\ Len(s) = N
  BY <1>1
<1>3. F \in [1..N -> [Seq(Nat) -> Seq(Nat)]]
  <2>. HIDE DEF s, N
  <2>. QED BY SMTT(30), <1>1
<1>4. \A n \in 1..N, y \in Seq(Nat) : F[n][y] = y \o s[n]
  <2>. HIDE DEF s, N
  <2>. QED OBVIOUS
<1>. HIDE DEF F
<1>5. PICK g : Unrolls(g, N, Seq(Nat), <<>>, F)
  <2>1. <<>> \in Seq(Nat)
    OBVIOUS
  <2>. HIDE DEF N
  <2>. QED BY <1>1, <1>3, <2>1, Recursion
<1>a. g \in [0..N -> Seq(Nat)] /\ g[0] = <<>>
  BY <1>5 DEF Unrolls
<1>b. \A n \in 1..N : g[n] = F[n][g[n - 1]]
  BY <1>5 DEF Unrolls
<1>6. \A n \in 1..N : g[n] = g[n - 1] \o s[n] /\ g[n - 1] \in Seq(Nat)
  <2>. SUFFICES ASSUME NEW n \in 1..N
                PROVE  g[n] = g[n - 1] \o s[n] /\ g[n - 1] \in Seq(Nat)
    OBVIOUS
  <2>1. n - 1 \in 0..N
    BY <1>1
  <2>2. g[n - 1] \in Seq(Nat)
    BY <1>a, <2>1
  <2>. HIDE DEF N, s
  <2>. QED BY <1>4, <1>b, <2>2
<1>7. Writes(g, ents)
  BY <1>1, <1>a, <1>6 DEF Writes
<1>8. Records(ents) = FlattenSeq(s)
  BY DEF Records
<1>9. CASE N = 0
  <2>1. FlattenSeq(s) = s /\ s = <<>>
    BY <1>2, <1>9 DEF FlattenSeq
  <2>. HIDE DEF s
  <2>. QED BY <1>a, <1>7, <1>8, <1>9, <2>1
<1>10. CASE N # 0
  <2>. HIDE DEF s
  <2>. DEFINE Is(h) == h = [i \in 1..Len(s) |->
                              IF i = 1 THEN s[i] ELSE h[i - 1] \o s[i]]
              H == CHOOSE h : Is(h)
  <2>1. FlattenSeq(s) = H[N]
    BY <1>2, <1>10 DEF FlattenSeq
  <2>2. Is([i \in 1..N |-> g[i]])
    <3>. DEFINE k == [i \in 1..N |-> g[i]]
    <3>1. ASSUME NEW i \in 1..N
          PROVE  k[i] = IF i = 1 THEN s[i] ELSE k[i - 1] \o s[i]
      <4>1. CASE i = 1
        <5>1. i - 1 = 0
          BY <4>1
        <5>2. g[i] = g[i - 1] \o s[i] /\ s[i] \in Seq(Nat)
          BY <1>1, <1>6
        <5>3. g[i] = s[i]
          BY <1>a, <5>1, <5>2, ConcatEmptySeq
        <5>. QED BY <4>1, <5>3
      <4>2. CASE i # 1
        <5>1. i - 1 \in 1..N
          BY <1>1, <4>2
        <5>2. k[i] = g[i] /\ k[i - 1] = g[i - 1]
          BY <5>1
        <5>. HIDE DEF k
        <5>. QED BY <1>6, <4>2, <5>2
      <4>. QED BY <4>1, <4>2
    <3>. QED BY <1>2, <3>1
  <2>3. Is(H)
    BY <2>2
  <2>. HIDE DEF H
  <2>. DEFINE P == {n \in Nat : n + 1 <= N => H[n + 1] = g[n + 1]}
  <2>4. \A i \in 1..N : H[i] = IF i = 1 THEN s[i] ELSE H[i - 1] \o s[i]
    BY <1>2, <2>3
  <2>5. 0 \in P
    <3>1. 1 \in 1..N /\ s[1] \in Seq(Nat)
      BY SMTT(30), <1>1, <1>10
    <3>2. H[1] = s[1]
      BY <2>4, <3>1
    <3>3. g[1] = g[1 - 1] \o s[1]
      BY <1>6, <3>1, Zenon
    <3>4. g[1] = s[1]
      <4>1. 1 - 1 = 0
        OBVIOUS
      <4>. QED BY <1>a, <3>1, <3>3, <4>1, ConcatEmptySeq
    <3>. QED BY <3>2, <3>4
  <2>6. ASSUME NEW n \in Nat, n \in P
        PROVE  n + 1 \in P
    <3>. SUFFICES ASSUME n + 2 <= N PROVE H[n + 2] = g[n + 2]
      OBVIOUS
    <3>1. n + 2 \in 1..N /\ n + 2 # 1 /\ (n + 2) - 1 = n + 1 /\ n + 1 <= N
      BY SMTT(30), <1>1
    <3>2. H[n + 1] = g[n + 1]
      BY <2>6, <3>1
    <3>3. H[n + 2] = H[n + 1] \o s[n + 2]
      BY <2>4, <3>1
    <3>4. g[n + 2] = g[n + 1] \o s[n + 2]
      BY <1>6, <3>1
    <3>. QED BY <3>2, <3>3, <3>4
  <2>7. Nat \subseteq P
    <3>. HIDE DEF P
    <3>. QED BY <2>5, <2>6, Induct
  <2>8. N - 1 \in Nat /\ (N - 1) + 1 = N
    BY <1>1, <1>10
  <2>9. H[N] = g[N]
    <3>1. N - 1 \in P
      BY <2>7, <2>8
    <3>. QED BY <2>8, <3>1
  <2>. QED BY <1>7, <1>8, <2>1, <2>9
<1>. QED BY <1>9, <1>10

\* Writing x, y and z in two parts, however they are split.
LEMMA Associative ==
    ASSUME NEW x \in Seq(Nat), NEW y \in Seq(Nat), NEW z \in Seq(Nat)
    PROVE  (x \o y) \o z = x \o (y \o z)
  BY SMT

\* The file depends on the entries written so far only.
LEMMA WritesSame ==
    ASSUME NEW a \in Seq(EntryRec), NEW b \in Seq(EntryRec),
           Len(a) <= Len(b), \A i \in 1..Len(a) : a[i] = b[i],
           NEW g, NEW h, Writes(g, a), Writes(h, b)
    PROVE  \A n \in 0..Len(a) : g[n] = h[n]
<1>. DEFINE P == {n \in Nat : n <= Len(a) => g[n] = h[n]}
<1>1. 0 \in P
  BY DEF Writes
<1>2. ASSUME NEW n \in Nat, n \in P
      PROVE  n + 1 \in P
  <2>. SUFFICES ASSUME n + 1 <= Len(a) PROVE g[n + 1] = h[n + 1]
    OBVIOUS
  <2>1. Len(a) \in Nat /\ Len(b) \in Nat
    OBVIOUS
  <2>2. n + 1 \in 1..Len(a) /\ n + 1 \in 1..Len(b) /\ (n + 1) - 1 = n /\ n <= Len(a)
    BY <2>1
  <2>3. g[n] = h[n]
    BY <1>2, <2>2
  <2>4. g[n + 1] = g[n] \o Record(a[n + 1]) /\ h[n + 1] = h[n] \o Record(b[n + 1])
    BY <2>2 DEF Writes
  <2>. QED BY <2>2, <2>3, <2>4
<1>3. Nat \subseteq P
  <2>. HIDE DEF P
  <2>. QED BY <1>1, <1>2, Induct
<1>4. \A n \in 0..Len(a) : n \in P /\ n <= Len(a)
  BY <1>3
<1>. QED BY <1>4

\* After n entries the file holds the records of those n entries.
LEMMA RecordsPrefix ==
    ASSUME NEW ents \in Seq(EntryRec), NEW g, Writes(g, ents),
           NEW n \in 0..Len(ents)
    PROVE  /\ Records(SubSeq(ents, 1, n)) = g[n]
           /\ g[n] \in Seq(Nat)
<1>. DEFINE a == SubSeq(ents, 1, n)
<1>1. a \in Seq(EntryRec) /\ Len(a) = n /\ n \in Nat /\ n <= Len(ents)
  OBVIOUS
<1>2. \A i \in 1..Len(a) : a[i] = ents[i]
  OBVIOUS
<1>. HIDE DEF a
<1>3. PICK h : Writes(h, a) /\ Records(a) = h[Len(a)]
  BY <1>1, RecordsWrites
<1>4. n \in 0..Len(a)
  BY <1>1
<1>5. h[n] = g[n]
  BY SMTT(30), <1>1, <1>2, <1>3, <1>4, WritesSame
<1>6. g[n] \in Seq(Nat)
  BY DEF Writes
<1>. QED BY <1>1, <1>3, <1>5, <1>6 DEF a

\* y begins with x.
Extends(y, x) == \E r \in Seq(Nat) : y = x \o r

\* Writing more entries leaves the records before them where they are.
LEMMA WritesGrows ==
    ASSUME NEW ents \in Seq(EntryRec), NEW g, Writes(g, ents),
           NEW n \in 0..Len(ents), NEW m \in n..Len(ents)
    PROVE  Extends(g[m], g[n])
<1>. DEFINE P == {d \in Nat : n + d <= Len(ents) =>
                     \E r \in Seq(Nat) : g[n + d] = g[n] \o r}
<1>1. g[n] \in Seq(Nat) /\ n \in Nat /\ Len(ents) \in Nat
  BY DEF Writes
<1>2. 0 \in P
  <2>1. g[n + 0] = g[n] \o <<>> /\ <<>> \in Seq(Nat)
    <3>1. n + 0 = n
      BY <1>1
    <3>. QED BY SMTT(30), <1>1, <3>1, ConcatEmptySeq
  <2>. QED BY <2>1
<1>3. ASSUME NEW d \in Nat, d \in P
      PROVE  d + 1 \in P
  <2>. SUFFICES ASSUME n + (d + 1) <= Len(ents)
                PROVE  \E r \in Seq(Nat) : g[n + (d + 1)] = g[n] \o r
    OBVIOUS
  <2>. DEFINE k == n + (d + 1)
  <2>1. k \in 1..Len(ents) /\ k - 1 = n + d /\ n + d <= Len(ents)
    BY <1>1
  <2>. HIDE DEF k
  <2>2. PICK r \in Seq(Nat) : g[n + d] = g[n] \o r
    BY <1>3, <2>1
  <2>3. Record(ents[k]) \in Seq(Nat)
    BY <2>1, RecordType
  <2>4. g[k] = (g[n] \o r) \o Record(ents[k])
    BY <2>1, <2>2 DEF Writes
  <2>5. g[k] = g[n] \o (r \o Record(ents[k]))
    <3>1. (g[n] \o r) \o Record(ents[k]) = g[n] \o (r \o Record(ents[k]))
      BY <1>1, <2>3, Associative
    <3>. QED BY <2>4, <3>1
  <2>6. r \o Record(ents[k]) \in Seq(Nat)
    BY <2>2, <2>3
  <2>. QED BY <2>5, <2>6 DEF k
<1>4. Nat \subseteq P
  <2>. HIDE DEF P
  <2>. QED BY <1>2, <1>3, Induct
<1>5. m - n \in Nat /\ n + (m - n) = m /\ m <= Len(ents)
  BY <1>1
<1>6. m - n \in P
  BY <1>4, <1>5
<1>. QED BY <1>5, <1>6 DEF Extends

\* A record is not empty: n of them have at least n cells.
LEMMA WritesLen ==
    ASSUME NEW ents \in Seq(EntryRec), NEW g, Writes(g, ents)
    PROVE  \A n \in 0..Len(ents) : Len(g[n]) >= n
<1>. DEFINE P == {n \in Nat : n <= Len(ents) => Len(g[n]) >= n}
<1>1. 0 \in P
  BY DEF Writes
<1>2. ASSUME NEW n \in Nat, n \in P
      PROVE  n + 1 \in P
  <2>. SUFFICES ASSUME n + 1 <= Len(ents) PROVE Len(g[n + 1]) >= n + 1
    OBVIOUS
  <2>1. n + 1 \in 1..Len(ents) /\ (n + 1) - 1 = n /\ n <= Len(ents) /\ n \in 0..Len(ents)
    OBVIOUS
  <2>. DEFINE w == Record(ents[n + 1])
  <2>2. w \in Seq(Nat) /\ Len(w) >= 3
    <3>1. ents[n + 1] \in EntryRec
      BY <2>1
    <3>2. Len(ents[n + 1].data) \in Nat
      BY <3>1 DEF EntryRec
    <3>3. w \in Seq(Nat) /\ Len(w) = 3 + Len(ents[n + 1].data)
      BY <3>1, RecordType
    <3>. HIDE DEF w
    <3>. QED BY <3>2, <3>3
  <2>3. g[n] \in Seq(Nat) /\ Len(g[n]) >= n
    BY <1>2, <2>1 DEF Writes
  <2>4. g[n + 1] = g[n] \o w
    BY <2>1 DEF Writes
  <2>. HIDE DEF w
  <2>5. Len(g[n] \o w) = Len(g[n]) + Len(w)
    BY <2>2, <2>3
  <2>6. Len(g[n]) + Len(w) >= n + 1
    BY <2>2, <2>3
  <2>. QED BY <2>4, <2>5, <2>6
<1>3. Nat \subseteq P
  <2>. HIDE DEF P
  <2>. QED BY <1>1, <1>2, Induct
<1>4. \A n \in 0..Len(ents) : n \in P /\ n <= Len(ents)
  BY <1>3
<1>. QED BY <1>4

\* What two appends write is what one append of both would write.
LEMMA RecordsConcat ==
    ASSUME NEW a \in Seq(EntryRec), NEW b \in Seq(EntryRec)
    PROVE  /\ Records(a \o b) = Records(a) \o Records(b)
           /\ Records(a) \in Seq(Nat) /\ Records(b) \in Seq(Nat)
<1>. DEFINE c == a \o b
<1>1. /\ c \in Seq(EntryRec) /\ Len(c) = Len(a) + Len(b)
      /\ Len(a) \in Nat /\ Len(b) \in Nat
  OBVIOUS
<1>2. /\ \A i \in 1..Len(a) : a[i] = c[i]
      /\ \A i \in 1..Len(b) : b[i] = c[Len(a) + i]
  OBVIOUS
<1>. HIDE DEF c
<1>3. PICK f : Writes(f, a) /\ Records(a) = f[Len(a)]
  BY RecordsWrites
<1>4. PICK g : Writes(g, b) /\ Records(b) = g[Len(b)]
  BY RecordsWrites
<1>5. PICK h : Writes(h, c) /\ Records(c) = h[Len(c)]
  BY <1>1, RecordsWrites
<1>6. Len(a) <= Len(c) /\ Len(a) \in 0..Len(a) /\ Len(b) \in 0..Len(b)
  BY <1>1
<1>7. h[Len(a)] = Records(a)
  BY SMTT(30), <1>1, <1>2, <1>3, <1>5, <1>6, WritesSame
<1>8. Records(a) \in Seq(Nat) /\ Records(b) \in Seq(Nat)
  BY <1>3, <1>4, <1>6 DEF Writes
<1>. DEFINE P == {n \in Nat : n <= Len(b) => h[Len(a) + n] = Records(a) \o g[n]}
<1>9. 0 \in P
  <2>1. Len(a) + 0 = Len(a) /\ g[0] = <<>>
    BY <1>1, <1>4 DEF Writes
  <2>. QED BY <1>7, <1>8, <2>1, ConcatEmptySeq
<1>10. ASSUME NEW n \in Nat, n \in P
       PROVE  n + 1 \in P
  <2>. SUFFICES ASSUME n + 1 <= Len(b)
                PROVE  h[Len(a) + (n + 1)] = Records(a) \o g[n + 1]
    OBVIOUS
  <2>. DEFINE k == Len(a) + (n + 1)
              w == Record(b[n + 1])
  <2>1. /\ k \in 1..Len(c) /\ k - 1 = Len(a) + n /\ n <= Len(b)
        /\ n + 1 \in 1..Len(b) /\ (n + 1) - 1 = n /\ n \in 0..Len(b)
    BY <1>1
  <2>2. c[k] = b[n + 1]
    BY <1>2, <2>1
  <2>3. w \in Seq(Nat) /\ g[n] \in Seq(Nat)
    <3>1. b[n + 1] \in EntryRec
      BY <2>1
    <3>2. w \in Seq(Nat)
      BY <3>1, RecordType
    <3>3. g[n] \in Seq(Nat)
      BY <1>4, <2>1 DEF Writes
    <3>. QED BY <3>2, <3>3
  <2>. HIDE DEF k
  <2>4. h[k] = h[k - 1] \o w
    BY <1>5, <2>1, <2>2 DEF Writes
  <2>5. h[k] = (Records(a) \o g[n]) \o w
    <3>1. h[Len(a) + n] = Records(a) \o g[n]
      BY <1>10, <2>1
    <3>. HIDE DEF w
    <3>. QED BY <2>1, <2>4, <3>1
  <2>6. g[n + 1] = g[n] \o w
    BY <1>4, <2>1 DEF Writes
  <2>. HIDE DEF w
  <2>7. h[k] = Records(a) \o g[n + 1]
    <3>1. (Records(a) \o g[n]) \o w = Records(a) \o (g[n] \o w)
      BY <1>8, <2>3, Associative
    <3>. QED BY <2>5, <2>6, <3>1
  <2>. QED BY <2>7 DEF k
<1>11. Nat \subseteq P
  <2>. HIDE DEF P
  <2>. QED BY <1>9, <1>10, Induct
<1>12. h[Len(a) + Len(b)] = Records(a) \o g[Len(b)]
  <2>1. Len(b) \in P /\ Len(b) <= Len(b)
    BY <1>1, <1>11
  <2>. QED BY <2>1
<1>. QED BY <1>1, <1>4, <1>5, <1>8, <1>12 DEF c

-----------------------------------------------------------------------------
\* The cells of a part of a file.
LEMMA CutCells ==
    ASSUME NEW S, NEW f \in Seq(S), NEW a \in Nat, NEW b \in Nat,
           a >= 1, b <= Len(f), NEW d \in Nat, b - a + 1 = d
    PROVE  /\ SubSeq(f, a, b) \in Seq(S) /\ Len(SubSeq(f, a, b)) = d
           /\ \A i \in 1..d : SubSeq(f, a, b)[i] = f[a + i - 1]
  BY SMT

\* Files with the same cells are the same.
LEMMA SameCells ==
    ASSUME NEW S, NEW x \in Seq(S), NEW y \in Seq(S),
           Len(x) = Len(y), \A i \in 1..Len(y) : x[i] = y[i]
    PROVE  x = y
  BY SMT

\* readEntry inverts writeEntry: where the record of e begins at q + 1, it reads
\* e if the file has all of the record, and nothing if a kill has cut it short.
LEMMA ReadRecord ==
    ASSUME NEW f \in Seq(Nat), NEW e \in EntryRec, NEW q \in Nat,
           \A i \in 1..Len(Record(e)) : q + i <= Len(f) => f[q + i] = Record(e)[i]
    PROVE  ReadEntry(f, q + 1) =
             IF q + Len(Record(e)) <= Len(f) THEN {e} ELSE {}
<1>. DEFINE d == Len(e.data)
            k == Len(f)
<1>1. /\ e.term \in Nat /\ e.index \in Nat /\ e.data \in Seq(Nat)
      /\ e = [term |-> e.term, index |-> e.index, data |-> e.data]
  BY DEF EntryRec
<1>2. d \in Nat /\ k \in Nat /\ Len(Record(e)) = 3 + d
  BY SMTT(30), <1>1, RecordType
<1>3. /\ Record(e)[1] = e.term /\ Record(e)[2] = e.index /\ Record(e)[3] = d
      /\ \A i \in 1..d : Record(e)[3 + i] = e.data[i]
  BY SMTT(30), <1>1 DEF Record
<1>4. \A i \in 1..(3 + d) : q + i <= k => f[q + i] = Record(e)[i]
  BY <1>2
<1>. HIDE DEF d, k
<1>5. q + 3 <= k => f[(q + 1) + 2] = d
  <2>1. (q + 1) + 2 = q + 3 /\ 3 \in 1..(3 + d)
    BY <1>2
  <2>. QED BY <1>3, <1>4, <2>1
<1>6. CASE ~(q + (3 + d) <= k)
  <2>1. ~((q + 1) + 2 <= k /\ (q + 1) + 2 + f[(q + 1) + 2] <= k)
    BY SMTT(30), <1>2, <1>5, <1>6
  <2>2. ReadEntry(f, q + 1) = {}
    BY <2>1 DEF ReadEntry, k
  <2>. QED BY <1>2, <1>6, <2>2 DEF k
<1>7. CASE q + (3 + d) <= k
  <2>1. /\ q + 3 <= k /\ (q + 1) + 2 <= k /\ (q + 1) + 2 + d <= k
        /\ (q + 1) + 3 = q + 4 /\ (q + 1) + 2 + d = q + 3 + d
    BY SMTT(30), <1>2, <1>7
  <2>2. /\ q + 1 <= k /\ (q + 1) + 1 = q + 2 /\ q + 2 <= k
        /\ 1 \in 1..(3 + d) /\ 2 \in 1..(3 + d)
    BY <1>2, <1>7
  <2>3. f[q + 1] = e.term /\ f[(q + 1) + 1] = e.index
    BY <1>3, <1>4, <2>2
  <2>4. SubSeq(f, q + 4, q + 3 + d) = e.data
    <3>. DEFINE s == SubSeq(f, q + 4, q + 3 + d)
    <3>1. q + 4 \in Nat /\ q + 4 >= 1 /\ q + 3 + d \in Nat /\ q + 3 + d <= k
          /\ (q + 3 + d) - (q + 4) + 1 = d
      BY <1>2, <1>7
    <3>2. s \in Seq(Nat) /\ Len(s) = d /\ \A i \in 1..d : s[i] = f[(q + 4) + i - 1]
      BY SMTT(30), <1>2, <3>1, CutCells DEF k
    <3>. HIDE DEF s
    <3>3. ASSUME NEW i \in 1..d
          PROVE  s[i] = e.data[i]
      <4>1. /\ (q + 4) + i - 1 = q + (3 + i) /\ 3 + i \in 1..(3 + d)
            /\ q + (3 + i) <= k
        BY <1>2, <1>7
      <4>2. f[q + (3 + i)] = e.data[i]
        BY <1>3, <1>4, <4>1
      <4>. QED BY <3>2, <4>1, <4>2
    <3>4. s = e.data
      BY <1>1, <3>2, <3>3, SameCells DEF d
    <3>. QED BY <3>4 DEF s
  <2>5. ReadEntry(f, q + 1) = {[term |-> f[q + 1], index |-> f[(q + 1) + 1],
                                data |-> SubSeq(f, q + 4, q + 3 + d)]}
    <3>1. f[(q + 1) + 2] = d
      BY <1>5, <2>1
    <3>. QED BY <2>1, <3>1 DEF ReadEntry, k
  <2>6. ReadEntry(f, q + 1) = {e}
    BY <1>1, <2>3, <2>4, <2>5
  <2>. QED BY <1>2, <1>7, <2>6 DEF k
<1>. QED BY <1>6, <1>7

\* Whatever readEntry finds at a position of a file is an entry.
LEMMA ReadType ==
    ASSUME NEW f \in Seq(Nat), NEW p \in Nat \ {0}
    PROVE  ReadEntry(f, p) \subseteq EntryRec
<1>. SUFFICES ASSUME NEW e \in ReadEntry(f, p) PROVE e \in EntryRec
  OBVIOUS
<1>. DEFINE n == f[p + 2]
<1>1. p + 2 <= Len(f) /\ p + 2 + n <= Len(f) /\ Len(f) \in Nat /\ p \in Nat /\ p >= 1
  BY DEF ReadEntry
<1>2. e = [term |-> f[p], index |-> f[p + 1], data |-> SubSeq(f, p + 3, p + 2 + n)]
  BY DEF ReadEntry
<1>3. f[p] \in Nat /\ f[p + 1] \in Nat /\ n \in Nat
  <2>1. p \in 1..Len(f) /\ p + 1 \in 1..Len(f) /\ p + 2 \in 1..Len(f)
    BY <1>1
  <2>. QED BY <2>1
<1>4. SubSeq(f, p + 3, p + 2 + n) \in Seq(Nat)
  <2>. HIDE DEF n
  <2>1. /\ p + 3 \in Nat /\ p + 2 + n \in Nat /\ p + 3 >= 1
        /\ (p + 2 + n) - (p + 3) + 1 = n
    BY <1>1, <1>3
  <2>. QED BY <1>1, <1>3, <2>1, CutCells
<1>. QED BY <1>2, <1>3, <1>4 DEF EntryRec

\* Where the loop of replay stands, and what it has read.
LoopState == [pos : Nat \ {0}, ents : Seq(EntryRec)]

\* entries_[e.index] = e leaves a vector of entries.
LEMMA PlaceType ==
    ASSUME NEW ents \in Seq(EntryRec), NEW e \in EntryRec
    PROVE  Place(ents, e) \in Seq(EntryRec)
<1>1. Blank \in EntryRec
  BY SMTT(30) DEF Blank, EntryRec
<1>2. e.index \in Nat /\ Len(ents) \in Nat
  BY DEF EntryRec
<1>3. CASE e.index = 0
  BY <1>3 DEF Place
<1>4. CASE e.index # 0
  <2>. DEFINE old(i) == IF i <= Len(ents) THEN ents[i] ELSE Blank
              last   == IF e.index > Len(ents) THEN e.index ELSE Len(ents)
  <2>1. last \in Nat
    BY <1>2
  <2>2. \A i \in 1..last : (IF i = e.index THEN e ELSE old(i)) \in EntryRec
    BY <1>1, <1>2
  <2>3. Place(ents, e) = [i \in 1..last |-> IF i = e.index THEN e ELSE old(i)]
    BY <1>4 DEF Place
  <2>. HIDE DEF last, old
  <2>. QED BY SMTT(30), <2>1, <2>2, <2>3
<1>. QED BY <1>3, <1>4

\* A turn of the loop of replay keeps its state well formed.
LEMMA ReplayNextType ==
    ASSUME NEW f \in Seq(Nat), NEW s \in LoopState
    PROVE  ReplayNext(f, s) \in LoopState
<1>. DEFINE p == s.pos
<1>1. p \in Nat /\ p >= 1 /\ s.ents \in Seq(EntryRec) /\ Len(f) \in Nat
  BY SMTT(30) DEF LoopState
<1>2. CASE ReadEntry(f, p) = {}
  BY <1>2 DEF ReplayNext
<1>3. CASE ReadEntry(f, p) # {}
  <2>. DEFINE e == CHOOSE e \in ReadEntry(f, p) : TRUE
  <2>1. e \in ReadEntry(f, p)
    BY <1>3
  <2>2. ReplayNext(f, s) = [pos |-> p + 3 + Len(e.data), ents |-> Place(s.ents, e)]
    BY <1>3 DEF ReplayNext
  <2>. HIDE DEF e
  <2>3. e \in EntryRec
    BY SMTT(30), <1>1, <2>1, ReadType
  <2>4. Len(e.data) \in Nat
    BY <2>3 DEF EntryRec
  <2>5. p + 3 + Len(e.data) \in Nat \ {0}
    BY <1>1, <2>4
  <2>6. Place(s.ents, e) \in Seq(EntryRec)
    BY <1>1, <2>3, PlaceType
  <2>. QED BY SMTT(30), <2>2, <2>5, <2>6 DEF LoopState
<1>. QED BY <1>2, <1>3

\* l[n] is the state of the loop of replay on f after n turns.
Loops(l, f) ==
    /\ l \in [0..Len(f) -> LoopState] /\ l[0] = [pos |-> 1, ents |-> <<>>]
    /\ \A n \in 1..Len(f) : l[n] = ReplayNext(f, l[n - 1])

\* ReplayLoop is that loop.
LEMMA ReplayLoops ==
    ASSUME NEW f \in Seq(Nat)
    PROVE  Loops(ReplayLoop(f), f)
<1>. DEFINE N == Len(f)
            s == [pos |-> 1, ents |-> <<>>]
            F == [n \in 1..N |-> [y \in LoopState |-> ReplayNext(f, y)]]
            Is(l) == l = [n \in 0..N |-> IF n = 0 THEN s ELSE ReplayNext(f, l[n - 1])]
<1>1. N \in Nat
  OBVIOUS
<1>2. s \in LoopState
  BY DEF LoopState
<1>3. F \in [1..N -> [LoopState -> LoopState]]
  BY ReplayNextType
<1>4. \A n \in 1..N, y \in LoopState : F[n][y] = ReplayNext(f, y)
  OBVIOUS
<1>. HIDE DEF F, s, N
<1>5. PICK g : Unrolls(g, N, LoopState, s, F)
  BY <1>1, <1>2, <1>3, Recursion
<1>6. g \in [0..N -> LoopState] /\ g[0] = s /\ \A n \in 1..N : g[n] = F[n][g[n - 1]]
  BY <1>5 DEF Unrolls
<1>7. ASSUME NEW n \in 1..N
      PROVE  g[n] = ReplayNext(f, g[n - 1])
  <2>1. n - 1 \in 0..N
    BY <1>1
  <2>. QED BY <1>4, <1>6, <2>1
<1>8. Is(g)
  <2>1. ASSUME NEW n \in 0..N
        PROVE  g[n] = IF n = 0 THEN s ELSE ReplayNext(f, g[n - 1])
    <3>1. n # 0 => n \in 1..N
      BY <1>1
    <3>. QED BY <1>6, <1>7, <3>1
  <2>. QED BY <1>6, <2>1
<1>. DEFINE L == CHOOSE l : Is(l)
<1>9. ReplayLoop(f) = L
  BY DEF ReplayLoop, N, s
<1>10. Is(L)
  BY <1>8
<1>. HIDE DEF L
<1>11. \A n \in 0..N : L[n] = IF n = 0 THEN s ELSE ReplayNext(f, L[n - 1])
  BY <1>10
<1>12. L[0] = s /\ \A n \in 1..N : L[n] = ReplayNext(f, L[n - 1])
  <2>1. 0 \in 0..N
    BY <1>1
  <2>2. \A n \in 1..N : n \in 0..N /\ n # 0
    BY <1>1
  <2>. QED BY <1>11, <2>1, <2>2
<1>. DEFINE P == {n \in Nat : n <= N => L[n] \in LoopState}
<1>13. 0 \in P
  BY <1>2, <1>12
<1>14. ASSUME NEW n \in Nat, n \in P
       PROVE  n + 1 \in P
  <2>. SUFFICES ASSUME n + 1 <= N PROVE L[n + 1] \in LoopState
    OBVIOUS
  <2>1. n <= N /\ n + 1 \in 1..N /\ (n + 1) - 1 = n
    BY <1>1
  <2>2. L[n] \in LoopState /\ L[n + 1] = ReplayNext(f, L[n])
    BY <1>12, <1>14, <2>1
  <2>. QED BY <2>2, ReplayNextType
<1>15. Nat \subseteq P
  <2>. HIDE DEF P
  <2>. QED BY <1>13, <1>14, Induct
<1>16. \A n \in 0..N : L[n] \in LoopState
  <2>1. \A n \in 0..N : n \in P /\ n <= N
    BY <1>1, <1>15
  <2>. QED BY <2>1
<1>17. L \in [0..N -> LoopState]
  BY <1>10, <1>16
<1>. QED BY <1>9, <1>12, <1>17 DEF Loops, N, s

\* replay() makes a vector of entries of any file, torn ones included.
LEMMA ReplayType ==
    ASSUME NEW f \in Seq(Nat)
    PROVE  Replay(f) \in Seq(EntryRec)
<1>1. Len(f) \in 0..Len(f)
  OBVIOUS
<1>2. ReplayLoop(f)[Len(f)] \in LoopState
  BY <1>1, ReplayLoops DEF Loops
<1>. QED BY <1>2 DEF Replay, LoopState

\* The loop has read p records of ents; those above m were gaps.
At(s, ents, g, p, m) ==
    /\ p \in 0..Len(ents) /\ m \in 0..p
    /\ s.pos = Len(g[p]) + 1
    /\ s.ents = SubSeq(ents, 1, m)
    /\ m # 0 => ents[m].index = m
    /\ \A i \in (m + 1)..p : ents[i] = Blank

\* Placing entry p + 1 over the gap above m restores the log up to p + 1.
LEMMA PlaceNext ==
    ASSUME NEW ents \in Seq(EntryRec), NEW p \in Nat, p + 1 <= Len(ents),
           NEW m \in 0..p, ents[p + 1].index = p + 1,
           \A i \in (m + 1)..p : ents[i] = Blank
    PROVE  Place(SubSeq(ents, 1, m), ents[p + 1]) = SubSeq(ents, 1, p + 1)
<1>. DEFINE e == ents[p + 1]
            a == SubSeq(ents, 1, m)
            b == SubSeq(ents, 1, p + 1)
<1>1. m \in Nat /\ m <= p /\ Len(ents) \in Nat /\ e.index = p + 1 /\ p + 1 # 0
  OBVIOUS
<1>2. a \in Seq(EntryRec) /\ Len(a) = m /\ \A i \in 1..m : a[i] = ents[i]
  OBVIOUS
<1>3. /\ b = [i \in 1..(p + 1) |-> ents[i]]
  OBVIOUS
<1>. HIDE DEF e, a, b
<1>4. Place(a, e) = [i \in 1..(p + 1) |-> IF i = p + 1 THEN e ELSE
                        IF i <= m THEN a[i] ELSE Blank]
  <2>1. p + 1 > m
    BY <1>1
  <2>. QED BY <1>1, <1>2, <2>1 DEF Place
<1>5. ASSUME NEW i \in 1..(p + 1)
      PROVE  (IF i = p + 1 THEN e ELSE IF i <= m THEN a[i] ELSE Blank) = ents[i]
  <2>1. i # p + 1 /\ ~(i <= m) => i \in (m + 1)..p
    BY <1>1
  <2>2. i <= m => i \in 1..m
    BY <1>1
  <2>. QED BY <1>2, <2>1, <2>2 DEF e
<1>6. Place(a, e) = b
  BY <1>3, <1>4, <1>5
<1>. QED BY <1>6 DEF a, b, e

\* w stands in t after the first q cells.
Holds(t, q, w) == \A i \in 1..Len(w) : t[q + i] = w[i]

\* The record of entry p + 1 follows those of the first p, also in the file
\* that all of the entries have been written to.
LEMMA WritesCells ==
    ASSUME NEW ents \in Seq(EntryRec), NEW g, Writes(g, ents),
           NEW p \in Nat, p + 1 <= Len(ents)
    PROVE  /\ Len(g[p + 1]) = Len(g[p]) + Len(Record(ents[p + 1]))
           /\ Holds(g[Len(ents)], Len(g[p]), Record(ents[p + 1]))
<1>. DEFINE w == Record(ents[p + 1])
            u == g[p]
            t == g[Len(ents)]
<1>1. /\ p + 1 \in 1..Len(ents) /\ (p + 1) - 1 = p /\ p \in 0..Len(ents)
      /\ p + 1 \in 0..Len(ents) /\ Len(ents) \in (p + 1)..Len(ents)
  OBVIOUS
<1>2. ents[p + 1] \in EntryRec
  BY <1>1
<1>3. w \in Seq(Nat) /\ u \in Seq(Nat)
  <2>1. w \in Seq(Nat)
    BY <1>2, RecordType
  <2>2. u \in Seq(Nat)
    BY <1>1 DEF Writes
  <2>. QED BY <2>1, <2>2
<1>4. g[p + 1] = u \o w
  BY <1>1 DEF Writes
<1>5. PICK r \in Seq(Nat) : t = g[p + 1] \o r
  <2>1. Extends(t, g[p + 1])
    BY <1>1, WritesGrows
  <2>. QED BY <2>1 DEF Extends
<1>. HIDE DEF w, u, t
<1>6. t = (u \o w) \o r
  BY <1>4, <1>5
<1>. DEFINE v == u \o w
<1>7. /\ v \in Seq(Nat) /\ Len(v) = Len(u) + Len(w)
      /\ \A i \in 1..Len(w) : v[Len(u) + i] = w[i]
  BY <1>3
<1>8. Len(u) \in Nat /\ Len(w) \in Nat
  BY <1>3
<1>. HIDE DEF v
<1>9. \A i \in 1..Len(v) : (v \o r)[i] = v[i]
  BY <1>7
<1>10. \A i \in 1..Len(w) : Len(u) + i \in 1..Len(v)
  BY <1>7, <1>8
<1>11. t = v \o r /\ g[p + 1] = v
  BY <1>4, <1>6 DEF v
<1>12. \A i \in 1..Len(w) : t[Len(u) + i] = w[i]
  BY <1>7, <1>9, <1>10, <1>11
<1>13. Holds(t, Len(u), w)
  BY <1>12 DEF Holds
<1>. QED BY <1>7, <1>11, <1>13 DEF u, w, t

\* In the first k cells of a written file readEntry finds, after p records, the
\* next one if it is whole, and else nothing.
LEMMA ReadAt ==
    ASSUME NEW ents \in Seq(EntryRec), NEW g, Writes(g, ents),
           NEW t \in Seq(Nat), t = g[Len(ents)], NEW k \in 0..Len(t),
           NEW p \in 0..Len(ents), Len(g[p]) <= k
    PROVE  ReadEntry(SubSeq(t, 1, k), Len(g[p]) + 1) =
             IF p + 1 <= Len(ents) /\ Len(g[p + 1]) <= k THEN {ents[p + 1]} ELSE {}
<1>. DEFINE f == SubSeq(t, 1, k)
            q == Len(g[p])
<1>1. k \in Nat /\ Len(t) \in Nat /\ k <= Len(t) /\ p \in Nat /\ Len(ents) \in Nat
  OBVIOUS
<1>2. f \in Seq(Nat) /\ Len(f) = k /\ \A i \in 1..k : f[i] = t[i]
  OBVIOUS
<1>3. q \in Nat
  BY SMTT(30) DEF Writes
<1>. HIDE DEF f
<1>4. CASE p + 1 <= Len(ents)
  <2>. DEFINE w == Record(ents[p + 1])
  <2>1. /\ Len(g[p + 1]) = q + Len(w)
        /\ Holds(t, q, w)
    BY <1>1, <1>4, WritesCells
  <2>2. ents[p + 1] \in EntryRec
    BY <1>1, <1>4
  <2>3. Len(w) \in Nat
    <3>1. w \in Seq(Nat)
      BY <2>2, RecordType
    <3>. HIDE DEF w
    <3>. QED BY <3>1
  <2>. HIDE DEF q
  <2>4. \A i \in 1..Len(w) : q + i <= Len(f) => f[q + i] = w[i]
    <3>. HIDE DEF w
    <3>1. \A i \in 1..Len(w) : q + i <= k => q + i \in 1..k
      BY <1>1, <1>3, <2>3
    <3>. QED BY <1>2, <2>1, <3>1 DEF Holds
  <2>5. ReadEntry(f, q + 1) = IF q + Len(w) <= Len(f) THEN {ents[p + 1]} ELSE {}
    BY <1>2, <1>3, <2>2, <2>4, ReadRecord
  <2>. HIDE DEF w
  <2>. QED BY <1>2, <1>4, <2>1, <2>5 DEF f, q
<1>5. CASE ~(p + 1 <= Len(ents))
  <2>1. p = Len(ents)
    BY <1>1, <1>5
  <2>2. q = Len(t)
    BY <2>1
  <2>. HIDE DEF q
  <2>3. q <= k
    BY DEF q
  <2>4. ~((q + 1) + 2 <= Len(f))
    BY <1>1, <1>2, <1>3, <2>2, <2>3
  <2>5. ReadEntry(f, q + 1) = {}
    BY <2>4 DEF ReadEntry
  <2>. QED BY <1>5, <2>5 DEF f, q
<1>. QED BY <1>4, <1>5

\* A turn of the loop of replay on the first k cells reads the next record, or
\* none is whole and it stands still.
LEMMA LoopStep ==
    ASSUME NEW ents \in Seq(EntryRec), Placed(ents), NEW g, Writes(g, ents),
           NEW t \in Seq(Nat), t = g[Len(ents)], NEW k \in 0..Len(t),
           NEW s \in LoopState, NEW p, NEW m, At(s, ents, g, p, m), Len(g[p]) <= k
    PROVE  LET s2 == ReplayNext(SubSeq(t, 1, k), s)
           IN  IF p + 1 <= Len(ents) /\ Len(g[p + 1]) <= k
               THEN \E m2 : At(s2, ents, g, p + 1, m2)
               ELSE s2 = s
<1>. DEFINE f == SubSeq(t, 1, k)
            s2 == ReplayNext(f, s)
<1>1. /\ p \in 0..Len(ents) /\ m \in 0..p /\ s.pos = Len(g[p]) + 1
      /\ s.ents = SubSeq(ents, 1, m) /\ (m # 0 => ents[m].index = m)
      /\ \A i \in (m + 1)..p : ents[i] = Blank
  BY DEF At
<1>2. p \in Nat /\ Len(ents) \in Nat /\ m \in Nat /\ m <= p
  BY <1>1
<1>. DEFINE Whole == p + 1 <= Len(ents) /\ Len(g[p + 1]) <= k
<1>3. ReadEntry(f, s.pos) = IF Whole THEN {ents[p + 1]} ELSE {}
  BY <1>1, ReadAt
<1>. HIDE DEF f
<1>4. CASE ~Whole
  <2>. HIDE DEF Whole
  <2>1. s2 = s
    BY <1>3, <1>4 DEF ReplayNext
  <2>. QED BY <1>4, <2>1 DEF f, Whole
<1>5. CASE Whole
  <2>. DEFINE e == ents[p + 1]
  <2>1. p + 1 \in 1..Len(ents) /\ p + 1 <= Len(ents) /\ p + 1 \in 0..Len(ents)
    BY <1>2, <1>5
  <2>2. e \in EntryRec /\ (e = Blank \/ e.index = p + 1)
    BY <2>1 DEF Placed
  <2>3. s2 = [pos |-> s.pos + 3 + Len(e.data), ents |-> Place(s.ents, e)]
    <3>1. ReadEntry(f, s.pos) = {e}
      BY <1>3, <1>5
    <3>2. (CHOOSE x \in {e} : TRUE) = e
      OBVIOUS
    <3>. HIDE DEF e
    <3>. QED BY <3>1, <3>2 DEF ReplayNext
  <2>4. s2.pos = Len(g[p + 1]) + 1
    <3>1. Len(g[p + 1]) = Len(g[p]) + Len(Record(e))
      BY <1>2, <2>1, WritesCells
    <3>2. Len(Record(e)) = 3 + Len(e.data) /\ Len(e.data) \in Nat
      BY <2>2, RecordType DEF EntryRec
    <3>3. Len(g[p]) \in Nat
      BY SMTT(30), <1>1 DEF Writes
    <3>4. s2.pos = s.pos + 3 + Len(e.data)
      BY <2>3
    <3>5. s.pos = Len(g[p]) + 1
      BY <1>1
    <3>. HIDE DEF s2, e
    <3>6. \A x, y \in Nat : x + 1 + 3 + y = x + (3 + y) + 1
      OBVIOUS
    <3>. QED BY <3>1, <3>2, <3>3, <3>4, <3>5, <3>6, Zenon
  <2>5. s2.ents = Place(s.ents, e)
    BY <2>3
  <2>. HIDE DEF s2
  <2>6. CASE e = Blank
    <3>1. s2.ents = SubSeq(ents, 1, m)
      BY SMTT(30), <1>1, <2>5, <2>6 DEF Place, Blank
    <3>2. m \in 0..(p + 1) /\ \A i \in (m + 1)..(p + 1) : i = p + 1 \/ i \in (m + 1)..p
      BY <1>2
    <3>3. At(s2, ents, g, p + 1, m)
      BY <1>1, <2>1, <2>4, <2>6, <3>1, <3>2 DEF At
    <3>. QED BY <1>5, <3>3 DEF s2, f
  <2>7. CASE e.index = p + 1
    <3>1. s2.ents = SubSeq(ents, 1, p + 1)
      BY <1>1, <1>2, <2>1, <2>5, <2>7, PlaceNext
    <3>2. p + 1 \in 0..(p + 1) /\ \A i \in ((p + 1) + 1)..(p + 1) : FALSE
      BY <1>2
    <3>3. At(s2, ents, g, p + 1, p + 1)
      BY <2>1, <2>4, <2>7, <3>1, <3>2 DEF At
    <3>. QED BY <1>5, <3>3 DEF s2, f
  <2>. QED BY <2>2, <2>6, <2>7
<1>. QED BY <1>4, <1>5

\* What begins with x is no shorter.
LEMMA ExtendsLen ==
    ASSUME NEW x \in Seq(Nat), NEW y, Extends(y, x)
    PROVE  y \in Seq(Nat) /\ Len(x) <= Len(y)
  BY DEF Extends

\* A replay of f finds the first m entries of ents, which end in an entry
\* and are all up to the last entry that has its record in the first k cells.
Finds(f, k, ents, g, m) ==
    /\ m \in 0..Len(ents)
    /\ Replay(f) = SubSeq(ents, 1, m)
    /\ m # 0 => ents[m].index = m
    /\ \A j \in 1..Len(ents) : Len(g[j]) <= k /\ ents[j].index = j => j <= m

\* However many cells a kill leaves of a written file, replay() finds a prefix
\* of the entries written, with every entry whose record is whole.
LEMMA ReplayPrefix ==
    ASSUME NEW ents \in Seq(EntryRec), Placed(ents), NEW g, Writes(g, ents),
           NEW t \in Seq(Nat), t = g[Len(ents)], NEW k \in 0..Len(t)
    PROVE  \E m : Finds(SubSeq(t, 1, k), k, ents, g, m)
<1>. DEFINE f == SubSeq(t, 1, k)
            l == ReplayLoop(f)
            Stuck(p) == ~(p + 1 <= Len(ents) /\ Len(g[p + 1]) <= k)
            Good(n, p, m) == /\ At(l[n], ents, g, p, m) /\ Len(g[p]) <= k
                             /\ p = n \/ Stuck(p)
            P == {n \in Nat : n <= k => \E p, m : Good(n, p, m)}
<1>1. k \in Nat /\ Len(t) \in Nat /\ k <= Len(t) /\ Len(ents) \in Nat
  OBVIOUS
<1>2. f \in Seq(Nat) /\ Len(f) = k
  OBVIOUS
<1>3. /\ l \in [0..k -> LoopState] /\ l[0] = [pos |-> 1, ents |-> <<>>]
      /\ \A n \in 1..k : l[n] = ReplayNext(f, l[n - 1])
  BY <1>2, ReplayLoops DEF Loops
<1>4. Replay(f) = l[k].ents
  BY <1>2 DEF Replay
<1>. HIDE DEF l
<1>5. 0 \in P
  <2>1. g[0] = <<>> /\ Len(<<>>) = 0
    BY DEF Writes
  <2>2. SubSeq(ents, 1, 0) = <<>> /\ 0 \in 0..Len(ents) /\ 0 \in 0..0
        /\ \A i \in (0 + 1)..0 : FALSE
    OBVIOUS
  <2>3. l[0].pos = 0 + 1 /\ l[0].ents = <<>>
    BY <1>3
  <2>4. At(l[0], ents, g, 0, 0)
    BY <2>1, <2>2, <2>3 DEF At
  <2>5. Len(g[0]) <= k
    BY <1>1, <2>1
  <2>6. Good(0, 0, 0)
    BY <2>4, <2>5
  <2>. HIDE DEF Good
  <2>. QED BY <2>6
<1>6. ASSUME NEW n \in Nat, n \in P
      PROVE  n + 1 \in P
  <2>. SUFFICES ASSUME n + 1 <= k PROVE \E p, m : Good(n + 1, p, m)
    OBVIOUS
  <2>1. n <= k /\ n \in 0..k /\ n + 1 \in 1..k /\ (n + 1) - 1 = n
    BY <1>1
  <2>2. PICK p, m : Good(n, p, m)
    <3>. HIDE DEF Good
    <3>. QED BY <1>6, <2>1
  <2>3. l[n + 1] = ReplayNext(f, l[n]) /\ l[n] \in LoopState
    BY <1>3, <2>1
  <2>4. At(l[n], ents, g, p, m) /\ Len(g[p]) <= k
    BY <2>2
  <2>5. CASE Stuck(p)
    <3>1. l[n + 1] = l[n]
      BY SMTT(30), <2>3, <2>4, <2>5, LoopStep
    <3>2. Good(n + 1, p, m)
      BY <2>4, <2>5, <3>1
    <3>. HIDE DEF Good
    <3>. QED BY <3>2
  <2>6. CASE ~Stuck(p)
    <3>1. p = n
      BY <2>2, <2>6
    <3>2. p + 1 <= Len(ents) /\ Len(g[p + 1]) <= k
      BY <2>6
    <3>3. PICK m2 : At(l[n + 1], ents, g, p + 1, m2)
      BY SMTT(30), <2>3, <2>4, <3>2, LoopStep
    <3>4. Good(n + 1, p + 1, m2)
      BY <3>1, <3>2, <3>3
    <3>. HIDE DEF Good
    <3>. QED BY <3>4
  <2>. QED BY <2>5, <2>6
<1>7. Nat \subseteq P
  <2>. HIDE DEF P
  <2>. QED BY <1>5, <1>6, Induct
<1>8. PICK p, m : Good(k, p, m)
  <2>1. k \in P /\ k <= k
    BY <1>1, <1>7
  <2>. HIDE DEF Good
  <2>. QED BY <2>1
<1>9. /\ p \in 0..Len(ents) /\ m \in 0..p /\ l[k].ents = SubSeq(ents, 1, m)
      /\ m # 0 => ents[m].index = m
      /\ \A i \in (m + 1)..p : ents[i] = Blank
  BY <1>8 DEF At
<1>10. p \in Nat /\ m \in Nat /\ m <= p /\ p <= Len(ents) /\ m \in 0..Len(ents)
  BY <1>1, <1>9
<1>11. ASSUME NEW j \in 1..Len(ents), Len(g[j]) <= k, ents[j].index = j
       PROVE  j <= m
  <2>1. j \in 0..Len(ents) /\ j \in Nat /\ j # 0
    BY <1>1
  <2>2. g[j] \in Seq(Nat) /\ Len(g[j]) >= j
    BY <2>1, WritesLen DEF Writes
  <2>3. j <= p
    <3>1. CASE p = k
      <4>1. Len(g[j]) \in Nat
        BY <2>2
      <4>. QED BY <1>1, <1>11, <2>1, <2>2, <3>1, <4>1
    <3>2. CASE Stuck(p)
      <4>. SUFFICES ASSUME ~(j <= p) PROVE FALSE
        OBVIOUS
      <4>1. p + 1 \in 0..Len(ents) /\ j \in (p + 1)..Len(ents) /\ p + 1 <= Len(ents)
        BY <1>10, <2>1
      <4>2. Extends(g[j], g[p + 1])
        BY <4>1, WritesGrows
      <4>3. g[p + 1] \in Seq(Nat)
        BY <4>1 DEF Writes
      <4>4. Len(g[p + 1]) <= Len(g[j])
        BY <4>2, <4>3, ExtendsLen
      <4>5. Len(g[p + 1]) \in Nat /\ Len(g[j]) \in Nat
        BY <2>2, <4>3
      <4>6. Len(g[p + 1]) <= k
        BY <1>1, <1>11, <4>4, <4>5
      <4>. QED BY <3>2, <4>1, <4>6
    <3>. QED BY <1>8, <3>1, <3>2
  <2>4. ASSUME ~(j <= m) PROVE FALSE
    <3>1. j \in (m + 1)..p
      BY <1>10, <2>1, <2>3, <2>4
    <3>2. ents[j] = Blank
      BY <1>9, <3>1
    <3>. QED BY <1>11, <2>1, <3>2 DEF Blank
  <2>. QED BY <2>4
<1>12. Replay(f) = SubSeq(ents, 1, m)
  BY <1>4, <1>9
<1>. HIDE DEF f
<1>13. Finds(f, k, ents, g, m)
  BY <1>9, <1>10, <1>11, <1>12 DEF Finds
<1>. QED BY <1>13 DEF f

-----------------------------------------------------------------------------
\* Placing an entry keeps the vector in place and ending in an entry.
LEMMA PlaceKeeps ==
    ASSUME NEW ents \in Seq(EntryRec), NEW e \in EntryRec,
           Placed(ents), EndsInEntry(ents)
    PROVE  Placed(Place(ents, e)) /\ EndsInEntry(Place(ents, e))
<1>1. e.index \in Nat /\ Len(ents) \in Nat
  BY DEF EntryRec
<1>2. CASE e.index = 0
  BY <1>2 DEF Place
<1>3. CASE e.index # 0
  <2>. DEFINE old(i) == IF i <= Len(ents) THEN ents[i] ELSE Blank
              last   == IF e.index > Len(ents) THEN e.index ELSE Len(ents)
              b      == Place(ents, e)
  <2>1. last \in Nat /\ last >= 1 /\ last \in 1..last
    BY <1>1, <1>3
  <2>2. b = [i \in 1..last |-> IF i = e.index THEN e ELSE old(i)]
    BY <1>3 DEF Place
  <2>3. Len(b) = last
    <3>1. b \in Seq(EntryRec)
      BY PlaceType
    <3>. HIDE DEF b, last, old
    <3>. QED BY <2>1, <2>2, <3>1
  <2>. HIDE DEF b
  <2>4. ASSUME NEW i \in 1..last
        PROVE  b[i] = Blank \/ b[i].index = i
    <3>1. i <= Len(ents) => i \in 1..Len(ents)
      BY <1>1
    <3>2. old(i) = Blank \/ old(i).index = i
      BY <3>1 DEF Placed
    <3>3. b[i] = IF i = e.index THEN e ELSE old(i)
      BY <2>2
    <3>. HIDE DEF old
    <3>. QED BY <3>2, <3>3
  <2>5. b[last].index = last
    <3>1. b[last] = IF last = e.index THEN e ELSE old(last)
      BY <2>1, <2>2
    <3>2. last # e.index => last = Len(ents) /\ Len(ents) # 0
      BY <1>1, <2>1
    <3>3. Len(ents) # 0 => ents[Len(ents)].index = Len(ents)
      BY DEF EndsInEntry
    <3>4. last # e.index => old(last).index = last
      BY <1>1, <3>2, <3>3
    <3>. HIDE DEF old, last
    <3>. QED BY <3>1, <3>4
  <2>6. Placed(b) /\ EndsInEntry(b)
    <3>. HIDE DEF last, old
    <3>. QED BY <2>3, <2>4, <2>5 DEF Placed, EndsInEntry
  <2>. QED BY <2>6 DEF b
<1>. QED BY <1>2, <1>3

\* replay() fills entries_ in place from any file, torn ones included.
LEMMA ReplayInPlace ==
    ASSUME NEW f \in Seq(Nat)
    PROVE  Placed(Replay(f)) /\ EndsInEntry(Replay(f))
<1>. DEFINE l == ReplayLoop(f)
            Good(n) == Placed(l[n].ents) /\ EndsInEntry(l[n].ents)
            P == {n \in Nat : n <= Len(f) => Good(n)}
<1>1. Len(f) \in Nat
  OBVIOUS
<1>2. /\ l \in [0..Len(f) -> LoopState] /\ l[0] = [pos |-> 1, ents |-> <<>>]
      /\ \A n \in 1..Len(f) : l[n] = ReplayNext(f, l[n - 1])
  BY ReplayLoops DEF Loops
<1>. HIDE DEF l
<1>3. 0 \in P
  <2>1. l[0].ents = <<>>
    BY <1>2
  <2>2. Placed(<<>>) /\ EndsInEntry(<<>>)
    BY DEF Placed, EndsInEntry
  <2>. QED BY <2>1, <2>2
<1>4. ASSUME NEW n \in Nat, n \in P
      PROVE  n + 1 \in P
  <2>. SUFFICES ASSUME n + 1 <= Len(f) PROVE Good(n + 1)
    OBVIOUS
  <2>1. n <= Len(f) /\ n \in 0..Len(f) /\ n + 1 \in 1..Len(f) /\ (n + 1) - 1 = n
    BY <1>1
  <2>2. l[n + 1] = ReplayNext(f, l[n]) /\ l[n] \in LoopState
    BY <1>2, <2>1
  <2>3. Good(n)
    BY <1>4, <2>1
  <2>4. CASE ReadEntry(f, l[n].pos) = {}
    BY <2>2, <2>3, <2>4 DEF ReplayNext
  <2>5. CASE ReadEntry(f, l[n].pos) # {}
    <3>. DEFINE e == CHOOSE e \in ReadEntry(f, l[n].pos) : TRUE
    <3>1. l[n].pos \in Nat \ {0} /\ l[n].ents \in Seq(EntryRec)
      BY <2>2 DEF LoopState
    <3>2. e \in EntryRec
      <4>1. e \in ReadEntry(f, l[n].pos)
        BY <2>5
      <4>. HIDE DEF e
      <4>. QED BY <3>1, <4>1, ReadType
    <3>3. l[n + 1].ents = Place(l[n].ents, e)
      BY <2>2, <2>5 DEF ReplayNext
    <3>. HIDE DEF e
    <3>. QED BY <2>3, <3>1, <3>2, <3>3, PlaceKeeps
  <2>. QED BY <2>4, <2>5
<1>5. Nat \subseteq P
  <2>. HIDE DEF P
  <2>. QED BY <1>3, <1>4, Induct
<1>6. Len(f) \in P /\ Len(f) <= Len(f)
  BY <1>1, <1>5
<1>. QED BY <1>6 DEF Replay, l

-----------------------------------------------------------------------------
\* The part of an entry that Cluster keeps.
Header == [index : Nat, term : Nat]

\* The headers of a log, one by one.
LEMMA HeadersType ==
    ASSUME NEW a \in Seq(EntryRec)
    PROVE  /\ Headers(a) \in Seq(Header) /\ Len(Headers(a)) = Len(a)
           /\ \A i \in 1..Len(a) :
                 Headers(a)[i] = [index |-> a[i].index, term |-> a[i].term]
<1>1. \A i \in 1..Len(a) : [index |-> a[i].index, term |-> a[i].term] \in Header
  <2>. SUFFICES ASSUME NEW i \in 1..Len(a)
                PROVE  [index |-> a[i].index, term |-> a[i].term] \in Header
    OBVIOUS
  <2>1. a[i] \in EntryRec
    OBVIOUS
  <2>. QED BY <2>1 DEF EntryRec, Header
<1>2. Len(a) \in Nat
  OBVIOUS
<1>. QED BY <1>1, <1>2 DEF Headers

\* The cells of two files written one after the other.
LEMMA JoinCells ==
    ASSUME NEW S, NEW x \in Seq(S), NEW y \in Seq(S)
    PROVE  /\ x \o y \in Seq(S) /\ Len(x \o y) = Len(x) + Len(y)
           /\ \A i \in 1..(Len(x) + Len(y)) :
                 (x \o y)[i] = IF i <= Len(x) THEN x[i] ELSE y[i - Len(x)]
  BY SMT

\* Appending entries appends their headers.
LEMMA HeadersConcat ==
    ASSUME NEW a \in Seq(EntryRec), NEW b \in Seq(EntryRec)
    PROVE  Headers(a \o b) = Headers(a) \o Headers(b)
<1>. DEFINE c == a \o b
            x == Headers(a)
            y == Headers(b)
<1>1. /\ c \in Seq(EntryRec) /\ Len(c) = Len(a) + Len(b)
      /\ Len(a) \in Nat /\ Len(b) \in Nat
      /\ \A i \in 1..Len(c) : c[i] = IF i <= Len(a) THEN a[i] ELSE b[i - Len(a)]
  OBVIOUS
<1>. HIDE DEF c, x, y
<1>2. x \in Seq(Header) /\ Len(x) = Len(a) /\ y \in Seq(Header) /\ Len(y) = Len(b)
  BY HeadersType DEF x, y
<1>3. /\ x \o y \in Seq(Header) /\ Len(x \o y) = Len(c)
      /\ \A i \in 1..Len(c) : (x \o y)[i] = IF i <= Len(a) THEN x[i] ELSE y[i - Len(a)]
  <2>1. /\ x \o y \in Seq(Header) /\ Len(x \o y) = Len(x) + Len(y)
        /\ \A i \in 1..(Len(x) + Len(y)) :
              (x \o y)[i] = IF i <= Len(x) THEN x[i] ELSE y[i - Len(x)]
    BY <1>2, JoinCells, Zenon
  <2>2. Len(x) + Len(y) = Len(c)
    BY <1>1, <1>2
  <2>. QED BY <1>2, <2>1, <2>2, Zenon
<1>4. Headers(c) \in Seq(Header) /\ Len(Headers(c)) = Len(c)
  BY <1>1, HeadersType
<1>5. ASSUME NEW i \in 1..Len(c)
      PROVE  Headers(c)[i] = (x \o y)[i]
  <2>1. /\ i <= Len(a) => i \in 1..Len(a)
        /\ ~(i <= Len(a)) => i - Len(a) \in 1..Len(b)
    BY <1>1
  <2>2. Headers(c)[i] = [index |-> c[i].index, term |-> c[i].term]
    BY <1>1, HeadersType
  <2>3. i <= Len(a) => x[i] = [index |-> a[i].index, term |-> a[i].term]
    BY <2>1, HeadersType DEF x
  <2>4. ~(i <= Len(a)) => y[i - Len(a)] =
           [index |-> b[i - Len(a)].index, term |-> b[i - Len(a)].term]
    BY <2>1, HeadersType DEF y
  <2>5. /\ c[i] = IF i <= Len(a) THEN a[i] ELSE b[i - Len(a)]
        /\ (x \o y)[i] = IF i <= Len(a) THEN x[i] ELSE y[i - Len(a)]
    BY <1>1, <1>3
  <2>. QED BY <2>2, <2>3, <2>4, <2>5, Zenon
<1>. DEFINE z == x \o y
<1>6. z \in Seq(Header) /\ Len(z) = Len(c) /\ \A i \in 1..Len(z) : Headers(c)[i] = z[i]
  BY <1>3, <1>5
<1>. HIDE DEF z
<1>7. Headers(c) = z
  BY <1>4, <1>6, SameCells
<1>. QED BY <1>7 DEF c, x, y, z

\* A prefix of the log has a prefix of its headers.
LEMMA HeadersCut ==
    ASSUME NEW a \in Seq(EntryRec), NEW n \in 0..Len(a)
    PROVE  Headers(SubSeq(a, 1, n)) = SubSeq(Headers(a), 1, n)
<1>. DEFINE c == SubSeq(a, 1, n)
            x == Headers(a)
            z == SubSeq(x, 1, n)
<1>1. n \in Nat /\ n <= Len(a) /\ Len(a) \in Nat
  OBVIOUS
<1>2. c \in Seq(EntryRec) /\ Len(c) = n /\ \A i \in 1..n : c[i] = a[i]
  BY <1>1
<1>3. x \in Seq(Header) /\ Len(x) = Len(a)
  BY HeadersType
<1>. HIDE DEF c, x
<1>4. z \in Seq(Header) /\ Len(z) = n /\ \A i \in 1..n : z[i] = x[i]
  BY <1>1, <1>3
<1>. HIDE DEF z
<1>5. Headers(c) \in Seq(Header) /\ Len(Headers(c)) = n
  BY <1>2, HeadersType
<1>6. ASSUME NEW i \in 1..n
      PROVE  Headers(c)[i] = z[i]
  <2>1. i \in 1..Len(a) /\ i \in 1..Len(c)
    BY <1>1, <1>2
  <2>2. Headers(c)[i] = [index |-> c[i].index, term |-> c[i].term]
    BY <1>2, <2>1, HeadersType
  <2>3. x[i] = [index |-> a[i].index, term |-> a[i].term]
    BY <2>1, HeadersType DEF x
  <2>. QED BY <1>2, <1>4, <2>2, <2>3, Zenon
<1>7. Headers(c) = z
  BY <1>4, <1>5, <1>6, SameCells
<1>. QED BY <1>7 DEF c, x, z

\* What raft appends to a log of n entries: from first on, at most n + 1.
Fits(b, first, n) ==
    /\ b \in Seq(EntryRec) /\ b # <<>> /\ first \in 1..(n + 1)
    /\ \A i \in 1..Len(b) : b[i].index = first + i - 1

\* A batch has data for one entry at least.
LEMMA DatasType ==
    ASSUME NEW first \in Nat, NEW datas \in Datas(first)
    PROVE  datas \in Seq(Seq(Nat)) /\ datas # <<>>
<1>. DEFINE D == {<<>>} \cup {<<d>> : d \in Byte}
            c == MaxIndex + 1 - first
            top == Min({2, c})
<1>1. datas \in SeqOf(D, top) /\ datas # <<>>
  BY DEF Datas
<1>2. D \subseteq Seq(Nat)
  <2>1. <<>> \in Seq(Nat)
    OBVIOUS
  <2>2. ASSUME NEW d \in Byte PROVE <<d>> \in Seq(Nat)
    <3>1. d \in Nat
      BY FileAssumption
    <3>. QED BY <3>1
  <2>. QED BY <2>1, <2>2
<1>3. c \in Int
  BY FileAssumption
<1>. HIDE DEF D, c
<1>4. top \in Int
  <2>1. \E x \in {2, c} : \A y \in {2, c} : x <= y
    BY SMTT(30), <1>3
  <2>2. top \in {2, c}
    BY <2>1 DEF Min
  <2>. HIDE DEF top
  <2>. QED BY <1>3, <2>2
<1>. HIDE DEF top
<1>5. PICK m \in 0..top : datas \in [1..m -> D]
  BY <1>1 DEF SeqOf
<1>6. datas \in Seq(Seq(Nat))
  BY SMTT(30), <1>2, <1>4, <1>5
<1>. QED BY <1>1, <1>6

\* Every batch that raft appends fits the log.
LEMMA BatchFits ==
    ASSUME NEW n \in Nat, NEW b \in Batch(n)
    PROVE  \E first : Fits(b, first, n)
<1>1. PICK first \in 1..(n + 1) :
           b \in UNION {{EntriesFrom(first, term, datas) : datas \in Datas(first)} :
                        term \in 1..MaxTerm}
  BY DEF Batch
<1>2. PICK term \in 1..MaxTerm :
           b \in {EntriesFrom(first, term, datas) : datas \in Datas(first)}
  BY <1>1
<1>3. PICK datas \in Datas(first) : b = EntriesFrom(first, term, datas)
  BY <1>2
<1>4. first \in Nat /\ first >= 1 /\ term \in Nat
  BY FileAssumption
<1>5. datas \in Seq(Seq(Nat)) /\ datas # <<>>
  BY <1>4, DatasType
<1>. DEFINE m == Len(datas)
<1>6. m \in Nat /\ m # 0
  BY <1>5
<1>7. ASSUME NEW i \in 1..m
      PROVE  [index |-> first + i - 1, term |-> term, data |-> datas[i]] \in EntryRec
  <2>1. first + i - 1 \in Nat
    BY <1>4
  <2>2. datas[i] \in Seq(Nat)
    BY <1>5
  <2>. QED BY <1>4, <2>1, <2>2 DEF EntryRec
<1>8. b = [i \in 1..m |->
             [index |-> first + i - 1, term |-> term, data |-> datas[i]]]
  BY <1>3 DEF EntriesFrom
<1>. HIDE DEF m
<1>9. b \in Seq(EntryRec) /\ Len(b) = m
  BY <1>6, <1>7, <1>8
<1>10. \A i \in 1..m : b[i].index = first + i - 1
  BY <1>8
<1>11. b # <<>>
  BY <1>6, <1>9
<1>. QED BY <1>9, <1>10, <1>11 DEF Fits

-----------------------------------------------------------------------------
\* The inductive invariant: files and logs are well formed, InPlace, and a
\* process that has written nothing has what it found in the file.
FileInv ==
    /\ file \in Seq(Nat) /\ entries \in Seq(EntryRec) /\ InPlace
    /\ ~appended => entries = Replay(file)

\* What a write may be of: nothing, or entries that fit the log.
May(ents) == ents = <<>> \/ \E first : Fits(ents, first, Len(entries))

\* Those are entries.
LEMMA MayType ==
    ASSUME NEW ents, May(ents)
    PROVE  ents \in Seq(EntryRec)
<1>1. CASE ents = <<>>
  BY <1>1
<1>2. ASSUME NEW first, Fits(ents, first, Len(entries))
      PROVE  ents \in Seq(EntryRec)
  BY <1>2 DEF Fits
<1>. QED BY <1>1, <1>2 DEF May

\* appendNoSync keeps entries_ in place and ending in an entry, also when it
\* replaces the end of a log that has gaps.
LEMMA EntriesAfterOK ==
    ASSUME FileInv, NEW ents, May(ents)
    PROVE  LET full == EntriesAfter(ents)
           IN  full \in Seq(EntryRec) /\ Placed(full) /\ EndsInEntry(full)
<1>. DEFINE n == Len(entries)
            full == EntriesAfter(ents)
<1>1. /\ entries \in Seq(EntryRec) /\ n \in Nat
      /\ Placed(entries) /\ EndsInEntry(entries)
  BY DEF FileInv, InPlace
<1>2. CASE ents = <<>>
  <2>1. full = entries
    BY <1>1, <1>2, ConcatEmptySeq DEF EntriesAfter, Replaces
  <2>. QED BY <1>1, <2>1
<1>3. ASSUME NEW first, Fits(ents, first, n)
      PROVE  full \in Seq(EntryRec) /\ Placed(full) /\ EndsInEntry(full)
  <2>1. /\ ents \in Seq(EntryRec) /\ ents # <<>> /\ first \in 1..(n + 1)
        /\ \A i \in 1..Len(ents) : ents[i].index = first + i - 1
    BY <1>3 DEF Fits
  <2>2. Len(ents) \in Nat /\ Len(ents) # 0 /\ first \in Nat /\ first >= 1
    BY <1>1, <2>1
  <2>3. ents[1].index = first
    <3>1. 1 \in 1..Len(ents) /\ first + 1 - 1 = first
      BY <2>2
    <3>. QED BY <2>1, <3>1
  <2>. DEFINE a == IF Replaces(ents) THEN Kept(ents) ELSE entries
  <2>4. /\ a \in Seq(EntryRec) /\ Len(a) = first - 1
        /\ \A i \in 1..(first - 1) : a[i] = entries[i] /\ i \in 1..n
    <3>1. CASE Replaces(ents)
      <4>1. first <= n
        BY <2>3, <3>1 DEF Replaces
      <4>2. a = SubSeq(entries, 1, first - 1)
        BY <2>3, <3>1 DEF Kept
      <4>3. first - 1 \in Nat /\ first - 1 <= n /\ (first - 1) - 1 + 1 = first - 1 /\ 1 \in Nat
        BY <1>1, <2>2, <4>1
      <4>4. /\ a \in Seq(EntryRec) /\ Len(a) = first - 1
            /\ \A i \in 1..(first - 1) : a[i] = entries[i]
        <5>. HIDE DEF a
        <5>. QED BY <1>1, <4>2, <4>3
      <4>. HIDE DEF a
      <4>. QED BY <1>1, <4>3, <4>4
    <3>2. CASE ~Replaces(ents)
      <4>1. ~(first <= n)
        BY <2>1, <2>3, <3>2 DEF Replaces
      <4>2. first - 1 = n
        BY <1>1, <2>1, <4>1
      <4>. QED BY <1>1, <3>2, <4>2
    <3>. QED BY <3>1, <3>2
  <2>. HIDE DEF a
  <2>5. full = a \o ents
    BY DEF EntriesAfter, a
  <2>. DEFINE m == first - 1 + Len(ents)
  <2>6. /\ full \in Seq(EntryRec) /\ Len(full) = m
        /\ \A i \in 1..m : full[i] = IF i <= first - 1 THEN a[i] ELSE ents[i - (first - 1)]
    <3>1. /\ a \o ents \in Seq(EntryRec) /\ Len(a \o ents) = Len(a) + Len(ents)
          /\ \A i \in 1..(Len(a) + Len(ents)) :
                (a \o ents)[i] = IF i <= Len(a) THEN a[i] ELSE ents[i - Len(a)]
      BY <2>1, <2>4, JoinCells, Zenon
    <3>. QED BY <2>4, <2>5, <3>1, Zenon
  <2>. HIDE DEF full
  <2>7. ASSUME NEW i \in 1..m
        PROVE  /\ full[i] = Blank \/ full[i].index = i
               /\ i = m => full[i].index = i
    <3>1. CASE i <= first - 1
      <4>1. i \in 1..(first - 1) /\ i # m
        BY <2>2, <3>1
      <4>. QED BY <1>1, <2>4, <2>6, <3>1, <4>1 DEF Placed
    <3>2. CASE ~(i <= first - 1)
      <4>1. i - (first - 1) \in 1..Len(ents) /\ first + (i - (first - 1)) - 1 = i
        BY <2>2, <3>2
      <4>2. full[i] = ents[i - (first - 1)]
        BY <2>6, <3>2
      <4>. QED BY <2>1, <4>1, <4>2
    <3>. QED BY <3>1, <3>2
  <2>8. m \in 1..m
    BY <2>2
  <2>. QED BY <2>6, <2>7, <2>8 DEF Placed, EndsInEntry
<1>. QED BY <1>2, <1>3 DEF May

\* Files that are equal after the same write were equal before it.
LEMMA CancelRight ==
    ASSUME NEW x \in Seq(Nat), NEW y \in Seq(Nat), NEW z \in Seq(Nat),
           x \o z = y \o z
    PROVE  x = y
<1>1. /\ Len(x \o z) = Len(x) + Len(z) /\ Len(y \o z) = Len(y) + Len(z)
      /\ Len(x) \in Nat /\ Len(y) \in Nat /\ Len(z) \in Nat
  OBVIOUS
<1>2. Len(x) = Len(y)
  BY <1>1
<1>3. \A i \in 1..Len(x) : (x \o z)[i] = x[i] /\ (y \o z)[i] = y[i]
  BY <1>2
<1>. QED BY <1>2, <1>3, SameCells

\* The entries that a rewrite keeps are entries of the log.
LEMMA KeptType ==
    ASSUME FileInv, NEW ents \in Seq(EntryRec), Replaces(ents)
    PROVE  Kept(ents) \in Seq(EntryRec)
<1>1. entries \in Seq(EntryRec) /\ ents[1] \in EntryRec
  BY DEF FileInv, Replaces
<1>2. ents[1].index \in Nat /\ ents[1].index <= Len(entries) /\ Len(entries) \in Nat
  BY <1>1 DEF EntryRec, Replaces
<1>. QED BY <1>1, <1>2 DEF Kept

\* After appendNoSync the file holds the entries, if and only if it did before
\* or the write replaced it: an append behind half a record does not mend it.
LEMMA WrittenAfterOK ==
    ASSUME FileInv, NEW ents, May(ents)
    PROVE  /\ WrittenAfter(ents) \in Seq(Nat)
           /\ WrittenAfter(ents) = Records(EntriesAfter(ents))
                <=> Clean \/ Replaces(ents)
<1>1. entries \in Seq(EntryRec) /\ file \in Seq(Nat) /\ ents \in Seq(EntryRec)
  BY MayType DEF FileInv
<1>2. /\ Records(entries) \in Seq(Nat) /\ Records(ents) \in Seq(Nat)
      /\ Records(entries \o ents) = Records(entries) \o Records(ents)
  BY <1>1, RecordsConcat
<1>3. CASE Replaces(ents)
  <2>1. Kept(ents) \in Seq(EntryRec)
    BY <1>1, <1>3, KeptType
  <2>2. /\ Records(Kept(ents)) \in Seq(Nat)
        /\ Records(Kept(ents) \o ents) = Records(Kept(ents)) \o Records(ents)
    BY <1>1, <2>1, RecordsConcat
  <2>3. /\ WrittenAfter(ents) = Records(Kept(ents)) \o Records(ents)
        /\ EntriesAfter(ents) = Kept(ents) \o ents
    BY <1>3 DEF WrittenAfter, EntriesAfter
  <2>4. Records(Kept(ents)) \o Records(ents) \in Seq(Nat)
    BY <1>2, <2>2
  <2>. QED BY <1>3, <2>2, <2>3, <2>4, Zenon
<1>4. CASE ~Replaces(ents)
  <2>1. WrittenAfter(ents) = file \o Records(ents) /\ EntriesAfter(ents) = entries \o ents
    BY <1>4 DEF WrittenAfter, EntriesAfter
  <2>2. file \o Records(ents) \in Seq(Nat)
    BY <1>1, <1>2
  <2>3. file \o Records(ents) = Records(entries) \o Records(ents) => file = Records(entries)
    BY <1>1, <1>2, CancelRight
  <2>. QED BY <1>2, <1>4, <2>1, <2>2, <2>3, Zenon DEF Clean
<1>. QED BY <1>3, <1>4

\* An empty file and an empty log satisfy the invariant.
LEMMA FileInvInit == FileInit => FileInv
<1>. SUFFICES ASSUME FileInit PROVE FileInv
  OBVIOUS
<1>1. file = <<>> /\ entries = <<>>
  BY DEF FileInit
<1>2. file \in Seq(Nat) /\ Len(file) = 0
  BY <1>1
<1>3. entries = Replay(file)
  <2>1. Loops(ReplayLoop(file), file)
    BY <1>2, ReplayLoops
  <2>2. ReplayLoop(file)[0] = [pos |-> 1, ents |-> <<>>]
    BY <2>1, Zenon DEF Loops
  <2>3. Replay(file) = ReplayLoop(file)[0].ents
    BY <1>2, Zenon DEF Replay
  <2>. QED BY <1>1, <2>2, <2>3
<1>. QED BY <1>1, <1>3 DEF FileInv, InPlace, Placed, EndsInEntry

\* What a process can be killed in: nothing, or a write of one of the batches.
LEMMA BatchMay ==
    ASSUME FileInv, NEW ents \in Batch(Len(entries)) \cup {<<>>}
    PROVE  May(ents)
<1>1. Len(entries) \in Nat
  BY DEF FileInv
<1>. QED BY <1>1, BatchFits DEF May

\* A kill leaves some file, and the next start takes its log from it.
LEMMA KillFile ==
    ASSUME FileInv, NEW ents, May(ents), KillAndReplay(ents)
    PROVE  file' \in Seq(Nat) /\ entries' = Replay(file')
<1>1. PICK k \in WrittenFrom(ents)..Len(WrittenAfter(ents)) :
           file' = SubSeq(WrittenAfter(ents), 1, k)
  BY DEF KillAndReplay
<1>2. WrittenAfter(ents) \in Seq(Nat)
  BY WrittenAfterOK
<1>3. WrittenFrom(ents) \in Nat
  BY DEF WrittenFrom, FileInv
<1>4. k \in Nat /\ k <= Len(WrittenAfter(ents))
  BY <1>2, <1>3
<1>5. SubSeq(WrittenAfter(ents), 1, k) \in Seq(Nat)
  BY <1>2, <1>4
<1>. QED BY <1>1, <1>5 DEF KillAndReplay

\* Every append and every kill preserves the invariant.
LEMMA FileInvNext == FileInv /\ [FileNext]_filevars => FileInv'
<1>. SUFFICES ASSUME FileInv, [FileNext]_filevars PROVE FileInv'
  OBVIOUS
<1>1. ASSUME NEW ents \in Batch(Len(entries)), AppendNoSync(ents)
      PROVE  FileInv'
  <2>1. May(ents)
    BY BatchMay
  <2>2. file' = WrittenAfter(ents) /\ entries' = EntriesAfter(ents) /\ appended'
    BY <1>1 DEF AppendNoSync
  <2>3. WrittenAfter(ents) \in Seq(Nat)
    BY <2>1, WrittenAfterOK
  <2>4. /\ EntriesAfter(ents) \in Seq(EntryRec)
        /\ Placed(EntriesAfter(ents)) /\ EndsInEntry(EntriesAfter(ents))
    BY <2>1, EntriesAfterOK
  <2>. QED BY <2>2, <2>3, <2>4 DEF FileInv, InPlace
<1>2. ASSUME NEW ents \in Batch(Len(entries)) \cup {<<>>}, KillAndReplay(ents)
      PROVE  FileInv'
  <2>1. file' \in Seq(Nat) /\ entries' = Replay(file')
    BY <1>2, BatchMay, KillFile
  <2>2. /\ Replay(file') \in Seq(EntryRec)
        /\ Placed(Replay(file')) /\ EndsInEntry(Replay(file'))
    BY <2>1, ReplayType, ReplayInPlace
  <2>. QED BY <2>1, <2>2 DEF FileInv, InPlace
<1>3. CASE UNCHANGED filevars
  BY <1>3 DEF filevars, FileInv, InPlace
<1>. QED BY <1>1, <1>2, <1>3 DEF FileNext

\* The invariant holds through any number of appends, rewrites and kills.
THEOREM FileInvariant == FileSpec => []FileInv
<1>. QED BY FileInvInit, FileInvNext, PTL DEF FileSpec

\* Whatever kills log.bin has been through, entries_[i] is the entry of index i
\* or a gap, and the last one is no gap: lastIndex() is the index of an entry.
THEOREM InPlaceHolds == FileSpec => []InPlace
<1>1. FileInv => InPlace
  BY DEF FileInv
<1>. QED BY <1>1, FileInvariant, PTL

-----------------------------------------------------------------------------
\* appendNoSync on entries and on their headers, as WriteAheadLog has it: they
\* agree on when the file is rewritten and on the log after it.
LEMMA StoreAppend ==
    ASSUME FileInv, NEW ents, May(ents)
    PROVE  /\ Store!Rewrites(Headers(entries), Headers(ents)) <=> Replaces(ents)
           /\ Store!AppendNoSync(Headers(entries), Headers(ents))
                = Headers(EntriesAfter(ents))
<1>1. entries \in Seq(EntryRec) /\ ents \in Seq(EntryRec)
  BY MayType DEF FileInv
<1>2. /\ Len(Headers(entries)) = Len(entries) /\ Len(Headers(ents)) = Len(ents)
      /\ Headers(ents) \in Seq(Header) /\ Len(entries) \in Nat
  BY <1>1, HeadersType
<1>3. Headers(ents) # <<>> <=> ents # <<>>
  BY <1>1, <1>2
<1>4. ents # <<>> => Headers(ents)[1].index = ents[1].index
  <2>. HAVE ents # <<>>
  <2>1. 1 \in 1..Len(ents)
    BY <1>1
  <2>2. Headers(ents)[1] = [index |-> ents[1].index, term |-> ents[1].term]
    BY <1>1, <2>1, HeadersType
  <2>. QED BY <2>2
<1>5. Store!Rewrites(Headers(entries), Headers(ents)) <=> Replaces(ents)
  BY <1>2, <1>3, <1>4 DEF Store!Rewrites, Replaces
<1>6. CASE Replaces(ents)
  <2>1. Store!AppendNoSync(Headers(entries), Headers(ents))
          = SubSeq(Headers(entries), 1, ents[1].index - 1) \o Headers(ents)
    BY <1>4, <1>5, <1>6 DEF Store!AppendNoSync, Replaces
  <2>2. ents[1].index - 1 \in 0..Len(entries)
    <3>1. ents # <<>> /\ ents[1].index <= Len(entries)
      BY <1>6 DEF Replaces
    <3>2. PICK first : Fits(ents, first, Len(entries))
      BY <3>1 DEF May
    <3>3. 1 \in 1..Len(ents) /\ first \in 1..(Len(entries) + 1)
          /\ \A i \in 1..Len(ents) : ents[i].index = first + i - 1
      BY <1>1, <3>1, <3>2 DEF Fits
    <3>4. ents[1].index = first + 1 - 1
      BY <3>3
    <3>. QED BY <1>2, <3>1, <3>3, <3>4
  <2>3. SubSeq(Headers(entries), 1, ents[1].index - 1) = Headers(Kept(ents))
    BY <1>1, <2>2, HeadersCut DEF Kept
  <2>4. Kept(ents) \in Seq(EntryRec)
    BY <1>1, <1>6, KeptType
  <2>5. Headers(Kept(ents)) \o Headers(ents) = Headers(Kept(ents) \o ents)
    BY <1>1, <2>4, HeadersConcat
  <2>. QED BY <1>5, <1>6, <2>1, <2>3, <2>5 DEF EntriesAfter
<1>7. CASE ~Replaces(ents)
  <2>1. Store!AppendNoSync(Headers(entries), Headers(ents))
          = Headers(entries) \o Headers(ents)
    BY <1>5, <1>7 DEF Store!AppendNoSync
  <2>2. Headers(entries) \o Headers(ents) = Headers(entries \o ents)
    BY <1>1, HeadersConcat
  <2>. QED BY <1>5, <1>7, <2>1, <2>2 DEF EntriesAfter
<1>. QED BY <1>6, <1>7

\* The batches of LogFile are those that LogStore may be given.
LEMMA BatchHeaders ==
    ASSUME FileInv
    PROVE  /\ \A ents \in Batch(Len(entries)) :
                 Headers(ents) \in HeaderBatches(Headers(entries))
           /\ Headers(<<>>) = <<>>
<1>1. Len(Headers(entries)) = Len(entries)
  BY HeadersType DEF FileInv
<1>2. Headers(<<>>) = <<>>
  BY DEF Headers
<1>. QED BY <1>1, <1>2 DEF HeaderBatches

\* How a write leaves the file, in the words of the store.
LEMMA StoreTail ==
    ASSUME FileInv, NEW ents, May(ents)
    PROVE  Store!TailAfter(FileTail, Headers(entries), Headers(ents))
             = IF ents = <<>> THEN FileTail
               ELSE IF Clean \/ Replaces(ents) THEN "whole" ELSE "buried"
<1>1. ents \in Seq(EntryRec)
  BY MayType
<1>2. Headers(ents) = <<>> <=> ents = <<>>
  BY <1>1, HeadersType
<1>3. Store!Rewrites(Headers(entries), Headers(ents)) <=> Replaces(ents)
  BY StoreAppend
<1>4. FileTail = "whole" <=> Clean
  BY DEF FileTail
<1>. QED BY <1>2, <1>3, <1>4 DEF Store!TailAfter

\* appendNoSync implements a write of the store.
LEMMA AppendWrites ==
    ASSUME FileInv, NEW ents \in Batch(Len(entries)), AppendNoSync(ents)
    PROVE  Store!Write
<1>. DEFINE h == Headers(ents)
            t == Store!TailAfter(FileTail, Headers(entries), h)
<1>1. May(ents) /\ h \in HeaderBatches(Headers(entries)) /\ ents # <<>>
  <2>1. Len(entries) \in Nat
    BY DEF FileInv
  <2>. QED BY <2>1, BatchMay, BatchHeaders, BatchFits DEF Fits
<1>2. file' = WrittenAfter(ents) /\ entries' = EntriesAfter(ents)
  BY DEF AppendNoSync
<1>3. Headers(entries)' = Store!AppendNoSync(Headers(entries), h)
  BY <1>1, <1>2, StoreAppend
<1>4. Clean' <=> Clean \/ Replaces(ents)
  BY <1>1, <1>2, WrittenAfterOK DEF Clean
<1>5. t = IF Clean \/ Replaces(ents) THEN "whole" ELSE "buried"
  BY <1>1, StoreTail
<1>6. FileTail' = t
  BY <1>4, <1>5 DEF FileTail, AppendNoSync
<1>. QED BY <1>1, <1>3, <1>6 DEF Store!Write

\* A kill of a process whose file is whole, or being replaced: the next start
\* finds a prefix of the log being written, and all of the old one in a plain
\* append.
LEMMA KillPrefix ==
    ASSUME FileInv, NEW ents, Clean \/ Replaces(ents), May(ents),
           KillAndReplay(ents)
    PROVE  \E m \in 0..Len(EntriesAfter(ents)) :
              /\ entries' = SubSeq(EntriesAfter(ents), 1, m)
              /\ ~Replaces(ents) => Len(entries) <= m
<1>. DEFINE full == EntriesAfter(ents)
            t == WrittenAfter(ents)
<1>1. entries \in Seq(EntryRec) /\ ents \in Seq(EntryRec) /\ EndsInEntry(entries)
  BY MayType DEF FileInv, InPlace
<1>2. full \in Seq(EntryRec) /\ Placed(full)
  BY EntriesAfterOK
<1>3. t \in Seq(Nat) /\ t = Records(full)
  BY WrittenAfterOK
<1>4. ~Replaces(ents) => full = entries \o ents
  BY DEF EntriesAfter
<1>5. PICK k \in WrittenFrom(ents)..Len(t) : file' = SubSeq(t, 1, k)
  BY DEF KillAndReplay
<1>6. WrittenFrom(ents) \in Nat /\ (~Replaces(ents) => WrittenFrom(ents) = Len(file))
  BY DEF WrittenFrom, FileInv
<1>7. entries' = Replay(SubSeq(t, 1, k))
  BY <1>5 DEF KillAndReplay
<1>. HIDE DEF full, t
<1>8. k \in 0..Len(t) /\ k \in Nat /\ k >= WrittenFrom(ents)
  BY <1>3, <1>5, <1>6
<1>9. PICK g : Writes(g, full) /\ Records(full) = g[Len(full)]
  BY <1>2, RecordsWrites
<1>a. PICK m : Finds(SubSeq(t, 1, k), k, full, g, m)
  BY <1>2, <1>3, <1>8, <1>9, ReplayPrefix
<1>10. /\ m \in 0..Len(full) /\ Replay(SubSeq(t, 1, k)) = SubSeq(full, 1, m)
       /\ \A j \in 1..Len(full) :
             Len(g[j]) <= k /\ full[j].index = j => j <= m
  BY <1>a DEF Finds
<1>b. m \in 0..Len(full)
  BY <1>10
<1>11. ASSUME ~Replaces(ents) PROVE Len(entries) <= m
  <2>. DEFINE n == Len(entries)
  <2>1. /\ n \in Nat /\ n \in 0..Len(full) /\ m \in Nat
        /\ \A i \in 1..n : full[i] = entries[i]
    <3>1. full = entries \o ents
      BY <1>4, <1>11
    <3>2. /\ Len(entries \o ents) = n + Len(ents) /\ n \in Nat /\ Len(ents) \in Nat
          /\ \A i \in 1..n : (entries \o ents)[i] = entries[i]
      BY <1>1
    <3>3. n \in 0..Len(full) /\ m \in Nat
      BY <1>2, <1>b, <3>1, <3>2
    <3>. QED BY <3>1, <3>2, <3>3
  <2>2. CASE n = 0
    BY <2>1, <2>2
  <2>3. CASE n # 0
    <3>1. n \in 1..Len(full) /\ n \in 1..n
      BY <2>1, <2>3
    <3>2. full[n].index = n
      BY <1>1, <2>1, <2>3, <3>1 DEF EndsInEntry
    <3>3. SubSeq(full, 1, n) = entries
      <4>1. /\ SubSeq(full, 1, n) \in Seq(EntryRec) /\ Len(SubSeq(full, 1, n)) = n
            /\ \A i \in 1..n : SubSeq(full, 1, n)[i] = full[i]
        BY <1>2, <2>1
      <4>. QED BY <1>1, <2>1, <4>1, SameCells
    <3>4. g[n] = Records(entries)
      BY <1>2, <1>9, <2>1, <3>3, RecordsPrefix
    <3>5. Len(g[n]) = Len(file)
      BY <1>11, <3>4 DEF Clean
    <3>6. Len(g[n]) <= k
      BY <1>6, <1>8, <1>11, <3>5
    <3>. QED BY <1>10, <3>1, <3>2, <3>6
  <2>. QED BY <2>2, <2>3
<1>12. entries' = SubSeq(full, 1, m) /\ (~Replaces(ents) => Len(entries) <= m)
  BY <1>7, <1>10, <1>11
<1>. QED BY <1>b, <1>12 DEF full

\* The next start reads the file as it is.
LEMMA KillTail ==
    ASSUME FileInv, NEW ents, May(ents), KillAndReplay(ents)
    PROVE  /\ FileTail' \in {"whole", "torn"}
           /\ entries' \in Seq(EntryRec) /\ Placed(entries') /\ EndsInEntry(entries')
<1>1. file' \in Seq(Nat) /\ entries' = Replay(file')
  BY KillFile
<1>2. FileTail' \in {"whole", "torn"}
  BY DEF FileTail, KillAndReplay
<1>. QED BY <1>1, <1>2, ReplayType, ReplayInPlace

\* The headers of a log in place are in place, and read back as they are.
LEMMA HeadersInPlace ==
    ASSUME NEW a \in Seq(EntryRec), Placed(a), EndsInEntry(a)
    PROVE  /\ Headers(a) \in Seq(Header) /\ Store!InPlaceLog(Headers(a))
           /\ Headers(a) \in Store!Replays(Headers(a))
<1>. DEFINE c == Headers(a)
            n == Len(a)
<1>1. c \in Seq(Header) /\ Len(c) = n /\ n \in Nat
  BY HeadersType
<1>2. \A i \in 1..n : c[i] = [index |-> a[i].index, term |-> a[i].term]
  BY HeadersType
<1>. HIDE DEF c
<1>3. ASSUME NEW i \in 1..n
      PROVE  c[i].index = i \/ c[i] = [index |-> 0, term |-> 0]
  <2>1. c[i] = [index |-> a[i].index, term |-> a[i].term]
    BY <1>2
  <2>2. a[i] = Blank \/ a[i].index = i
    BY DEF Placed
  <2>3. Blank.index = 0 /\ Blank.term = 0
    BY DEF Blank
  <2>. QED BY <2>1, <2>2, <2>3
<1>4. ASSUME n # 0 PROVE c[n].index = n
  <2>1. n \in 1..n /\ a # <<>>
    BY <1>1, <1>4
  <2>2. a[n].index = n
    BY <2>1 DEF EndsInEntry
  <2>3. c[n] = [index |-> a[n].index, term |-> a[n].term]
    BY <1>2, <2>1
  <2>. QED BY <2>2, <2>3
<1>. HIDE DEF n
<1>5. Store!InPlaceLog(c)
  <2>1. c # <<>> => n # 0
    BY <1>1
  <2>. QED BY <1>1, <1>3, <1>4, <2>1 DEF Store!InPlaceLog
<1>6. c \in Store!Replays(c)
  <2>1. SubSeq(c, 1, n) = c
    BY <1>1
  <2>2. n \in 0..Len(c) /\ (n # 0 => c[n].index # 0)
    BY <1>1, <1>4
  <2>3. \A j \in (n + 1)..Len(c) : c[j].index = 0
    BY <1>1
  <2>. QED BY <2>1, <2>2, <2>3 DEF Store!Replays
<1>. QED BY <1>1, <1>5, <1>6 DEF c

\* A kill outside of a write leaves the file alone.
LEMMA KillIdle ==
    ASSUME FileInv, KillAndReplay(<<>>)
    PROVE  file' = file
<1>1. ~Replaces(<<>>)
  BY DEF Replaces
<1>2. WrittenFrom(<<>>) = Len(file) /\ WrittenAfter(<<>>) = file \o Records(<<>>)
  BY <1>1 DEF WrittenFrom, WrittenAfter
<1>3. file \in Seq(Nat) /\ Records(<<>>) = <<>>
  BY DEF FileInv, Records, FlattenSeq
<1>4. WrittenAfter(<<>>) = file
  BY <1>2, <1>3, ConcatEmptySeq
<1>5. PICK k \in Len(file)..Len(file) : file' = SubSeq(file, 1, k)
  BY <1>2, <1>4 DEF KillAndReplay
<1>6. k = Len(file)
  BY <1>3, <1>5
<1>7. SubSeq(file, 1, Len(file)) = file
  BY <1>3
<1>. QED BY <1>5, <1>6, <1>7

\* A kill and replay of a whole file, or of one that is being replaced,
\* implements a crash of the store.
LEMMA KillCrashes ==
    ASSUME FileInv, NEW ents \in Batch(Len(entries)) \cup {<<>>},
           Clean \/ Replaces(ents), KillAndReplay(ents)
    PROVE  Store!Crash
<1>. DEFINE h == Headers(ents)
            full == EntriesAfter(ents)
<1>1. May(ents) /\ h \in HeaderBatches(Headers(entries)) \cup {<<>>}
  BY BatchMay, BatchHeaders
<1>2. PICK m \in 0..Len(full) :
           /\ entries' = SubSeq(full, 1, m)
           /\ ~Replaces(ents) => Len(entries) <= m
  BY <1>1, KillPrefix
<1>3. full \in Seq(EntryRec) /\ entries \in Seq(EntryRec) /\ ents \in Seq(EntryRec)
  BY <1>1, EntriesAfterOK, MayType DEF FileInv
<1>4. Headers(entries)' = SubSeq(Headers(full), 1, m)
  <2>. HIDE DEF full
  <2>. QED BY <1>2, <1>3, HeadersCut
<1>5. Headers(entries)' \in Store!TornAppends(Headers(entries), h)
  <2>. DEFINE kept == IF Store!Rewrites(Headers(entries), h)
                      THEN 0 ELSE Len(Headers(entries))
  <2>1. Store!AppendNoSync(Headers(entries), h) = Headers(full)
    BY <1>1, StoreAppend
  <2>2. Len(Headers(full)) = Len(full) /\ Len(Headers(entries)) = Len(entries)
    BY <1>3, HeadersType
  <2>3. Store!Rewrites(Headers(entries), h) <=> Replaces(ents)
    BY <1>1, StoreAppend
  <2>4. kept = IF Replaces(ents) THEN 0 ELSE Len(entries)
    BY <2>2, <2>3
  <2>5. m \in kept..Len(Headers(full))
    <3>1. Len(full) \in Nat /\ Len(entries) \in Nat
      BY <1>3
    <3>. HIDE DEF kept, full
    <3>. QED BY <1>2, <2>2, <2>4, <3>1
  <2>6. Store!TornAppends(Headers(entries), h)
          = UNION {Store!Replays(SubSeq(Headers(full), 1, k)) :
                   k \in kept..Len(Headers(full))}
    BY <2>1 DEF Store!TornAppends
  <2>7. SubSeq(Headers(full), 1, m) \in Store!Replays(SubSeq(Headers(full), 1, m))
    <3>1. Headers(entries') \in Store!Replays(Headers(entries'))
      BY <1>1, KillTail, HeadersInPlace
    <3>. QED BY <1>4, <3>1
  <2>. HIDE DEF kept, full
  <2>. QED BY <1>4, <2>5, <2>6, <2>7
<1>6. ASSUME h = <<>> PROVE FileTail' = "whole"
  <2>1. ents = <<>>
    <3>1. Len(h) = Len(ents)
      BY <1>3, HeadersType
    <3>. QED BY <1>3, <1>6, <3>1
  <2>2. ~Replaces(ents) /\ Clean
    BY <2>1 DEF Replaces
  <2>3. full = entries
    BY <1>3, <2>1, <2>2, ConcatEmptySeq DEF EntriesAfter
  <2>4. m = Len(entries)
    <3>1. Len(entries) \in Nat
      BY <1>3
    <3>. HIDE DEF full
    <3>. QED BY <1>2, <2>2, <2>3, <3>1
  <2>5. entries' = entries
    <3>1. SubSeq(entries, 1, Len(entries)) = entries
      BY <1>3
    <3>. HIDE DEF full
    <3>. QED BY <1>2, <2>3, <2>4, <3>1
  <2>6. file' = file
    BY <2>1, KillIdle
  <2>. QED BY <2>2, <2>5, <2>6 DEF Clean, FileTail
<1>7. FileTail' \in {"whole", "torn"}
  BY <1>1, KillTail
<1>8. Store!TailAfter(FileTail, Headers(entries), h) = "whole"
  <2>1. ents = <<>> => FileTail = "whole"
    BY DEF Replaces, FileTail
  <2>. QED BY <1>1, <2>1, StoreTail
<1>. HIDE DEF h
<1>. QED BY <1>1, <1>5, <1>6, <1>7, <1>8 DEF Store!Crash

\* Of any other file a kill and replay makes a log in place, which is all that
\* the store promises then; outside of a write, half a record at the end of
\* the file changes nothing.
LEMMA KillMisreads ==
    ASSUME FileInv, NEW ents \in Batch(Len(entries)) \cup {<<>>},
           ~Clean, ~Replaces(ents), KillAndReplay(ents)
    PROVE  Store!CrashMisread \/ UNCHANGED Store!storevars
<1>1. May(ents)
  BY BatchMay
<1>2. FileTail \in {"torn", "buried"}
  BY DEF FileTail
<1>3. CASE ents = <<>> /\ FileTail = "torn"
  <2>1. file' = file /\ entries' = Replay(file')
    BY <1>1, <1>3, KillIdle, KillFile
  <2>2. ~appended /\ ~appended'
    BY <1>3 DEF FileTail, KillAndReplay
  <2>3. entries' = entries
    BY <2>1, <2>2 DEF FileInv
  <2>. QED BY <2>1, <2>2, <2>3 DEF Store!storevars, FileTail, Clean
<1>4. CASE ents # <<>> \/ FileTail = "buried"
  <2>1. ents # <<>> => HeaderBatches(Headers(entries)) # {}
    BY BatchHeaders
  <2>2. /\ entries' \in Seq(EntryRec) /\ FileTail' \in {"whole", "torn"}
        /\ Placed(entries') /\ EndsInEntry(entries')
    BY <1>1, KillTail
  <2>3. Headers(entries') \in Seq(Header) /\ Store!InPlaceLog(Headers(entries'))
    BY <2>2, HeadersInPlace
  <2>. QED BY <1>2, <1>4, <2>1, <2>2, <2>3 DEF Store!CrashMisread, Header
<1>. QED BY <1>2, <1>3, <1>4

\* log.bin with its replay implements the log that Cluster works with, for any
\* data, any number of entries and terms, and any number of kills.
THEOREM ImplementsStoreHolds == FileSpec => ImplementsStore
<1>1. FileInit => Store!StoreInit
  BY DEF FileInit, Store!StoreInit, FileTail, Clean, Headers, Records, FlattenSeq
<1>2. FileInv /\ [FileNext]_filevars => [Store!StoreNext]_(Store!storevars)
  <2>. SUFFICES ASSUME FileInv, [FileNext]_filevars
                PROVE  [Store!StoreNext]_(Store!storevars)
    OBVIOUS
  <2>1. ASSUME NEW ents \in Batch(Len(entries)), AppendNoSync(ents)
        PROVE  Store!StoreNext
    BY <2>1, AppendWrites DEF Store!StoreNext
  <2>2. ASSUME NEW ents \in Batch(Len(entries)) \cup {<<>>}, KillAndReplay(ents)
        PROVE  [Store!StoreNext]_(Store!storevars)
    BY <2>2, KillCrashes, KillMisreads DEF Store!StoreNext
  <2>3. CASE UNCHANGED filevars
    BY <2>3 DEF filevars, Store!storevars, FileTail, Clean
  <2>. QED BY <2>1, <2>2, <2>3 DEF FileNext
<1>. QED BY <1>1, <1>2, FileInvariant, PTL DEF FileSpec, ImplementsStore, Store!StoreSpec
==============================================================================
