------------------------------ MODULE XpakProofs ------------------------------
(***************************************************************************)
(* What TLAPS proves about Xpak, for archives of any number of entries and *)
(* names and files of any length: that what is packed is read back, that   *)
(* damage stays behind the file it began with, and that splitting a tbz2   *)
(* undoes joining.                                                         *)
(***************************************************************************)
EXTENDS Xpak, SequenceTheorems, WellFoundedInduction, TLAPS

-----------------------------------------------------------------------------
(* Natural numbers and sequences.                                          *)

\* A set of numbers that has 0, and with each number below n the next one.
LEMMA UpTo ==
  ASSUME NEW n \in Nat, NEW S \in SUBSET Nat, 0 \in S,
         \A k \in S : k < n => k + 1 \in S
  PROVE  \A k \in 0 .. n : k \in S
  <1> DEFINE B == {k \in 0 .. n : k \notin S}
  <1> SUFFICES ASSUME B # {} PROVE FALSE
    OBVIOUS
  <1>0. B \in SUBSET Nat /\ \A j \in B : j <= n /\ j \notin S
    OBVIOUS
  <1>a. \A j \in 0 .. n : j \notin S => j \in B
    OBVIOUS
  <1> HIDE DEF B
  <1>1. PICK m \in B : \A j \in B : ~ (<<j, m>> \in OpToRel(<, Nat))
    BY <1>0, WFMin, NatLessThanWellFounded
  <1>2. \A j \in B : m <= j
    <2>1. \A i, j \in Nat : ~ (<<j, i>> \in OpToRel(<, Nat)) => i <= j
      BY DEF OpToRel
    <2> QED
      BY <1>0, <1>1, <2>1
  <1>3. m \in Nat /\ m # 0 /\ m <= n
    BY <1>0
  <1>4. m - 1 \in 0 .. n /\ m - 1 < m /\ m - 1 < n /\ (m - 1) + 1 = m
    BY <1>3
  <1>5. m - 1 \in S
    BY <1>2, <1>3, <1>4, <1>a
  <1> QED
    BY <1>0, <1>4, <1>5

LEMMA Joined ==
  ASSUME NEW s \in Seq(Nat), NEW t \in Seq(Nat)
  PROVE  /\ s \o t \in Seq(Nat) /\ Len(s \o t) = Len(s) + Len(t)
         /\ \A i \in 1 .. Len(s) : (s \o t)[i] = s[i]
         /\ \A i \in 1 .. Len(t) : (s \o t)[Len(s) + i] = t[i]
BY ConcatProperties

LEMMA Part ==
  ASSUME NEW s \in Seq(Nat), NEW a \in Nat, NEW b \in Nat, b <= Len(s)
  PROVE  /\ SubSeq(s, a + 1, b) \in Seq(Nat)
         /\ Len(SubSeq(s, a + 1, b)) = IF a <= b THEN b - a ELSE 0
         /\ \A i \in 1 .. b - a : SubSeq(s, a + 1, b)[i] = s[a + i]
  <1>1. \A i \in a + 1 .. b : s[i] \in Nat
    BY ElementOfSeq
  <1> QED
    BY <1>1, SubSeqProperties

-----------------------------------------------------------------------------
(* How an archive is laid out: o is where the data of an entry begins by   *)
(* the sizes that were counted, q where it really does, p where the entry  *)
(* is in the index.                                                        *)

Entries == [name : Names, size : Nat, data : Seq(Nat), at : Nat]

Offsets(pk, o, p, q) ==
  /\ o \in [1 .. Len(pk) + 1 -> Nat] /\ p \in [1 .. Len(pk) + 1 -> Nat]
  /\ q \in [1 .. Len(pk) + 1 -> Nat]
  /\ o[1] = 0 /\ p[1] = 0 /\ q[1] = 0
  /\ \A i \in 1 .. Len(pk) :
       /\ o[i + 1] = o[i] + pk[i].size
       /\ p[i + 1] = p[i] + NameLen[pk[i].name] + 3
       /\ q[i + 1] = q[i] + Len(pk[i].data)

\* The entry in the index after cell a.
EntryAt(ix, a, n, off, size) ==
  /\ ix[a + 1] = NameLen[n]
  /\ \A k \in 1 .. NameLen[n] : ix[a + 1 + k] = 10 + n
  /\ ix[a + NameLen[n] + 2] = off /\ ix[a + NameLen[n] + 3] = size

Laid(pk, ix, fd, dl, o, p, q) ==
  /\ Offsets(pk, o, p, q)
  /\ Len(ix) = p[Len(pk) + 1] /\ Len(fd) = q[Len(pk) + 1] /\ dl = o[Len(pk) + 1]
  /\ \A i \in 1 .. Len(pk) : EntryAt(ix, p[i], pk[i].name, o[i], pk[i].size)
  /\ \A i \in 1 .. Len(pk) : \A k \in 1 .. Len(pk[i].data) : fd[q[i] + k] = pk[i].data[k]
  /\ \A i \in 1 .. Len(pk) : pk[i].at = q[i]

Layout(pk, ix, fd, dl) ==
  /\ pk \in Seq(Entries) /\ ix \in Seq(Nat) /\ fd \in Seq(Nat) /\ dl \in Nat
  /\ \E o, p, q : Laid(pk, ix, fd, dl, o, p, q)

\* The parts of the archive do not run into each other.
LEMMA OffsetsAscend ==
  ASSUME NEW pk \in Seq(Entries), NEW o, NEW p, NEW q, Offsets(pk, o, p, q),
         NEW i \in 1 .. Len(pk) + 1
  PROVE  \A j \in i .. Len(pk) + 1 : o[i] <= o[j] /\ p[i] <= p[j] /\ q[i] <= q[j]
  <1> DEFINE S == {k \in Nat : i + k <= Len(pk) + 1 =>
                     o[i] <= o[i + k] /\ p[i] <= p[i + k] /\ q[i] <= q[i + k]}
             n == Len(pk) + 1 - i
  <1>1. Len(pk) \in Nat /\ n \in Nat
    BY LenProperties
  <1>2. \A k \in 1 .. Len(pk) + 1 : o[k] \in Nat /\ p[k] \in Nat /\ q[k] \in Nat
    BY DEF Offsets
  <1>3. 0 \in S
    BY <1>1, <1>2
  <1>4. ASSUME NEW k \in S, k < n PROVE k + 1 \in S
    <2>1. i + k \in 1 .. Len(pk) /\ i + k + 1 \in 1 .. Len(pk) + 1
      BY <1>1, <1>4
    <2>2. pk[i + k] \in Entries
      BY <2>1, ElementOfSeq
    <2>3. pk[i + k].size \in Nat /\ Len(pk[i + k].data) \in Nat /\ NameLen[pk[i + k].name] \in Nat
      BY <2>2, LenProperties, XpakAssumption DEF Entries
    <2>4. /\ o[i + k + 1] = o[i + k] + pk[i + k].size
          /\ p[i + k + 1] = p[i + k] + NameLen[pk[i + k].name] + 3
          /\ q[i + k + 1] = q[i + k] + Len(pk[i + k].data)
      BY <2>1 DEF Offsets
    <2>5. o[i] <= o[i + k] /\ p[i] <= p[i + k] /\ q[i] <= q[i + k]
      BY <2>1
    <2>6. i + (k + 1) = i + k + 1
      OBVIOUS
    <2>7. /\ o[i] <= o[i + k + 1] /\ p[i] <= p[i + k + 1] /\ q[i] <= q[i + k + 1]
      <3>1. o[i] \in Nat /\ p[i] \in Nat /\ q[i] \in Nat
            /\ o[i + k] \in Nat /\ p[i + k] \in Nat /\ q[i + k] \in Nat
        BY <1>2, <2>1
      <3> DEFINE a == pk[i + k].size
                 b == NameLen[pk[i + k].name] + 3
                 c == Len(pk[i + k].data)
      <3>2. a \in Nat /\ b \in Nat /\ c \in Nat
        BY <2>3
      <3>3. o[i + k + 1] = o[i + k] + a /\ p[i + k + 1] = p[i + k] + b
            /\ q[i + k + 1] = q[i + k] + c
        BY <2>3, <2>4, <3>1, SMTT(30)
      <3> HIDE DEF a, b, c, S
      <3>4. \A x, y, z, w \in Nat : x <= y /\ z = y + w => x <= z
        OBVIOUS
      <3>5. o[i + k + 1] \in Nat /\ p[i + k + 1] \in Nat /\ q[i + k + 1] \in Nat
        BY <1>2, <2>1
      <3>6. o[i] <= o[i + k + 1]
        BY <2>5, <3>1, <3>2, <3>3, <3>4, <3>5
      <3>7. p[i] <= p[i + k + 1]
        BY <2>5, <3>1, <3>2, <3>3, <3>4, <3>5, SMTT(30)
      <3>8. q[i] <= q[i + k + 1]
        BY <2>5, <3>1, <3>2, <3>3, <3>4, <3>5
      <3> QED
        BY <3>6, <3>7, <3>8
    <2> QED
      BY <2>6, <2>7
  <1> HIDE DEF S
  <1>5. \A k \in 0 .. n : k \in S
    <2>1. S \subseteq Nat
      BY DEF S
    <2> QED
      BY <1>1, <1>3, <1>4, <2>1, UpTo
  <1>6. ASSUME NEW j \in i .. Len(pk) + 1
        PROVE  o[i] <= o[j] /\ p[i] <= p[j] /\ q[i] <= q[j]
    <2>1. j - i \in 0 .. n /\ i + (j - i) = j
      BY <1>1
    <2>2. j - i \in S
      BY <1>5, <2>1
    <2> QED
      BY <2>1, <2>2 DEF S
  <1> QED
    BY <1>6

-----------------------------------------------------------------------------
(* The invariant.                                                          *)

Arch(f, d, l) == <<PACK, Len(f), l>> \o f \o d \o <<XSTOP>>

TypeOK ==
  /\ DOMAIN files \subseteq Paths /\ \A p \in DOMAIN files : files[p] \in Seq(Nat)
  /\ pc \in {"idle", "args", "files", "copy", "done"}
  /\ pc = "copy" => cur \in Paths /\ fin \in Seq(Nat) /\ st \in Nat
  /\ out \in Seq(Nat) /\ tar \in Tarballs /\ cut \in BOOLEAN

\* Nothing is read before it is written.
Waiting == pc # "done" => out = <<>> /\ tbz2 = None /\ made = None

LayInv == pc # "done" => Layout(packed, findex, fdata, dlen)

\* What was written is the archive, or the beginning of it.
OutInv ==
  pc = "done" =>
    \E f \in Seq(Nat), d \in Seq(Nat), l \in Nat :
      /\ Layout(packed, f, d, l)
      /\ out = Arch(f, d, l) \/ (cut /\ out \in CutOff(Arch(f, d, l)))

JoinInv == Is(tbz2) /\ ~torn => tbz2 = Some(tar \o out \o <<Len(out), STOP>>)

ReadFrom(sel, tail) ==
  LET x == Process(IF tail THEN tbz2[1] ELSE out)
  IN Some([by |-> "qxpak", sel |-> sel, tail |-> tail, ok |-> x.ok, dir |-> Callback(sel, x.list)])

SplitInto(t, x, given) ==
  LET arc == tbz2[1]
      size == arc[Len(arc) - 1]
      tarsize == Len(arc) - size - FooterLen
  IN Some([by |-> "qtbz2", t |-> t, x |-> x, given |-> given,
           tar |-> IF WritesTar(t, x, given) THEN Some(SubSeq(arc, 1, tarsize)) ELSE None,
           xpak |-> IF WritesXpak(x, given) THEN Some(XpakPart(arc, size)) ELSE None])

\* What was extracted or split last is what would be now.
MadeInv ==
  \/ made = None
  \/ \E sel \in Selections, tail \in BOOLEAN : (tail => Is(tbz2)) /\ made = ReadFrom(sel, tail)
  \/ \E t, x \in BOOLEAN, given \in 0 .. 2 : Is(tbz2) /\ made = SplitInto(t, x, given)

XInv == TypeOK /\ Waiting /\ LayInv /\ OutInv /\ JoinInv /\ MadeInv

LEMMA EmptyLayout == Layout(<<>>, <<>>, <<>>, 0)
  <1> DEFINE z == [i \in 1 .. 1 |-> 0]
  <1>1. Len(<<>>) = 0 /\ <<>> \in Seq(Entries) /\ <<>> \in Seq(Nat)
    BY EmptySeq
  <1>2. z \in [1 .. 1 -> Nat] /\ z[1] = 0
    OBVIOUS
  <1>3. 1 .. 0 = {} /\ 0 + 1 = 1
    OBVIOUS
  <1> HIDE DEF z
  <1>4. Offsets(<<>>, z, z, z)
    BY <1>1, <1>2, <1>3 DEF Offsets
  <1>5. Laid(<<>>, <<>>, <<>>, 0, z, z, z)
    BY <1>1, <1>2, <1>3, <1>4 DEF Laid
  <1> QED
    BY <1>1, <1>5 DEF Layout

LEMMA CellsFacts ==
  ASSUME NEW n \in Names
  PROVE  /\ Cells(n) \in Seq(Nat) /\ Len(Cells(n)) = NameLen[n] /\ NameLen[n] \in Nat \ {0}
         /\ \A k \in 1 .. NameLen[n] : Cells(n)[k] = 10 + n
  <1>1. NameLen[n] \in Nat \ {0} /\ 10 + n \in Nat
    BY XpakAssumption
  <1>2. Cells(n) \in [1 .. NameLen[n] -> Nat]
    BY <1>1 DEF Cells
  <1> QED
    BY <1>1, <1>2 DEF Cells

LEMMA EntryFacts ==
  ASSUME NEW n \in Names, NEW off \in Nat, NEW size \in Nat
  PROVE  LET e == <<NameLen[n]>> \o Cells(n) \o <<off, size>>
         IN  e \in Seq(Nat) /\ Len(e) = NameLen[n] + 3 /\ EntryAt(e, 0, n, off, size)
  <1> DEFINE a == <<NameLen[n]>>
             b == a \o Cells(n)
             c == <<off, size>>
             e == b \o c
             m == NameLen[n]
  <1>1. a \in Seq(Nat) /\ Len(a) = 1 /\ a[1] = m /\ m \in Nat \ {0}
    BY CellsFacts
  <1>2. c \in Seq(Nat) /\ Len(c) = 2 /\ c[1] = off /\ c[2] = size
    OBVIOUS
  <1>3. /\ b \in Seq(Nat) /\ Len(b) = 1 + m /\ b[1] = m
        /\ \A k \in 1 .. m : b[1 + k] = 10 + n
    <2>1. /\ b \in Seq(Nat) /\ Len(b) = Len(a) + Len(Cells(n))
          /\ \A i \in 1 .. Len(a) : b[i] = a[i]
          /\ \A i \in 1 .. Len(Cells(n)) : b[Len(a) + i] = Cells(n)[i]
      BY <1>1, CellsFacts, Joined
    <2> QED
      BY <1>1, <2>1, CellsFacts
  <1>4. /\ e \in Seq(Nat) /\ Len(e) = Len(b) + Len(c)
        /\ \A i \in 1 .. Len(b) : e[i] = b[i]
        /\ \A i \in 1 .. Len(c) : e[Len(b) + i] = c[i]
    <2> HIDE DEF b, c
    <2> QED
      BY <1>2, <1>3, Joined
  <1> HIDE DEF a, b, c, e, m
  <1>5. Len(e) = m + 3 /\ e[1] = m /\ (\A k \in 1 .. m : e[1 + k] = 10 + n)
        /\ e[m + 2] = off /\ e[m + 3] = size
    <2>1. \A k \in 1 .. m : 1 + k \in 1 .. Len(b)
      BY <1>1, <1>3
    <2>2. 1 \in 1 .. Len(b) /\ Len(b) + 1 = m + 2 /\ Len(b) + 2 = m + 3
      BY <1>1, <1>3
    <2> QED
      BY <1>1, <1>2, <1>3, <1>4, <2>1, <2>2
  <1>6. 0 + 1 = 1 /\ 0 + m + 2 = m + 2 /\ 0 + m + 3 = m + 3 /\ \A k \in 1 .. m : 0 + 1 + k = 1 + k
    BY <1>1
  <1> QED
    BY <1>4, <1>5, <1>6 DEF EntryAt, e, b, a, c, m

LEMMA LayoutAdd ==
  ASSUME NEW pk, NEW ix, NEW fd, NEW dl, Layout(pk, ix, fd, dl),
         NEW n \in Names, NEW size \in Nat, NEW data \in Seq(Nat)
  PROVE  Layout(Append(pk, [name |-> n, size |-> size, data |-> data, at |-> Len(fd)]),
                ix \o (<<NameLen[n]>> \o Cells(n) \o <<dl, size>>), fd \o data, dl + size)
  <1> DEFINE e == [name |-> n, size |-> size, data |-> data, at |-> Len(fd)]
             m == Len(pk) + 1
             ent == <<NameLen[n]>> \o Cells(n) \o <<dl, size>>
             npk == Append(pk, e)
             nix == ix \o ent
             nfd == fd \o data
  <1>1. pk \in Seq(Entries) /\ ix \in Seq(Nat) /\ fd \in Seq(Nat) /\ dl \in Nat
    BY DEF Layout
  <1>2. PICK o, p, q : Laid(pk, ix, fd, dl, o, p, q)
    BY DEF Layout
  <1>3. /\ o \in [1 .. m -> Nat] /\ p \in [1 .. m -> Nat] /\ q \in [1 .. m -> Nat]
        /\ o[1] = 0 /\ p[1] = 0 /\ q[1] = 0
        /\ Len(ix) = p[m] /\ Len(fd) = q[m] /\ dl = o[m]
    BY <1>2 DEF Laid, Offsets
  <1>4. m \in Nat \ {0} /\ Len(pk) \in Nat /\ Len(data) \in Nat /\ NameLen[n] \in Nat \ {0}
    BY <1>1, LenProperties, CellsFacts
  <1>5. e \in Entries /\ e.name = n /\ e.size = size /\ e.data = data /\ e.at = Len(fd)
    BY <1>1, LenProperties DEF Entries
  <1>6. /\ npk \in Seq(Entries) /\ Len(npk) = m /\ npk[m] = e
        /\ \A i \in 1 .. Len(pk) : npk[i] = pk[i]
    <2> HIDE DEF e
    <2> QED
      BY <1>1, <1>5, AppendProperties
  <1>7. ent \in Seq(Nat) /\ Len(ent) = NameLen[n] + 3 /\ EntryAt(ent, 0, n, dl, size)
    BY <1>1, EntryFacts
  <1> HIDE DEF e, ent, npk
  <1>8. /\ nix \in Seq(Nat) /\ Len(nix) = Len(ix) + Len(ent)
        /\ \A i \in 1 .. Len(ix) : nix[i] = ix[i]
        /\ \A i \in 1 .. Len(ent) : nix[Len(ix) + i] = ent[i]
    BY <1>1, <1>7, Joined
  <1>9. /\ nfd \in Seq(Nat) /\ Len(nfd) = Len(fd) + Len(data)
        /\ \A i \in 1 .. Len(fd) : nfd[i] = fd[i]
        /\ \A i \in 1 .. Len(data) : nfd[Len(fd) + i] = data[i]
    BY <1>1, Joined
  <1> DEFINE no == [i \in 1 .. m + 1 |-> IF i <= m THEN o[i] ELSE o[m] + size]
             np == [i \in 1 .. m + 1 |-> IF i <= m THEN p[i] ELSE p[m] + NameLen[n] + 3]
             nq == [i \in 1 .. m + 1 |-> IF i <= m THEN q[i] ELSE q[m] + Len(data)]
  <1>10. /\ \A i \in 1 .. m : no[i] = o[i] /\ np[i] = p[i] /\ nq[i] = q[i]
         /\ no[m + 1] = o[m] + size /\ np[m + 1] = p[m] + NameLen[n] + 3
         /\ nq[m + 1] = q[m] + Len(data)
    BY <1>4
  <1>11. no \in [1 .. m + 1 -> Nat] /\ np \in [1 .. m + 1 -> Nat] /\ nq \in [1 .. m + 1 -> Nat]
    <2>1. \A i \in 1 .. m : o[i] \in Nat /\ p[i] \in Nat /\ q[i] \in Nat
      BY <1>3
    <2>2. o[m] + size \in Nat /\ p[m] + NameLen[n] + 3 \in Nat /\ q[m] + Len(data) \in Nat
      <3>1. m \in 1 .. m
        BY <1>4
      <3>2. o[m] \in Nat /\ p[m] \in Nat /\ q[m] \in Nat
        BY <2>1, <3>1
      <3>3. NameLen[n] \in Nat
        BY <1>4
      <3>4. \A x, y \in Nat : x + y \in Nat /\ x + y + 3 \in Nat
        OBVIOUS
      <3> QED
        BY <1>4, <3>2, <3>3, <3>4
    <2>3. \A i \in 1 .. m + 1 : i <= m => i \in 1 .. m
      BY <1>4
    <2> QED
      BY <2>1, <2>2, <2>3
  <1> HIDE DEF nix, nfd, no, np, nq
  <1>12. \A i \in 1 .. m : i = m \/ (i \in 1 .. Len(pk) /\ i + 1 \in 1 .. m)
    BY <1>4
  <1>13. Offsets(npk, no, np, nq)
    <2>1. ASSUME NEW i \in 1 .. m
          PROVE  /\ no[i + 1] = no[i] + npk[i].size
                 /\ np[i + 1] = np[i] + NameLen[npk[i].name] + 3
                 /\ nq[i + 1] = nq[i] + Len(npk[i].data)
      <3>1. CASE i = m
        BY <1>5, <1>6, <1>10, <3>1
      <3>2. CASE i \in 1 .. Len(pk) /\ i + 1 \in 1 .. m
        <4>1. npk[i] = pk[i] /\ no[i] = o[i] /\ np[i] = p[i] /\ nq[i] = q[i]
              /\ no[i + 1] = o[i + 1] /\ np[i + 1] = p[i + 1] /\ nq[i + 1] = q[i + 1]
          BY <1>6, <1>10, <3>2
        <4> QED
          BY <1>2, <3>2, <4>1 DEF Laid, Offsets
      <3> QED
        BY <1>12, <3>1, <3>2
    <2>2. no[1] = 0 /\ np[1] = 0 /\ nq[1] = 0
      BY <1>3, <1>4, <1>10
    <2> QED
      BY <1>6, <1>11, <2>1, <2>2 DEF Offsets
  <1>14. \A i \in 1 .. Len(pk) : p[i] + NameLen[pk[i].name] + 3 <= Len(ix)
         /\ q[i] + Len(pk[i].data) <= Len(fd) /\ p[i] \in Nat /\ q[i] \in Nat
    <2> SUFFICES ASSUME NEW i \in 1 .. Len(pk)
                 PROVE  p[i + 1] <= p[m] /\ q[i + 1] <= q[m] /\ p[i] \in Nat /\ q[i] \in Nat
                        /\ p[i] + NameLen[pk[i].name] + 3 = p[i + 1]
                        /\ q[i] + Len(pk[i].data) = q[i + 1]
      BY <1>3
    <2>1. i \in 1 .. m /\ i + 1 \in 1 .. m /\ m \in i + 1 .. m
      BY <1>4
    <2>2. Offsets(pk, o, p, q)
      BY <1>2 DEF Laid
    <2>3. p[i + 1] <= p[m] /\ q[i + 1] <= q[m]
      BY <1>1, <2>1, <2>2, OffsetsAscend
    <2>4. p[i] \in Nat /\ q[i] \in Nat
      BY <1>3, <2>1
    <2> QED
      BY <2>2, <2>3, <2>4 DEF Offsets
  <1>15. ASSUME NEW i \in 1 .. m
         PROVE  EntryAt(nix, np[i], npk[i].name, no[i], npk[i].size)
    <2>1. CASE i = m
      <3>1. np[i] = Len(ix) /\ no[i] = dl /\ Len(ix) \in Nat
        BY <1>1, <1>3, <1>4, <1>10, <2>1, LenProperties
      <3> DEFINE a == Len(ix)
                 w == NameLen[n]
      <3>2. 1 \in 1 .. Len(ent) /\ (\A k \in 1 .. w : 1 + k \in 1 .. Len(ent))
            /\ w + 2 \in 1 .. Len(ent) /\ w + 3 \in 1 .. Len(ent)
        <4>1. w \in Nat \ {0} /\ Len(ent) = w + 3
          BY <1>4, <1>7
        <4> HIDE DEF w
        <4> QED
          BY <4>1
      <3>3. ent[1] = w /\ (\A k \in 1 .. w : ent[1 + k] = 10 + n) /\ ent[w + 2] = dl
            /\ ent[w + 3] = size
        <4>1. 0 + 1 = 1 /\ 0 + w + 2 = w + 2 /\ 0 + w + 3 = w + 3
              /\ \A k \in 1 .. w : 0 + 1 + k = 1 + k
          BY <1>4
        <4> QED
          BY <1>7, <4>1 DEF EntryAt
      <3>4. nix[a + 1] = w /\ nix[a + (w + 2)] = dl /\ nix[a + (w + 3)] = size
        BY <1>8, <3>2, <3>3
      <3>5. \A k \in 1 .. w : nix[a + (1 + k)] = 10 + n
        BY <1>8, <3>2, <3>3
      <3>6. a + (w + 2) = a + w + 2 /\ a + (w + 3) = a + w + 3
            /\ \A k \in 1 .. w : a + (1 + k) = a + 1 + k
        BY <1>4, <3>1
      <3> HIDE DEF a, w
      <3>7. EntryAt(nix, a, n, dl, size)
        <4> USE DEF w
        <4> QED
          BY <3>4, <3>5, <3>6 DEF EntryAt
      <3> QED
        BY <1>5, <1>6, <2>1, <3>1, <3>7 DEF a
    <2>2. CASE i \in 1 .. Len(pk)
      <3> DEFINE a == p[i]
                 w == NameLen[pk[i].name]
      <3>1. EntryAt(ix, a, pk[i].name, o[i], pk[i].size)
        BY <1>2, <2>2 DEF Laid
      <3>2. w \in Nat /\ a \in Nat /\ a + w + 3 <= Len(ix) /\ Len(ix) \in Nat
        <4>0. pk[i] \in Entries
          BY <1>1, <2>2, ElementOfSeq
        <4>1. pk[i].name \in Names
          BY <4>0 DEF Entries
        <4> QED
          BY <1>1, <1>14, <2>2, <4>1, CellsFacts, LenProperties
      <3>3. npk[i] = pk[i] /\ np[i] = a /\ no[i] = o[i]
        BY <1>6, <1>10, <2>2
      <3> HIDE DEF a
      <3>4. EntryAt(nix, a, pk[i].name, o[i], pk[i].size)
        <4>1. a + 1 \in 1 .. Len(ix) /\ a + w + 2 \in 1 .. Len(ix) /\ a + w + 3 \in 1 .. Len(ix)
              /\ \A k \in 1 .. w : a + 1 + k \in 1 .. Len(ix)
          <5> HIDE DEF w
          <5> QED
            BY <3>2
        <4> QED
          BY <1>8, <3>1, <4>1 DEF EntryAt
      <3> QED
        BY <3>3, <3>4
    <2> QED
      BY <1>12, <2>1, <2>2
  <1>16. ASSUME NEW i \in 1 .. m, NEW k \in 1 .. Len(npk[i].data)
         PROVE  nfd[nq[i] + k] = npk[i].data[k]
    <2>1. CASE i = m
      <3>1. nq[i] = Len(fd) /\ npk[i].data = data
        <4>1. m \in 1 .. m
          BY <1>4
        <4> QED
          BY <1>3, <1>5, <1>6, <1>10, <2>1, <4>1
      <3>2. k \in 1 .. Len(data)
        BY <3>1
      <3> QED
        BY <1>9, <3>1, <3>2
    <2>2. CASE i \in 1 .. Len(pk)
      <3>1. npk[i] = pk[i] /\ nq[i] = q[i]
        BY <1>6, <1>10, <2>2
      <3>2. fd[q[i] + k] = pk[i].data[k]
        BY <1>2, <2>2, <3>1 DEF Laid
      <3>3. q[i] + k \in 1 .. Len(fd)
        <4>1. Len(pk[i].data) \in Nat /\ Len(fd) \in Nat
          <5>0. pk[i] \in Entries
            BY <1>1, <2>2, ElementOfSeq
          <5>1. pk[i].data \in Seq(Nat)
            BY <5>0 DEF Entries
          <5> QED
            BY <1>1, <5>1, LenProperties
        <4>2. k \in 1 .. Len(pk[i].data)
          BY <3>1
        <4> QED
          BY <1>14, <2>2, <4>1, <4>2, SMTT(30)
      <3> QED
        BY <1>9, <3>1, <3>2, <3>3
    <2> QED
      BY <1>12, <2>1, <2>2
  <1>17. Len(nix) = np[m + 1] /\ Len(nfd) = nq[m + 1] /\ dl + size = no[m + 1]
    <2>1. Len(nix) = p[m] + (NameLen[n] + 3)
      BY <1>3, <1>7, <1>8
    <2>2. p[m] \in Nat
      BY <1>1, <1>3, LenProperties
    <2>3. p[m] + (NameLen[n] + 3) = p[m] + NameLen[n] + 3
      BY <1>4, <2>2
    <2>4. Len(nfd) = nq[m + 1]
      BY <1>3, <1>9, <1>10
    <2> QED
      BY <1>3, <1>10, <2>1, <2>3, <2>4
  <1>a. ASSUME NEW i \in 1 .. m PROVE npk[i].at = nq[i]
    <2>1. CASE i = m
      <3>1. m \in 1 .. m
        BY <1>4
      <3> QED
        BY <1>3, <1>5, <1>6, <1>10, <2>1, <3>1
    <2>2. CASE i \in 1 .. Len(pk)
      BY <1>2, <1>6, <1>10, <2>2 DEF Laid
    <2> QED
      BY <1>12, <2>1, <2>2
  <1>18. Laid(npk, nix, nfd, dl + size, no, np, nq)
    BY <1>6, <1>13, <1>15, <1>16, <1>17, <1>a DEF Laid
  <1>19. Layout(npk, nix, nfd, dl + size)
    BY <1>1, <1>6, <1>8, <1>9, <1>18 DEF Layout
  <1> QED
    BY <1>19 DEF npk, nix, nfd, ent, e

LEMMA ClipFacts ==
  ASSUME NEW a \in Nat, NEW l \in Nat, NEW n \in Nat
  PROVE  LET u == Clip(a + l, n) - Clip(a, n)
         IN  /\ u \in Nat /\ u <= l /\ Clip(a, n) \in Nat
             /\ Clip(a + l, n) = Clip(a, n) + u
             /\ \A k \in 1 .. u : Clip(a, n) = a /\ a + k \in 1 .. n /\ k \in 1 .. l
  <1>1. CASE a + l <= n
    BY <1>1 DEF Clip
  <1>2. CASE ~(a + l <= n) /\ a <= n
    BY <1>2 DEF Clip
  <1>3. CASE ~(a <= n)
    BY <1>3 DEF Clip
  <1> QED
    BY <1>1, <1>2, <1>3

\* Archives whose data ends early are laid out as the others.
LEMMA LayoutCut ==
  ASSUME NEW pk, NEW ix, NEW fd, NEW dl, Layout(pk, ix, fd, dl), NEW n \in Nat, n <= Len(fd)
  PROVE  Layout(Until(n, pk), ix, SubSeq(fd, 1, n), dl)
  <1> DEFINE m == Len(pk) + 1
             npk == Until(n, pk)
             nfd == SubSeq(fd, 1, n)
  <1>1. pk \in Seq(Entries) /\ ix \in Seq(Nat) /\ fd \in Seq(Nat) /\ dl \in Nat
        /\ Len(pk) \in Nat /\ Len(fd) \in Nat /\ DOMAIN pk = 1 .. Len(pk)
    BY LenProperties DEF Layout
  <1>2. PICK o, p, q : Laid(pk, ix, fd, dl, o, p, q)
    BY DEF Layout
  <1>3. /\ Offsets(pk, o, p, q) /\ Len(fd) = q[m] /\ q \in [1 .. m -> Nat]
        /\ \A i \in 1 .. Len(pk) : pk[i].at = q[i] /\ q[i + 1] = q[i] + Len(pk[i].data)
    BY <1>2 DEF Laid, Offsets
  <1> DEFINE nq == [i \in 1 .. m |-> Clip(q[i], n)]
  <1>4. \A i \in 1 .. m : nq[i] = Clip(q[i], n) /\ nq[i] \in Nat /\ q[i] \in Nat
    BY <1>3 DEF Clip
  <1>5. /\ nfd \in Seq(Nat) /\ Len(nfd) = n /\ \A i \in 1 .. n : nfd[i] = fd[i]
    <2>1. 0 \in Nat /\ 0 + 1 = 1 /\ 0 <= n /\ n - 0 = n /\ \A i \in 1 .. n : 0 + i = i
      OBVIOUS
    <2> QED
      BY <1>1, <2>1, Part
  <1> HIDE DEF nfd
  <1>6. ASSUME NEW i \in 1 .. Len(pk)
        PROVE  /\ npk[i] \in Entries /\ npk[i].name = pk[i].name /\ npk[i].size = pk[i].size
               /\ npk[i].at = nq[i]
               /\ nq[i + 1] = nq[i] + Len(npk[i].data)
               /\ \A k \in 1 .. Len(npk[i].data) :
                    npk[i].data[k] = pk[i].data[k] /\ k \in 1 .. Len(pk[i].data)
                    /\ nq[i] = q[i] /\ q[i] + k \in 1 .. n
    <2> DEFINE s == pk[i].data
               a == q[i]
               u == Clip(a + Len(s), n) - Clip(a, n)
    <2>1. pk[i] \in Entries
      BY <1>1, ElementOfSeq
    <2>2. /\ s \in Seq(Nat) /\ Len(s) \in Nat /\ pk[i].name \in Names /\ pk[i].size \in Nat
          /\ a \in Nat /\ pk[i].at = a /\ i \in 1 .. m /\ i + 1 \in 1 .. m
          /\ q[i + 1] = a + Len(s)
      <3>1. s \in Seq(Nat) /\ pk[i].name \in Names /\ pk[i].size \in Nat
        BY <2>1 DEF Entries
      <3>2. i \in 1 .. m /\ i + 1 \in 1 .. m
        BY <1>1
      <3> QED
        BY <1>3, <1>4, <3>1, <3>2, LenProperties
    <2>3. npk[i] = [pk[i] EXCEPT !.at = Clip(a, n), !.data = SubSeq(s, 1, u)]
      BY <1>1, <2>2 DEF Until
    <2>4. npk[i] = [name |-> pk[i].name, size |-> pk[i].size, data |-> SubSeq(s, 1, u),
                    at |-> Clip(a, n)]
      BY <2>1, <2>3 DEF Entries
    <2>5. nq[i] = Clip(a, n) /\ nq[i + 1] = Clip(a + Len(s), n)
      BY <1>4, <2>2
    <2>6. /\ u \in Nat /\ u <= Len(s) /\ Clip(a, n) \in Nat
          /\ Clip(a + Len(s), n) = Clip(a, n) + u
          /\ \A k \in 1 .. u : Clip(a, n) = a /\ a + k \in 1 .. n /\ k \in 1 .. Len(s)
      BY <2>2, ClipFacts
    <2> HIDE DEF u, s, a
    <2>7. /\ SubSeq(s, 1, u) \in Seq(Nat) /\ Len(SubSeq(s, 1, u)) = u
          /\ \A k \in 1 .. u : SubSeq(s, 1, u)[k] = s[k]
      <3>1. 0 \in Nat /\ 0 + 1 = 1 /\ 0 <= u /\ u - 0 = u /\ \A k \in 1 .. u : 0 + k = k
        BY <2>6
      <3>2. u \in Nat /\ u <= Len(s)
        BY <2>6
      <3>3. /\ SubSeq(s, 0 + 1, u) \in Seq(Nat)
            /\ Len(SubSeq(s, 0 + 1, u)) = IF 0 <= u THEN u - 0 ELSE 0
            /\ \A k \in 1 .. u - 0 : SubSeq(s, 0 + 1, u)[k] = s[0 + k]
        BY <2>2, <3>1, <3>2, Part
      <3> QED
        BY <3>1, <3>3
    <2> DEFINE cutdata == SubSeq(s, 1, u)
               at == Clip(a, n)
    <2>8. cutdata \in Seq(Nat) /\ Len(cutdata) = u /\ at \in Nat
          /\ \A k \in 1 .. u : cutdata[k] = s[k]
      BY <2>6, <2>7
    <2>9. npk[i] = [name |-> pk[i].name, size |-> pk[i].size, data |-> cutdata, at |-> at]
      BY <2>4
    <2> HIDE DEF cutdata, at, npk, nq
    <2>10. npk[i] \in Entries /\ npk[i].name = pk[i].name /\ npk[i].size = pk[i].size
           /\ npk[i].at = at /\ npk[i].data = cutdata
      BY <2>2, <2>8, <2>9 DEF Entries
    <2>11. nq[i] = at /\ nq[i + 1] = at + u
      BY <2>5, <2>6 DEF at
    <2>12. \A k \in 1 .. u : at = a /\ a + k \in 1 .. n /\ k \in 1 .. Len(s)
      BY <2>6 DEF at
    <2> QED
      BY <2>8, <2>10, <2>11, <2>12 DEF s, a
  <1>7. npk \in Seq(Entries) /\ Len(npk) = Len(pk)
    <2>1. npk = [i \in 1 .. Len(pk) |-> npk[i]]
      BY <1>1 DEF Until
    <2>2. npk \in [1 .. Len(pk) -> Entries]
      <3> HIDE DEF npk
      <3>1. \A i \in 1 .. Len(pk) : npk[i] \in Entries
        BY <1>6
      <3> QED
        BY <2>1, <3>1
    <2> HIDE DEF npk
    <2>3. npk \in Seq(Entries)
      <3> DEFINE n2 == Len(pk)
      <3>1. n2 \in Nat /\ npk \in [1 .. n2 -> Entries]
        BY <1>1, <2>2
      <3> HIDE DEF n2
      <3>2. Seq(Entries) = UNION {[1 .. k -> Entries] : k \in Nat}
        BY SeqDef
      <3> QED
        BY <3>1, <3>2
    <2>4. DOMAIN npk = 1 .. Len(pk)
      BY <2>2
    <2> QED
      BY <1>1, <2>3, <2>4, LenProperties
  <1> HIDE DEF npk
  <1>8. Offsets(npk, o, p, nq)
    <2>1. nq \in [1 .. m -> Nat] /\ nq[1] = 0
      <3>1. 1 \in 1 .. m /\ q[1] = 0
        BY <1>1, <1>3 DEF Offsets
      <3> QED
        BY <1>4, <3>1 DEF Clip
    <2> HIDE DEF nq
    <2> QED
      BY <1>3, <1>6, <1>7, <2>1 DEF Offsets
  <1>9. Len(nfd) = nq[m]
    <2>1. m \in 1 .. m
      BY <1>1
    <2> QED
      BY <1>1, <1>3, <1>4, <1>5, <2>1 DEF Clip
  <1> HIDE DEF nq
  <1>10. \A i \in 1 .. Len(pk) : \A k \in 1 .. Len(npk[i].data) : nfd[nq[i] + k] = npk[i].data[k]
    <2> SUFFICES ASSUME NEW i \in 1 .. Len(pk), NEW k \in 1 .. Len(npk[i].data)
                 PROVE  nfd[nq[i] + k] = npk[i].data[k]
      OBVIOUS
    <2>1. npk[i].data[k] = pk[i].data[k] /\ k \in 1 .. Len(pk[i].data)
          /\ nq[i] = q[i] /\ q[i] + k \in 1 .. n
      BY <1>6
    <2>2. fd[q[i] + k] = pk[i].data[k]
      BY <1>2, <2>1 DEF Laid
    <2>3. nfd[q[i] + k] = fd[q[i] + k]
      BY <1>5, <2>1
    <2> QED
      BY <2>1, <2>2, <2>3
  <1>11. Laid(npk, ix, nfd, dl, o, p, nq)
    BY <1>2, <1>6, <1>7, <1>8, <1>9, <1>10 DEF Laid
  <1> QED
    BY <1>1, <1>5, <1>7, <1>11 DEF Layout, npk, nfd

LEMMA MarkFacts == PACK \in Nat /\ XSTOP \in Nat /\ STOP \in Nat /\ PACK = 101 /\ STOP = 103
BY DEF PACK, XSTOP, STOP

IsArch(A, f, d, l) ==
  /\ A \in Seq(Nat) /\ Len(A) = Len(f) + Len(d) + 4
  /\ A[1] = PACK /\ A[2] = Len(f) /\ A[3] = l
  /\ \A i \in 1 .. Len(f) : A[3 + i] = f[i]
  /\ \A i \in 1 .. Len(d) : A[3 + Len(f) + i] = d[i]

LEMMA ArchFacts ==
  ASSUME NEW f \in Seq(Nat), NEW d \in Seq(Nat), NEW l \in Nat
  PROVE  IsArch(Arch(f, d, l), f, d, l)
  <1> DEFINE a == <<PACK, Len(f), l>>
             b == a \o f
             c == b \o d
             z == <<XSTOP>>
  <1>0. Len(f) \in Nat /\ Len(d) \in Nat
    BY LenProperties
  <1>1. a \in Seq(Nat) /\ Len(a) = 3 /\ a[1] = PACK /\ a[2] = Len(f) /\ a[3] = l
    BY <1>0, MarkFacts
  <1>2. z \in Seq(Nat) /\ Len(z) = 1
    BY MarkFacts
  <1> HIDE DEF a, z
  <1>3. /\ b \in Seq(Nat) /\ Len(b) = Len(a) + Len(f)
        /\ \A i \in 1 .. Len(a) : b[i] = a[i]
        /\ \A i \in 1 .. Len(f) : b[Len(a) + i] = f[i]
    BY <1>1, Joined
  <1> HIDE DEF b
  <1>4. /\ c \in Seq(Nat) /\ Len(c) = Len(b) + Len(d)
        /\ \A i \in 1 .. Len(b) : c[i] = b[i]
        /\ \A i \in 1 .. Len(d) : c[Len(b) + i] = d[i]
    BY <1>3, Joined
  <1> HIDE DEF c
  <1>5. /\ c \o z \in Seq(Nat) /\ Len(c \o z) = Len(c) + Len(z)
        /\ \A i \in 1 .. Len(c) : (c \o z)[i] = c[i]
    BY <1>2, <1>4, Joined
  <1>6. Arch(f, d, l) = c \o z
    BY DEF Arch, a, b, c, z
  <1> DEFINE A == c \o z
  <1>7. Len(b) = 3 + Len(f) /\ Len(c) = 3 + Len(f) + Len(d)
    BY <1>1, <1>3, <1>4
  <1>8. A[1] = PACK /\ A[2] = Len(f) /\ A[3] = l
    <2>1. \A i \in 1 .. 3 : i \in 1 .. Len(a) /\ i \in 1 .. Len(b) /\ i \in 1 .. Len(c)
      BY <1>0, <1>1, <1>7
    <2>2. \A i \in 1 .. 3 : A[i] = a[i]
      BY <1>3, <1>4, <1>5, <2>1
    <2>3. 1 \in 1 .. 3 /\ 2 \in 1 .. 3 /\ 3 \in 1 .. 3
      OBVIOUS
    <2> QED
      BY <1>1, <2>2, <2>3
  <1>9. \A i \in 1 .. Len(f) : A[3 + i] = f[i]
    <2>1. \A i \in 1 .. Len(f) : 3 + i \in 1 .. Len(b) /\ 3 + i \in 1 .. Len(c)
      BY <1>0, <1>7
    <2>2. \A i \in 1 .. Len(f) : A[3 + i] = b[3 + i]
      BY <1>4, <1>5, <2>1
    <2>3. \A i \in 1 .. Len(f) : b[3 + i] = f[i]
      BY <1>1, <1>3
    <2> QED
      BY <2>2, <2>3
  <1>10. \A i \in 1 .. Len(d) : A[3 + Len(f) + i] = d[i]
    <2>1. \A i \in 1 .. Len(d) : 3 + Len(f) + i \in 1 .. Len(c)
      BY <1>0, <1>7
    <2> QED
      BY <1>4, <1>5, <1>7, <2>1
  <1>11. Len(A) = Len(f) + Len(d) + 4
    BY <1>0, <1>2, <1>5, <1>7
  <1> QED
    BY <1>5, <1>6, <1>8, <1>9, <1>10, <1>11 DEF IsArch

LEMMA CutFacts ==
  ASSUME NEW s \in Seq(Nat), NEW c \in CutOff(s)
  PROVE  c \in Seq(Nat) /\ Len(c) < Len(s) /\ \A i \in 1 .. Len(c) : c[i] = s[i]
  <1>1. PICK n \in 0 .. Len(s) - 1 : c = SubSeq(s, 1, n)
    BY DEF CutOff
  <1>2. n \in Nat /\ n < Len(s) /\ n <= Len(s) /\ Len(s) \in Nat /\ 0 + 1 = 1 /\ n - 0 = n
    BY <1>1, LenProperties
  <1>3. /\ SubSeq(s, 0 + 1, n) \in Seq(Nat)
        /\ Len(SubSeq(s, 0 + 1, n)) = IF 0 <= n THEN n - 0 ELSE 0
        /\ \A i \in 1 .. n - 0 : SubSeq(s, 0 + 1, n)[i] = s[0 + i]
    <2>1. 0 \in Nat
      OBVIOUS
    <2> QED
      BY <1>2, <2>1, Part
  <1>4. \A i \in 1 .. n : 0 + i = i
    OBVIOUS
  <1> QED
    BY <1>1, <1>2, <1>3, <1>4

LEMMA InitXInv == Init => XInv
  <1> SUFFICES ASSUME Init PROVE XInv
    OBVIOUS
  <1>1. TypeOK
    BY XpakAssumption, EmptySeq DEF Init, TypeOK
  <1>2. LayInv
    BY EmptyLayout DEF Init, LayInv
  <1> QED
    BY <1>1, <1>2 DEF Init, XInv, Waiting, OutInv, JoinInv, MadeInv, Is

\* What only the archive and what was read of it change.
LEMMA PackingStep ==
  ASSUME XInv, pc # "done", pc' # "done", UNCHANGED tools, out' = <<>>, TypeOK', LayInv'
  PROVE  XInv'
BY DEF XInv, Waiting, OutInv, JoinInv, MadeInv, Is, tools

LEMMA AddFileStep == ASSUME XInv, AddFile PROVE XInv'
  <1>1. pc = "copy" /\ pc' = "files" /\ cur \in Paths /\ fin \in Seq(Nat) /\ st \in Nat
    BY DEF XInv, TypeOK, AddFile
  <1> DEFINE size == IF st > SizeMax THEN 0 ELSE st
             n == cur[2]
  <1> DEFINE data == IF st > SizeMax THEN <<>> ELSE fin
             all == fdata \o data
             e == [name |-> n, size |-> size, data |-> data, at |-> Len(fdata)]
  <1>2. PICK k \in IF data = <<>> THEN {Len(all)} ELSE Flushed(Len(fdata), Len(all)) :
          /\ findex' = findex \o Entry(n, size) /\ fdata' = SubSeq(all, 1, k)
          /\ dlen' = Counted(size, data)
          /\ packed' = Until(k, Append(packed, e))
    BY DEF AddFile
  <1>3. size \in Nat /\ n \in Names
    BY <1>1, XpakAssumption
  <1>4. data \in Seq(Nat)
    BY <1>1, EmptySeq
  <1> HIDE DEF size, n, data
  <1>5. Layout(packed, findex, fdata, dlen)
    BY <1>1 DEF XInv, LayInv
  <1>6. LayInv'
    <2>1. Layout(Append(packed, e), findex \o Entry(n, size), all, dlen + size)
      BY <1>3, <1>4, <1>5, LayoutAdd DEF Entry
    <2>2. all \in Seq(Nat) /\ Len(all) \in Nat
      BY <2>1, LenProperties DEF Layout
    <2>3. k \in Nat /\ k <= Len(all)
      BY <1>2, <2>2 DEF Flushed
    <2> HIDE DEF all, e
    <2>4. Layout(Until(k, Append(packed, e)), findex \o Entry(n, size), SubSeq(all, 1, k), dlen + size)
      BY <2>1, <2>3, LayoutCut
    <2> QED
      BY <1>2, <2>4 DEF LayInv, Counted
  <1>7. TypeOK'
    BY <1>1 DEF XInv, TypeOK, AddFile, tools
  <1> QED
    BY <1>1, <1>6, <1>7, PackingStep DEF AddFile, XInv, Waiting

LEMMA FinishStep == ASSUME XInv, Finish PROVE XInv'
  <1>0. PICK n \in Flushed(Len(fdata), Len(fdata)) :
          LET arc == Archive(SubSeq(fdata, 1, n)) IN
          /\ out' \in {arc} \cup CutOff(arc) /\ cut' = (out' # arc)
          /\ packed' = Until(n, packed)
    BY DEF Finish
  <1> DEFINE d == SubSeq(fdata, 1, n)
             A == Archive(d)
  <1>1. pc = "args" /\ pc' = "done" /\ out' \in {A} \cup CutOff(A)
        /\ cut' = (out' # A) /\ UNCHANGED <<files, tools>>
    BY <1>0 DEF Finish
  <1>2. Layout(packed', findex, d, dlen)
    <2>1. Layout(packed, findex, fdata, dlen)
      BY <1>1 DEF XInv, LayInv
    <2>2. n \in Nat /\ n <= Len(fdata)
      <3>1. Len(fdata) \in Nat
        BY <2>1, LenProperties DEF Layout
      <3> QED
        BY <1>0, <3>1 DEF Flushed
    <2> QED
      BY <1>0, <2>1, <2>2, LayoutCut
  <1> HIDE DEF d
  <1>3. findex \in Seq(Nat) /\ d \in Seq(Nat) /\ dlen \in Nat
    BY <1>2 DEF Layout
  <1>4. A = Arch(findex, d, dlen)
    BY DEF Archive, Arch
  <1> HIDE DEF A
  <1>5. out' \in Seq(Nat)
    <2>1. A \in Seq(Nat)
      BY <1>3, <1>4, ArchFacts DEF IsArch
    <2> QED
      BY <1>1, <2>1, CutFacts
  <1>6. cut' \in BOOLEAN
    BY <1>1
  <1>7. TypeOK'
    BY <1>1, <1>5, <1>6 DEF XInv, TypeOK, tools
  <1>8. OutInv'
    <2>1. out' = Arch(findex, d, dlen) \/ (cut' /\ out' \in CutOff(Arch(findex, d, dlen)))
      BY <1>1, <1>4
    <2> QED
      BY <1>2, <1>3, <2>1 DEF OutInv
  <1>9. tbz2' = None /\ made' = None
    BY <1>1 DEF XInv, Waiting, tools
  <1> QED
    BY <1>1, <1>7, <1>8, <1>9 DEF XInv, Waiting, LayInv, JoinInv, MadeInv, Is

LEMMA KillStep == ASSUME XInv, Kill PROVE XInv'
  <1>1. pc \in {"args", "files", "copy"} /\ pc' = "done" /\ cut' = TRUE
        /\ UNCHANGED <<files, out, packed, tools>>
    BY DEF Kill, source
  <1>2. Layout(packed, findex, fdata, dlen) /\ out = <<>>
    BY <1>1 DEF XInv, LayInv, Waiting
  <1>3. findex \in Seq(Nat) /\ fdata \in Seq(Nat) /\ dlen \in Nat
    BY <1>2 DEF Layout
  <1> DEFINE A == Arch(findex, fdata, dlen)
  <1>4. A \in Seq(Nat) /\ Len(A) = Len(findex) + Len(fdata) + 4
    <2>1. IsArch(A, findex, fdata, dlen)
      BY <1>3, ArchFacts
    <2> HIDE DEF A
    <2> QED
      BY <2>1, LenProperties DEF IsArch
  <1> HIDE DEF A
  <1>5. <<>> \in CutOff(A)
    <2>1. 0 \in 0 .. Len(A) - 1
      BY <1>3, <1>4, LenProperties
    <2>2. SubSeq(A, 1, 0) = <<>>
      BY SubSeqEmpty
    <2> QED
      BY <2>1, <2>2 DEF CutOff
  <1>6. OutInv'
    BY <1>1, <1>2, <1>3, <1>5 DEF OutInv, A
  <1>7. TypeOK'
    BY <1>1 DEF XInv, TypeOK, tools
  <1>8. tbz2' = None /\ made' = None
    BY <1>1 DEF XInv, Waiting, tools
  <1> QED
    BY <1>1, <1>6, <1>7, <1>8 DEF XInv, Waiting, LayInv, JoinInv, MadeInv, Is

\* Once an archive is written only what is made of it changes.
LEMMA ReadingStep ==
  ASSUME XInv, pc = "done", UNCHANGED <<files, packing, tar>>, JoinInv', MadeInv'
  PROVE  XInv'
  <1>1. TypeOK'
    BY DEF XInv, TypeOK, source, packing
  <1>2. OutInv'
    BY DEF XInv, OutInv, packing
  <1> QED
    BY <1>1, <1>2 DEF XInv, Waiting, LayInv, packing

LEMMA ExtractStep == ASSUME XInv, Extract PROVE XInv'
  <1>1. UNCHANGED <<files, packing, tar, tbz2, torn>> /\ pc = "done"
    BY DEF Extract, source
  <1>2. JoinInv'
    BY <1>1 DEF XInv, JoinInv, packing
  <1>3. PICK sel \in Selections, tail \in BOOLEAN : (tail => Is(tbz2)) /\ made' = ReadFrom(sel, tail)
    BY DEF Extract, ReadFrom
  <1>4. ReadFrom(sel, tail)' = ReadFrom(sel, tail)
    BY <1>1 DEF ReadFrom, packing
  <1>5. MadeInv'
    BY <1>1, <1>3, <1>4 DEF MadeInv
  <1> QED
    BY <1>1, <1>2, <1>5, ReadingStep

LEMMA SplitStep == ASSUME XInv, Split PROVE XInv'
  <1>1. UNCHANGED <<files, packing, tar, tbz2, torn>> /\ Is(tbz2)
    BY DEF Split, source
  <1>2. pc = "done"
    BY <1>1 DEF XInv, Waiting, Is
  <1>3. JoinInv'
    BY <1>1 DEF XInv, JoinInv, packing
  <1>4. MadeInv'
    <2>1. CASE made' = None
      BY <2>1 DEF MadeInv
    <2>2. CASE \E t, x \in BOOLEAN, given \in 0 .. 2 : made' = SplitInto(t, x, given)
      <3>1. \A t, x, given : SplitInto(t, x, given)' = SplitInto(t, x, given)
        BY <1>1 DEF SplitInto
      <3> QED
        BY <1>1, <2>2, <3>1 DEF MadeInv
    <2> QED
      BY <2>1, <2>2 DEF Split, SplitInto
  <1> QED
    BY <1>1, <1>2, <1>3, <1>4, ReadingStep

LEMMA JoinStep == ASSUME XInv, Join PROVE XInv'
  <1>1. UNCHANGED <<files, packing, tar, made>> /\ pc = "done" /\ ~Is(tbz2)
        /\ (~torn' => tbz2' = Some(tar \o out \o <<Len(out), STOP>>))
    BY DEF Join, Footer
  <1>2. JoinInv'
    BY <1>1 DEF JoinInv, packing
  <1>3. MadeInv'
    <2>1. made = None \/ \E sel \in Selections : made = ReadFrom(sel, FALSE)
      BY <1>1 DEF XInv, MadeInv
    <2>2. \A sel : ReadFrom(sel, FALSE)' = ReadFrom(sel, FALSE)
      BY <1>1 DEF ReadFrom, packing
    <2> QED
      BY <1>1, <2>1, <2>2 DEF MadeInv
  <1> QED
    BY <1>1, <1>2, <1>3, ReadingStep

LEMMA NextXInv == ASSUME XInv, [Next]_vars PROVE XInv'
  <1>1. CASE Write
    <2>1. pc # "done" /\ pc' = pc /\ UNCHANGED <<cur, st, findex, fdata, dlen, out, packed, cut, tools>>
      BY <1>1 DEF Write
    <2>2. PICK p \in DOMAIN files, c \in Contents :
            /\ files' = [files EXCEPT ![p] = c]
            /\ fin' \in {fin} \cup (IF pc = "copy" /\ cur = p THEN {c} ELSE {})
      BY <1>1 DEF Write
    <2>3. c \in Seq(Nat)
      BY XpakAssumption
    <2>4. TypeOK'
      <3>1. DOMAIN files' = DOMAIN files /\ \A x \in DOMAIN files : files'[x] = IF x = p THEN c ELSE files[x]
        BY <2>2
      <3> QED
        BY <2>1, <2>2, <2>3, <3>1 DEF XInv, TypeOK, tools
    <2>5. LayInv'
      BY <2>1 DEF XInv, LayInv
    <2> QED
      BY <2>1, <2>4, <2>5, PackingStep DEF XInv, Waiting
  <1>2. CASE Delete
    <2>1. pc # "done" /\ UNCHANGED <<packing, tools>>
      BY <1>2 DEF Delete
    <2>2. TypeOK'
      BY <1>2, <2>1 DEF XInv, TypeOK, Delete, packing, tools
    <2>3. LayInv'
      BY <2>1 DEF XInv, LayInv, packing
    <2> QED
      BY <2>1, <2>2, <2>3, PackingStep DEF XInv, Waiting, packing
  <1>3. CASE Create
    <2>1. pc = "idle" /\ pc' = "args" /\ out' = <<>>
          /\ UNCHANGED <<files, cur, fin, st, findex, fdata, dlen, packed, cut, tools>>
      BY <1>3 DEF Create, source
    <2>2. TypeOK'
      BY <2>1, EmptySeq DEF XInv, TypeOK, tools
    <2>3. LayInv'
      BY <2>1 DEF XInv, LayInv
    <2> QED
      BY <2>1, <2>2, <2>3, PackingStep
  <1>4. CASE Argument
    <2>1. pc = "args" /\ pc' = "files"
          /\ UNCHANGED <<files, cur, fin, st, findex, fdata, dlen, out, packed, cut, tools>>
      BY <1>4 DEF Argument, source
    <2>2. TypeOK'
      BY <2>1 DEF XInv, TypeOK, tools
    <2>3. LayInv'
      BY <2>1 DEF XInv, LayInv
    <2> QED
      BY <2>1, <2>2, <2>3, PackingStep DEF XInv, Waiting
  <1>5. CASE Open
    <2>1. pc = "files" /\ pc' \in {"args", "files", "copy"}
          /\ UNCHANGED <<files, findex, fdata, dlen, out, packed, cut, tools>>
      BY <1>5 DEF Open, source
    <2>2. pc' = "copy" => cur' \in DOMAIN files /\ fin' = files[cur'] /\ st' \in {DirSize, Len(fin')}
      BY <1>5 DEF Open
    <2>3. TypeOK'
      BY <2>1, <2>2, LenProperties, XpakAssumption DEF XInv, TypeOK, tools
    <2>4. LayInv'
      BY <2>1 DEF XInv, LayInv
    <2> QED
      BY <2>1, <2>3, <2>4, PackingStep DEF XInv, Waiting
  <1>6. CASE UNCHANGED vars
    <2>1. \A sel, tail : ReadFrom(sel, tail)' = ReadFrom(sel, tail)
      BY <1>6 DEF vars, packing, tools, ReadFrom
    <2>2. \A t, x, given : SplitInto(t, x, given)' = SplitInto(t, x, given)
      BY <1>6 DEF vars, tools, SplitInto
    <2>3. MadeInv'
      BY <1>6, <2>1, <2>2 DEF vars, tools, XInv, MadeInv
    <2>4. TypeOK' /\ Waiting' /\ LayInv' /\ OutInv' /\ JoinInv'
      BY <1>6 DEF vars, source, packing, tools, XInv, TypeOK, Waiting, LayInv, OutInv, JoinInv
    <2> QED
      BY <2>3, <2>4 DEF XInv
  <1> QED
    BY <1>1, <1>2, <1>3, <1>4, <1>5, <1>6, AddFileStep, FinishStep, KillStep, ExtractStep,
       JoinStep, SplitStep DEF Next

-----------------------------------------------------------------------------
(* Joining and splitting.                                                  *)

LEMMA JoinedFacts ==
  ASSUME NEW t \in Seq(Nat), NEW x \in Seq(Nat)
  PROVE  LET arc == t \o x \o <<Len(x), STOP>>
         IN  /\ arc \in Seq(Nat) /\ Len(arc) = Len(t) + Len(x) + 2
             /\ arc[Len(arc) - 1] = Len(x) /\ arc[Len(arc)] = STOP
             /\ \A i \in 1 .. Len(t) : arc[i] = t[i]
             /\ \A i \in 1 .. Len(x) : arc[Len(t) + i] = x[i]
  <1> DEFINE z == <<Len(x), STOP>>
             b == t \o x
             arc == b \o z
  <1>1. z \in Seq(Nat) /\ Len(z) = 2 /\ z[1] = Len(x) /\ z[2] = STOP
        /\ Len(t) \in Nat /\ Len(x) \in Nat
    BY MarkFacts, LenProperties
  <1>2. /\ b \in Seq(Nat) /\ Len(b) = Len(t) + Len(x)
        /\ \A i \in 1 .. Len(t) : b[i] = t[i]
        /\ \A i \in 1 .. Len(x) : b[Len(t) + i] = x[i]
    BY Joined
  <1> HIDE DEF z, b
  <1>3. /\ arc \in Seq(Nat) /\ Len(arc) = Len(b) + Len(z)
        /\ \A i \in 1 .. Len(b) : arc[i] = b[i]
        /\ \A i \in 1 .. Len(z) : arc[Len(b) + i] = z[i]
    BY <1>1, <1>2, Joined
  <1> HIDE DEF arc
  <1>4. Len(arc) - 1 = Len(b) + 1 /\ Len(arc) = Len(b) + 2 /\ 1 \in 1 .. Len(z) /\ 2 \in 1 .. Len(z)
    BY <1>1, <1>2, <1>3
  <1>5. \A i \in 1 .. Len(t) : i \in 1 .. Len(b)
    BY <1>1, <1>2
  <1>6. \A i \in 1 .. Len(x) : Len(t) + i \in 1 .. Len(b)
    BY <1>1, <1>2
  <1>7. Len(arc) = Len(t) + Len(x) + 2
    BY <1>1, <1>2, <1>4
  <1>8. arc[Len(arc) - 1] = Len(x) /\ arc[Len(arc)] = STOP
    BY <1>1, <1>3, <1>4
  <1>9. /\ \A i \in 1 .. Len(t) : arc[i] = t[i]
        /\ \A i \in 1 .. Len(x) : arc[Len(t) + i] = x[i]
    BY <1>2, <1>3, <1>5, <1>6
  <1> QED
    BY <1>3, <1>7, <1>8, <1>9 DEF arc, b, z

\* The part of s after a cells, as long as r, is r.
LEMMA PartIs ==
  ASSUME NEW s \in Seq(Nat), NEW r \in Seq(Nat), NEW a \in Nat, a + Len(r) <= Len(s),
         \A i \in 1 .. Len(r) : s[a + i] = r[i]
  PROVE  SubSeq(s, a + 1, a + Len(r)) = r
  <1>1. Len(r) \in Nat /\ a + Len(r) \in Nat /\ a <= a + Len(r) /\ (a + Len(r)) - a = Len(r)
    BY LenProperties
  <1>2. /\ SubSeq(s, a + 1, a + Len(r)) \in Seq(Nat)
        /\ Len(SubSeq(s, a + 1, a + Len(r))) = Len(r)
        /\ \A i \in 1 .. Len(r) : SubSeq(s, a + 1, a + Len(r))[i] = r[i]
    BY <1>1, Part
  <1> QED
    BY <1>2, SeqEqual

LEMMA InvSplits == XInv => SplitInverts
  <1> SUFFICES ASSUME XInv, Is(made), made[1].by = "qtbz2", ~torn PROVE SplitInverts
    BY DEF SplitInverts
  <1>1. tar \in Seq(Nat) /\ out \in Seq(Nat)
    BY XpakAssumption DEF XInv, TypeOK
  <1>2. PICK t, x \in BOOLEAN, given \in 0 .. 2 : Is(tbz2) /\ made = SplitInto(t, x, given)
    BY DEF XInv, MadeInv, ReadFrom, Is, None, Some
  <1>3. tbz2[1] = tar \o out \o <<Len(out), STOP>>
    <2>1. \A y : Some(y)[1] = y
      BY DEF Some
    <2> QED
      BY <1>2, <2>1, Zenon DEF XInv, JoinInv
  <1> DEFINE arc == tbz2[1]
             size == arc[Len(arc) - 1]
             tarsize == Len(arc) - size - FooterLen
  <1>4. /\ arc \in Seq(Nat) /\ Len(arc) = Len(tar) + Len(out) + 2
        /\ size = Len(out)
        /\ \A i \in 1 .. Len(tar) : arc[i] = tar[i]
        /\ \A i \in 1 .. Len(out) : arc[Len(tar) + i] = out[i]
    <2> DEFINE j == tar \o out \o <<Len(out), STOP>>
    <2>1. /\ j \in Seq(Nat) /\ Len(j) = Len(tar) + Len(out) + 2
          /\ j[Len(j) - 1] = Len(out) /\ j[Len(j)] = STOP
          /\ \A i \in 1 .. Len(tar) : j[i] = tar[i]
          /\ \A i \in 1 .. Len(out) : j[Len(tar) + i] = out[i]
      BY <1>1, JoinedFacts
    <2>2. arc = j
      BY <1>3
    <2> HIDE DEF arc, j
    <2> QED
      BY <2>1, <2>2 DEF size
  <1>5. Len(tar) \in Nat /\ Len(out) \in Nat
    BY <1>1, LenProperties
  <1> HIDE DEF arc, size
  <1>6. tarsize = Len(tar)
    BY <1>4, <1>5 DEF FooterLen
  <1>7. SubSeq(arc, 1, tarsize) = tar
    <2>1. 0 + Len(tar) <= Len(arc) /\ 0 + 1 = 1 /\ 0 + Len(tar) = Len(tar)
          /\ \A i \in 1 .. Len(tar) : arc[0 + i] = tar[i]
      BY <1>4, <1>5
    <2>2. SubSeq(arc, 0 + 1, 0 + Len(tar)) = tar
      BY <1>1, <1>4, <2>1, PartIs
    <2> QED
      BY <1>6, <2>1, <2>2
  <1>8. XpakPart(arc, size) = out
    <2>1. SubSeq(arc, Len(tar) + 1, Len(tar) + Len(out)) = out
      <3>1. Len(tar) + Len(out) <= Len(arc)
        BY <1>4, <1>5
      <3> QED
        BY <1>1, <1>4, <1>5, <3>1, PartIs
    <2>2. Len(arc) - FooterLen - size + 1 = Len(tar) + 1 /\ Len(arc) - FooterLen = Len(tar) + Len(out)
      BY <1>4, <1>5 DEF FooterLen
    <2> QED
      BY <2>1, <2>2 DEF XpakPart
  <1> DEFINE g == [by |-> "qtbz2", t |-> t, x |-> x, given |-> given,
                   tar |-> IF WritesTar(t, x, given) THEN Some(tar) ELSE None,
                   xpak |-> IF WritesXpak(x, given) THEN Some(out) ELSE None]
  <1>9. made[1] = g
    BY <1>2, <1>7, <1>8 DEF SplitInto, arc, size, Some
  <1>10. /\ g.tar = (IF WritesTar(t, x, given) THEN Some(tar) ELSE None)
         /\ g.xpak = (IF WritesXpak(x, given) THEN Some(out) ELSE None)
         /\ g.given = given /\ g.t = t /\ g.x = x
    OBVIOUS
  <1> HIDE DEF g
  <1>11. \A y : Is(Some(y)) /\ Some(y)[1] = y /\ ~ Is(None)
    BY DEF Is, Some, None
  <1>12. given = 0 => WritesTar(t, x, given) = t /\ WritesXpak(x, given) = x
    BY DEF WritesTar, WritesXpak
  <1>13. /\ Is(g.tar) => g.tar[1] = tar
         /\ Is(g.xpak) => g.xpak[1] = out
    BY <1>10, <1>11, Zenon
  <1>14. g.given = 0 => (Is(g.tar) = g.t) /\ (Is(g.xpak) = g.x)
    <2>1. Is(g.tar) = WritesTar(t, x, given) /\ Is(g.xpak) = WritesXpak(x, given)
      <3>1. WritesTar(t, x, given) \in BOOLEAN /\ WritesXpak(x, given) \in BOOLEAN
        BY DEF WritesTar, WritesXpak
      <3> QED
        BY <1>10, <1>11, <3>1 DEF Is
    <2> QED
      BY <1>10, <1>12, <2>1, Zenon
  <1> QED
    BY <1>9, <1>13, <1>14 DEF SplitInverts

\* The invariant holds in every state.
LEMMA ArchiveInvariant == Spec => []XInv
BY InitXInv, NextXInv, PTL DEF Spec

\* Whatever parts of a tbz2 are asked for, qtbz2 writes the tarball and the
\* xpak it was joined from, byte for byte.
THEOREM SplittingInverts == Spec => []SplitInverts
BY ArchiveInvariant, InvSplits, PTL

-----------------------------------------------------------------------------
(* The walk over an index.                                                 *)

\* What is read at cell p, by what is read behind it.
WalkAt(index, data, w, p) ==
  IF p = Len(index) THEN [ok |-> TRUE, list |-> <<>>]
  ELSE LET n == index[p + 1]
           next == p + n + 3 IN
       IF n >= PathMax \/ next > Len(index) THEN [ok |-> FALSE, list |-> <<>>]
       ELSE LET off == index[next - 1]
                len == index[next] IN
            IF off + len > Len(data) THEN [ok |-> FALSE, list |-> <<>>]
            ELSE [w[next] EXCEPT !.list =
                    <<[name |-> SubSeq(index, p + 2, p + 1 + n),
                       data |-> SubSeq(data, off + 1, off + len)]>> \o @]

Walks(index, data, w) ==
  /\ DOMAIN w = 0 .. Len(index)
  /\ \A p \in 0 .. Len(index) : w[p] = WalkAt(index, data, w, p)

\* Only what is behind p is looked at.
LEMMA WalkAhead ==
  ASSUME NEW index \in Seq(Nat), NEW data, NEW w, NEW v, NEW p \in 0 .. Len(index),
         \A i \in 0 .. Len(index) : i > p => w[i] = v[i]
  PROVE  WalkAt(index, data, w, p) = WalkAt(index, data, v, p)
  <1>1. Len(index) \in Nat
    BY LenProperties
  <1>2. CASE p = Len(index)
    BY <1>2 DEF WalkAt
  <1>3. CASE p # Len(index)
    <2> DEFINE n == index[p + 1]
               next == p + n + 3
    <2>1. n \in Nat
      <3>1. p + 1 \in 1 .. Len(index)
        BY <1>1, <1>3
      <3> QED
        BY <3>1, ElementOfSeq
    <2>2. next \in Nat /\ next > p
      BY <1>1, <2>1
    <2> HIDE DEF n, next
    <2>3. next > Len(index) \/ w[next] = v[next]
      <3>1. next > Len(index) \/ next \in 0 .. Len(index)
        BY <1>1, <2>2
      <3> QED
        BY <2>2, <3>1
    <2> QED
      BY <1>3, <2>3 DEF WalkAt, n, next
  <1> QED
    BY <1>2, <1>3

LEMMA WalkExists ==
  ASSUME NEW index \in Seq(Nat), NEW data
  PROVE  \E w : Walks(index, data, w)
  <1> DEFINE L == Len(index)
             S == {k \in Nat : k <= L => \E w : /\ DOMAIN w = 0 .. L
                                               /\ \A p \in L - k .. L : w[p] = WalkAt(index, data, w, p)}
  <1>1. L \in Nat
    BY LenProperties
  <1>2. 0 \in S
    <2> DEFINE w == [p \in 0 .. L |-> [ok |-> TRUE, list |-> <<>>]]
    <2>1. DOMAIN w = 0 .. L /\ w[L] = [ok |-> TRUE, list |-> <<>>]
      BY <1>1
    <2> HIDE DEF w
    <2>2. \A p \in L - 0 .. L : w[p] = WalkAt(index, data, w, p)
      <3>1. \A p \in L - 0 .. L : p = L
        BY <1>1
      <3>2. WalkAt(index, data, w, L) = [ok |-> TRUE, list |-> <<>>]
        BY DEF WalkAt
      <3> QED
        BY <2>1, <3>1, <3>2
    <2> QED
      BY <2>1, <2>2
  <1>3. ASSUME NEW k \in S, k < L PROVE k + 1 \in S
    <2>1. PICK w : DOMAIN w = 0 .. L /\ \A p \in L - k .. L : w[p] = WalkAt(index, data, w, p)
      BY <1>1, <1>3
    <2> DEFINE m == L - (k + 1)
               x == WalkAt(index, data, w, m)
               v == [w EXCEPT ![m] = x]
    <2>2. k \in Nat /\ m \in 0 .. L /\ \A p \in m .. L : p = m \/ p \in L - k .. L
      BY <1>1, <1>3
    <2> HIDE DEF m, x
    <2>3. DOMAIN v = 0 .. L /\ v[m] = x /\ \A p \in 0 .. L : p # m => v[p] = w[p]
      BY <2>1, <2>2
    <2> HIDE DEF v
    <2>4. \A p \in m .. L : WalkAt(index, data, v, p) = WalkAt(index, data, w, p)
      <3> SUFFICES ASSUME NEW p \in m .. L
                   PROVE  WalkAt(index, data, v, p) = WalkAt(index, data, w, p)
        OBVIOUS
      <3>1. p \in 0 .. L /\ \A i \in 0 .. L : i > p => i # m
        BY <2>2
      <3>2. \A i \in 0 .. L : i > p => v[i] = w[i]
        BY <2>3, <3>1
      <3> QED
        BY <3>1, <3>2, WalkAhead
    <2>5. \A p \in m .. L : v[p] = WalkAt(index, data, v, p)
      <3> SUFFICES ASSUME NEW p \in m .. L PROVE v[p] = WalkAt(index, data, w, p)
        BY <2>4
      <3>1. CASE p = m
        BY <2>3, <3>1 DEF x
      <3>2. CASE p # m
        <4>1. p \in L - k .. L /\ p \in 0 .. L
          BY <2>2, <3>2
        <4> QED
          BY <2>1, <2>3, <3>2, <4>1
      <3> QED
        BY <3>1, <3>2
    <2> QED
      BY <2>2, <2>3, <2>5 DEF m
  <1>4. L \in S
    <2> HIDE DEF S
    <2>1. S \subseteq Nat
      BY DEF S
    <2>2. \A k \in 0 .. L : k \in S
      BY <1>1, <1>2, <1>3, <2>1, UpTo
    <2> QED
      BY <1>1, <2>2
  <1>5. L - L = 0
    BY <1>1
  <1> QED
    BY <1>1, <1>4, <1>5 DEF Walks

LEMMA WalkDef ==
  ASSUME NEW index \in Seq(Nat), NEW data
  PROVE  \E w : Walks(index, data, w) /\ WalkIndex(index, data) = w[0]
  <1> DEFINE F(w) == [p \in 0 .. Len(index) |-> WalkAt(index, data, w, p)]
             walk == CHOOSE w : w = F(w)
  <1>1. PICK w : Walks(index, data, w)
    BY WalkExists
  <1>2. \E u : u = F(u)
    <2> DEFINE u == [p \in 0 .. Len(index) |-> w[p]]
    <2>1. \A p \in 0 .. Len(index) : WalkAt(index, data, u, p) = WalkAt(index, data, w, p)
      <3>1. \A p \in 0 .. Len(index) : u[p] = w[p]
        OBVIOUS
      <3> HIDE DEF u
      <3> QED
        BY <3>1, WalkAhead
    <2>2. u = F(u)
      BY <1>1, <2>1 DEF Walks
    <2> QED
      BY <2>2
  <1>3. walk = F(walk)
    BY <1>2
  <1>4. WalkIndex(index, data) = walk[0]
    BY DEF WalkIndex, WalkAt
  <1> HIDE DEF walk
  <1>5. Walks(index, data, walk)
    BY <1>3 DEF Walks
  <1> QED
    BY <1>4, <1>5

Items == [name : Seq(Nat), data : Seq(Nat)]
Item(pk, data, o, j) ==
  [name |-> Cells(pk[j].name), data |-> SubSeq(data, o[j] + 1, o[j] + pk[j].size)]

InReach(pk, data, o, j) == o[j] + pk[j].size <= Len(data)

\* r is the entries from the i-th on, up to one that is refused.
ReadFromEntry(pk, data, o, r, i) ==
  \E ok \in BOOLEAN, l \in Seq(Items) :
    /\ r = [ok |-> ok, list |-> l] /\ Len(l) <= Len(pk) + 1 - i
    /\ \A j \in 1 .. Len(l) : /\ l[j] = Item(pk, data, o, i + j - 1)
                              /\ InReach(pk, data, o, i + j - 1)
    /\ (\A j \in i .. Len(pk) : NameLen[pk[j].name] < PathMax /\ InReach(pk, data, o, j)) =>
         ok /\ Len(l) = Len(pk) + 1 - i

LEMMA ItemFacts ==
  ASSUME NEW pk \in Seq(Entries), NEW data \in Seq(Nat), NEW o \in [1 .. Len(pk) + 1 -> Nat],
         NEW j \in 1 .. Len(pk), InReach(pk, data, o, j)
  PROVE  /\ Item(pk, data, o, j) \in Items /\ Item(pk, data, o, j).name = Cells(pk[j].name)
         /\ Item(pk, data, o, j).data = SubSeq(data, o[j] + 1, o[j] + pk[j].size)
         /\ Len(Item(pk, data, o, j).data) = pk[j].size
         /\ \A k \in 1 .. pk[j].size : Item(pk, data, o, j).data[k] = data[o[j] + k]
  <1>1. pk[j] \in Entries
    BY ElementOfSeq
  <1>2. pk[j].name \in Names /\ pk[j].size \in Nat
    BY <1>1 DEF Entries
  <1>3. j \in 1 .. Len(pk) + 1
    BY LenProperties
  <1>4. o[j] \in Nat
    BY <1>3
  <1> DEFINE a == o[j]
             s == pk[j].size
  <1>5. a \in Nat /\ s \in Nat /\ a + s \in Nat /\ a + s <= Len(data) /\ (a + s) - a = s /\ a <= a + s
    <2>1. \A x, y \in Nat : x + y \in Nat /\ (x + y) - x = y /\ x <= x + y
      OBVIOUS
    <2> QED
      BY <1>2, <1>4, <2>1 DEF InReach
  <1> HIDE DEF a, s
  <1>6. /\ SubSeq(data, a + 1, a + s) \in Seq(Nat) /\ Len(SubSeq(data, a + 1, a + s)) = s
        /\ \A i \in 1 .. s : SubSeq(data, a + 1, a + s)[i] = data[a + i]
    BY <1>5, Part, ZenonT(30)
  <1>7. Cells(pk[j].name) \in Seq(Nat)
    BY <1>2, CellsFacts
  <1>8. Item(pk, data, o, j) = [name |-> Cells(pk[j].name), data |-> SubSeq(data, a + 1, a + s)]
    BY DEF Item, a, s
  <1> DEFINE d == SubSeq(data, a + 1, a + s)
             e == [name |-> Cells(pk[j].name), data |-> d]
  <1> HIDE DEF d
  <1>9. e \in Items /\ e.name = Cells(pk[j].name) /\ e.data = d
    BY <1>6, <1>7 DEF Items, d
  <1>10. d = SubSeq(data, o[j] + 1, o[j] + pk[j].size) /\ Len(d) = s
         /\ \A k \in 1 .. s : d[k] = data[o[j] + k]
    BY <1>6 DEF d, a, s
  <1>11. Item(pk, data, o, j) = e /\ s = pk[j].size
    BY <1>8 DEF d, s
  <1> HIDE DEF e
  <1> QED
    BY <1>9, <1>10, <1>11

LEMMA ReadStep ==
  ASSUME NEW pk \in Seq(Entries), NEW ix \in Seq(Nat), NEW data \in Seq(Nat),
         NEW o, NEW p, NEW q, Offsets(pk, o, p, q), Len(ix) = p[Len(pk) + 1],
         NEW i \in 1 .. Len(pk), EntryAt(ix, p[i], pk[i].name, o[i], pk[i].size),
         NEW w, ReadFromEntry(pk, data, o, w[p[i + 1]], i + 1)
  PROVE  ReadFromEntry(pk, data, o, WalkAt(ix, data, w, p[i]), i)
  <1> DEFINE N == Len(pk)
             m == NameLen[pk[i].name]
             a == p[i]
             next == a + m + 3
  <1>1. N \in Nat /\ i + 1 \in 1 .. N + 1 /\ i \in 1 .. N + 1 /\ i \in Nat
    BY LenProperties
  <1>2. pk[i].name \in Names /\ pk[i].size \in Nat
    <2>1. pk[i] \in Entries
      BY ElementOfSeq
    <2> QED
      BY <2>1 DEF Entries
  <1>3. m \in Nat \ {0}
    BY <1>2, CellsFacts
  <1>4. a \in Nat /\ o[i] \in Nat
    BY <1>1 DEF Offsets
  <1>5. p[i + 1] = next
    BY DEF Offsets
  <1>6. next \in Nat /\ next <= Len(ix) /\ a < next /\ Len(ix) \in Nat
    <2>1. p[i + 1] <= p[N + 1]
      <3>1. N + 1 \in i + 1 .. N + 1
        BY <1>1
      <3> QED
        BY <1>1, <3>1, OffsetsAscend
    <2>2. Len(ix) \in Nat
      BY LenProperties
    <2>3. \A x, y \in Nat : y # 0 => x + y + 3 \in Nat /\ x < x + y + 3
      OBVIOUS
    <2> HIDE DEF a, m
    <2> QED
      BY <1>3, <1>4, <1>5, <2>1, <2>2, <2>3
  <1>7. /\ ix[a + 1] = m /\ ix[next - 1] = o[i] /\ ix[next] = pk[i].size
        /\ \A k \in 1 .. m : ix[a + 1 + k] = 10 + pk[i].name
    <2>1. next - 1 = a + m + 2
      BY <1>3, <1>4
    <2> QED
      BY <2>1 DEF EntryAt
  <1>8. SubSeq(ix, a + 2, a + 1 + m) = Cells(pk[i].name)
    <2>1. a + 1 \in Nat /\ a + 1 + m <= Len(ix) /\ (a + 1) + 1 = a + 2
      <3>1. \A x, y, z \in Nat : x + y + 3 <= z => x + 1 \in Nat /\ x + 1 + y <= z /\ (x + 1) + 1 = x + 2
        OBVIOUS
      <3> HIDE DEF a, m
      <3> QED
        BY <1>3, <1>4, <1>6, <3>1
    <2>2. Len(Cells(pk[i].name)) = m /\ Cells(pk[i].name) \in Seq(Nat)
          /\ \A k \in 1 .. m : ix[a + 1 + k] = Cells(pk[i].name)[k]
      BY <1>2, <1>7, CellsFacts
    <2> HIDE DEF a, m
    <2>3. SubSeq(ix, (a + 1) + 1, (a + 1) + Len(Cells(pk[i].name))) = Cells(pk[i].name)
      BY <2>1, <2>2, PartIs
    <2> QED
      BY <2>1, <2>2, <2>3
  <1> DEFINE r == WalkAt(ix, data, w, a)
             good(k) == \A j \in k .. N : NameLen[pk[j].name] < PathMax /\ InReach(pk, data, o, j)
             refuse == [ok |-> FALSE, list |-> <<>>]
  <1>9. CASE ~ (m < PathMax /\ InReach(pk, data, o, i))
    <2>1. r = refuse
      <3>1. a # Len(ix)
        BY <1>6
      <3>2. PathMax \in Nat
        BY XpakAssumption
      <3>3. CASE m >= PathMax
        BY <1>7, <3>1, <3>3 DEF WalkAt
      <3>4. CASE ~ InReach(pk, data, o, i)
        <4>1. o[i] + pk[i].size > Len(data)
          <5>1. o[i] + pk[i].size \in Nat /\ Len(data) \in Nat
            BY <1>2, <1>4, LenProperties
          <5> QED
            BY <3>4, <5>1 DEF InReach
        <4> HIDE DEF next, m, a
        <4> QED
          BY <1>7, <3>1, <4>1 DEF WalkAt, next
      <3> QED
        BY <1>3, <1>9, <3>2, <3>3, <3>4, SMTT(30)
    <2>2. <<>> \in Seq(Items) /\ Len(<<>>) = 0 /\ 1 .. 0 = {} /\ 0 <= N + 1 - i
      BY <1>1, EmptySeq
    <2>3. ~ good(i)
      BY <1>1, <1>9
    <2> HIDE DEF r, good
    <2> QED
      BY <2>1, <2>2, <2>3 DEF ReadFromEntry, r, good
  <1>10. CASE m < PathMax /\ InReach(pk, data, o, i)
    <2> DEFINE e == Item(pk, data, o, i)
    <2>1. PICK ok \in BOOLEAN, l \in Seq(Items) :
            /\ w[next] = [ok |-> ok, list |-> l] /\ Len(l) <= N + 1 - (i + 1)
            /\ \A j \in 1 .. Len(l) : /\ l[j] = Item(pk, data, o, i + 1 + j - 1)
                                      /\ InReach(pk, data, o, i + 1 + j - 1)
            /\ good(i + 1) => ok /\ Len(l) = N + 1 - (i + 1)
      BY <1>5 DEF ReadFromEntry
    <2>2. e \in Items
      <3>1. o \in [1 .. Len(pk) + 1 -> Nat]
        BY DEF Offsets
      <3> QED
        BY <1>10, <3>1, ItemFacts
    <2>3. r = [ok |-> ok, list |-> <<e>> \o l]
      <3>1. a # Len(ix)
        BY <1>6
      <3>2. ~ (m >= PathMax) /\ ~ (next > Len(ix)) /\ ~ (o[i] + pk[i].size > Len(data))
        <4>1. PathMax \in Nat
          BY XpakAssumption
        <4>2. o[i] + pk[i].size \in Nat /\ Len(data) \in Nat
          BY <1>2, <1>4, LenProperties, SMTT(30)
        <4> HIDE DEF next, m, a
        <4> QED
          BY <1>3, <1>6, <1>10, <4>1, <4>2, SMTT(30) DEF InReach
      <3>3. e = [name |-> SubSeq(ix, a + 2, a + 1 + m),
                 data |-> SubSeq(data, o[i] + 1, o[i] + pk[i].size)]
        BY <1>8 DEF Item
      <3> HIDE DEF e, m, a, next
      <3>4. r = [w[next] EXCEPT !.list = <<e>> \o @]
        BY <1>7, <3>1, <3>2, <3>3 DEF WalkAt, next
      <3> DEFINE z == w[next]
                 y == <<e>> \o l
      <3>5. r = [z EXCEPT !.list = <<e>> \o @] /\ z = [ok |-> ok, list |-> l]
        BY <2>1, <3>4
      <3> HIDE DEF z, r
      <3>6. r = [z EXCEPT !.list = <<e>> \o z.list] /\ z.list = l
        BY <3>5
      <3>7. r = [z EXCEPT !.list = y]
        BY <3>6
      <3> HIDE DEF y
      <3>8. r = [ok |-> ok, list |-> y]
        BY <3>5, <3>7
      <3> QED
        BY <3>8 DEF y
    <2> DEFINE nl == <<e>> \o l
    <2>4. /\ nl \in Seq(Items) /\ Len(nl) = 1 + Len(l) /\ nl[1] = e /\ Len(l) \in Nat
          /\ \A j \in 1 .. Len(l) : nl[1 + j] = l[j]
      <3> HIDE DEF e
      <3>1. <<e>> \in Seq(Items) /\ Len(<<e>>) = 1 /\ <<e>>[1] = e
        BY <2>2
      <3> QED
        BY <3>1, ConcatProperties, LenProperties
    <2> HIDE DEF nl
    <2>5. \A j \in 1 .. Len(nl) : nl[j] = Item(pk, data, o, i + j - 1) /\ InReach(pk, data, o, i + j - 1)
      <3> SUFFICES ASSUME NEW j \in 1 .. Len(nl)
                   PROVE  nl[j] = Item(pk, data, o, i + j - 1) /\ InReach(pk, data, o, i + j - 1)
        OBVIOUS
      <3>1. CASE j = 1
        <4>1. i + j - 1 = i
          BY <3>1
        <4> QED
          BY <1>10, <2>4, <3>1, <4>1
      <3>2. CASE j # 1
        <4>1. j - 1 \in 1 .. Len(l) /\ 1 + (j - 1) = j /\ i + 1 + (j - 1) - 1 = i + j - 1
          BY <1>1, <2>4, <3>2
        <4> QED
          BY <2>1, <2>4, <4>1
      <3> QED
        BY <3>1, <3>2
    <2>6. Len(nl) <= N + 1 - i
      BY <1>1, <2>1, <2>4
    <2>7. good(i) => ok /\ Len(nl) = N + 1 - i
      <3>1. good(i) => good(i + 1)
        BY <1>1
      <3>2. good(i + 1) => ok /\ Len(l) = N + 1 - (i + 1)
        BY <2>1
      <3> HIDE DEF good
      <3>3. Len(l) = N + 1 - (i + 1) => Len(nl) = N + 1 - i
        BY <1>1, <2>4, SMTT(30)
      <3> QED
        BY <3>1, <3>2, <3>3
    <2> HIDE DEF r, good
    <2>8. r = [ok |-> ok, list |-> nl]
      BY <2>3 DEF nl
    <2> QED
      BY <2>4, <2>5, <2>6, <2>7, <2>8 DEF ReadFromEntry, r, good
  <1> QED
    BY <1>9, <1>10

LEMMA IndexRead ==
  ASSUME NEW pk \in Seq(Entries), NEW ix \in Seq(Nat), NEW data \in Seq(Nat),
         NEW o, NEW p, NEW q, Offsets(pk, o, p, q), Len(ix) = p[Len(pk) + 1],
         \A i \in 1 .. Len(pk) : EntryAt(ix, p[i], pk[i].name, o[i], pk[i].size)
  PROVE  ReadFromEntry(pk, data, o, WalkIndex(ix, data), 1)
  <1> DEFINE N == Len(pk)
  <1>1. N \in Nat /\ Len(ix) \in Nat
    BY LenProperties
  <1>2. PICK w : Walks(ix, data, w) /\ WalkIndex(ix, data) = w[0]
    BY WalkDef
  <1>3. \A i \in 1 .. N + 1 : p[i] \in 0 .. Len(ix)
    <2> SUFFICES ASSUME NEW i \in 1 .. N + 1 PROVE p[i] \in 0 .. Len(ix)
      OBVIOUS
    <2>1. N + 1 \in i .. N + 1
      BY <1>1
    <2>2. p[i] \in Nat /\ p[i] <= p[N + 1]
      BY <2>1, OffsetsAscend DEF Offsets
    <2> QED
      BY <1>1, <2>2
  <1>4. \A i \in 1 .. N + 1 : w[p[i]] = WalkAt(ix, data, w, p[i])
    BY <1>2, <1>3 DEF Walks
  <1> DEFINE R(i) == ReadFromEntry(pk, data, o, w[p[i]], i)
             S == {k \in Nat : k <= N => R(N + 1 - k)}
  <1>5. 0 \in S
    <2>1. N + 1 - 0 = N + 1 /\ N + 1 \in 1 .. N + 1
      BY <1>1
    <2>2. w[p[N + 1]] = [ok |-> TRUE, list |-> <<>>]
      BY <1>4, <2>1 DEF WalkAt
    <2>3. <<>> \in Seq(Items) /\ Len(<<>>) = 0 /\ 1 .. 0 = {} /\ N + 1 - (N + 1) = 0 /\ 0 <= 0
      BY <1>1, EmptySeq
    <2>4. R(N + 1)
      BY <2>2, <2>3 DEF ReadFromEntry
    <2> QED
      BY <2>1, <2>4
  <1> HIDE DEF R
  <1>6. ASSUME NEW k \in S, k < N PROVE k + 1 \in S
    <2> DEFINE i == N + 1 - (k + 1)
    <2>1. k \in Nat /\ i \in 1 .. N /\ i \in 1 .. N + 1 /\ N + 1 - k = i + 1
      BY <1>1, <1>6
    <2>2. R(i + 1)
      BY <1>6, <2>1
    <2> HIDE DEF i
    <2>3. ReadFromEntry(pk, data, o, w[p[i + 1]], i + 1)
      BY <2>2 DEF R
    <2>4. ReadFromEntry(pk, data, o, WalkAt(ix, data, w, p[i]), i)
      BY <2>1, <2>3, ReadStep
    <2>5. R(i)
      BY <1>4, <2>1, <2>4 DEF R
    <2> QED
      BY <2>1, <2>5 DEF i
  <1>7. N \in S
    <2> HIDE DEF S
    <2>1. S \subseteq Nat
      BY DEF S
    <2>2. \A k \in 0 .. N : k \in S
      BY <1>1, <1>5, <1>6, <2>1, UpTo
    <2> QED
      BY <1>1, <2>2
  <1>8. N + 1 - N = 1 /\ N <= N
    BY <1>1
  <1>9. R(1)
    BY <1>7, <1>8
  <1> QED
    BY <1>2, <1>9 DEF R, Offsets

-----------------------------------------------------------------------------
(* What qxpak writes of the entries it is given.                           *)

Asked(sel) == {Cells(n) : n \in ToSet(sel)}
Wanted(sel, c) == sel = <<>> \/ c \in Asked(sel)

\* The callback with an entry.
Keep(sel, acc, e) ==
  IF sel # <<>> /\ e.name \notin acc.left THEN acc
  ELSE [left |-> acc.left \ {e.name},
        dir |-> [n \in DOMAIN acc.dir \cup {e.name} |->
                   IF n = e.name THEN e.data ELSE acc.dir[n]]]
Nothing(sel) == [left |-> Asked(sel), dir |-> <<>>]

LEMMA GreatestUpTo ==
  ASSUME NEW n \in Nat, NEW t \in SUBSET (1 .. n), n \in t
  PROVE  Max(t) = n
  <1>1. \A y \in t : n >= y
    OBVIOUS
  <1>2. \A x \in t : (\A y \in t : x >= y) => x = n
    OBVIOUS
  <1> QED
    BY <1>1, <1>2 DEF Max

\* The fold of the callback over the entries: what it has for each set of the
\* numbers from 1 to n.
Keeps(sel, list, n, g) ==
  /\ DOMAIN g = SUBSET (1 .. n)
  /\ \A t \in SUBSET (1 .. n) :
       g[t] = IF t = {} THEN Nothing(sel) ELSE Keep(sel, g[t \ {Max(t)}], list[Max(t)])

LEMMA KeepTable ==
  ASSUME NEW sel, NEW list, NEW n \in Nat
  PROVE  \E g : Keeps(sel, list, n, g)
  <1> DEFINE T(k, g) == Keeps(sel, list, k, g)
             S == {k \in Nat : \E g : T(k, g)}
  <1>1. 0 \in S
    <2> DEFINE g == [t \in SUBSET (1 .. 0) |-> Nothing(sel)]
    <2>1. \A t \in SUBSET (1 .. 0) : t = {}
      OBVIOUS
    <2>2. T(0, g)
      BY <2>1 DEF Keeps
    <2> QED
      BY <2>2
  <1>2. ASSUME NEW k \in S, k < n PROVE k + 1 \in S
    <2>1. PICK g : T(k, g)
      BY <1>2
    <2> DEFINE m == k + 1
               h == [t \in SUBSET (1 .. m) |->
                       IF m \in t THEN Keep(sel, g[t \ {m}], list[m]) ELSE g[t]]
    <2>2. k \in Nat /\ m \in Nat
      BY <1>2
    <2>3. ASSUME NEW t \in SUBSET (1 .. m)
          PROVE  h[t] = IF t = {} THEN Nothing(sel)
                        ELSE Keep(sel, h[t \ {Max(t)}], list[Max(t)])
      <3>1. h[t] = IF m \in t THEN Keep(sel, g[t \ {m}], list[m]) ELSE g[t]
        OBVIOUS
      <3>2. CASE m \in t
        <4>1. Max(t) = m
          BY <2>2, <3>2, GreatestUpTo
        <4>2. t \ {m} \in SUBSET (1 .. m) /\ m \notin t \ {m}
          OBVIOUS
        <4>3. h[t \ {m}] = g[t \ {m}]
          BY <4>2
        <4> HIDE DEF h
        <4> QED
          BY <3>1, <3>2, <4>1, <4>3
      <3>3. CASE m \notin t
        <4>1. t \in SUBSET (1 .. k)
          BY <2>2, <3>3
        <4>2. g[t] = IF t = {} THEN Nothing(sel) ELSE Keep(sel, g[t \ {Max(t)}], list[Max(t)])
          BY <2>1, <4>1 DEF Keeps
        <4>3. t \ {Max(t)} \in SUBSET (1 .. m) /\ m \notin t \ {Max(t)}
          BY <3>3
        <4>4. h[t \ {Max(t)}] = g[t \ {Max(t)}]
          BY <4>3
        <4> HIDE DEF h
        <4> QED
          BY <3>1, <3>3, <4>2, <4>4
      <3> QED
        BY <3>2, <3>3
    <2>4. DOMAIN h = SUBSET (1 .. m)
      OBVIOUS
    <2> HIDE DEF h
    <2>5. T(m, h)
      BY <2>3, <2>4 DEF Keeps
    <2> QED
      BY <2>2, <2>5
  <1>3. n \in S
    <2> HIDE DEF S
    <2>1. S \subseteq Nat
      BY DEF S
    <2>2. \A k \in 0 .. n : k \in S
      BY <1>1, <1>2, <2>1, UpTo
    <2> QED
      BY <2>2
  <1> QED
    BY <1>3

LEMMA CallbackDef ==
  ASSUME NEW sel, NEW S, NEW list \in Seq(S)
  PROVE  \E a : /\ a[0] = Nothing(sel) /\ Callback(sel, list) = a[Len(list)].dir
                /\ \A i \in 1 .. Len(list) : a[i] = Keep(sel, a[i - 1], list[i])
  <1> DEFINE n == Len(list)
             F(g) == [t \in SUBSET DOMAIN list |->
                        IF t = {} THEN Nothing(sel)
                        ELSE Keep(sel, g[t \ {Max(t)}], list[Max(t)])]
             iter == CHOOSE g : g = F(g)
  <1>1. n \in Nat /\ DOMAIN list = 1 .. n
    BY LenProperties
  <1>2. \E g : g = F(g)
    <2>1. PICK g : Keeps(sel, list, n, g)
      BY <1>1, KeepTable
    <2> DEFINE u == [t \in SUBSET (1 .. n) |-> g[t]]
    <2>2. \A t \in SUBSET (1 .. n) : u[t] = g[t] /\ u[t \ {Max(t)}] = g[t \ {Max(t)}]
      OBVIOUS
    <2>3. u = F(u)
      BY <1>1, <2>1, <2>2 DEF Keeps
    <2> QED
      BY <2>3
  <1>3. iter = F(iter)
    BY <1>2
  <1>4. Callback(sel, list) = iter[DOMAIN list].dir
    BY DEF Callback, FoldLeft, MapThenFoldSet, Keep, Nothing, Asked
  <1> HIDE DEF iter
  <1>5. \A t \in SUBSET (1 .. n) :
          iter[t] = IF t = {} THEN Nothing(sel)
                    ELSE Keep(sel, iter[t \ {Max(t)}], list[Max(t)])
    BY <1>1, <1>3
  <1> DEFINE a == [i \in 0 .. n |-> iter[1 .. i]]
  <1>6. \A i \in 0 .. n : a[i] = iter[1 .. i] /\ 1 .. i \in SUBSET (1 .. n)
    BY <1>1
  <1> HIDE DEF a
  <1>7. a[0] = Nothing(sel)
    <2>1. 1 .. 0 = {} /\ 0 \in 0 .. n
      BY <1>1
    <2> QED
      BY <1>5, <1>6, <2>1
  <1>8. ASSUME NEW i \in 1 .. n PROVE a[i] = Keep(sel, a[i - 1], list[i])
    <2>1. i \in 0 .. n /\ i - 1 \in 0 .. n /\ i \in Nat /\ i \in 1 .. i
      BY <1>1
    <2>2. Max(1 .. i) = i
      BY <2>1, GreatestUpTo
    <2>3. (1 .. i) \ {i} = 1 .. i - 1
      BY <2>1
    <2> QED
      BY <1>5, <1>6, <2>1, <2>2, <2>3
  <1>9. Callback(sel, list) = a[n].dir
    BY <1>1, <1>4, <1>6
  <1> QED
    BY <1>7, <1>8, <1>9

\* Entry j is the one its name stands for among the first m.
Stands(sel, list, m, j) ==
  /\ Wanted(sel, list[j].name)
  /\ \A k \in 1 .. m : list[k].name = list[j].name => IF sel = <<>> THEN k <= j ELSE j <= k

KeptAfter(sel, list, m, acc) ==
  /\ acc.left = Asked(sel) \ {list[j].name : j \in 1 .. m}
  /\ DOMAIN acc.dir = {list[j].name : j \in {k \in 1 .. m : Wanted(sel, list[k].name)}}
  /\ \A j \in 1 .. m : Stands(sel, list, m, j) => acc.dir[list[j].name] = list[j].data

LEMMA KeepStep ==
  ASSUME NEW sel, NEW list, NEW m \in Nat, NEW acc, KeptAfter(sel, list, m, acc)
  PROVE  KeptAfter(sel, list, m + 1, Keep(sel, acc, list[m + 1]))
  <1> DEFINE n == m + 1
             e == list[n]
             new == Keep(sel, acc, e)
  <1>1. 1 .. n = (1 .. m) \cup {n} /\ n \notin 1 .. m /\ \A j \in 1 .. m : j < n /\ j <= n /\ ~ (n <= j)
    OBVIOUS
  <1> HIDE DEF n
  <1>2. {list[j].name : j \in 1 .. n} = {list[j].name : j \in 1 .. m} \cup {e.name}
    BY <1>1
  <1>3. CASE sel # <<>> /\ e.name \notin acc.left
    <2>1. new = acc
      BY <1>3 DEF Keep
    <2>2. ~ Wanted(sel, e.name) \/ \E j \in 1 .. m : list[j].name = e.name
      BY <1>3 DEF KeptAfter, Wanted
    <2>3. new.left = Asked(sel) \ {list[j].name : j \in 1 .. n}
      BY <1>2, <1>3, <2>1 DEF KeptAfter
    <2>4. DOMAIN new.dir = {list[j].name : j \in {k \in 1 .. n : Wanted(sel, list[k].name)}}
      <3>1. DOMAIN new.dir = {list[j].name : j \in {k \in 1 .. m : Wanted(sel, list[k].name)}}
        BY <2>1 DEF KeptAfter
      <3>2. CASE ~ Wanted(sel, e.name)
        <4>1. {k \in 1 .. n : Wanted(sel, list[k].name)} = {k \in 1 .. m : Wanted(sel, list[k].name)}
          BY <1>1, <3>2
        <4> QED
          BY <3>1, <4>1
      <3>3. CASE \E j \in 1 .. m : list[j].name = e.name
        <4>1. PICK j \in 1 .. m : list[j].name = e.name
          BY <3>3
        <4> HIDE DEF new
        <4>2. \A x : (\E k \in 1 .. n : Wanted(sel, list[k].name) /\ x = list[k].name)
                     <=> (\E k \in 1 .. m : Wanted(sel, list[k].name) /\ x = list[k].name)
          BY <1>1, <4>1
        <4> QED
          BY <3>1, <4>2
      <3> QED
        BY <2>2, <3>2, <3>3
    <2>5. ASSUME NEW j \in 1 .. n, Stands(sel, list, n, j)
          PROVE  new.dir[list[j].name] = list[j].data
      <3>1. j # n
        BY <1>1, <1>3, <2>2, <2>5 DEF Stands
      <3>2. j \in 1 .. m /\ Stands(sel, list, m, j)
        BY <1>1, <2>5, <3>1 DEF Stands
      <3> QED
        BY <2>1, <3>2 DEF KeptAfter
    <2> HIDE DEF new
    <2>6. KeptAfter(sel, list, n, new)
      BY <2>3, <2>4, <2>5 DEF KeptAfter
    <2> QED
      BY <2>6 DEF new, n
  <1>4. CASE ~ (sel # <<>> /\ e.name \notin acc.left)
    <2>1. new = [left |-> acc.left \ {e.name},
                 dir |-> [c \in DOMAIN acc.dir \cup {e.name} |->
                            IF c = e.name THEN e.data ELSE acc.dir[c]]]
      BY <1>4 DEF Keep
    <2>2. /\ new.left = acc.left \ {e.name} /\ DOMAIN new.dir = DOMAIN acc.dir \cup {e.name}
          /\ new.dir[e.name] = e.data
          /\ \A c \in DOMAIN acc.dir : c # e.name => new.dir[c] = acc.dir[c]
      BY <2>1
    <2> HIDE DEF new
    <2>3. Wanted(sel, e.name) /\ (sel # <<>> => \A j \in 1 .. m : list[j].name # e.name)
      BY <1>4 DEF KeptAfter, Wanted
    <2>4. new.left = Asked(sel) \ {list[j].name : j \in 1 .. n}
      BY <1>2, <2>2 DEF KeptAfter
    <2>5. DOMAIN new.dir = {list[j].name : j \in {k \in 1 .. n : Wanted(sel, list[k].name)}}
      <3>1. {k \in 1 .. n : Wanted(sel, list[k].name)}
            = {k \in 1 .. m : Wanted(sel, list[k].name)} \cup {n}
        BY <1>1, <2>3
      <3>2. DOMAIN acc.dir = {list[j].name : j \in {k \in 1 .. m : Wanted(sel, list[k].name)}}
        BY DEF KeptAfter
      <3> QED
        BY <2>2, <3>1, <3>2
    <2>6. ASSUME NEW j \in 1 .. n, Stands(sel, list, n, j)
          PROVE  new.dir[list[j].name] = list[j].data
      <3>1. CASE j = n
        BY <2>2, <3>1
      <3>2. CASE j # n
        <4>1. j \in 1 .. m /\ Stands(sel, list, m, j)
          BY <1>1, <2>6, <3>2 DEF Stands
        <4>2. list[j].name # e.name
          <5>1. CASE sel = <<>>
            BY <1>1, <2>6, <4>1, <5>1 DEF Stands
          <5>2. CASE sel # <<>>
            BY <2>3, <4>1, <5>2
          <5> QED
            BY <5>1, <5>2
        <4>3. list[j].name \in DOMAIN acc.dir
          BY <4>1 DEF KeptAfter, Stands
        <4> QED
          BY <2>2, <4>1, <4>2, <4>3 DEF KeptAfter
      <3> QED
        BY <3>1, <3>2
    <2>7. KeptAfter(sel, list, n, new)
      BY <2>4, <2>5, <2>6 DEF KeptAfter
    <2> QED
      BY <2>7 DEF new, n
  <1> QED
    BY <1>3, <1>4

\* A name that is wanted is written, with the data of the entry it stands for.
LEMMA Written ==
  ASSUME NEW sel, NEW list \in Seq(Items)
  PROVE  /\ DOMAIN Callback(sel, list)
              = {list[j].name : j \in {k \in 1 .. Len(list) : Wanted(sel, list[k].name)}}
         /\ \A j \in 1 .. Len(list) :
              Stands(sel, list, Len(list), j) => Callback(sel, list)[list[j].name] = list[j].data
  <1> DEFINE n == Len(list)
  <1>1. PICK a : /\ a[0] = Nothing(sel) /\ Callback(sel, list) = a[n].dir
                 /\ \A i \in 1 .. n : a[i] = Keep(sel, a[i - 1], list[i])
    BY CallbackDef
  <1>2. n \in Nat
    BY LenProperties
  <1> DEFINE S == {k \in Nat : k <= n => KeptAfter(sel, list, k, a[k])}
  <1>3. 0 \in S
    <2>1. a[0].left = Asked(sel) /\ a[0].dir = <<>>
      BY <1>1 DEF Nothing
    <2>2. 1 .. 0 = {} /\ DOMAIN <<>> = {}
      OBVIOUS
    <2>3. KeptAfter(sel, list, 0, a[0])
      BY <2>1, <2>2 DEF KeptAfter
    <2> QED
      BY <2>3
  <1>4. ASSUME NEW k \in S, k < n PROVE k + 1 \in S
    <2>1. k \in Nat /\ k + 1 \in 1 .. n /\ (k + 1) - 1 = k /\ k <= n
      BY <1>2, <1>4
    <2>2. KeptAfter(sel, list, k, a[k])
      BY <2>1
    <2>3. a[k + 1] = Keep(sel, a[k], list[k + 1])
      BY <1>1, <2>1
    <2>4. KeptAfter(sel, list, k + 1, a[k + 1])
      BY <2>1, <2>2, <2>3, KeepStep
    <2> QED
      BY <2>1, <2>4
  <1>5. n \in S
    <2> HIDE DEF S
    <2>1. S \subseteq Nat
      BY DEF S
    <2>2. \A k \in 0 .. n : k \in S
      BY <1>2, <1>3, <1>4, <2>1, UpTo
    <2> QED
      BY <1>2, <2>2
  <1>6. KeptAfter(sel, list, n, a[n])
    BY <1>2, <1>5
  <1> QED
    BY <1>1, <1>6 DEF KeptAfter

-----------------------------------------------------------------------------
(* Reading an archive.                                                     *)

LEMMA OpenAtFront ==
  ASSUME NEW arc \in Seq(Nat), Len(arc) >= 3, arc[1] = PACK
  PROVE  XpakOpen(arc) = IF arc[2] # 0 /\ arc[3] # 0 THEN Some(0) ELSE None
  <1> DEFINE start ==
        CASE Len(arc) < StartLen -> None
          [] Len(arc) >= StartLen /\ arc[1] = PACK -> Some(0)
          [] OTHER -> IF arc[Len(arc)] = STOP /\ TailStart(arc) >= 0 /\ At(arc, TailStart(arc))
                      THEN Some(TailStart(arc)) ELSE None
  <1>1. start = Some(0)
    <2>1. Len(arc) \in Nat
      BY LenProperties
    <2>2. Len(arc) >= StartLen /\ ~ (Len(arc) < StartLen)
      BY <2>1 DEF StartLen
    <2> QED
      BY <2>2
  <1>2. Is(start) /\ start[1] = 0
    BY <1>1 DEF Is, Some, None
  <1>3. XpakOpen(arc) = IF Is(start) /\ arc[start[1] + 2] # 0 /\ arc[start[1] + 3] # 0
                        THEN start ELSE None
    BY DEF XpakOpen
  <1> HIDE DEF start
  <1>4. start[1] + 2 = 2 /\ start[1] + 3 = 3
    BY <1>2
  <1> QED
    BY <1>1, <1>2, <1>3, <1>4

LEMMA OpenAtEnd ==
  ASSUME NEW t \in Seq(Nat), NEW x \in Seq(Nat), Len(x) >= 3, x[1] = PACK,
         t # <<>>, t[1] # PACK, x[2] # 0, x[3] # 0
  PROVE  XpakOpen(t \o x \o <<Len(x), STOP>>) = Some(Len(t))
  <1> DEFINE arc == t \o x \o <<Len(x), STOP>>
             start ==
        CASE Len(arc) < StartLen -> None
          [] Len(arc) >= StartLen /\ arc[1] = PACK -> Some(0)
          [] OTHER -> IF arc[Len(arc)] = STOP /\ TailStart(arc) >= 0 /\ At(arc, TailStart(arc))
                      THEN Some(TailStart(arc)) ELSE None
  <1>1. /\ arc \in Seq(Nat) /\ Len(arc) = Len(t) + Len(x) + 2
        /\ arc[Len(arc) - 1] = Len(x) /\ arc[Len(arc)] = STOP
        /\ \A i \in 1 .. Len(t) : arc[i] = t[i]
        /\ \A i \in 1 .. Len(x) : arc[Len(t) + i] = x[i]
    BY JoinedFacts
  <1>2. Len(t) \in Nat \ {0} /\ Len(x) \in Nat
    BY EmptySeq, LenProperties
  <1>3. XpakOpen(arc) = IF Is(start) /\ arc[start[1] + 2] # 0 /\ arc[start[1] + 3] # 0
                        THEN start ELSE None
    BY DEF XpakOpen
  <1> HIDE DEF arc
  <1>4. arc[1] = t[1]
    <2>1. 1 \in 1 .. Len(t)
      BY <1>2
    <2> QED
      BY <1>1, <2>1
  <1>5. TailStart(arc) = Len(t)
    BY <1>1, <1>2 DEF TailStart, FooterLen
  <1>6. 1 \in 1 .. Len(x) /\ 2 \in 1 .. Len(x) /\ 3 \in 1 .. Len(x)
    BY <1>2
  <1>7. arc[Len(t) + 1] = PACK /\ arc[Len(t) + 2] # 0 /\ arc[Len(t) + 3] # 0
    BY <1>1, <1>6
  <1>8. At(arc, TailStart(arc)) /\ TailStart(arc) >= 0
    BY <1>1, <1>2, <1>5, <1>7 DEF At, StartLen
  <1>9. start = Some(Len(t))
    <2>1. ~ (Len(arc) < StartLen) /\ ~ (arc[1] = PACK)
      BY <1>1, <1>2, <1>4 DEF StartLen
    <2> QED
      BY <1>1, <1>5, <1>8, <2>1
  <1> HIDE DEF start
  <1>10. Is(start) /\ start[1] = Len(t)
    BY <1>9 DEF Is, Some, None
  <1>11. XpakOpen(arc) = Some(Len(t))
    BY <1>3, <1>7, <1>9, <1>10
  <1> QED
    BY <1>11 DEF arc

\* What is read of an archive in which an xpak begins after s cells.
LEMMA ProcessAt ==
  ASSUME NEW arc \in Seq(Nat), NEW s \in Nat, XpakOpen(arc) = Some(s), s + 3 <= Len(arc),
         NEW f \in Seq(Nat), NEW l \in Nat, arc[s + 2] = Len(f), arc[s + 3] = l,
         \A i \in 1 .. Len(f) : s + 3 + i <= Len(arc) => arc[s + 3 + i] = f[i]
  PROVE  Process(arc) =
           IF Len(f) >= IndexMax \/ s + 3 + Len(f) + l > Len(arc) THEN Refused
           ELSE WalkIndex(f, SubSeq(arc, s + 3 + Len(f) + 1, s + 3 + Len(f) + l))
  <1> DEFINE pos == XpakOpen(arc)[1] + StartLen
             ilen == arc[pos - 1]
             len == arc[pos]
             first == DataStart(arc, pos, ilen, len)
  <1>1. Is(XpakOpen(arc)) /\ XpakOpen(arc)[1] = s
    BY DEF Is, Some, None
  <1>2. pos = s + 3 /\ pos - 1 = s + 2
    BY <1>1 DEF StartLen
  <1>3. Process(arc) = IF ilen >= IndexMax \/ first + len > Len(arc) THEN Refused
                       ELSE WalkIndex(SubSeq(arc, pos + 1, pos + ilen), SubSeq(arc, first + 1, first + len))
    BY <1>1 DEF Process
  <1>4. ilen = Len(f) /\ len = l
    BY <1>2
  <1> HIDE DEF pos, ilen, len
  <1>5. first = s + 3 + Len(f)
    BY <1>2, <1>4 DEF DataStart
  <1>6. s + 3 + Len(f) + l > Len(arc) \/ SubSeq(arc, s + 3 + 1, s + 3 + Len(f)) = f
    <2>1. Len(arc) \in Nat /\ Len(f) \in Nat /\ s + 3 \in Nat
      BY LenProperties
    <2>2. CASE s + 3 + Len(f) + l <= Len(arc)
      <3>1. s + 3 + Len(f) <= Len(arc) /\ \A i \in 1 .. Len(f) : s + 3 + i <= Len(arc)
        BY <2>1, <2>2
      <3> DEFINE a == s + 3
      <3>2. a \in Nat /\ a + Len(f) <= Len(arc) /\ \A i \in 1 .. Len(f) : arc[a + i] = f[i]
        BY <2>1, <3>1
      <3> HIDE DEF a
      <3>3. SubSeq(arc, a + 1, a + Len(f)) = f
        BY <3>2, PartIs
      <3> QED
        BY <3>3 DEF a
    <2> QED
      BY <2>1, <2>2, SMTT(30)
  <1> QED
    BY <1>2, <1>3, <1>4, <1>5, <1>6

\* The first i files kept their sizes.
Steady(pk, i) == \A j \in 1 .. i : Len(pk[j].data) = pk[j].size

\* As long as every file kept its size its data is where the index says.
LEMMA OffsetsAgree ==
  ASSUME NEW pk \in Seq(Entries), NEW o, NEW p, NEW q, Offsets(pk, o, p, q),
         NEW i \in 1 .. Len(pk), Steady(pk, i)
  PROVE  \A j \in 1 .. i + 1 : o[j] = q[j]
  <1> DEFINE S == {k \in Nat : k <= i => o[k + 1] = q[k + 1]}
  <1>1. i \in Nat /\ \A j \in 1 .. i : j \in 1 .. Len(pk)
    BY LenProperties
  <1>2. 0 \in S
    BY DEF Offsets
  <1>3. ASSUME NEW k \in S, k < i PROVE k + 1 \in S
    <2>1. k \in Nat /\ k + 1 \in 1 .. i /\ k <= i
      BY <1>1, <1>3
    <2>2. o[k + 1] = q[k + 1]
      BY <2>1
    <2>3. o[k + 1 + 1] = o[k + 1] + pk[k + 1].size /\ q[k + 1 + 1] = q[k + 1] + Len(pk[k + 1].data)
      BY <1>1, <2>1 DEF Offsets
    <2>4. o[k + 1 + 1] = q[k + 1 + 1]
      BY <2>1, <2>2, <2>3 DEF Steady
    <2> QED
      BY <2>1, <2>4
  <1> HIDE DEF S
  <1>4. \A k \in 0 .. i : k \in S
    <2>1. S \subseteq Nat
      BY DEF S
    <2> QED
      BY <1>1, <1>2, <1>3, <2>1, UpTo
  <1>5. ASSUME NEW j \in 1 .. i + 1 PROVE o[j] = q[j]
    <2>1. j - 1 \in 0 .. i /\ (j - 1) + 1 = j /\ j - 1 <= i
      BY <1>1
    <2>2. j - 1 \in S
      BY <1>4, <2>1
    <2> QED
      BY <2>1, <2>2 DEF S
  <1> QED
    BY <1>5

\* Where there is data at all it is what was packed.
Agrees(data, d) == \A k \in 1 .. Len(data) : k <= Len(d) => data[k] = d[k]

LEMMA ItemRight ==
  ASSUME NEW pk \in Seq(Entries), NEW f, NEW d \in Seq(Nat), NEW l, NEW o, NEW p, NEW q,
         Laid(pk, f, d, l, o, p, q),
         NEW i \in 1 .. Len(pk), Steady(pk, i),
         NEW data \in Seq(Nat), Agrees(data, d),
         InReach(pk, data, o, i)
  PROVE  Item(pk, data, o, i).data = pk[i].data
  <1> DEFINE e == Item(pk, data, o, i)
             z == pk[i].data
  <1>1. Offsets(pk, o, p, q) /\ Len(d) = q[Len(pk) + 1]
    BY DEF Laid
  <1>2. Len(pk) \in Nat /\ i \in 1 .. i + 1 /\ i \in 1 .. i /\ i + 1 \in 1 .. Len(pk) + 1
        /\ i \in 1 .. Len(pk) + 1 /\ Len(pk) + 1 \in i + 1 .. Len(pk) + 1
    BY LenProperties
  <1>3. z \in Seq(Nat) /\ Len(z) = pk[i].size
    <2>1. pk[i] \in Entries
      BY ElementOfSeq
    <2> QED
      BY <1>2, <2>1 DEF Entries, Steady
  <1>4. /\ e \in Items /\ Len(e.data) = pk[i].size
        /\ \A k \in 1 .. pk[i].size : e.data[k] = data[o[i] + k]
    <2>1. o \in [1 .. Len(pk) + 1 -> Nat]
      BY <1>1 DEF Offsets
    <2> QED
      BY <2>1, ItemFacts
  <1>5. o[i] = q[i] /\ o[i] \in Nat
    <2>1. \A j \in 1 .. i + 1 : o[j] = q[j]
      BY <1>1, OffsetsAgree
    <2>2. o[i] \in Nat
      BY <1>1, <1>2 DEF Offsets
    <2> QED
      BY <1>2, <2>1, <2>2
  <1>6. q[i] + Len(z) <= Len(d)
    <2>1. q[i + 1] = q[i] + Len(z)
      BY <1>1 DEF Offsets
    <2>2. q[i + 1] <= q[Len(pk) + 1]
      BY <1>1, <1>2, OffsetsAscend
    <2> QED
      BY <1>1, <2>1, <2>2
  <1>7. \A k \in 1 .. Len(z) : d[q[i] + k] = z[k]
    BY DEF Laid
  <1> HIDE DEF e, z
  <1>8. ASSUME NEW k \in 1 .. Len(z) PROVE e.data[k] = z[k]
    <2>1. Len(z) \in Nat /\ Len(d) \in Nat /\ Len(data) \in Nat /\ k \in Nat
      BY <1>3, LenProperties
    <2>2. o[i] + k \in 1 .. Len(data) /\ o[i] + k <= Len(d)
      <3> DEFINE a == o[i]
                 m == Len(z)
      <3>1. a \in Nat /\ a + m <= Len(data) /\ a + m <= Len(d)
        BY <1>3, <1>5, <1>6 DEF InReach
      <3>2. m \in Nat /\ k \in 1 .. m
        BY <2>1
      <3> HIDE DEF a, m
      <3>3. a + k \in 1 .. Len(data) /\ a + k <= Len(d)
        BY <2>1, <3>1, <3>2
      <3> QED
        BY <3>3 DEF a
    <2>3. e.data[k] = data[o[i] + k]
      BY <1>3, <1>4
    <2>4. data[o[i] + k] = d[o[i] + k]
      BY <2>2 DEF Agrees
    <2> QED
      BY <1>5, <1>7, <2>3, <2>4
  <1>9. e.data \in Seq(Nat) /\ Len(e.data) = Len(z)
    BY <1>3, <1>4 DEF Items
  <1>10. e.data = z
    BY <1>3, <1>8, <1>9, SeqEqual
  <1> QED
    BY <1>10 DEF e, z

\* Different names have different cells.
LEMMA NamesDiffer ==
  ASSUME NEW n \in Names, NEW m \in Names, Cells(n) = Cells(m)
  PROVE  n = m
  <1>1. NameLen[n] = NameLen[m] /\ NameLen[n] \in Nat \ {0}
    BY CellsFacts
  <1>2. 1 \in 1 .. NameLen[n] /\ 1 \in 1 .. NameLen[m]
    BY <1>1
  <1>3. 10 + n = 10 + m
    BY <1>2, CellsFacts
  <1>4. n \in Nat /\ m \in Nat
    BY XpakAssumption
  <1> QED
    BY <1>3, <1>4

\* Whether its end was lost or not, what was written begins as the archive does.
LEMMA OutFacts ==
  ASSUME NEW f \in Seq(Nat), NEW d \in Seq(Nat), NEW l \in Nat,
         out = Arch(f, d, l) \/ out \in CutOff(Arch(f, d, l))
  PROVE  /\ out \in Seq(Nat) /\ Len(out) <= Len(f) + Len(d) + 4
         /\ \A i \in 1 .. Len(out) : out[i] = Arch(f, d, l)[i]
  <1> DEFINE A == Arch(f, d, l)
  <1>1. A \in Seq(Nat) /\ Len(A) = Len(f) + Len(d) + 4 /\ Len(A) \in Nat
    <2>1. IsArch(A, f, d, l)
      BY ArchFacts
    <2> HIDE DEF A
    <2> QED
      BY <2>1, LenProperties DEF IsArch
  <1> HIDE DEF A
  <1>2. CASE out = A
    BY <1>1, <1>2 DEF A
  <1>3. CASE out \in CutOff(A)
    <2>1. out \in Seq(Nat) /\ Len(out) < Len(A) /\ \A i \in 1 .. Len(out) : out[i] = A[i]
      BY <1>1, <1>3, CutFacts
    <2>2. Len(out) \in Nat
      BY <2>1, LenProperties
    <2> QED
      BY <1>1, <2>1, <2>2 DEF A
  <1> QED
    BY <1>2, <1>3 DEF A

\* Reading the xpak alone: refused, or a walk over the index that was packed.
LEMMA ReadAlone ==
  ASSUME NEW f \in Seq(Nat), NEW d \in Seq(Nat), NEW l \in Nat,
         out = Arch(f, d, l) \/ out \in CutOff(Arch(f, d, l))
  PROVE  \/ Process(out) = Refused
         \/ \E data \in Seq(Nat) :
              Process(out) = WalkIndex(f, data) /\ Len(data) = l /\ Agrees(data, d)
  <1> SUFFICES ASSUME Process(out) # Refused
               PROVE  \E data \in Seq(Nat) :
                        Process(out) = WalkIndex(f, data) /\ Len(data) = l /\ Agrees(data, d)
    OBVIOUS
  <1> DEFINE A == Arch(f, d, l)
  <1>1. /\ A[1] = PACK /\ A[2] = Len(f) /\ A[3] = l
        /\ \A i \in 1 .. Len(f) : A[3 + i] = f[i]
        /\ \A i \in 1 .. Len(d) : A[3 + Len(f) + i] = d[i]
    <2>1. IsArch(A, f, d, l)
      BY ArchFacts
    <2> HIDE DEF A
    <2> QED
      BY <2>1, LenProperties DEF IsArch
  <1>2. out \in Seq(Nat) /\ \A i \in 1 .. Len(out) : out[i] = A[i]
    BY OutFacts
  <1> HIDE DEF A
  <1>3. Len(out) \in Nat /\ Len(f) \in Nat /\ Len(d) \in Nat
    BY <1>2, LenProperties
  <1>4. XpakOpen(out) # None
    BY DEF Process, Is
  <1>5. Len(out) >= 3
    <2> SUFFICES ASSUME Len(out) < StartLen PROVE FALSE
      BY <1>3 DEF StartLen
    <2> DEFINE start ==
          CASE Len(out) < StartLen -> None
            [] Len(out) >= StartLen /\ out[1] = PACK -> Some(0)
            [] OTHER -> IF out[Len(out)] = STOP /\ TailStart(out) >= 0 /\ At(out, TailStart(out))
                        THEN Some(TailStart(out)) ELSE None
    <2>a. XpakOpen(out) = IF Is(start) /\ out[start[1] + 2] # 0 /\ out[start[1] + 3] # 0
                          THEN start ELSE None
      BY DEF XpakOpen
    <2>b. start = None
      <3>1. ~ (Len(out) >= StartLen)
        BY <1>3 DEF StartLen
      <3> QED
        BY <3>1
    <2> HIDE DEF start
    <2>1. XpakOpen(out) = None
      BY <2>a, <2>b DEF Is
    <2> QED
      BY <1>4, <2>1
  <1>6. 1 \in 1 .. Len(out) /\ 2 \in 1 .. Len(out) /\ 3 \in 1 .. Len(out)
    BY <1>3, <1>5
  <1>7. out[1] = PACK /\ out[2] = Len(f) /\ out[3] = l
    BY <1>1, <1>2, <1>6
  <1>8. XpakOpen(out) = Some(0)
    BY <1>2, <1>4, <1>5, <1>7, OpenAtFront
  <1>9. Process(out) =
          IF Len(f) >= IndexMax \/ 0 + 3 + Len(f) + l > Len(out) THEN Refused
          ELSE WalkIndex(f, SubSeq(out, 0 + 3 + Len(f) + 1, 0 + 3 + Len(f) + l))
    <2>1. 0 \in Nat /\ 0 + 3 <= Len(out) /\ out[0 + 2] = Len(f) /\ out[0 + 3] = l
      BY <1>5, <1>7
    <2>2. ASSUME NEW i \in 1 .. Len(f), 0 + 3 + i <= Len(out) PROVE out[0 + 3 + i] = f[i]
      <3>1. 0 + 3 + i = 3 + i /\ 3 + i \in 1 .. Len(out)
        BY <1>3, <2>2
      <3> QED
        BY <1>1, <1>2, <3>1
    <2> QED
      BY <1>2, <1>8, <2>1, <2>2, ProcessAt
  <1> DEFINE a == 3 + Len(f)
             data == SubSeq(out, a + 1, a + l)
  <1>10. Process(out) = WalkIndex(f, data) /\ a + l <= Len(out) /\ a \in Nat /\ a + l \in Nat
    <2>1. 0 + 3 + Len(f) = a /\ 0 + 3 + Len(f) + l = a + l
      BY <1>3
    <2>2. ~ (Len(f) >= IndexMax \/ 0 + 3 + Len(f) + l > Len(out))
      BY <1>9
    <2> QED
      BY <1>3, <1>9, <2>1, <2>2
  <1>11. a <= a + l /\ (a + l) - a = l
    BY <1>10
  <1> HIDE DEF a
  <1>12. data \in Seq(Nat) /\ Len(data) = l /\ \A k \in 1 .. l : data[k] = out[a + k]
    BY <1>2, <1>10, <1>11, Part
  <1> HIDE DEF data
  <1>13. ASSUME NEW k \in 1 .. Len(data), k <= Len(d) PROVE data[k] = d[k]
    <2>1. a + k \in 1 .. Len(out) /\ k \in 1 .. Len(d) /\ k \in 1 .. l
      BY <1>3, <1>10, <1>12, <1>13
    <2>2. A[a + k] = d[k]
      BY <1>1, <2>1 DEF a
    <2> QED
      BY <1>2, <1>12, <2>1, <2>2
  <1> QED
    BY <1>10, <1>12, <1>13 DEF data, Agrees

\* Who carries a name.
LEMMA NamedFacts ==
  ASSUME packed \in Seq(Entries)
  PROVE  \A n : Named(n) = {i \in 1 .. Len(packed) : packed[i].name = n}
  <1>1. DOMAIN packed = 1 .. Len(packed)
    BY LenProperties
  <1> QED
    BY <1>1 DEF Named

LEMMA InvEarlier == XInv => EarlierKept
  <1> SUFFICES ASSUME XInv, Extracted, ~ made[1].tail,
                      NEW i \in DOMAIN packed,
                      \A j \in 1 .. i : Len(packed[j].data) = packed[j].size,
                      Named(packed[i].name) = {i},
                      Cells(packed[i].name) \in DOMAIN made[1].dir
               PROVE  made[1].dir[Cells(packed[i].name)] = packed[i].data
    BY DEF EarlierKept
  <1>1. PICK sel \in Selections, tail \in BOOLEAN : made = ReadFrom(sel, tail)
    BY DEF XInv, MadeInv, SplitInto, Extracted, Is, None, Some
  <1>2. pc = "done"
    BY DEF XInv, Waiting, Extracted, Is
  <1>3. PICK f \in Seq(Nat), d \in Seq(Nat), l \in Nat :
          Layout(packed, f, d, l) /\ (out = Arch(f, d, l) \/ out \in CutOff(Arch(f, d, l)))
    BY <1>2 DEF XInv, OutInv
  <1>4. PICK o, p, q : Laid(packed, f, d, l, o, p, q)
    BY <1>3 DEF Layout
  <1>5. packed \in Seq(Entries) /\ i \in 1 .. Len(packed) /\ Steady(packed, i)
    BY <1>3, LenProperties DEF Layout, Steady
  <1> DEFINE r == Process(out)
             n == packed[i].name
  <1>6. made[1].dir = Callback(sel, r.list)
    <2>1. \A x : Some(x)[1] = x
      BY DEF Some
    <2> DEFINE g == [by |-> "qxpak", sel |-> sel, tail |-> tail,
                     ok |-> Process(IF tail THEN tbz2[1] ELSE out).ok,
                     dir |-> Callback(sel, Process(IF tail THEN tbz2[1] ELSE out).list)]
    <2>2. made[1] = g
      BY <1>1, <2>1 DEF ReadFrom
    <2>3. g.tail = tail /\ g.dir = Callback(sel, Process(IF tail THEN tbz2[1] ELSE out).list)
      OBVIOUS
    <2> HIDE DEF g
    <2>4. tail = FALSE
      BY <2>2, <2>3
    <2> QED
      BY <2>2, <2>3, <2>4
  <1>7. r # Refused
    <2> SUFFICES ASSUME r = Refused PROVE FALSE
      OBVIOUS
    <2>1. r.list = <<>>
      BY DEF Refused
    <2> HIDE DEF r
    <2>2. <<>> \in Seq(Items) /\ Len(<<>>) = 0 /\ 1 .. 0 = {}
      BY EmptySeq
    <2>3. DOMAIN Callback(sel, <<>>)
            = {<<>>[j].name : j \in {k \in 1 .. Len(<<>>) : Wanted(sel, <<>>[k].name)}}
      BY <2>2, Written
    <2>4. DOMAIN Callback(sel, <<>>) = {}
      BY <2>2, <2>3
    <2> QED
      BY <1>6, <2>1, <2>4
  <1>8. PICK data \in Seq(Nat) : r = WalkIndex(f, data) /\ Agrees(data, d)
    BY <1>3, <1>7, ReadAlone
  <1> HIDE DEF r
  <1>9. ReadFromEntry(packed, data, o, r, 1)
    <2>1. Offsets(packed, o, p, q) /\ Len(f) = p[Len(packed) + 1]
          /\ \A j \in 1 .. Len(packed) : EntryAt(f, p[j], packed[j].name, o[j], packed[j].size)
      BY <1>4 DEF Laid
    <2> QED
      BY <1>5, <1>8, <2>1, IndexRead
  <1> DEFINE list == r.list
  <1>10. /\ list \in Seq(Items) /\ Len(list) <= Len(packed) /\ Len(list) \in Nat
         /\ \A j \in 1 .. Len(list) : list[j] = Item(packed, data, o, j) /\ InReach(packed, data, o, j)
    <2>1. PICK ok \in BOOLEAN, s \in Seq(Items) :
            /\ r = [ok |-> ok, list |-> s] /\ Len(s) <= Len(packed) + 1 - 1
            /\ \A j \in 1 .. Len(s) : /\ s[j] = Item(packed, data, o, 1 + j - 1)
                                      /\ InReach(packed, data, o, 1 + j - 1)
      BY <1>9 DEF ReadFromEntry
    <2>2. list = s
      BY <2>1
    <2>3. Len(packed) \in Nat /\ Len(s) \in Nat
      BY <1>5, LenProperties
    <2>4. \A j \in 1 .. Len(s) : 1 + j - 1 = j
      OBVIOUS
    <2>5. Len(packed) + 1 - 1 = Len(packed)
      BY <2>3
    <2> HIDE DEF list
    <2> QED
      BY <2>1, <2>2, <2>3, <2>4, <2>5
  <1> HIDE DEF list
  <1>11. \A j \in 1 .. Len(list) : list[j].name = Cells(n) => j = i
    <2> SUFFICES ASSUME NEW j \in 1 .. Len(list), list[j].name = Cells(n) PROVE j = i
      OBVIOUS
    <2>1. j \in 1 .. Len(packed)
      BY <1>5, <1>10, LenProperties
    <2>2. packed[j] \in Entries /\ packed[i] \in Entries
      BY <1>5, <2>1, ElementOfSeq
    <2>3. packed[j].name \in Names /\ n \in Names
      BY <2>2 DEF Entries
    <2>4. list[j].name = Cells(packed[j].name)
      <3>1. Item(packed, data, o, j).name = Cells(packed[j].name)
        BY DEF Item
      <3> QED
        BY <1>10, <3>1
    <2>5. packed[j].name = n
      BY <2>3, <2>4, NamesDiffer
    <2>6. j \in Named(n)
      BY <1>5, <2>1, <2>5, NamedFacts
    <2> QED
      BY <2>6
  <1>12. /\ DOMAIN Callback(sel, list)
              = {list[j].name : j \in {k \in 1 .. Len(list) : Wanted(sel, list[k].name)}}
         /\ \A j \in 1 .. Len(list) :
              Stands(sel, list, Len(list), j) => Callback(sel, list)[list[j].name] = list[j].data
    BY <1>10, Written
  <1>13. PICK j \in 1 .. Len(list) : Wanted(sel, list[j].name) /\ list[j].name = Cells(n)
    BY <1>6, <1>12 DEF list
  <1>14. i \in 1 .. Len(list) /\ list[i].name = Cells(n) /\ Wanted(sel, list[i].name)
    BY <1>11, <1>13
  <1>15. Stands(sel, list, Len(list), i)
    <2>1. \A k \in 1 .. Len(list) : list[k].name = list[i].name => k = i
      BY <1>11, <1>14
    <2>2. i <= i
      BY <1>10, <1>14
    <2> QED
      BY <1>14, <2>1, <2>2 DEF Stands
  <1>16. Callback(sel, list)[Cells(n)] = list[i].data
    BY <1>12, <1>14, <1>15
  <1>17. list[i].data = packed[i].data
    <2>1. list[i] = Item(packed, data, o, i) /\ InReach(packed, data, o, i)
      BY <1>10, <1>14
    <2>2. Item(packed, data, o, i).data = packed[i].data
      BY <1>3, <1>4, <1>5, <1>8, <2>1, ItemRight
    <2> QED
      BY <2>1, <2>2
  <1> QED
    BY <1>6, <1>16, <1>17 DEF list

\* What a file that changed while it was packed, or a full disk, damages comes
\* behind it: what was packed before it is read from the xpak as it was, or not
\* at all, also of an archive whose end was lost.
THEOREM DamageStaysBehind == Spec => []EarlierKept
BY ArchiveInvariant, InvEarlier, PTL

-----------------------------------------------------------------------------
(* An archive that was packed whole.                                       *)

Total(pk) == FoldLeft(LAMBDA s, e : s + NameLen[e.name] + 3, 0, pk)

\* The fold of the lengths: what it has for each set of the numbers from 1 to n.
Sums(pk, n, g) ==
  /\ DOMAIN g = SUBSET (1 .. n)
  /\ \A t \in SUBSET (1 .. n) :
       g[t] = IF t = {} THEN 0 ELSE g[t \ {Max(t)}] + NameLen[pk[Max(t)].name] + 3

LEMMA SumTable ==
  ASSUME NEW pk, NEW n \in Nat
  PROVE  \E g : Sums(pk, n, g)
  <1> DEFINE W(i) == NameLen[pk[i].name]
             S == {k \in Nat : \E g : Sums(pk, k, g)}
  <1>1. 0 \in S
    <2> DEFINE g == [t \in SUBSET (1 .. 0) |-> 0]
    <2>1. \A t \in SUBSET (1 .. 0) : t = {}
      OBVIOUS
    <2>2. Sums(pk, 0, g)
      BY <2>1 DEF Sums
    <2> QED
      BY <2>2
  <1>2. ASSUME NEW k \in S, k < n PROVE k + 1 \in S
    <2>1. PICK g : Sums(pk, k, g)
      BY <1>2
    <2> DEFINE m == k + 1
               h == [t \in SUBSET (1 .. m) |-> IF m \in t THEN g[t \ {m}] + W(m) + 3 ELSE g[t]]
    <2>2. k \in Nat /\ m \in Nat
      BY <1>2
    <2>3. ASSUME NEW t \in SUBSET (1 .. m)
          PROVE  h[t] = IF t = {} THEN 0 ELSE h[t \ {Max(t)}] + W(Max(t)) + 3
      <3>1. h[t] = IF m \in t THEN g[t \ {m}] + W(m) + 3 ELSE g[t]
        OBVIOUS
      <3>2. CASE m \in t
        <4>1. Max(t) = m
          BY <2>2, <3>2, GreatestUpTo
        <4>2. t \ {m} \in SUBSET (1 .. m) /\ m \notin t \ {m}
          OBVIOUS
        <4>3. h[t \ {m}] = g[t \ {m}]
          BY <4>2
        <4> HIDE DEF h
        <4> QED
          BY <3>1, <3>2, <4>1, <4>3
      <3>3. CASE m \notin t
        <4>1. t \in SUBSET (1 .. k)
          BY <2>2, <3>3
        <4>2. g[t] = IF t = {} THEN 0 ELSE g[t \ {Max(t)}] + W(Max(t)) + 3
          BY <2>1, <4>1 DEF Sums
        <4>3. t \ {Max(t)} \in SUBSET (1 .. m) /\ m \notin t \ {Max(t)}
          BY <3>3
        <4>4. h[t \ {Max(t)}] = g[t \ {Max(t)}]
          BY <4>3
        <4> HIDE DEF h
        <4> QED
          BY <3>1, <3>3, <4>2, <4>4
      <3> QED
        BY <3>2, <3>3
    <2>4. DOMAIN h = SUBSET (1 .. m)
      OBVIOUS
    <2> HIDE DEF h
    <2>5. Sums(pk, m, h)
      BY <2>3, <2>4 DEF Sums
    <2> QED
      BY <2>2, <2>5
  <1>3. n \in S
    <2> HIDE DEF S
    <2>1. S \subseteq Nat
      BY DEF S
    <2>2. \A k \in 0 .. n : k \in S
      BY <1>1, <1>2, <2>1, UpTo
    <2> QED
      BY <2>2
  <1> QED
    BY <1>3

\* The lengths of the entries add up to where the index ends.
LEMMA TotalIs ==
  ASSUME NEW pk \in Seq(Entries), NEW o, NEW p, NEW q, Offsets(pk, o, p, q)
  PROVE  Total(pk) = p[Len(pk) + 1]
  <1> DEFINE n == Len(pk)
             F(g) == [t \in SUBSET DOMAIN pk |->
                        IF t = {} THEN 0 ELSE g[t \ {Max(t)}] + NameLen[pk[Max(t)].name] + 3]
             iter == CHOOSE g : g = F(g)
  <1>1. n \in Nat /\ DOMAIN pk = 1 .. n
    BY LenProperties
  <1>2. \E g : g = F(g)
    <2>1. PICK g : Sums(pk, n, g)
      BY <1>1, SumTable
    <2> DEFINE u == [t \in SUBSET (1 .. n) |-> g[t]]
    <2>2. \A t \in SUBSET (1 .. n) : u[t] = g[t] /\ u[t \ {Max(t)}] = g[t \ {Max(t)}]
      OBVIOUS
    <2>3. u = F(u)
      BY <1>1, <2>1, <2>2 DEF Sums
    <2> QED
      BY <2>3
  <1>3. iter = F(iter)
    BY <1>2
  <1>4. Total(pk) = iter[DOMAIN pk]
    BY DEF Total, FoldLeft, MapThenFoldSet
  <1> HIDE DEF iter
  <1>5. \A t \in SUBSET (1 .. n) :
          iter[t] = IF t = {} THEN 0 ELSE iter[t \ {Max(t)}] + NameLen[pk[Max(t)].name] + 3
    BY <1>1, <1>3
  <1> DEFINE S == {k \in Nat : k <= n => iter[1 .. k] = p[k + 1]}
  <1>6. 0 \in S
    <2>1. 1 .. 0 = {} /\ 0 + 1 = 1
      OBVIOUS
    <2>2. iter[{}] = 0
      BY <1>5
    <2> QED
      BY <2>1, <2>2 DEF Offsets
  <1>7. ASSUME NEW k \in S, k < n PROVE k + 1 \in S
    <2> DEFINE m == k + 1
    <2>1. k \in Nat /\ m \in Nat /\ m \in 1 .. m /\ m \in 1 .. n /\ 1 .. m \in SUBSET (1 .. n)
      BY <1>1, <1>7
    <2>2. Max(1 .. m) = m
      BY <2>1, GreatestUpTo
    <2>3. (1 .. m) \ {m} = 1 .. k
      BY <2>1
    <2>4. iter[1 .. k] = p[m]
      BY <1>7, <2>1
    <2>5. p[m + 1] = p[m] + NameLen[pk[m].name] + 3
      BY <2>1 DEF Offsets
    <2> HIDE DEF m
    <2>6. iter[1 .. m] = iter[(1 .. m) \ {m}] + NameLen[pk[m].name] + 3
      BY <1>5, <2>1, <2>2
    <2>7. iter[1 .. m] = p[m + 1]
      BY <2>3, <2>4, <2>5, <2>6
    <2> QED
      BY <2>1, <2>7 DEF m
  <1>8. n \in S
    <2> HIDE DEF S
    <2>1. S \subseteq Nat
      BY DEF S
    <2>2. \A k \in 0 .. n : k \in S
      BY <1>1, <1>6, <1>7, <2>1, UpTo
    <2> QED
      BY <1>1, <2>2
  <1> QED
    BY <1>1, <1>4, <1>8

LEMMA ReadWhole ==
  ASSUME NEW arc \in Seq(Nat), NEW s \in Nat, XpakOpen(arc) = Some(s),
         NEW f \in Seq(Nat), NEW d \in Seq(Nat), NEW A, IsArch(A, f, d, Len(d)),
         s + Len(A) <= Len(arc), \A i \in 1 .. Len(A) : arc[s + i] = A[i],
         Len(f) < IndexMax
  PROVE  Process(arc) = WalkIndex(f, d)
  <1> DEFINE n == Len(f)
             l == Len(d)
             a == s + 3 + n
  <1>1. n \in Nat /\ l \in Nat /\ Len(arc) \in Nat /\ IndexMax \in Nat
    BY LenProperties, XpakAssumption
  <1>2. /\ Len(A) = n + l + 4 /\ A[2] = n /\ A[3] = l
        /\ \A i \in 1 .. n : A[3 + i] = f[i]
        /\ \A i \in 1 .. l : A[3 + n + i] = d[i]
    BY DEF IsArch
  <1>3. arc[s + 2] = n /\ arc[s + 3] = l
    <2>1. 2 \in 1 .. Len(A) /\ 3 \in 1 .. Len(A)
      BY <1>1, <1>2
    <2> QED
      BY <1>2, <2>1
  <1>4. ASSUME NEW i \in 1 .. n PROVE arc[s + 3 + i] = f[i]
    <2>1. 3 + i \in 1 .. Len(A) /\ s + (3 + i) = s + 3 + i
      <3> HIDE DEF n, l
      <3> QED
        BY <1>1, <1>2
    <2>2. arc[s + (3 + i)] = A[3 + i]
      BY <2>1
    <2> QED
      BY <1>2, <2>1, <2>2
  <1>5. ASSUME NEW i \in 1 .. l PROVE arc[a + i] = d[i]
    <2>1. 3 + n + i \in 1 .. Len(A) /\ s + (3 + n + i) = a + i
      <3> HIDE DEF n, l
      <3> QED
        BY <1>1, <1>2
    <2>2. arc[s + (3 + n + i)] = A[3 + n + i]
      BY <2>1
    <2> QED
      BY <1>2, <2>1, <2>2
  <1>6. s + 3 <= Len(arc) /\ a \in Nat /\ a + l <= Len(arc)
    <2> DEFINE y == Len(arc)
    <2>1. s + (n + l + 4) <= y /\ y \in Nat
      BY <1>1, <1>2
    <2> HIDE DEF n, l, y
    <2>2. s + 3 <= y /\ a \in Nat /\ a + l <= y
      BY <1>1, <2>1
    <2> QED
      BY <2>2 DEF y
  <1>7. Process(arc) =
          IF n >= IndexMax \/ s + 3 + n + l > Len(arc) THEN Refused
          ELSE WalkIndex(f, SubSeq(arc, s + 3 + n + 1, s + 3 + n + l))
    BY <1>1, <1>3, <1>4, <1>6, ProcessAt, ZenonT(30)
  <1>8. SubSeq(arc, a + 1, a + l) = d
    <2> HIDE DEF a
    <2> QED
      BY <1>5, <1>6, PartIs
  <1> HIDE DEF n, l
  <1>9. ~ (n >= IndexMax) /\ ~ (a + l > Len(arc))
    <2>1. n < IndexMax
      BY DEF n
    <2> QED
      BY <1>1, <1>6, <2>1
  <1> QED
    BY <1>7, <1>8, <1>9 DEF n, l

\* Of the entries with a name there is a first and a last.
LEMMA ChosenFacts ==
  ASSUME packed \in Seq(Entries), NEW n, Named(n) # {}, NEW sel
  PROVE  /\ Chosen(n, sel) \in Named(n)
         /\ \A j \in Named(n) : IF sel = <<>> THEN j <= Chosen(n, sel) ELSE Chosen(n, sel) <= j
  <1> DEFINE B == Named(n)
             N == Len(packed)
             C == {N - j : j \in B}
  <1>1. N \in Nat /\ B \subseteq 1 .. N
    BY NamedFacts, LenProperties
  <1>2. \A i, j \in Nat : ~ (<<j, i>> \in OpToRel(<, Nat)) => i <= j
    BY DEF OpToRel
  <1> HIDE DEF B
  <1>3. \E i \in B : \A j \in B : i <= j
    <2>1. B \in SUBSET Nat /\ B # {}
      BY <1>1 DEF B
    <2>2. PICK i \in B : \A j \in B : ~ (<<j, i>> \in OpToRel(<, Nat))
      BY <2>1, WFMin, NatLessThanWellFounded
    <2> QED
      BY <1>2, <2>1, <2>2
  <1>4. \E i \in B : \A j \in B : j <= i
    <2>1. C \in SUBSET Nat /\ C # {}
      <3>1. \A j \in B : N - j \in Nat
        BY <1>1
      <3> QED
        BY <3>1 DEF B
    <2>a. \A j \in B : N - j \in C
      OBVIOUS
    <2>b. \A c \in C : \E i \in B : c = N - i
      OBVIOUS
    <2> HIDE DEF C
    <2>2. PICK c \in C : \A x \in C : ~ (<<x, c>> \in OpToRel(<, Nat))
      BY <2>1, WFMin, NatLessThanWellFounded
    <2>3. PICK i \in B : c = N - i
      BY <2>b
    <2>4. ASSUME NEW j \in B PROVE j <= i
      <3>1. N - j \in C
        BY <2>a
      <3>2. N - i <= N - j
        BY <1>2, <2>1, <2>2, <2>3, <3>1
      <3>3. i \in Nat /\ j \in Nat
        BY <1>1
      <3> QED
        BY <1>1, <3>2, <3>3
    <2> QED
      BY <2>4
  <1>5. \E i \in B : \A j \in B : IF sel = <<>> THEN j <= i ELSE i <= j
    BY <1>3, <1>4
  <1>6. Chosen(n, sel) = CHOOSE i \in B : \A j \in B : IF sel = <<>> THEN j <= i ELSE i <= j
    BY DEF Chosen, B
  <1>7. Chosen(n, sel) \in B
        /\ \A j \in B : IF sel = <<>> THEN j <= Chosen(n, sel) ELSE Chosen(n, sel) <= j
    BY <1>5, <1>6
  <1> QED
    BY <1>7 DEF B

LEMMA WantedIs ==
  ASSUME NEW sel \in Seq(Names), NEW n \in Names
  PROVE  Wanted(sel, Cells(n)) <=> (sel = <<>> \/ n \in ToSet(sel))
  <1>1. \A m \in ToSet(sel) : m \in Names
    <2>1. DOMAIN sel = 1 .. Len(sel)
      BY LenProperties
    <2>2. \A i \in 1 .. Len(sel) : sel[i] \in Names
      BY ElementOfSeq
    <2> QED
      BY <2>1, <2>2 DEF ToSet
  <1>2. Cells(n) \in Asked(sel) => n \in ToSet(sel)
    <2> SUFFICES ASSUME Cells(n) \in Asked(sel) PROVE n \in ToSet(sel)
      OBVIOUS
    <2>1. PICK m \in ToSet(sel) : Cells(n) = Cells(m)
      BY DEF Asked
    <2>2. n = m
      BY <1>1, <2>1, NamesDiffer
    <2> QED
      BY <2>2
  <1>3. n \in ToSet(sel) => Cells(n) \in Asked(sel)
    BY DEF Asked
  <1> QED
    BY <1>2, <1>3 DEF Wanted

\* Where the archive is in what is read: all of it, or the end of a tbz2.
LEMMA WholeOpens ==
  ASSUME XInv, NEW tail \in BOOLEAN, tail => Is(tbz2) /\ ~torn,
         NEW f \in Seq(Nat), NEW d \in Seq(Nat), IsArch(out, f, d, Len(d)),
         Len(f) # 0, Len(d) # 0
  PROVE  LET arc == IF tail THEN tbz2[1] ELSE out IN
         \E s \in Nat : /\ arc \in Seq(Nat) /\ XpakOpen(arc) = Some(s)
                        /\ s + Len(out) <= Len(arc)
                        /\ \A i \in 1 .. Len(out) : arc[s + i] = out[i]
  <1> DEFINE arc == IF tail THEN tbz2[1] ELSE out
             Found(x, s) == /\ x \in Seq(Nat) /\ XpakOpen(x) = Some(s)
                            /\ s + Len(out) <= Len(x)
                            /\ \A i \in 1 .. Len(out) : x[s + i] = out[i]
  <1>1. /\ out \in Seq(Nat) /\ out[1] = PACK /\ out[2] # 0 /\ out[3] # 0
        /\ Len(out) >= 3 /\ Len(out) \in Nat
    BY LenProperties DEF IsArch
  <1>2. CASE ~ tail
    <2>1. XpakOpen(out) = Some(0)
      BY <1>1, OpenAtFront
    <2>2. 0 \in Nat /\ 0 + Len(out) <= Len(out) /\ \A i \in 1 .. Len(out) : out[0 + i] = out[i]
      BY <1>1
    <2>3. Found(out, 0)
      BY <1>1, <2>1, <2>2
    <2> QED
      BY <1>2, <2>2, <2>3
  <1>3. CASE tail
    <2> DEFINE j == tar \o out \o <<Len(out), STOP>>
    <2>1. tar \in Seq(Nat) /\ Len(tar) \in Nat /\ (tar # <<>> => tar[1] # PACK)
      BY XpakAssumption, TarballAssumption, LenProperties DEF XInv, TypeOK
    <2>2. /\ j \in Seq(Nat) /\ Len(j) = Len(tar) + Len(out) + 2
          /\ \A i \in 1 .. Len(out) : j[Len(tar) + i] = out[i]
      BY <1>1, <2>1, JoinedFacts, ZenonT(30)
    <2>3. arc = j
      <3>1. \A y : Some(y)[1] = y
        BY DEF Some
      <3>2. tbz2[1] = j
        BY <1>3, <3>1, Zenon DEF XInv, JoinInv
      <3> QED
        BY <1>3, <3>2
    <2>4. XpakOpen(j) = Some(Len(tar))
      <3>1. CASE tar # <<>>
        BY <1>1, <2>1, <3>1, OpenAtEnd
      <3>2. CASE tar = <<>>
        <4> HIDE DEF j
        <4>1. Len(tar) = 0
          BY <3>2
        <4>2. 1 \in 1 .. Len(out) /\ 2 \in 1 .. Len(out) /\ 3 \in 1 .. Len(out)
          BY <1>1
        <4>3. j[1] = out[1] /\ j[2] = out[2] /\ j[3] = out[3]
          <5>1. 0 + 1 = 1 /\ 0 + 2 = 2 /\ 0 + 3 = 3
            OBVIOUS
          <5> QED
            BY <2>2, <4>1, <4>2, <5>1
        <4>4. Len(j) >= 3
          BY <1>1, <2>1, <2>2
        <4> QED
          BY <1>1, <2>2, <4>1, <4>3, <4>4, OpenAtFront
      <3> QED
        BY <3>1, <3>2
    <2> HIDE DEF j
    <2>5. Len(tar) + Len(out) <= Len(j)
      BY <1>1, <2>1, <2>2
    <2>6. Found(j, Len(tar))
      BY <2>2, <2>4, <2>5
    <2> HIDE DEF arc
    <2>7. \E s \in Nat : Found(arc, s)
      BY <2>1, <2>3, <2>6
    <2> QED
      BY <2>7 DEF arc
  <1> QED
    BY <1>2, <1>3

LEMMA InvPacked == XInv => PackedRead
  <1> SUFFICES ASSUME XInv, Extracted, Undamaged, Quiet, Fits
               PROVE  LET g == made[1]
                          want == {n \in Names : Named(n) # {} /\ (g.sel = <<>> \/ n \in ToSet(g.sel))} IN
                      /\ g.ok /\ DOMAIN g.dir = {Cells(n) : n \in want}
                      /\ \A n \in want : g.dir[Cells(n)] = packed[Chosen(n, g.sel)].data
    BY DEF PackedRead
  <1>1. PICK sel \in Selections, tail \in BOOLEAN : (tail => Is(tbz2)) /\ made = ReadFrom(sel, tail)
    BY DEF XInv, MadeInv, SplitInto, Extracted, Is, None, Some
  <1>2. PICK f \in Seq(Nat), d \in Seq(Nat), l \in Nat :
          Layout(packed, f, d, l) /\ out = Arch(f, d, l)
    <2>1. pc = "done" /\ ~ cut
      BY DEF XInv, Waiting, Extracted, Quiet, Is
    <2> QED
      BY <2>1 DEF XInv, OutInv
  <1>3. PICK o, p, q : Laid(packed, f, d, l, o, p, q)
    BY <1>2 DEF Layout
  <1> DEFINE N == Len(packed)
  <1>4. /\ packed \in Seq(Entries) /\ N \in Nat /\ DOMAIN packed = 1 .. N /\ sel \in Seq(Names)
        /\ Len(f) \in Nat /\ Len(d) \in Nat /\ \A n : Named(n) = {i \in 1 .. N : packed[i].name = n}
    BY <1>2, LenProperties, NamedFacts, XpakAssumption DEF Layout
  <1>5. /\ Offsets(packed, o, p, q) /\ Len(f) = p[N + 1] /\ Len(d) = q[N + 1] /\ l = o[N + 1]
        /\ \A j \in 1 .. N : EntryAt(f, p[j], packed[j].name, o[j], packed[j].size)
    BY <1>3 DEF Laid
  <1>6. \A i \in 1 .. N : Steady(packed, i)
    <2>1. \A i \in 1 .. N : \A j \in 1 .. i : j \in DOMAIN packed
      BY <1>4
    <2> QED
      BY <2>1 DEF Quiet, Steady
  <1>7. \A i \in 1 .. N : packed[i].name \in Names /\ packed[i].size \in Nat
                          /\ NameLen[packed[i].name] \in Nat \ {0}
    <2>1. \A i \in 1 .. N : packed[i] \in Entries
      BY <1>4, ElementOfSeq
    <2> QED
      BY <2>1, CellsFacts DEF Entries
  <1>8. \A i \in 1 .. N : o[i + 1] = o[i] + packed[i].size /\ o[i + 1] <= o[N + 1] /\ o[i] \in Nat
                          /\ p[i + 1] = p[i] + NameLen[packed[i].name] + 3 /\ p[i + 1] <= p[N + 1] /\ p[i] \in Nat
    <2> SUFFICES ASSUME NEW i \in 1 .. N
                 PROVE  o[i + 1] = o[i] + packed[i].size /\ o[i + 1] <= o[N + 1] /\ o[i] \in Nat
                        /\ p[i + 1] = p[i] + NameLen[packed[i].name] + 3 /\ p[i + 1] <= p[N + 1] /\ p[i] \in Nat
      OBVIOUS
    <2>1. i + 1 \in 1 .. N + 1 /\ N + 1 \in i + 1 .. N + 1 /\ i \in 1 .. N + 1
      BY <1>4
    <2>2. o[i + 1] <= o[N + 1] /\ p[i + 1] <= p[N + 1]
      BY <1>4, <1>5, <2>1, OffsetsAscend
    <2>3. o[i] \in Nat /\ p[i] \in Nat
      BY <1>5, <2>1 DEF Offsets
    <2> QED
      BY <1>5, <2>2, <2>3 DEF Offsets
  <1>9. PICK m \in 1 .. N : packed[m].size > 0
    BY <1>4 DEF Fits
  <1>10. l = Len(d)
    <2>1. N \in 1 .. N /\ N + 1 \in 1 .. N + 1
      BY <1>4, <1>9
    <2>2. o[N + 1] = q[N + 1]
      BY <1>4, <1>5, <1>6, <2>1, OffsetsAgree, SMTT(30)
    <2> QED
      BY <1>5, <2>2
  <1>11. Len(d) # 0 /\ Len(f) # 0
    <2> DEFINE a == o[m]
               b == p[m]
               u == packed[m].size
               v == NameLen[packed[m].name]
    <2>1. /\ a \in Nat /\ b \in Nat /\ u \in Nat /\ v \in Nat \ {0} /\ u > 0
          /\ o[m + 1] = a + u /\ p[m + 1] = b + v + 3
      BY <1>7, <1>8, <1>9
    <2> HIDE DEF a, b, u, v
    <2>2. o[m + 1] > 0 /\ p[m + 1] > 0
      BY <2>1
    <2>3. o[m + 1] <= o[N + 1] /\ p[m + 1] <= p[N + 1]
      BY <1>8, <1>9
    <2>4. o[m + 1] \in Nat /\ p[m + 1] \in Nat
      BY <2>1
    <2> QED
      BY <1>4, <1>5, <1>10, <2>1, <2>2, <2>3, <2>4, SMTT(30)
  <1>12. Len(f) < IndexMax
    <2>1. Total(packed) < IndexMax
      BY DEF Fits, Total
    <2>2. Total(packed) = p[N + 1]
      BY <1>4, <1>5, TotalIs
    <2> QED
      BY <1>5, <2>1, <2>2
  <1>13. IsArch(out, f, d, Len(d))
    BY <1>2, <1>10, ArchFacts
  <1> DEFINE arc == IF tail THEN tbz2[1] ELSE out
             r == Process(arc)
  <1>14. r = WalkIndex(f, d)
    <2>1. PICK s \in Nat : /\ arc \in Seq(Nat) /\ XpakOpen(arc) = Some(s)
                           /\ s + Len(out) <= Len(arc)
                           /\ \A i \in 1 .. Len(out) : arc[s + i] = out[i]
      <3>1. \A x : Some(x)[1] = x
        BY DEF Some
      <3>2. made[1] = [by |-> "qxpak", sel |-> sel, tail |-> tail, ok |-> Process(arc).ok,
                       dir |-> Callback(sel, Process(arc).list)]
        BY <1>1, <3>1 DEF ReadFrom
      <3>3. tail => Is(tbz2) /\ ~torn
        BY <1>1, <3>2 DEF Undamaged
      <3> QED
        BY <1>11, <1>13, <3>3, WholeOpens
    <2> HIDE DEF arc
    <2> QED
      BY <1>12, <1>13, <2>1, ReadWhole
  <1> HIDE DEF N
  <1>15. PICK ok \in BOOLEAN, list \in Seq(Items) :
           /\ r = [ok |-> ok, list |-> list] /\ ok /\ Len(list) = N
           /\ \A j \in 1 .. N : list[j] = Item(packed, d, o, j) /\ InReach(packed, d, o, j)
    <2>1. ReadFromEntry(packed, d, o, r, 1)
      BY <1>4, <1>5, <1>14, IndexRead DEF N
    <2>2. PICK ok \in BOOLEAN, list \in Seq(Items) :
            /\ r = [ok |-> ok, list |-> list]
            /\ \A j \in 1 .. Len(list) : /\ list[j] = Item(packed, d, o, 1 + j - 1)
                                         /\ InReach(packed, d, o, 1 + j - 1)
            /\ (\A j \in 1 .. N : NameLen[packed[j].name] < PathMax /\ InReach(packed, d, o, j)) =>
                 ok /\ Len(list) = N + 1 - 1
      BY <2>1 DEF ReadFromEntry, N
    <2>3. \A j \in 1 .. N : NameLen[packed[j].name] < PathMax /\ InReach(packed, d, o, j)
      BY <1>4, <1>5, <1>8, <1>10 DEF Fits, InReach
    <2>4. N + 1 - 1 = N /\ \A j \in 1 .. N : 1 + j - 1 = j
      BY <1>4
    <2> HIDE DEF r
    <2>5. ok /\ Len(list) = N
      BY <2>2, <2>3, <2>4
    <2>6. \A j \in 1 .. N : list[j] = Item(packed, d, o, j) /\ InReach(packed, d, o, j)
      <3> SUFFICES ASSUME NEW j \in 1 .. N
                   PROVE  list[j] = Item(packed, d, o, j) /\ InReach(packed, d, o, j)
        OBVIOUS
      <3>1. j \in 1 .. Len(list)
        BY <2>5
      <3>2. /\ list[j] = Item(packed, d, o, 1 + j - 1)
            /\ InReach(packed, d, o, 1 + j - 1)
        BY <2>2, <3>1
      <3> QED
        BY <2>4, <3>2
    <2>7. r = [ok |-> ok, list |-> list]
      BY <2>2
    <2> QED
      BY <2>5, <2>6, <2>7
  <1>16. \A j \in 1 .. N : list[j].name = Cells(packed[j].name) /\ list[j].data = packed[j].data
    <2> SUFFICES ASSUME NEW j \in 1 .. N
                 PROVE  list[j].name = Cells(packed[j].name) /\ list[j].data = packed[j].data
      OBVIOUS
    <2>1. Item(packed, d, o, j).name = Cells(packed[j].name)
      BY DEF Item
    <2>2. Agrees(d, d)
      BY DEF Agrees
    <2>3. Item(packed, d, o, j).data = packed[j].data
      BY <1>3, <1>4, <1>6, <1>15, <2>2, ItemRight DEF N
    <2> QED
      BY <1>15, <2>1, <2>3
  <1> DEFINE g == made[1]
             want == {n \in Names : Named(n) # {} /\ (sel = <<>> \/ n \in ToSet(sel))}
  <1>17. g.ok = TRUE /\ g.sel = sel /\ g.dir = Callback(sel, list)
    <2>1. \A x : Some(x)[1] = x
      BY DEF Some
    <2>2. g = [by |-> "qxpak", sel |-> sel, tail |-> tail, ok |-> r.ok, dir |-> Callback(sel, r.list)]
      BY <1>1, <2>1 DEF ReadFrom
    <2>3. r.ok = TRUE /\ r.list = list
      BY <1>15
    <2> HIDE DEF r, g
    <2> QED
      BY <2>2, <2>3
  <1> HIDE DEF g
  <1>18. /\ DOMAIN Callback(sel, list)
              = {list[j].name : j \in {k \in 1 .. N : Wanted(sel, list[k].name)}}
         /\ \A j \in 1 .. N : Stands(sel, list, N, j) => Callback(sel, list)[list[j].name] = list[j].data
    BY <1>15, Written
  <1>19. \A j \in 1 .. N : Wanted(sel, list[j].name) <=> (sel = <<>> \/ packed[j].name \in ToSet(sel))
    BY <1>4, <1>7, <1>16, WantedIs
  <1>20. DOMAIN g.dir = {Cells(n) : n \in want}
    <2>1. \A j \in 1 .. N : Wanted(sel, list[j].name) => packed[j].name \in want
      BY <1>4, <1>7, <1>19 DEF N
    <2>2. \A n \in want : \E j \in 1 .. N : packed[j].name = n /\ Wanted(sel, list[j].name)
      BY <1>4, <1>19 DEF N
    <2> HIDE DEF want
    <2>3. \A x \in DOMAIN g.dir : \E n \in want : x = Cells(n)
      BY <1>16, <1>17, <1>18, <2>1
    <2>4. \A n \in want : Cells(n) \in DOMAIN g.dir
      BY <1>16, <1>17, <1>18, <2>2, SMTT(30)
    <2> QED
      BY <2>3, <2>4
  <1>21. ASSUME NEW n \in want PROVE g.dir[Cells(n)] = packed[Chosen(n, sel)].data
    <2> DEFINE i == Chosen(n, sel)
    <2>1. i \in Named(n) /\ \A j \in Named(n) : IF sel = <<>> THEN j <= i ELSE i <= j
      BY <1>4, ChosenFacts
    <2>2. i \in 1 .. N /\ packed[i].name = n /\ (sel = <<>> \/ n \in ToSet(sel))
      BY <1>4, <2>1 DEF N
    <2> HIDE DEF i
    <2>3. Stands(sel, list, N, i)
      <3>1. ASSUME NEW k \in 1 .. N, list[k].name = list[i].name PROVE k \in Named(n)
        <4>1. Cells(packed[k].name) = Cells(packed[i].name)
          BY <1>16, <2>2, <3>1
        <4>2. packed[k].name = packed[i].name
          BY <1>7, <2>2, <4>1, NamesDiffer
        <4> QED
          BY <1>4, <2>2, <4>2 DEF N
      <3>2. Wanted(sel, list[i].name)
        BY <1>19, <2>2
      <3> QED
        BY <2>1, <3>1, <3>2 DEF Stands
    <2>4. Callback(sel, list)[Cells(n)] = packed[i].data
      BY <1>16, <1>18, <2>2, <2>3
    <2> QED
      BY <1>17, <2>4 DEF i
  <1> QED
    BY <1>17, <1>20, <1>21 DEF g

\* What xpak_create packed is what qxpak writes, from the xpak and from the tbz2
\* it was joined to: every name that is wanted and no other, each with the data
\* of the entry it stands for.
THEOREM PackedIsRead == Spec => []PackedRead
BY ArchiveInvariant, InvPacked, PTL

=============================================================================
