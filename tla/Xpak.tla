--------------------------------- MODULE Xpak ---------------------------------
(***************************************************************************)
(* Binary package archives: xpak_create() packs files into an xpak while   *)
(* others may write to them, xpak_process() reads an xpak back, alone or   *)
(* at the end of a tbz2, and qtbz2 joins a tarball and an xpak and splits  *)
(* them again.  An archive is a sequence of cells: one cell is a byte of a *)
(* name or of a file, a number of four bytes, or one of the marks.         *)
(***************************************************************************)
EXTENDS Integers, Sequences, SequencesExt

CONSTANTS
  Names, Hidden,  \* the names of files, in the order of alphasort, and the dotfiles
  NameLen,     \* how many bytes a name has
  Paths,       \* the files: pairs of a directory and a name
  Arguments,   \* what may be packed: sequences of files and of directories, pairs with 0
  Selections,  \* the names that may be asked for: sequences, the empty one for all
  Trees,       \* the files at first: functions from paths to contents
  Subdirs, DirSize,  \* which of the files are directories, and the size of a directory
  Contents, Tarballs,
  PathMax, IndexMax, SizeMax,  \* the buffers of the reader, the largest number of 4 bytes
  Buffer,      \* how much of what is written waits in a stream
  MaxFaults

PACK == 101    \* XPAKPACK
XSTOP == 102   \* XPAKSTOP
STOP == 103

ASSUME XpakAssumption ==
  /\ Names \subseteq Nat \ {0} /\ NameLen \in [Names -> Nat \ {0}]
  /\ \A p \in Paths : p[2] \in Names
  /\ {PathMax, IndexMax, SizeMax, DirSize, Buffer, MaxFaults} \subseteq Nat
  /\ \A t \in Trees :
       /\ DOMAIN t \subseteq Paths
       /\ \A p \in DOMAIN t : t[p] \in Seq(Nat) /\ (p \in Subdirs => t[p] = <<>>)
  /\ Contents \cup Tarballs \subseteq Seq(Nat)
  /\ \A sel \in Selections : sel \in Seq(Names)

\* What a tbz2 begins with is a compressed tarball, and no xpak.
ASSUME TarballAssumption == \A t \in Tarballs : t # <<>> => t[1] # PACK

VARIABLES
  files,            \* the files that are there
  pc, args, todo,   \* xpak_create: where it is, the arguments and files to come
  cur, fin, st,     \* the file it has open: its name, what it holds, its size when opened
  findex, fdata, dlen,  \* the temporary files, and the length counted for the second
  out,              \* the archive
  tar, tbz2,        \* the tarball, and the tbz2 if it was made
  made,             \* what the last extraction or split wrote
  faults,           \* how many files were changed and how often the disk was full
  packed,           \* what of each file went into the archive, and where
  cut, torn         \* the end of the archive, a part of the tbz2 was lost; only the
                    \* properties read these two, and packed
source == <<files, faults>>
packing == <<pc, args, todo, cur, fin, st, findex, fdata, dlen, out, packed, cut>>
tools == <<tar, tbz2, torn, made>>
vars == <<source, packing, tools>>

StartLen == 3  \* XPAKPACK and the two lengths
FooterLen == 2 \* the length of the xpak and STOP

Cells(n) == [i \in 1..NameLen[n] |-> 10 + n]
CutOff(s) == {SubSeq(s, 1, i) : i \in 0..Len(s) - 1}
\* What may not be there: no sequence, or a sequence of one.
None == <<>>
Some(x) == <<x>>
Is(o) == o # None
-----------------------------------------------------------------------------
(***************************************************************************)
(* Another process writes to a file, replaces or removes it.  What was     *)
(* opened before sees the first of these only.                             *)
(***************************************************************************)
Write ==
  /\ pc \in {"args", "files", "copy"} /\ faults < MaxFaults
  /\ \E p \in DOMAIN files \ Subdirs, c \in Contents :
       /\ files' = [files EXCEPT ![p] = c]
       /\ fin' \in {fin} \cup (IF pc = "copy" /\ cur = p THEN {c} ELSE {})
  /\ faults' = faults + 1
  /\ UNCHANGED <<pc, args, todo, cur, st, findex, fdata, dlen, out, packed, cut, tools>>

Delete ==
  /\ pc \in {"args", "files", "copy"} /\ faults < MaxFaults
  /\ \E p \in DOMAIN files : files' = [q \in DOMAIN files \ {p} |-> files[q]]
  /\ faults' = faults + 1
  /\ UNCHANGED <<packing, tools>>
-----------------------------------------------------------------------------
(***************************************************************************)
(* xpak_create().  The output is emptied first and written last.           *)
(***************************************************************************)
Create ==
  /\ pc = "idle"
  /\ args' \in Arguments /\ pc' = "args" /\ out' = <<>>
  /\ UNCHANGED <<source, todo, cur, fin, st, findex, fdata, dlen, packed, cut, tools>>

Listing(d) ==
  SetToSortSeq({p \in DOMAIN files : p[1] = d /\ p[2] \notin Hidden}, LAMBDA p, q : p[2] < q[2])

\* The next argument: a directory is listed, a file that is not there is skipped.
Argument ==
  /\ pc = "args" /\ args # <<>>
  /\ LET a == Head(args) IN
       todo' = CASE a[2] = 0 -> Listing(a[1])
                 [] a[2] # 0 /\ a \in DOMAIN files -> <<a>>
                 [] OTHER -> <<>>
  /\ args' = Tail(args) /\ pc' = "files"
  /\ UNCHANGED <<source, cur, fin, st, findex, fdata, dlen, out, packed, cut, tools>>

\* openat() and fstat(): a file that has gone since is skipped.  A directory in one that
\* is packed is opened like a file: it has a size, and nothing can be read from it.
Open ==
  /\ pc = "files"
  /\ \/ /\ todo = <<>> /\ pc' = "args" /\ UNCHANGED <<todo, cur, fin, st>>
     \/ /\ todo # <<>> /\ Head(todo) \notin DOMAIN files /\ todo' = Tail(todo)
        /\ UNCHANGED <<pc, cur, fin, st>>
     \/ /\ todo # <<>> /\ Head(todo) \in DOMAIN files
        /\ cur' = Head(todo) /\ fin' = files[cur']
        /\ st' = IF cur' \in Subdirs THEN DirSize ELSE Len(fin')
        /\ todo' = Tail(todo) /\ pc' = "copy"
  /\ UNCHANGED <<source, args, findex, fdata, dlen, out, packed, cut, tools>>

Fault(b) == IF b THEN faults < MaxFaults /\ faults' = faults + 1 ELSE UNCHANGED faults

\* Mutant of Entry: the offset is that of the end of the file.
Entry_Late(n, size) == <<NameLen[n]>> \o Cells(n) \o <<dlen + size, size>>
\* An entry of the index: the base name, where its data begins, how long it is.
Entry(n, size) == <<NameLen[n]>> \o Cells(n) \o <<dlen, size>>

\* The length counted is the size the file had when it was opened.
Counted(size, data) == dlen + size

\* How much of a stream of that length there can be after it was flushed: at a full
\* disk what waits in its buffer is lost, of whatever files it is.
Flushed(written, length) == {n \in 0..length : written - Buffer <= n}

\* What there is of the packed files when their data ends after n cells.
Clip(x, n) == IF x <= n THEN x ELSE n
Until(n, pk) ==
  [i \in DOMAIN pk |->
     LET from == Clip(pk[i].at, n)
         upto == Clip(pk[i].at + Len(pk[i].data), n)
     IN [pk[i] EXCEPT !.at = from, !.data = SubSeq(@, 1, upto - from)]]

\* Adds the open file.  One too big is stored as empty; the copy stops at a full disk,
\* which nothing looks at.
AddFile ==
  /\ pc = "copy"
  /\ LET big == st > SizeMax
         size == IF big THEN 0 ELSE st
         data == IF big THEN <<>> ELSE fin
         all == fdata \o data IN
     \E n \in IF data = <<>> THEN {Len(all)} ELSE Flushed(Len(fdata), Len(all)) :
       /\ Fault(n # Len(all))
       /\ findex' = findex \o Entry(cur[2], size)
       /\ fdata' = SubSeq(all, 1, n)
       /\ dlen' = Counted(size, data)
       /\ packed' = Until(n, Append(packed, [name |-> cur[2], size |-> size, data |-> data,
                                             at |-> Len(fdata)]))
  /\ pc' = "files" /\ cur' = <<0, 0>> /\ fin' = <<>> /\ st' = 0
  /\ UNCHANGED <<files, args, todo, out, cut, tools>>

Archive(data) == <<PACK, Len(findex), dlen>> \o findex \o data \o <<XSTOP>>

\* The data is flushed and the archive is written; a full disk keeps its end out of it.
Finish ==
  /\ pc = "args" /\ args = <<>>
  /\ \E n \in Flushed(Len(fdata), Len(fdata)) :
       LET arc == Archive(SubSeq(fdata, 1, n)) IN
       /\ out' \in {arc} \cup CutOff(arc)
       /\ cut' = (out' # arc) /\ Fault(cut' \/ n # Len(fdata))
       /\ packed' = Until(n, packed)
  /\ pc' = "done" /\ findex' = <<>> /\ fdata' = <<>> /\ dlen' = 0
  /\ UNCHANGED <<files, args, todo, cur, fin, st, tools>>

\* The process is killed: the output is empty, and the temporary files stay.
Kill ==
  /\ pc \in {"args", "files", "copy"}
  /\ pc' = "done" /\ cut' = TRUE
  /\ UNCHANGED <<source, args, todo, cur, fin, st, findex, fdata, dlen, out, packed, tools>>
-----------------------------------------------------------------------------
(***************************************************************************)
(* xpak_process().                                                         *)
(***************************************************************************)
At(arc, pos) == StartLen <= Len(arc) - pos /\ arc[pos + 1] = PACK

\* Where the xpak begins by the footer of a tbz2.
TailStart(arc) == Len(arc) - (arc[Len(arc) - 1] + FooterLen)

\* Where the xpak of an archive begins, if it has one that is not empty.
XpakOpen(arc) ==
  LET start ==
        CASE Len(arc) < StartLen -> None
          [] Len(arc) >= StartLen /\ arc[1] = PACK -> Some(0)
          [] OTHER -> IF arc[Len(arc)] = STOP /\ TailStart(arc) >= 0 /\ At(arc, TailStart(arc))
                      THEN Some(TailStart(arc)) ELSE None
  IN IF Is(start) /\ arc[start[1] + 2] # 0 /\ arc[start[1] + 3] # 0 THEN start ELSE None

\* The entries of an index with their data, up to the first that is refused.  Nothing in
\* the code keeps an entry from passing the end of the index; refusing it here gives the
\* walk an end, and no index that xpak_create writes has one.
WalkIndex(index, data) ==
  LET walk[p \in 0..Len(index)] ==
        IF p = Len(index) THEN [ok |-> TRUE, list |-> <<>>]
        ELSE LET n == index[p + 1]
                 next == p + n + 3 IN
             IF n >= PathMax \/ next > Len(index) THEN [ok |-> FALSE, list |-> <<>>]
             ELSE LET off == index[next - 1]
                      len == index[next] IN
                  IF off + len > Len(data) THEN [ok |-> FALSE, list |-> <<>>]
                  ELSE [walk[next] EXCEPT !.list =
                          <<[name |-> SubSeq(index, p + 2, p + 1 + n),
                             data |-> SubSeq(data, off + 1, off + len)]>> \o @]
  IN walk[0]

\* Mutant of DataStart: the data is what comes before XPAKSTOP.
DataStart_End(arc, pos, ilen, len) ==
  IF pos + ilen + len < Len(arc) THEN Len(arc) - 1 - len ELSE pos + ilen
\* The data begins where the index ends.
DataStart(arc, pos, ilen, len) == pos + ilen

Refused == [ok |-> FALSE, list |-> <<>>]
Process(arc) ==
  IF ~Is(XpakOpen(arc)) THEN Refused
  ELSE LET pos == XpakOpen(arc)[1] + StartLen
           ilen == arc[pos - 1]
           len == arc[pos]
           first == DataStart(arc, pos, ilen, len) IN
       IF ilen >= IndexMax \/ first + len > Len(arc) THEN Refused
       ELSE WalkIndex(SubSeq(arc, pos + 1, pos + ilen), SubSeq(arc, first + 1, first + len))

\* The callback of qxpak: a name that was asked for is written once, and
\* what is written later replaces what was written before.
Callback(sel, list) ==
  FoldLeft(LAMBDA acc, e :
             IF sel # <<>> /\ e.name \notin acc.left THEN acc
             ELSE [left |-> acc.left \ {e.name},
                   dir |-> [n \in DOMAIN acc.dir \cup {e.name} |->
                              IF n = e.name THEN e.data ELSE acc.dir[n]]],
           [left |-> {Cells(n) : n \in ToSet(sel)}, dir |-> <<>>], list).dir

Extract ==
  /\ pc = "done"
  /\ \E sel \in Selections, tail \in BOOLEAN :
       /\ tail => Is(tbz2)
       /\ LET r == Process(IF tail THEN tbz2[1] ELSE out) IN
            made' = Some([by |-> "qxpak", sel |-> sel, tail |-> tail, ok |-> r.ok, dir |-> Callback(sel, r.list)])
  /\ UNCHANGED <<source, packing, tar, tbz2, torn>>
-----------------------------------------------------------------------------
(***************************************************************************)
(* qtbz2: tbz2_compose() and tbz2_decompose().                             *)
(***************************************************************************)
Footer == <<Len(out), STOP>>

\* The length in the footer is taken before anything is copied; either copy may stop at a
\* full disk, and the footer may be lost, which nothing looks at.
Join ==
  /\ pc = "done" /\ ~Is(tbz2)
  /\ \E t \in {tar} \cup CutOff(tar), x \in {out} \cup CutOff(out),
        f \in {Footer} \cup CutOff(Footer) :
       /\ tbz2' = Some(t \o x \o f)
       /\ torn' = (<<t, x, f>> # <<tar, out, Footer>>) /\ Fault(torn')
  /\ UNCHANGED <<files, packing, tar, made>>

\* Mutant of XpakPart: one cell less is written.
XpakPart_Short(arc, size) == SubSeq(arc, Len(arc) - FooterLen - size + 1, Len(arc) - FooterLen - 1)
XpakPart(arc, size) == SubSeq(arc, Len(arc) - FooterLen - size + 1, Len(arc) - FooterLen)

\* Which parts are written: by -t and -x and by how many names are given.
WritesTar(t, x, given) == given = 2 \/ (IF given = 1 THEN t \/ ~x ELSE t)
WritesXpak(x, given) == given = 2 \/ x

Footed(arc) == Len(arc) >= FooterLen /\ arc[Len(arc)] = STOP

Split ==
  /\ Is(tbz2)
  /\ LET arc == tbz2[1]
         size == arc[Len(arc) - 1]
         tarsize == Len(arc) - size - FooterLen IN
     \E t, x \in BOOLEAN, given \in 0..2 :
       IF ~Footed(arc) \/ size = 0 \/ tarsize <= 0 THEN made' = None
       ELSE made' = Some([by |-> "qtbz2", t |-> t, x |-> x, given |-> given,
              tar |-> IF WritesTar(t, x, given) THEN Some(SubSeq(arc, 1, tarsize)) ELSE None,
              xpak |-> IF WritesXpak(x, given) THEN Some(XpakPart(arc, size)) ELSE None])
  /\ UNCHANGED <<source, packing, tar, tbz2, torn>>
-----------------------------------------------------------------------------
Init ==
  /\ files \in Trees /\ faults = 0
  /\ pc = "idle" /\ args = <<>> /\ todo = <<>> /\ cur = <<0, 0>> /\ fin = <<>> /\ st = 0
  /\ findex = <<>> /\ fdata = <<>> /\ dlen = 0 /\ out = <<>> /\ packed = <<>> /\ cut = FALSE
  /\ tar \in Tarballs /\ tbz2 = None /\ torn = FALSE /\ made = None

Next == Write \/ Delete \/ Create \/ Argument \/ Open \/ AddFile \/ Finish \/ Kill
        \/ Extract \/ Join \/ Split
Spec == Init /\ [][Next]_vars
-----------------------------------------------------------------------------
(***************************************************************************)
(* Properties.                                                             *)
(***************************************************************************)
\* What was packed went in whole: no file changed its size while it was
\* packed, and no disk was full.
Quiet == ~cut /\ \A i \in DOMAIN packed : Len(packed[i].data) = packed[i].size
\* The reader takes an archive with short names, a short index and some data.
Fits ==
  /\ \A i \in DOMAIN packed : NameLen[packed[i].name] < PathMax
  /\ FoldLeft(LAMBDA s, e : s + NameLen[e.name] + 3, 0, packed) < IndexMax
  /\ \E i \in DOMAIN packed : packed[i].size > 0

Extracted == Is(made) /\ made[1].by = "qxpak"
\* It was the archive itself that was read, or a tbz2 that was joined whole.
Undamaged == made[1].tail => ~torn
Named(n) == {i \in DOMAIN packed : packed[i].name = n}
\* The entry a name stands for: the last, or the first if it was asked for.
Chosen(n, sel) ==
  CHOOSE i \in Named(n) : \A j \in Named(n) : IF sel = <<>> THEN j <= i ELSE i <= j

\* What xpak_create packs is what qxpak -x writes, from the xpak and from the
\* tbz2 it was joined to, for every archive within the reader's limits whose
\* files kept their sizes, when no disk was full.
PackedRead ==
  Extracted /\ Undamaged /\ Quiet /\ Fits =>
    LET g == made[1]
        want == {n \in Names : Named(n) # {} /\ (g.sel = <<>> \/ n \in ToSet(g.sel))} IN
    /\ g.ok /\ DOMAIN g.dir = {Cells(n) : n \in want}
    /\ \A n \in want : g.dir[Cells(n)] = packed[Chosen(n, g.sel)].data

\* A file that grew, shrank or is a directory damages itself and the files behind it, and
\* at a full disk those whose data still waited to be written: a file of which, and of
\* all before it, as much is in the archive as was counted is read from the xpak as it
\* was packed, or the archive is refused.
EarlierKept ==
  Extracted /\ ~made[1].tail =>
    \A i \in DOMAIN packed :
      /\ \A j \in 1..i : Len(packed[j].data) = packed[j].size
      /\ Named(packed[i].name) = {i}
      /\ Cells(packed[i].name) \in DOMAIN made[1].dir
      => made[1].dir[Cells(packed[i].name)] = packed[i].data

\* Splitting undoes joining, byte for byte, for the parts that are asked for, unless a
\* disk was full when they were joined: also when the xpak is cut short.
SplitInverts ==
  Is(made) /\ made[1].by = "qtbz2" /\ ~torn =>
    LET p == made[1] IN
    /\ Is(p.tar) => p.tar[1] = tar
    /\ Is(p.xpak) => p.xpak[1] = out
    /\ p.given = 0 => (Is(p.tar) = p.t) /\ (Is(p.xpak) = p.x)
=============================================================================
