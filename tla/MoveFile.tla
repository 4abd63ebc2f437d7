------------------------------ MODULE MoveFile ------------------------------
(***************************************************************************)
(* libq/move_file.c and libq/copy_file.c: move_file() tries renameat() and *)
(* otherwise copies the source, block by block, to a temporary file beside *)
(* the destination and renames that into place.  qmerge moves every        *)
(* regular file of a package, and every file of a VDB entry when the VDB   *)
(* is on another device, through it.                                       *)
(*                                                                         *)
(* One action is one system call (or one turn of the read/write loop) with *)
(* each of its outcomes, and the process may be killed between any two of  *)
(* them.  A file's data is the sequence of its block numbers.              *)
(***************************************************************************)
EXTENDS Integers, Sequences

CONSTANTS
  Size,         \* number of blocks of the source file
  ShortCounts,  \* the short counts sendfile() may return where it returns any
  Faults,       \* the system calls that may fail
  Absent,       \* no file of this name
  Old           \* the data of a file that was at the destination before

Calls == {"open", "stat", "create", "chown", "chmod", "sendfile", "read",
          "write", "rename", "unlink"}

ASSUME SizeAssumption == Size \in Nat
ASSUME ShortAssumption == ShortCounts \subseteq 1 .. (Size - 1)
ASSUME FaultAssumption == Faults \subseteq Calls
ASSUME NoFileAssumption ==
  /\ Absent \notin Seq(1 .. Size)
  /\ Old \notin Seq(1 .. Size)
  /\ Absent # Old

VARIABLES
  place,    \* one device or two, is dst a directory, does sendfile() stop short
  src,      \* data at the source name
  dst,      \* data at the destination name
  tmp,      \* data at ".<pid>.<name>" beside the destination
  offset,   \* read position of fd_src
  pc,       \* the next call
  ret       \* what move_file returns

vars == <<place, src, dst, tmp, offset, pc, ret>>

Data == [i \in 1 .. Size |-> i]

\* Whatever a file written by the copy may hold.
FileData == Seq(1 .. Size)

Labels == {"rename", "open", "stat", "create", "chown", "chmod", "sendfile",
           "copy", "discard", "replace", "unlink", "return", "killed"}

Places == [sameDevice : BOOLEAN, dstIsDir : BOOLEAN, stopsShort : BOOLEAN]

TypeOK ==
  /\ place \in Places
  /\ src \in {Absent, Data}
  /\ dst \in {Absent, Old} \cup FileData
  /\ tmp \in {Absent} \cup FileData
  /\ offset \in 0 .. Size
  /\ pc \in Labels
  /\ ret \in {0, -1}

Init ==
  /\ place \in Places
  /\ src = Data
  /\ dst \in {Absent, Old}
  /\ place.dstIsDir => dst = Old
  /\ tmp = Absent
  /\ offset = 0
  /\ pc = "rename"
  /\ ret = 0

-----------------------------------------------------------------------------
Goto(l) == pc' = l /\ UNCHANGED ret

Return(r) == pc' = "return" /\ ret' = r

\* move_file.c:28, the fast path: rename over the destination, atomically.
TryRename ==
  /\ pc = "rename"
  /\ \/ /\ place.sameDevice /\ ~place.dstIsDir
        /\ dst' = src /\ src' = Absent
        /\ Return(0)
     \/ /\ ~place.sameDevice \/ place.dstIsDir \/ "rename" \in Faults
        /\ Goto("open")
        /\ UNCHANGED <<src, dst>>
  /\ UNCHANGED <<place, tmp, offset>>

\* Mutant of OpenSource: the source is unlinked as soon as it is open.
OpenSource_Unlink ==
  /\ pc = "open"
  /\ src' = Absent /\ Goto("stat")
  /\ UNCHANGED <<place, dst, tmp, offset>>

OpenSource ==
  /\ pc = "open"
  /\ \/ Goto("stat")
     \/ "open" \in Faults /\ Return(-1)
  /\ UNCHANGED <<place, src, dst, tmp, offset>>

\* The caller may pass the source's stat in; when it does not, fstat may fail.
StatSource ==
  /\ pc = "stat"
  /\ \/ Goto("create")
     \/ "stat" \in Faults /\ Return(-1)
  /\ UNCHANGED <<place, src, dst, tmp, offset>>

\* Mutant of CreateTemp: the destination itself is truncated.
CreateTemp_InPlace ==
  /\ pc = "create"
  /\ tmp' = <<>> /\ dst' = <<>> /\ Goto("chown")
  /\ UNCHANGED <<place, src, offset>>

CreateTemp ==
  /\ pc = "create"
  /\ \/ tmp' = <<>> /\ Goto("chown")
     \/ "create" \in Faults /\ Return(-1) /\ UNCHANGED tmp
  /\ UNCHANGED <<place, src, dst, offset>>

\* A failing fchown or fchmod returns without removing the temporary file.
SetOwner ==
  /\ pc = "chown"
  /\ \/ Goto("chmod")
     \/ "chown" \in Faults /\ Return(-1)
  /\ UNCHANGED <<place, src, dst, tmp, offset>>

SetMode ==
  /\ pc = "chmod"
  /\ \/ Goto("sendfile")
     \/ "chmod" \in Faults /\ Return(-1)
  /\ UNCHANGED <<place, src, dst, tmp, offset>>

\* copy_file_fd: one sendfile call.  Anything but a full count falls through to
\* the read/write loop after lseek(fd_src, 0); fd_dst is not rewound.
Sendfile ==
  /\ pc = "sendfile"
  /\ \/ tmp' = Data /\ Goto("replace")
     \/ \E n \in ShortCounts :
          place.stopsShort /\ tmp' = SubSeq(Data, 1, n) /\ Goto("copy")
     \/ "sendfile" \in Faults /\ Goto("copy") /\ UNCHANGED tmp
  /\ offset' = 0
  /\ UNCHANGED <<place, src, dst>>

\* Mutant of CopyBlock: a failed read or write counts as the end of the file.
CopyBlock_IgnoreError ==
  /\ pc = "copy"
  /\ \/ /\ offset < Size
        /\ tmp' = Append(tmp, offset + 1)
        /\ offset' = offset + 1
        /\ Goto("copy")
     \/ Goto("replace") /\ UNCHANGED <<tmp, offset>>
  /\ UNCHANGED <<place, src, dst>>

\* The read/write loop: a block is read and written, the end of the file is
\* success, a failed read or write is an error.
CopyBlock ==
  /\ pc = "copy"
  /\ \/ /\ offset < Size
        /\ tmp' = Append(tmp, offset + 1)
        /\ offset' = offset + 1
        /\ Goto("copy")
     \/ offset = Size /\ Goto("replace") /\ UNCHANGED <<tmp, offset>>
     \/ /\ "read" \in Faults \/ ("write" \in Faults /\ offset < Size)
        /\ Goto("discard")
        /\ UNCHANGED <<tmp, offset>>
  /\ UNCHANGED <<place, src, dst>>

\* Mutant of DiscardTemp: it answers 0.
DiscardTemp_Zero ==
  /\ pc = "discard"
  /\ Return(0)
  /\ UNCHANGED <<place, src, dst, tmp, offset>>

\* move_file.c:78: the copy failed, remove the temporary file if possible.
DiscardTemp ==
  /\ pc = "discard"
  /\ \/ tmp' = Absent
     \/ "unlink" \in Faults /\ UNCHANGED tmp
  /\ Return(-1)
  /\ UNCHANGED <<place, src, dst, offset>>

\* move_file.c:98: rename the temporary file over the destination.
ReplaceDestination ==
  /\ pc = "replace"
  /\ \/ /\ ~place.dstIsDir
        /\ dst' = tmp /\ tmp' = Absent
        /\ Goto("unlink")
     \/ /\ place.dstIsDir \/ "rename" \in Faults
        /\ Return(-1)
        /\ UNCHANGED <<dst, tmp>>
  /\ UNCHANGED <<place, src, offset>>

UnlinkSource ==
  /\ pc = "unlink"
  /\ \/ src' = Absent /\ Return(0)
     \/ "unlink" \in Faults /\ Return(-1) /\ UNCHANGED src
  /\ UNCHANGED <<place, dst, tmp, offset>>

\* The process is killed between two calls.
Kill ==
  /\ pc \notin {"return", "killed"}
  /\ Goto("killed")
  /\ UNCHANGED <<place, src, dst, tmp, offset>>

Step ==
  \/ TryRename \/ OpenSource \/ StatSource \/ CreateTemp \/ SetOwner \/ SetMode
  \/ Sendfile \/ CopyBlock \/ DiscardTemp \/ ReplaceDestination \/ UnlinkSource

Next == Step \/ Kill

Spec == Init /\ [][Next]_vars

-----------------------------------------------------------------------------
(* Properties.                                                             *)

\* The destination never shows a partial or mixed file: at every moment, kill
\* included, it is what was there before or the whole new file.
DestinationWhole == ~place.stopsShort => dst \in {Absent, Old, Data}

\* The moved data is never lost: at every moment the whole file is at the
\* source or at the destination.
NothingLost == ~place.stopsShort => src = Data \/ dst = Data

\* What the caller may conclude from the result: 0 means moved, -1 means the
\* source is still there for another try.
ResultTrue ==
  pc = "return" /\ ~place.stopsShort
    => IF ret = 0 THEN src = Absent /\ dst = Data ELSE src = Data

\* The source is removed only after the destination was replaced by what the
\* call wrote, short sendfile counts or not.
SourceLast == [][src' # src => dst' \notin {Absent, Old}]_vars
=============================================================================
