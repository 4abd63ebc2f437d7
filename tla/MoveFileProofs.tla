--------------------------- MODULE MoveFileProofs ---------------------------
(***************************************************************************)
(* move_file() for a file of any size and any set of failing calls: types, *)
(* and, where sendfile() never stops short, that the destination is never  *)
(* partial and the data never lost.  The copied prefix is the              *)
(* heart of the inductive invariant: what the read/write loop has written  *)
(* so far is exactly the blocks before the read position.                  *)
(***************************************************************************)
EXTENDS MoveFile, TLAPS

\* The first n blocks of the source.
Prefix(n) == [i \in 1 .. n |-> i]

\* What each label knows of the three names; Moving is the part of the call
\* before the destination is replaced.
Moving == Labels \ {"unlink", "return", "killed"}

CopySafe ==
  /\ pc \in Moving \cup {"unlink"} => src = Data
  /\ pc \in {"chown", "chmod", "sendfile"} => tmp = <<>>
  /\ pc = "copy" => tmp = Prefix(offset)
  /\ pc = "replace" => tmp = Data
  /\ pc = "unlink" => dst = Data
  /\ pc = "return" =>
       IF ret = 0 THEN src = Absent /\ dst = Data ELSE src = Data
  /\ dst \in {Absent, Old, Data}
  /\ src = Data \/ dst = Data

CopyInv == ~place.stopsShort => CopySafe

\* From its creation to its rename the temporary file exists, and then the
\* destination does.
TempThere ==
  /\ pc = "rename" => src = Data
  /\ pc \in {"chown", "chmod", "sendfile", "copy", "replace"} => tmp \in FileData
  /\ pc = "unlink" => dst \in FileData

IInv == TypeOK /\ TempThere /\ CopyInv

LEMMA FileFacts ==
  /\ Data \in FileData /\ <<>> \in FileData
  /\ Absent \notin FileData /\ Old \notin FileData
  /\ \A n \in ShortCounts : SubSeq(Data, 1, n) \in FileData
  /\ \A t \in FileData : \A n \in 0 .. (Size - 1) : Append(t, n + 1) \in FileData
  <1>1. Data \in FileData /\ <<>> \in FileData
    BY SizeAssumption DEF Data, FileData
  <1>2. ASSUME NEW n \in ShortCounts
        PROVE  SubSeq(Data, 1, n) \in FileData
    <2>1. n \in 0 .. Len(Data)
      BY SizeAssumption, ShortAssumption DEF Data
    <2> QED
      BY <1>1, <2>1, SizeAssumption DEF FileData
  <1>3. ASSUME NEW t \in FileData, NEW n \in 0 .. (Size - 1)
        PROVE  Append(t, n + 1) \in FileData
    BY SizeAssumption DEF FileData
  <1> QED
    BY <1>1, <1>2, <1>3, NoFileAssumption DEF FileData

LEMMA PrefixFacts ==
  /\ Prefix(0) = <<>>
  /\ Prefix(Size) = Data
  /\ \A n \in 0 .. (Size - 1) : Append(Prefix(n), n + 1) = Prefix(n + 1)
  <1>1. Prefix(0) = <<>> /\ Prefix(Size) = Data
    BY SizeAssumption DEF Prefix, Data
  <1>2. ASSUME NEW n \in 0 .. (Size - 1)
        PROVE  Append(Prefix(n), n + 1) = Prefix(n + 1)
    BY SizeAssumption DEF Prefix
  <1> QED
    BY <1>1, <1>2

LEMMA TypeStep == TypeOK /\ TempThere /\ [Next]_vars => (TypeOK /\ TempThere)'
  <1> SUFFICES ASSUME TypeOK, TempThere, [Next]_vars
               PROVE  TypeOK' /\ TempThere'
    OBVIOUS
  <1> USE DEF TypeOK, TempThere, Places, Labels, Goto, Return
  <1>1. CASE TryRename
    BY <1>1, FileFacts DEF TryRename
  <1>2. CASE OpenSource \/ StatSource \/ SetOwner \/ SetMode
    BY <1>2 DEF OpenSource, StatSource, SetOwner, SetMode
  <1>3. CASE CreateTemp
    BY <1>3, FileFacts DEF CreateTemp
  <1>4. CASE Sendfile
    <2>1. tmp' \in FileData
      BY <1>4, FileFacts DEF Sendfile
    <2>2. pc' \in {"replace", "copy"} /\ ret' = ret /\ offset' = 0
      BY <1>4 DEF Sendfile
    <2>3. UNCHANGED <<place, src, dst>>
      BY <1>4 DEF Sendfile
    <2> QED
      BY <2>1, <2>2, <2>3, SizeAssumption
  <1>5. CASE CopyBlock
    <2>1. CASE pc' = "copy"
      <3>1. offset \in 0 .. (Size - 1) /\ offset' = offset + 1
        BY <1>5, <2>1, SizeAssumption DEF CopyBlock
      <3>2. tmp \in FileData /\ tmp' = Append(tmp, offset + 1)
        BY <1>5, <2>1 DEF CopyBlock
      <3>3. tmp' \in FileData /\ offset' \in 0 .. Size
        BY <3>1, <3>2, FileFacts, SizeAssumption
      <3>4. UNCHANGED <<place, src, dst, ret>>
        BY <1>5, <2>1 DEF CopyBlock
      <3> QED
        BY <2>1, <3>3, <3>4
    <2>2. CASE pc' # "copy"
      BY <1>5, <2>2 DEF CopyBlock
    <2> QED
      BY <2>1, <2>2
  <1>6. CASE DiscardTemp
    BY <1>6 DEF DiscardTemp
  <1>7. CASE ReplaceDestination
    BY <1>7 DEF ReplaceDestination
  <1>8. CASE UnlinkSource
    BY <1>8 DEF UnlinkSource
  <1>9. CASE Kill
    BY <1>9 DEF Kill
  <1>10. CASE UNCHANGED vars
    BY <1>10 DEF vars
  <1> QED
    BY <1>1, <1>2, <1>3, <1>4, <1>5, <1>6, <1>7, <1>8, <1>9, <1>10
    DEF Next, Step

\* Every action keeps the state variables within their types, for a file of any
\* size, any set of failing calls and any short counts (move_file.c:21-108).
THEOREM TypeCorrect == Spec => []TypeOK
  <1>1. Init => TypeOK /\ TempThere
    BY SizeAssumption DEF Init, TypeOK, TempThere, Labels
  <1> QED
    BY <1>1, TypeStep, PTL DEF Spec

LEMMA CopyStep ==
  ASSUME IInv, [Next]_vars, ~place.stopsShort
  PROVE  CopySafe'
  <1>0. CopySafe
    BY DEF IInv, CopyInv
  <1> USE <1>0 DEF IInv, TypeOK, TempThere, CopySafe, Moving, Labels, Goto, Return
  <1>1. CASE TryRename
    BY <1>1, FileFacts DEF TryRename
  <1>2. CASE OpenSource \/ StatSource \/ SetOwner \/ SetMode
    BY <1>2 DEF OpenSource, StatSource, SetOwner, SetMode
  <1>3. CASE CreateTemp
    BY <1>3 DEF CreateTemp
  <1>4. CASE Sendfile
    <2>1. \/ tmp' = Data /\ pc' = "replace"
          \/ tmp' = <<>> /\ pc' = "copy"
      BY <1>4 DEF Sendfile
    <2>2. UNCHANGED <<place, src, dst, ret>> /\ offset' = 0
      BY <1>4 DEF Sendfile
    <2> QED
      BY <1>4, <2>1, <2>2, PrefixFacts DEF Sendfile
  <1>5. CASE CopyBlock
    <2>1. CASE pc' = "copy"
      <3>1. offset \in 0 .. (Size - 1) /\ offset' = offset + 1
        BY <1>5, <2>1, SizeAssumption DEF CopyBlock
      <3>2. tmp = Prefix(offset) /\ tmp' = Append(tmp, offset + 1)
        BY <1>5, <2>1 DEF CopyBlock
      <3>3. tmp' = Prefix(offset')
        BY <3>1, <3>2, PrefixFacts
      <3>4. UNCHANGED <<place, src, dst, ret>> /\ src = Data
        BY <1>5, <2>1 DEF CopyBlock
      <3> QED
        BY <2>1, <3>3, <3>4
    <2>2. CASE pc' # "copy"
      BY <1>5, <2>2, PrefixFacts, SizeAssumption DEF CopyBlock
    <2> QED
      BY <2>1, <2>2
  <1>6. CASE DiscardTemp
    BY <1>6 DEF DiscardTemp
  <1>7. CASE ReplaceDestination
    BY <1>7 DEF ReplaceDestination
  <1>8. CASE UnlinkSource
    BY <1>8, FileFacts DEF UnlinkSource
  <1>9. CASE Kill
    BY <1>9 DEF Kill
  <1>10. CASE UNCHANGED vars
    BY <1>10 DEF vars
  <1> QED
    BY <1>1, <1>2, <1>3, <1>4, <1>5, <1>6, <1>7, <1>8, <1>9, <1>10
    DEF Next, Step

LEMMA Invariance == Spec => []IInv
  <1>1. Init => IInv
    BY SizeAssumption, FileFacts
    DEF Init, IInv, TypeOK, TempThere, CopyInv, CopySafe, Moving, Labels
  <1>2. IInv /\ [Next]_vars => IInv'
    <2>1. IInv /\ [Next]_vars => place' = place
      BY DEF vars, Next, Step, TryRename, OpenSource, StatSource, CreateTemp, SetOwner,
         SetMode, Sendfile, CopyBlock, DiscardTemp, ReplaceDestination, UnlinkSource, Kill
    <2> QED
      BY <2>1, TypeStep, CopyStep DEF IInv, CopyInv
  <1> QED
    BY <1>1, <1>2, PTL DEF Spec

\* Where sendfile() never stops short, the destination is at every
\* moment either untouched or the whole new file, kills and failing calls
\* included (copy_file.c:42-63, move_file.c:98).
THEOREM NeverPartial == Spec => []DestinationWhole
  <1>1. IInv => DestinationWhole
    BY DEF IInv, CopyInv, CopySafe, DestinationWhole
  <1> QED
    BY <1>1, Invariance, PTL

\* Under the same assumption the data is at the source or at the destination
\* at every moment: unlinking the source is the last step (move_file.c:104).
THEOREM DataSafe == Spec => []NothingLost
  <1>1. IInv => NothingLost
    BY DEF IInv, CopyInv, CopySafe, NothingLost
  <1> QED
    BY <1>1, Invariance, PTL

\* Under the same assumption the caller can trust the answer: pkg_merge takes
\* 0 as "moved", and -1 leaves the source for another try.
THEOREM AnswerTrue == Spec => []ResultTrue
  <1>1. IInv => ResultTrue
    BY DEF IInv, CopyInv, CopySafe, ResultTrue
  <1> QED
    BY <1>1, Invariance, PTL

\* Whatever sendfile() does, the source disappears only in a step after which
\* the destination holds what the call wrote (move_file.c:28, 98-104).
THEOREM SourceRemovedLast == Spec => SourceLast
  <1>1. Init => TypeOK /\ TempThere
    BY SizeAssumption DEF Init, TypeOK, TempThere, Labels
  <1>2. TypeOK /\ TempThere /\ [Next]_vars
          => [src' # src => dst' \notin {Absent, Old}]_vars
    <2> SUFFICES ASSUME TypeOK, TempThere, Next, src' # src
                 PROVE  dst' \notin {Absent, Old}
      BY DEF vars
    <2>1. TryRename \/ UnlinkSource
      BY DEF Next, Step, OpenSource, StatSource, CreateTemp, SetOwner, SetMode,
             Sendfile, CopyBlock, DiscardTemp, ReplaceDestination, Kill
    <2> QED
      BY <2>1, FileFacts
      DEF TryRename, UnlinkSource, TypeOK, TempThere
  <1> QED
    BY <1>1, <1>2, TypeStep, PTL DEF Spec, SourceLast
=============================================================================
