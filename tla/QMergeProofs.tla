---------------------------- MODULE QMergeProofs ----------------------------
(***************************************************************************)
(* What TLAPS proves about QMerge, for any packages, images, prefixes and  *)
(* names, in three parts.  One step of it: the types, that an unmerge never*)
(* takes a file the new version has put in place (no two names resolving   *)
(* to one file), and that an existing protected file is never touched but  *)
(* in the two known cases.  Whole runs: the order of the phase functions,  *)
(* and that a slot has one version.  The live root: that it is a tree which*)
(* has no file without a package that accounts for it, and that the files  *)
(* of the installed packages are in it.                                    *)
(***************************************************************************)
EXTENDS QMerge, SequenceTheorems, WellFoundedInduction, TLAPS

(* The three sequences are hidden behind names: the provers need only what *)
(* the lemmas below say of them.                                           *)
Stacks == Seq(Frames)
Walks == Seq(Path)
Logs == Seq(PhaseRuns)
Roots == [Path -> Nodes]
Pendings == [Path -> [0 .. CfgSlots - 1 -> Data \cup {NoData}]]

LEMMA PushFrame ==
  ASSUME NEW s \in Stacks, NEW f \in Frames
  PROVE  /\ Append(s, f) \in Stacks
         /\ Append(s, f) # <<>>
BY AppendProperties DEF Stacks

LEMMA StackTop ==
  ASSUME NEW s \in Stacks, s # <<>>
  PROVE  /\ Len(s) \in Nat \ {0} /\ Len(s) \in 1 .. Len(s)
         /\ \A i \in 1 .. Len(s) : s[i] \in Frames
<1>1. Len(s) \in Nat \ {0}
  BY EmptySeq DEF Stacks
<1> QED
  BY <1>1, ElementOfSeq DEF Stacks

LEMMA PopFrame ==
  ASSUME NEW s \in Stacks, s # <<>>
  PROVE  /\ SubSeq(s, 1, Len(s) - 1) \in Stacks
         /\ Len(s) = 1 => SubSeq(s, 1, Len(s) - 1) = <<>>
         /\ Len(s) # 1 => SubSeq(s, 1, Len(s) - 1) # <<>>
<1> DEFINE n == Len(s) - 1
<1>1. n \in Nat /\ \A i \in 1 .. n : s[i] \in Frames
  BY StackTop
<1> HIDE DEF n
<1>2. /\ SubSeq(s, 1, n) \in Seq(Frames)
      /\ Len(SubSeq(s, 1, n)) = IF 1 <= n THEN n - 1 + 1 ELSE 0
  BY <1>1, SubSeqProperties
<1>3. Len(<<>>) = 0
  BY EmptySeq
<1>4. n = 0 => SubSeq(s, 1, n) = <<>>
  BY <1>1, SubSeqEmpty
<1>5. n # 0 => SubSeq(s, 1, n) # <<>>
  <2> SUFFICES ASSUME n # 0, SubSeq(s, 1, n) = <<>> PROVE FALSE
    OBVIOUS
  <2>1. Len(SubSeq(s, 1, n)) = 0
    BY <1>3
  <2> QED
    BY <1>1, <1>2, <2>1
<1>6. Len(s) \in Nat \ {0}
  BY StackTop
<1> QED
  BY <1>2, <1>4, <1>5, <1>6 DEF Stacks, n

LEMMA TopChanged ==
  ASSUME NEW s \in Stacks, s # <<>>, NEW d
  PROVE  /\ [s EXCEPT ![Len(s)].deps = @ \ {d}] \in Stacks
         /\ [s EXCEPT ![Len(s)].deps = @ \ {d}] # <<>>
<1> DEFINE f == [s[Len(s)] EXCEPT !.deps = @ \ {d}]
           t == [s EXCEPT ![Len(s)] = f]
<1>1. s[Len(s)] \in Frames /\ Len(s) \in 1 .. Len(s) /\ Len(s) \in Nat \ {0}
  BY StackTop
<1>2. f \in Frames
  BY <1>1 DEF Frames
<1> HIDE DEF f
<1>3. t \in Seq(Frames) /\ Len(t) = Len(s)
  BY <1>1, <1>2, ExceptSeq DEF Stacks
<1>4. t # <<>>
  BY <1>1, <1>3, EmptySeq
<1>5. t = [s EXCEPT ![Len(s)].deps = @ \ {d}]
  BY DEF f
<1> QED
  BY <1>3, <1>4, <1>5 DEF Stacks

LEMMA WalkSteps ==
  ASSUME NEW s \in Walks, NEW n \in Path
  PROVE  Append(s, n) \in Walks
BY AppendProperties DEF Walks

LEMMA WalkEnd ==
  ASSUME NEW s \in Walks, s # <<>>
  PROVE  /\ s[Len(s)] \in Path
         /\ SubSeq(s, 1, Len(s) - 1) \in Walks
<1> DEFINE n == Len(s) - 1
<1>1. Len(s) \in Nat \ {0}
  BY EmptySeq DEF Walks
<1>2. \A i \in 1 .. Len(s) : s[i] \in Path
  BY <1>1, ElementOfSeq DEF Walks
<1>3. n \in Nat /\ \A i \in 1 .. n : s[i] \in Path
  BY <1>1, <1>2
<1> HIDE DEF n
<1>4. SubSeq(s, 1, n) \in Seq(Path)
  BY <1>3, SubSeqProperties
<1> QED
  BY <1>1, <1>2, <1>4 DEF Walks, n

LEMMA EmptySequences == <<>> \in Stacks /\ <<>> \in Walks /\ <<>> \in Logs
BY EmptySeq DEF Stacks, Walks, Logs

LEMMA PhaseLogged ==
  ASSUME NEW p \in Pkg, NEW f \in PhaseNames
  PROVE  /\ Phase(f, p) \in Logs
         /\ \A s, t \in Logs : s \o t \in Logs
<1>1. <<[phase |-> f, of |-> p]>> \in Logs
  BY DEF Logs, PhaseRuns
<1>2. Phase(f, p) \in Logs
  BY <1>1, EmptySequences DEF Phase
<1>3. \A s, t \in Logs : s \o t \in Logs
  BY ConcatProperties DEF Logs
<1> QED
  BY <1>2, <1>3

-----------------------------------------------------------------------------
(* The type invariant by parts, and what the control knows.                *)

DiskOK ==
  /\ live \in Roots /\ cfg \in Pendings
  /\ DOMAIN vdb = Pkg
  /\ \A p \in Pkg : vdb[p] \in {Unlisted, Partial} \cup ListingsOf(p)
  /\ bare \subseteq Pkg

PlanOK == pc \in Labels /\ todo \subseteq Pkg /\ stack \in Stacks

CacheOK ==
  /\ DOMAIN cache = Slots
  /\ \A s \in Slots : cache[s] \in {Unread} \cup SUBSET Pkg

MetaOK ==
  /\ DOMAIN meta = Pkg
  /\ \A p \in Pkg : meta[p] \in {Unread} \cup ListingsOf(p)

JobOK ==
  /\ left \subseteq Path /\ at \in Walks
  /\ rec \subseteq Path /\ keep \subseteq Path

RemovalOK ==
  /\ victim \in Pkg \cup {NoPkg}
  /\ gone \subseteq Path /\ dirs \subseteq Path

HistoryOK ==
  /\ ran \in Logs
  /\ torn \subseteq Pkg /\ hurt \subseteq Pkg /\ dropped \subseteq Path
  /\ runs \in 0 .. MaxRuns /\ crashes \in 0 .. MaxCrashes
  /\ edits \in 0 .. MaxEdits

LEMMA TypeParts ==
  TypeOK <=> /\ DiskOK /\ PlanOK /\ CacheOK /\ MetaOK
             /\ JobOK /\ RemovalOK /\ HistoryOK
BY DEF TypeOK, DiskOK, PlanOK, CacheOK, MetaOK, JobOK, RemovalOK, HistoryOK,
       Roots, Pendings, Stacks, Walks, Logs

LEMMA TypeNext ==
  /\ DiskOK' /\ PlanOK' /\ CacheOK' /\ MetaOK'
  /\ JobOK' /\ RemovalOK' /\ HistoryOK'
  => TypeOK'
BY DEF TypeOK, DiskOK, PlanOK, CacheOK, MetaOK, JobOK, RemovalOK, HistoryOK,
       Roots, Pendings, Stacks, Walks, Logs

\* Who is at work: a call of pkg_merge while there are frames, a package being
\* unmerged with its CONTENTS read, an image of which the names are merged.
Control ==
  /\ pc \in {"walk", "merge", "postinst", "clear", "place", "fill"} => stack # <<>>
  /\ pc \in {"idle", "pick", "remove"} => stack = <<>>
  /\ pc \in {"unmerge", "dirs", "erase"} => victim \in Pkg /\ meta[victim] # Unread
  /\ pc = "unmerge" => gone \subseteq DOMAIN meta[victim]
  /\ stack = <<>> \/ pc = "walk" => left = {} /\ rec = {}
  /\ stack # <<>> => /\ left \subseteq DOMAIN Image[Top.pkg]
                     /\ rec \subseteq DOMAIN Image[Top.pkg]

\* The heart of ReplacedStays: what has been merged is kept until it was met.
KeepInv ==
  /\ pc = "merge" => keep = rec
  /\ pc = "unmerge" /\ stack # <<>> => gone \cap rec \subseteq keep

IInv == TypeOK /\ Control /\ KeepInv

LEMMA ListingFacts ==
  ASSUME NEW p \in Pkg, NEW c \in ListingsOf(p)
  PROVE  /\ DOMAIN c \subseteq DOMAIN Image[p] /\ DOMAIN c \subseteq Path
         /\ \A n \in DOMAIN c : c[n] \in Nodes
BY DataAssumption DEF ListingsOf, Listing, Nodes, Kinds, Dir

LEMMA ImageFacts ==
  ASSUME NEW p \in Pkg, NEW n \in DOMAIN Image[p]
  PROVE  /\ n \in Path /\ Image[p][n] \in Nodes
         /\ Image[p][n].k \in {"dir", "obj", "sym"}
         /\ Image[p][n].k # "dir" => Image[p][n].d \in Data
BY DataAssumption DEF Nodes, Kinds, Dir

LEMMA NodeFacts == None \in Nodes /\ Dir \in Nodes /\ [k |-> "obj", d |-> User] \in Nodes
BY DataAssumption DEF None, Dir, Nodes, Kinds

LEMMA PutType ==
  ASSUME live \in Roots, NEW x \in Path, NEW node \in Nodes, Put(x, node)
  PROVE  live' \in Roots /\ \A y \in Path : y # x => live'[y] = live[y]
BY DEF Put, Roots

\* rmdir_r_at removes directories only.
LEMMA RmdirFacts ==
  ASSUME NEW fs \in Roots, NEW c, NEW chain
  PROVE  /\ rmdir_r_at(fs, c, chain) \in Roots
         /\ \A x \in Path : fs[x].k # "dir" => rmdir_r_at(fs, c, chain)[x] = fs[x]
BY NodeFacts DEF rmdir_r_at, Roots

LEMMA LookupFacts ==
  ASSUME NEW p \in Pkg, CacheOK, Lookup(Slot[p])
  PROVE  CacheOK' /\ Previnst(cache'[Slot[p]]) \in Pkg \cup {NoPkg}
<1>1. Slot[p] \in Slots
  BY DEF Slots
<1>2. Listings(Slot[p]) \subseteq SUBSET Pkg
  BY DEF Listings
<1>3. CacheOK' /\ cache'[Slot[p]] \in SUBSET Pkg
  <2>1. CASE cache[Slot[p]] = Unread
    BY <1>1, <1>2, <2>1 DEF Lookup, CacheOK
  <2>2. CASE cache[Slot[p]] # Unread
    BY <1>1, <2>2 DEF Lookup, CacheOK
  <2> QED
    BY <2>1, <2>2
<1>4. ASSUME NEW ps \in SUBSET Pkg
      PROVE  Previnst(ps) \in Pkg \cup {NoPkg}
  BY PkgAssumption DEF Previnst
<1> QED
  BY <1>3, <1>4

-----------------------------------------------------------------------------
(* The invariant is kept, one lemma per part of the program.               *)

LEMMA InitInv == Init => IInv
<1> SUFFICES ASSUME Init PROVE IInv
  OBVIOUS
<1>1. DiskOK
  BY DataAssumption, BoundAssumption
     DEF Init, DiskOK, Roots, Pendings, NoCfg
<1>2. PlanOK /\ CacheOK /\ MetaOK /\ JobOK /\ RemovalOK
  BY EmptySequences DEF Init, PlanOK, CacheOK, MetaOK, JobOK, RemovalOK, Labels
<1>3. HistoryOK
  BY EmptySequences, BoundAssumption DEF Init, HistoryOK
<1>4. Control /\ KeepInv
  BY DEF Init, Control, KeepInv
<1> QED
  BY <1>1, <1>2, <1>3, <1>4, TypeParts DEF IInv

LEMMA ChoosingStep ==
  ASSUME IInv, BeginMerge \/ BeginRemoval \/ PickTarget \/ WalkDepend \/ Prepare
  PROVE  IInv'
<1> USE DEF IInv
<1>0. DiskOK /\ PlanOK /\ CacheOK /\ MetaOK /\ JobOK /\ RemovalOK /\ HistoryOK
  BY TypeParts
<1>1. CASE BeginMerge \/ BeginRemoval
  <2>1. DiskOK' /\ PlanOK' /\ CacheOK' /\ MetaOK' /\ JobOK' /\ RemovalOK'
    BY <1>0, <1>1, BoundAssumption
       DEF BeginMerge, BeginRemoval, DiskOK, PlanOK, CacheOK, MetaOK, JobOK,
           RemovalOK, disk, entries, job, removal, Labels
  <2>2. HistoryOK'
    BY <1>0, <1>1, BoundAssumption
       DEF BeginMerge, BeginRemoval, HistoryOK, history
  <2>3. Control' /\ KeepInv'
    BY <1>1 DEF BeginMerge, BeginRemoval, Control, KeepInv, job, removal, Top
  <2> QED
    BY <2>1, <2>2, <2>3, TypeNext
<1>2. CASE PickTarget \/ WalkDepend
  <2>1. DiskOK' /\ MetaOK' /\ JobOK' /\ RemovalOK' /\ HistoryOK'
    BY <1>0, <1>2
       DEF PickTarget, WalkDepend, DiskOK, MetaOK, JobOK, RemovalOK, HistoryOK,
           disk, entries, job, removal, history, bounds
  <2>2. ASSUME NEW p \in Pkg, NEW frames \in Stacks, Enter(p, frames)
        PROVE  CacheOK' /\ stack' \in Stacks /\ stack' # <<>> /\ pc' = "walk"
    <3> DEFINE f == [pkg |-> p, prev |-> Previnst(cache'[Slot[p]]), deps |-> RDepend[p]]
    <3>1. CacheOK' /\ f \in Frames
      BY <1>0, <2>2, LookupFacts, PkgAssumption DEF Enter, Frames
    <3>2. stack' = Append(frames, f) /\ pc' = "walk"
      BY <2>2 DEF Enter
    <3> HIDE DEF f
    <3> QED
      BY <3>1, <3>2, PushFrame
  <2>3. CASE PickTarget
    <3>1. PICK p \in todo : \/ Enter(p, stack)
                            \/ UNCHANGED <<pc, stack, cache>>
      BY <2>3 DEF PickTarget
    <3>2. p \in Pkg /\ todo' \subseteq Pkg /\ pc = "pick"
      BY <1>0, <2>3, <3>1 DEF PickTarget, PlanOK
    <3>3. PlanOK' /\ CacheOK' /\ (pc' = "walk" => stack' # <<>>)
          /\ (pc' = "pick" => stack' = <<>>) /\ pc' \in {"walk", "pick"}
      BY <1>0, <2>2, <3>1, <3>2 DEF PlanOK, CacheOK, Labels, Control
    <3>4. left' = {} /\ rec' = {}
      BY <2>3, <3>2 DEF PickTarget, Control, job
    <3> QED
      BY <2>1, <3>3, <3>4, TypeNext DEF Control, KeepInv
  <2>4. CASE WalkDepend
    <3>0. pc = "walk" /\ stack \in Stacks /\ stack # <<>> /\ Top \in Frames
      BY <1>0, <2>4, StackTop DEF WalkDepend, Control, PlanOK, Top
    <3>1. PICK d \in Top.deps :
            LET rest == [stack EXCEPT ![Len(stack)].deps = @ \ {d}]
            IN \/ Enter(d, rest)
               \/ Lookup(Slot[d]) /\ stack' = rest /\ UNCHANGED pc
      BY <2>4 DEF WalkDepend
    <3> DEFINE rest == [stack EXCEPT ![Len(stack)].deps = @ \ {d}]
    <3>2. d \in Pkg /\ rest \in Stacks /\ rest # <<>>
      BY <3>0, TopChanged DEF Frames
    <3> HIDE DEF rest
    <3>3. \/ Enter(d, rest)
          \/ Lookup(Slot[d]) /\ stack' = rest /\ UNCHANGED pc
      BY <3>1 DEF rest
    <3>4. CacheOK' /\ stack' \in Stacks /\ stack' # <<>> /\ pc' = "walk"
      BY <1>0, <2>2, <3>0, <3>2, <3>3, LookupFacts
    <3>5. PlanOK' /\ left' = {} /\ rec' = {}
      BY <1>0, <2>4, <3>0, <3>4 DEF WalkDepend, PlanOK, Labels, Control, job
    <3> QED
      BY <2>1, <3>4, <3>5, TypeNext DEF Control, KeepInv
  <2> QED
    BY <1>2, <2>3, <2>4
<1>3. CASE Prepare
  <2>0. pc = "walk" /\ stack # <<>> /\ Top \in Frames /\ Top.pkg \in Pkg /\ Top' = Top
    BY <1>0, <1>3, StackTop DEF Prepare, Control, PlanOK, Top, Frames, plan
  <2>1. DiskOK' /\ PlanOK' /\ CacheOK' /\ MetaOK' /\ RemovalOK'
    BY <1>0, <1>3 DEF Prepare, PrermOfNew, DiskOK, PlanOK, CacheOK, MetaOK, RemovalOK, disk, entries,
                      plan, removal, Labels
  <2>2. JobOK' /\ Control' /\ KeepInv'
    BY <1>3, <2>0, EmptySequences, DataAssumption
       DEF Prepare, JobOK, Control, KeepInv, plan
  <2>3. ran' \in Logs
    <3> DEFINE p == Top.pkg
               last == IF Top.prev # NoPkg THEN Phase("prerm", p) ELSE <<>>
    <3>1. p \in Pkg /\ {"pretend", "setup", "preinst", "prerm"} \subseteq PhaseNames
      BY <2>0 DEF PhaseNames
    <3>2. ran' = Phase("pretend", p) \o Phase("setup", p) \o Phase("preinst", p) \o last
      BY <1>3 DEF Prepare, PrermOfNew
    <3>3. last \in Logs
      BY <3>1, PhaseLogged, EmptySequences
    <3> HIDE DEF p, last
    <3> QED
      BY <3>1, <3>2, <3>3, PhaseLogged
  <2>4. HistoryOK'
    BY <1>0, <1>3, <2>0, <2>3 DEF Prepare, PrermOfNew, HistoryOK, bounds
  <2> QED
    BY <2>1, <2>2, <2>4, TypeNext
<1> QED
  BY <1>1, <1>2, <1>3

\* The number a ._cfg file gets is one of them.
LEMMA CfgFacts ==
  ASSUME cfg \in Pendings, NEW x \in Path
  PROVE  /\ CfgNumber(x) \in 0 .. CfgSlots - 1
         /\ {i \in 0 .. CfgSlots - 1 : cfg[x][i] = NoData} # {}
            => cfg[x][CfgNumber(x)] = NoData
<1> DEFINE free == {i \in 0 .. CfgSlots - 1 : cfg[x][i] = NoData}
<1>1. CfgSlots - 1 \in 0 .. CfgSlots - 1
  BY BoundAssumption
<1>2. CASE free # {}
  <2>1. \E i \in free : \A j \in free : i <= j
    <3>1. free \subseteq Nat
      OBVIOUS
    <3> HIDE DEF free
    <3>2. \E i \in free : \A j \in free : ~(<<j, i>> \in OpToRel(<, Nat))
      BY <1>2, <3>1, NatLessThanWellFounded, WFMin
    <3>3. \A i, j \in Nat : ~(<<j, i>> \in OpToRel(<, Nat)) => i <= j
      BY DEF OpToRel
    <3> QED
      BY <3>1, <3>2, <3>3
  <2> QED
    BY <1>2, <2>1 DEF CfgNumber
<1> QED
  BY <1>1, <1>2 DEF CfgNumber

LEMMA CfgUpdate ==
  ASSUME cfg \in Pendings, NEW x \in Path, NEW i \in 0 .. CfgSlots - 1,
         NEW d \in Data \cup {NoData}
  PROVE  [cfg EXCEPT ![x][i] = d] \in Pendings
<1> DEFINE Names == [0 .. CfgSlots - 1 -> Data \cup {NoData}]
           g == [cfg[x] EXCEPT ![i] = d]
<1>1. cfg \in [Path -> Names]
  BY DEF Pendings
<1>2. cfg[x] \in Names
  BY <1>1
<1>3. g \in Names
  BY <1>2
<1>4. [cfg EXCEPT ![x] = g] \in [Path -> Names]
  <2> HIDE DEF Names, g
  <2> QED
    BY <1>1, <1>3
<1>5. [cfg EXCEPT ![x] = g] = [cfg EXCEPT ![x][i] = d]
  OBVIOUS
<1> QED
  BY <1>4, <1>5 DEF Pendings

\* What merging one entry, of whatever kind, does.
LEMMA EntryStep ==
  ASSUME IInv, pc = "merge", NEW n \in Coming, MergeDir(n) \/ MergeObj(n) \/ MergeSym(n)
  PROVE  /\ live' \in Roots /\ cfg' \in Pendings
         /\ left' \subseteq left /\ at' \in Walks
         /\ rec' \subseteq rec \cup {n} /\ rec \subseteq rec' /\ keep' = rec'
<1> USE DEF IInv
<1>0. DiskOK /\ PlanOK /\ JobOK /\ keep = rec /\ stack # <<>>
  BY TypeParts DEF Control, KeepInv
<1>1. /\ n \in left /\ Top.pkg \in Pkg /\ n \in DOMAIN Image[Top.pkg]
      /\ n \in Path /\ Loc[n] \in Path
      /\ Entry(n) \in Nodes
      /\ Entry(n).k \in {"dir", "obj", "sym"}
      /\ Entry(n).k # "dir" => Entry(n).d \in Data
  BY <1>0, StackTop, ImageFacts, PathAssumption
     DEF Coming, Control, Top, Frames, PlanOK, Entry
<1>2. CASE MergeDir(n)
  <2>1. live' \in Roots /\ UNCHANGED cfg
    BY <1>0, <1>1, <1>2, PutType, NodeFacts DEF MergeDir, DiskOK
  <2>2. left' \subseteq left /\ at' \in Walks
    BY <1>0, <1>1, <1>2, WalkSteps DEF MergeDir, JobOK
  <2>3. rec' \subseteq rec \cup {n} /\ rec \subseteq rec' /\ keep' = rec'
    BY <1>0, <1>2 DEF MergeDir, Record
  <2> QED
    BY <1>0, <2>1, <2>2, <2>3 DEF DiskOK
<1>3. CASE MergeObj(n)
  <2>1. live' \in Roots
    BY <1>0, <1>1, <1>3, PutType DEF MergeObj, DiskOK
  <2>2. cfg' \in Pendings
    BY <1>0, <1>1, <1>3, CfgFacts, CfgUpdate DEF MergeObj, DiskOK
  <2> QED
    BY <1>0, <1>3, <2>1, <2>2 DEF MergeObj, Record, JobOK
<1>4. CASE MergeSym(n)
  <2>1. live' \in Roots
    BY <1>0, <1>1, <1>4, PutType, NodeFacts DEF MergeSym, DiskOK
  <2> QED
    BY <1>0, <1>4, <2>1 DEF MergeSym, Record, JobOK, DiskOK
<1> QED
  BY <1>2, <1>3, <1>4

\* Beginning to unmerge package q.
LEMMA UnmergeStarts ==
  ASSUME IInv, NEW q \in Pkg, NEW label \in {"remove", "postinst"},
         Unmerge(q, label), UNCHANGED vdb
  PROVE  /\ MetaOK' /\ RemovalOK'
         /\ hurt' \subseteq hurt \cup Pkg
         /\ \/ pc' = label
            \/ /\ pc' = "unmerge" /\ victim' \in Pkg /\ meta'[victim'] # Unread
               /\ gone' \subseteq DOMAIN meta'[victim']
<1>0. DiskOK /\ MetaOK /\ RemovalOK
  BY TypeParts DEF IInv
<1>1. CASE ContentsOf(q) = Unread
  BY <1>0, <1>1 DEF Unmerge, MetaOK, RemovalOK, removal
<1>2. CASE ContentsOf(q) # Unread
  <2>1. ContentsOf(q) \in ListingsOf(q)
    BY <1>0, <1>2 DEF ContentsOf, Complete, DiskOK, MetaOK
  <2>2. DOMAIN ContentsOf(q) \subseteq Path
    BY <2>1, ListingFacts
  <2>3. /\ meta' = [meta EXCEPT ![q] = ContentsOf(q)] /\ victim' = q /\ dirs' = {}
        /\ gone' = DOMAIN ContentsOf(q) /\ hurt' \subseteq hurt \cup Pkg /\ pc' = "unmerge"
    BY <1>2 DEF Unmerge, Rivals
  <2>4. MetaOK' /\ RemovalOK' /\ meta'[q] = ContentsOf(q)
    BY <1>0, <2>1, <2>2, <2>3 DEF MetaOK, RemovalOK
  <2> QED
    BY <1>2, <2>3, <2>4
<1> QED
  BY <1>1, <1>2

LEMMA MergingStep ==
  ASSUME IInv, MergeEntry \/ LeaveDir \/ FinishMerge
  PROVE  IInv'
<1> USE DEF IInv
<1>0. /\ DiskOK /\ PlanOK /\ CacheOK /\ MetaOK /\ JobOK /\ RemovalOK /\ HistoryOK
      /\ pc = "merge" /\ stack # <<>> /\ Top \in Frames /\ keep = rec
  <2>1. pc = "merge"
    BY DEF MergeEntry, LeaveDir, FinishMerge
  <2> QED
    BY <2>1, TypeParts, StackTop DEF Control, KeepInv, Top, PlanOK
<1>1. CASE MergeEntry
  <2>1. PICK n \in Coming : MergeDir(n) \/ MergeObj(n) \/ MergeSym(n)
    BY <1>1 DEF MergeEntry
  <2>2. n \in left
    BY DEF Coming
  <2>3. /\ live' \in Roots /\ cfg' \in Pendings
        /\ left' \subseteq left /\ at' \in Walks
        /\ rec' \subseteq rec \cup {n} /\ keep' = rec'
    BY <1>0, <2>1, EntryStep
  <2>4. DiskOK' /\ JobOK'
    BY <1>0, <1>1, <2>2, <2>3 DEF MergeEntry, DiskOK, entries, JobOK
  <2>5. PlanOK' /\ CacheOK' /\ MetaOK' /\ RemovalOK' /\ HistoryOK'
    BY <1>0, <1>1 DEF MergeEntry, PlanOK, CacheOK, MetaOK, RemovalOK, HistoryOK,
                      plan, removal, history, bounds
  <2>6. Control' /\ KeepInv'
    BY <1>0, <1>1, <2>2, <2>3 DEF MergeEntry, Control, KeepInv, Top, plan
  <2> QED
    BY <2>4, <2>5, <2>6, TypeNext
<1>2. CASE LeaveDir
  <2>1. /\ at # <<>> /\ at' = SubSeq(at, 1, Len(at) - 1) /\ UNCHANGED <<cfg, vdb, bare>>
        /\ \/ Put(Loc[at[Len(at)]], None) \/ UNCHANGED live
    BY <1>2 DEF LeaveDir, entries
  <2>2. at' \in Walks /\ Loc[at[Len(at)]] \in Path
    BY <1>0, <2>1, WalkEnd, PathAssumption DEF JobOK
  <2>3. live' \in Roots
    BY <1>0, <2>1, <2>2, PutType, NodeFacts DEF DiskOK
  <2>4. DiskOK' /\ JobOK'
    BY <1>0, <1>2, <2>1, <2>2, <2>3 DEF LeaveDir, DiskOK, JobOK
  <2>5. PlanOK' /\ CacheOK' /\ MetaOK' /\ RemovalOK' /\ HistoryOK'
    BY <1>0, <1>2 DEF LeaveDir, PlanOK, CacheOK, MetaOK, RemovalOK, HistoryOK,
                      plan, removal, history, bounds
  <2>6. Control' /\ KeepInv'
    BY <1>0, <1>2 DEF LeaveDir, Control, KeepInv, Top, plan
  <2> QED
    BY <2>4, <2>5, <2>6, TypeNext
<1>3. CASE FinishMerge
  <2>1. /\ UNCHANGED <<disk, plan, job, ran, torn, dropped, bounds>>
        /\ \/ pc' = "postinst" /\ UNCHANGED <<meta, removal, hurt>>
           \/ Top.prev \in Pkg /\ Unmerge(Top.prev, "postinst")
    BY <1>0, <1>3 DEF FinishMerge, Frames
  <2>2. /\ MetaOK' /\ RemovalOK' /\ hurt' \subseteq Pkg
        /\ \/ pc' = "postinst"
           \/ /\ pc' = "unmerge" /\ victim' \in Pkg /\ meta'[victim'] # Unread
              /\ gone' \subseteq DOMAIN meta'[victim']
    BY <1>0, <2>1, UnmergeStarts DEF MetaOK, RemovalOK, removal, HistoryOK, disk, entries
  <2>3. DiskOK' /\ PlanOK' /\ CacheOK' /\ JobOK' /\ HistoryOK'
    BY <1>0, <2>1, <2>2 DEF DiskOK, PlanOK, CacheOK, JobOK, HistoryOK, disk, entries, plan, job,
                            bounds, Labels
  <2>4. Control' /\ KeepInv'
    BY <1>0, <2>1, <2>2 DEF Control, KeepInv, Top, plan, job
  <2> QED
    BY <2>2, <2>3, <2>4, TypeNext
<1> QED
  BY <1>1, <1>2, <1>3

\* One entry of the old CONTENTS: a file goes only when its name is not kept.
LEMMA EntryGone ==
  ASSUME IInv, UnmergeEntry
  PROVE  /\ live' \in Roots /\ keep' \subseteq keep /\ dirs' \subseteq Path
         /\ \E n \in gone :
              /\ gone' = gone \ {n}
              /\ keep \subseteq keep' \cup {n}
              /\ \A x \in Path :
                   live[x].k \in {"obj", "sym"} /\ live'[x] # live[x]
                   => /\ x = Loc[n] /\ n \notin keep
                      /\ FALSE \in Guarded(n) /\ Old(n).k # "dir"
<1>0. DiskOK /\ RemovalOK
  BY TypeParts DEF IInv
<1>1. PICK n \in gone :
       /\ gone' = gone \ {n}
       /\ \/ /\ Old(n).k = "dir"
             /\ dirs' = dirs \cup {n}
             /\ UNCHANGED <<live, keep>>
          \/ /\ Old(n).k # "dir" /\ (LeftBe(n) \/ TRUE \in Guarded(n))
             /\ UNCHANGED <<live, keep, dirs>>
          \/ /\ Old(n).k # "dir" /\ ~LeftBe(n) /\ FALSE \in Guarded(n)
             /\ \/ n \in keep /\ keep' = keep \ {n} /\ UNCHANGED live
                \/ /\ n \notin keep /\ ~Fatal(n)
                   /\ live' = rmdir_r_at([live EXCEPT ![Loc[n]] = None], cfg, Up[n])
                   /\ UNCHANGED keep
             /\ UNCHANGED dirs
  BY DEF UnmergeEntry
<1>2. n \in Path /\ Loc[n] \in Path
  BY <1>0, PathAssumption DEF RemovalOK
<1> DEFINE fs == [live EXCEPT ![Loc[n]] = None]
<1>3. fs \in Roots /\ \A x \in Path : x # Loc[n] => fs[x] = live[x]
  BY <1>0, <1>2, NodeFacts DEF DiskOK, Roots
<1> HIDE DEF fs
<1>4. live' = rmdir_r_at(fs, cfg, Up[n]) \/ UNCHANGED live
  BY <1>1 DEF fs
<1>5. live' = rmdir_r_at(fs, cfg, Up[n]) =>
        /\ live' \in Roots
        /\ \A x \in Path : x # Loc[n] /\ live[x].k \in {"obj", "sym"} => live'[x] = live[x]
  BY <1>3, RmdirFacts
<1>6. live' \in Roots
  BY <1>0, <1>4, <1>5 DEF DiskOK
<1>7. keep' \subseteq keep /\ dirs' \subseteq Path /\ keep \subseteq keep' \cup {n}
  BY <1>0, <1>1, <1>2 DEF RemovalOK
<1>8. ASSUME NEW x \in Path, live[x].k \in {"obj", "sym"}, live'[x] # live[x]
      PROVE  /\ x = Loc[n] /\ n \notin keep
             /\ FALSE \in Guarded(n) /\ Old(n).k # "dir"
  BY <1>1, <1>4, <1>5, <1>8
<1> QED
  BY <1>1, <1>6, <1>7, <1>8

LEMMA UnmergingStep ==
  ASSUME IInv, UnmergeEntry \/ EntriesDone \/ RemoveDir \/ Postrm
  PROVE  IInv'
<1> USE DEF IInv
<1>0. /\ DiskOK /\ PlanOK /\ CacheOK /\ MetaOK /\ JobOK /\ RemovalOK /\ HistoryOK
      /\ pc \in {"unmerge", "dirs"}
  BY TypeParts DEF UnmergeEntry, EntriesDone, RemoveDir, Postrm
<1>1. CASE UnmergeEntry
  <2>1. /\ live' \in Roots /\ keep' \subseteq keep /\ dirs' \subseteq Path
        /\ \E n \in gone : gone' = gone \ {n} /\ keep \subseteq keep' \cup {n}
    BY <1>1, EntryGone
  <2>2. DiskOK' /\ JobOK' /\ RemovalOK'
    BY <1>0, <1>1, <2>1 DEF UnmergeEntry, entries, DiskOK, JobOK, RemovalOK
  <2>3. PlanOK' /\ CacheOK' /\ MetaOK' /\ HistoryOK'
    BY <1>0, <1>1 DEF UnmergeEntry, PlanOK, CacheOK, MetaOK, HistoryOK, plan,
                      history, bounds
  <2>4. Control' /\ KeepInv'
    BY <1>0, <1>1, <2>1 DEF UnmergeEntry, Control, KeepInv, Top, plan
  <2> QED
    BY <2>2, <2>3, <2>4, TypeNext
<1>2. CASE EntriesDone \/ Postrm
  <2>1. DiskOK' /\ PlanOK' /\ CacheOK' /\ MetaOK' /\ JobOK' /\ RemovalOK'
    BY <1>0, <1>2 DEF EntriesDone, Postrm, DiskOK, PlanOK, CacheOK, MetaOK, JobOK,
                      RemovalOK, disk, entries, plan, job, removal, Labels
  <2>2. ran' \in Logs
    <3>1. CASE EntriesDone
      BY <1>0, <3>1 DEF EntriesDone, HistoryOK
    <3>2. CASE Postrm
      <4>1. victim \in Pkg /\ ran' = ran \o Phase("postrm", victim)
        BY <3>2 DEF Postrm, Control
      <4> QED
        BY <1>0, <4>1, PhaseLogged DEF HistoryOK, PhaseNames
    <3> QED
      BY <1>2, <3>1, <3>2
  <2>3. HistoryOK'
    BY <1>0, <1>2, <2>2 DEF EntriesDone, Postrm, HistoryOK, history, bounds
  <2>4. Control' /\ KeepInv'
    BY <1>0, <1>2 DEF EntriesDone, Postrm, Control, KeepInv, Top, plan, job, removal
  <2> QED
    BY <2>1, <2>3, <2>4, TypeNext
<1>3. CASE RemoveDir
  <2>1. live' \in Roots /\ dirs' \subseteq dirs /\ pc = "dirs"
    BY <1>0, <1>3, RmdirFacts DEF RemoveDir, DiskOK
  <2>2. DiskOK' /\ PlanOK' /\ CacheOK' /\ MetaOK' /\ JobOK' /\ RemovalOK' /\ HistoryOK'
    BY <1>0, <1>3, <2>1 DEF entries, RemoveDir, DiskOK, PlanOK, CacheOK, MetaOK, JobOK,
                            RemovalOK, HistoryOK, plan, job, history, bounds
  <2>3. Control' /\ KeepInv'
    BY <1>0, <1>3, <2>1 DEF RemoveDir, Control, KeepInv, Top, plan, job
  <2> QED
    BY <2>2, <2>3, TypeNext
<1> QED
  BY <1>1, <1>2, <1>3

LEMMA EndingStep ==
  ASSUME IInv, RemovePackage \/ Erase \/ Postinst \/ ClearEntry
  PROVE  IInv'
<1> USE DEF IInv
<1>0. DiskOK /\ PlanOK /\ CacheOK /\ MetaOK /\ JobOK /\ RemovalOK /\ HistoryOK
  BY TypeParts
<1>1. CASE RemovePackage
  <2>1. PICK q \in todo : /\ todo' = todo \ {q}
                          /\ ran' = Phase("prerm", q)
                          /\ Unmerge(q, "remove")
    BY <1>1 DEF RemovePackage
  <2>2. q \in Pkg /\ pc = "remove" /\ stack = <<>> /\ left = {} /\ rec = {}
        /\ UNCHANGED <<disk, stack, cache, job, torn, dropped, bounds>>
    BY <1>0, <1>1, <2>1 DEF RemovePackage, PlanOK, Control
  <2>3. /\ MetaOK' /\ RemovalOK' /\ hurt' \subseteq hurt \cup Pkg
        /\ \/ pc' = "remove"
           \/ /\ pc' = "unmerge" /\ victim' \in Pkg /\ meta'[victim'] # Unread
              /\ gone' \subseteq DOMAIN meta'[victim']
    BY <2>1, <2>2, UnmergeStarts DEF disk, entries
  <2>4. ran' \in Logs
    BY <2>1, <2>2, PhaseLogged DEF PhaseNames
  <2>5. DiskOK' /\ PlanOK' /\ CacheOK' /\ JobOK' /\ HistoryOK'
    BY <1>0, <2>1, <2>2, <2>3, <2>4
       DEF DiskOK, PlanOK, CacheOK, JobOK, HistoryOK, disk, entries, job, bounds, Labels
  <2>6. Control' /\ KeepInv'
    BY <1>0, <2>2, <2>3 DEF Control, KeepInv, job
  <2> QED
    BY <2>3, <2>5, <2>6, TypeNext
<1>2. CASE Erase
  <2>1. victim \in Pkg /\ pc = "erase"
    BY <1>2 DEF Erase, Control
  <2>2. DiskOK'
    BY <1>0, <1>2, <2>1 DEF entries, Erase, EraseStep, DiskOK
  <2>3. PlanOK' /\ CacheOK' /\ MetaOK' /\ JobOK' /\ RemovalOK' /\ HistoryOK'
    BY <1>0, <1>2 DEF Erase, PlanOK, CacheOK, MetaOK, JobOK, RemovalOK, HistoryOK,
                      plan, job, removal, bounds, FreshRemoval, Labels
  <2>4. Control' /\ KeepInv'
    BY <1>2, <2>1 DEF Erase, Control, KeepInv, Top, plan, job, removal
  <2> QED
    BY <2>2, <2>3, <2>4, TypeNext
<1>3. CASE Postinst
  <2>1. stack # <<>> /\ Top.pkg \in Pkg
    BY <1>0, <1>3, StackTop DEF Postinst, Control, PlanOK, Top, Frames
  <2>2. ran' \in Logs
    BY <1>0, <1>3, <2>1, PhaseLogged DEF Postinst, HistoryOK, PhaseNames
  <2>3. /\ DiskOK' /\ PlanOK' /\ CacheOK' /\ MetaOK' /\ JobOK' /\ RemovalOK'
        /\ HistoryOK'
    BY <1>0, <1>3, <2>2 DEF Postinst, DiskOK, PlanOK, CacheOK, MetaOK, JobOK,
          RemovalOK, HistoryOK, disk, entries, plan, job, removal, history, bounds, Labels
  <2>4. Control' /\ KeepInv'
    BY <1>3 DEF Postinst, Control, KeepInv, Top, plan, job
  <2> QED
    BY <2>3, <2>4, TypeNext
<1>4. CASE ClearEntry
  <2>1. stack # <<>> /\ Top.pkg \in Pkg
    BY <1>0, <1>4, StackTop DEF ClearEntry, Control, PlanOK, Top, Frames
  <2>2. DiskOK'
    BY <1>0, <1>4, <2>1 DEF entries, ClearEntry, EraseStep, DiskOK
  <2>3. PlanOK' /\ CacheOK' /\ MetaOK' /\ JobOK' /\ RemovalOK' /\ HistoryOK'
    BY <1>0, <1>4 DEF ClearEntry, PlanOK, CacheOK, MetaOK, JobOK, RemovalOK,
                      HistoryOK, plan, job, removal, history, bounds, Labels
  <2>4. Control' /\ KeepInv'
    BY <1>4 DEF ClearEntry, Control, KeepInv, Top, plan, job
  <2> QED
    BY <2>2, <2>3, <2>4, TypeNext
<1> QED
  BY <1>1, <1>2, <1>3, <1>4

LEMMA PlacingStep ==
  ASSUME IInv, PlaceEntry \/ FillEntry
  PROVE  IInv'
<1> USE DEF IInv
<1>0. /\ DiskOK /\ PlanOK /\ CacheOK /\ MetaOK /\ JobOK /\ RemovalOK /\ HistoryOK
      /\ pc \in {"place", "fill"} /\ stack # <<>> /\ Top.pkg \in Pkg
      /\ rec \subseteq DOMAIN Image[Top.pkg]
  <2>1. pc \in {"place", "fill"} /\ stack # <<>>
    BY DEF PlaceEntry, FillEntry, Control
  <2> QED
    BY <2>1, TypeParts, StackTop DEF Control, PlanOK, Top, Frames
<1>1. NewContents \in ListingsOf(Top.pkg)
  BY <1>0 DEF NewContents, ListingsOf
<1>2. DiskOK'
  BY <1>0, <1>1 DEF Register, PlaceEntry, FillEntry, Leave, DiskOK, disk, entries
<1>3. CacheOK' /\ MetaOK' /\ RemovalOK'
  BY <1>0 DEF PlaceEntry, FillEntry, Leave, CacheOK, MetaOK, RemovalOK, plan, removal
<1>4. \/ UNCHANGED <<plan, job>> /\ pc' = "fill"
      \/ /\ stack' = SubSeq(stack, 1, Len(stack) - 1) /\ UNCHANGED todo
         /\ pc' = IF Len(stack) = 1 THEN "pick" ELSE "walk"
         /\ FreshJob
  BY DEF PlaceEntry, FillEntry, Leave
<1>5. PlanOK' /\ JobOK' /\ Control' /\ KeepInv'
  <2>1. CASE UNCHANGED <<plan, job>> /\ pc' = "fill"
    BY <1>0, <2>1 DEF PlanOK, JobOK, Control, KeepInv, plan, job, Labels, Top
  <2>2. CASE /\ stack' = SubSeq(stack, 1, Len(stack) - 1) /\ UNCHANGED todo
             /\ pc' = IF Len(stack) = 1 THEN "pick" ELSE "walk"
             /\ FreshJob
    <3>1. /\ stack' \in Stacks /\ pc' \in {"pick", "walk"}
          /\ pc' = "pick" => stack' = <<>>
          /\ pc' = "walk" => stack' # <<>>
      BY <1>0, <2>2, PopFrame DEF PlanOK
    <3>2. left' = {} /\ rec' = {} /\ keep' = {} /\ at' = <<>>
      BY <2>2 DEF FreshJob
    <3>3. PlanOK' /\ JobOK'
      BY <1>0, <2>2, <3>1, <3>2, EmptySequences DEF PlanOK, JobOK, Labels
    <3> QED
      BY <3>1, <3>2, <3>3 DEF Control, KeepInv
  <2> QED
    BY <1>4, <2>1, <2>2
<1>6. HistoryOK'
  BY <1>0 DEF PlaceEntry, FillEntry, Leave, HistoryOK, history, bounds
<1> QED
  BY <1>2, <1>3, <1>5, <1>6, TypeNext

LEMMA AroundStep ==
  ASSUME IInv, EndRun \/ Abort \/ Crash \/ Admin
  PROVE  IInv'
<1> USE DEF IInv
<1>0. DiskOK /\ PlanOK /\ CacheOK /\ MetaOK /\ JobOK /\ RemovalOK /\ HistoryOK
  BY TypeParts
<1>1. CASE EndRun \/ Abort \/ Crash
  <2>1. Stop /\ runs' \in 0 .. MaxRuns /\ crashes' \in 0 .. MaxCrashes
        /\ edits' \in 0 .. MaxEdits
    <3>1. CASE EndRun \/ Abort
      BY <1>0, <3>1 DEF EndRun, Abort, HistoryOK, bounds
    <3>2. CASE Crash
      BY <1>0, <3>2, BoundAssumption DEF Crash, HistoryOK
    <3> QED
      BY <1>1, <3>1, <3>2
  <2>2. DiskOK' /\ PlanOK' /\ CacheOK' /\ MetaOK'
    BY <1>0, <2>1, EmptySequences
       DEF Stop, FreshPlan, FreshMeta, DiskOK, PlanOK, CacheOK, MetaOK, disk, entries, Labels
  <2>3. JobOK' /\ RemovalOK' /\ HistoryOK'
    BY <1>0, <2>1, EmptySequences
       DEF Stop, FreshJob, FreshRemoval, JobOK, RemovalOK, HistoryOK, history
  <2>4. Control' /\ KeepInv'
    BY <2>1 DEF Stop, FreshPlan, FreshJob, Control, KeepInv
  <2> QED
    BY <2>2, <2>3, <2>4, TypeNext
<1>2. CASE Admin
  <2>1. PICK x \in Path :
       \/ /\ live[x].k = "obj"
          /\ Put(x, [k |-> "obj", d |-> User])
          /\ UNCHANGED <<cfg, dropped>>
       \/ /\ live[x].k \in {"obj", "sym"}
          /\ Put(x, None)
          /\ dropped' = dropped \cup {x} /\ UNCHANGED cfg
       \/ \E i \in 0 .. CfgSlots - 1 :
            /\ cfg[x][i] # NoData
            /\ cfg' = [cfg EXCEPT ![x][i] = NoData]
            /\ \/ live[x].k = "obj" /\ Put(x, [k |-> "obj", d |-> cfg[x][i]])
               \/ UNCHANGED live
            /\ UNCHANGED dropped
    BY <1>2 DEF Admin
  <2>2. \A i \in 0 .. CfgSlots - 1 :
          cfg[x][i] # NoData => [k |-> "obj", d |-> cfg[x][i]] \in Nodes
    BY <1>0 DEF DiskOK, Pendings, Nodes, Kinds
  <2>3. live' \in Roots
    BY <1>0, <2>1, <2>2, PutType, NodeFacts DEF DiskOK
  <2>4. cfg' \in Pendings /\ dropped' \subseteq Path
    <3>1. \A i \in 0 .. CfgSlots - 1 : [cfg EXCEPT ![x][i] = NoData] \in Pendings
      BY <1>0, CfgUpdate DEF DiskOK
    <3> QED
      BY <1>0, <2>1, <3>1 DEF DiskOK, HistoryOK
  <2>5. DiskOK' /\ PlanOK' /\ CacheOK' /\ MetaOK' /\ JobOK' /\ RemovalOK'
    BY <1>0, <1>2, <2>3, <2>4 DEF entries, Admin, DiskOK, PlanOK, CacheOK, MetaOK, JobOK,
                                  RemovalOK, plan, job, removal
  <2>6. HistoryOK'
    BY <1>0, <1>2, <2>4, BoundAssumption DEF Admin, HistoryOK
  <2>7. Control' /\ KeepInv'
    BY <1>2 DEF Admin, Control, KeepInv, Top, plan, job, removal
  <2> QED
    BY <2>5, <2>6, <2>7, TypeNext
<1> QED
  BY <1>1, <1>2

LEMMA NextStep == IInv /\ [Next]_vars => IInv'
<1> SUFFICES ASSUME IInv, [Next]_vars PROVE IInv'
  OBVIOUS
<1>1. CASE Next
  BY <1>1, ChoosingStep, MergingStep, UnmergingStep, EndingStep, PlacingStep,
     AroundStep DEF Next, Run
<1>2. CASE UNCHANGED vars
  BY <1>2 DEF vars, disk, entries, plan, job, removal, history, bounds, IInv, TypeOK, Control,
              KeepInv, Top
<1> QED
  BY <1>1, <1>2

LEMMA Invariance == Spec => []IInv
<1>1. Init => IInv
  BY InitInv
<1>2. IInv /\ [Next]_vars => IInv'
  BY NextStep
<1> QED
  BY <1>1, <1>2, PTL DEF Spec

-----------------------------------------------------------------------------
(* The theorems.                                                           *)

\* Every variable has its type: no frame of a call is missing when it is needed,
\* no name outside a package's files reaches its CONTENTS.
THEOREM TypeCorrect == Spec => []TypeOK
<1>1. IInv => TypeOK
  BY DEF IInv
<1> QED
  BY <1>1, Invariance, PTL

\* While the old version is unmerged (qmerge.c:1655), when does a file go?  Only
\* by an entry of its own CONTENTS of a name that is not kept, and so, with no
\* two names for one file, never one of the names just merged.
LEMMA ReplacedStep ==
  ASSUME OneName,
         IInv, [Next]_vars, pc = "unmerge" \/ pc = "dirs", stack # <<>>,
         NEW m \in rec, IsFile(Loc[m])
  PROVE  live'[Loc[m]] = live[Loc[m]]
<1>0. /\ DiskOK /\ JobOK /\ RemovalOK /\ m \in Path /\ Loc[m] \in Path
      /\ live[Loc[m]].k \in {"obj", "sym"}
  BY TypeParts, PathAssumption DEF IInv, JobOK, IsFile
<1>1. CASE UnmergeEntry
  <2>1. PICK n \in gone :
          /\ gone' = gone \ {n}
          /\ \A x \in Path :
               live[x].k \in {"obj", "sym"} /\ live'[x] # live[x]
               => x = Loc[n] /\ n \notin keep
    BY <1>1, EntryGone
  <2>2. n \in Path /\ pc = "unmerge"
    BY <1>0, <1>1 DEF RemovalOK, UnmergeEntry
  <2>3. gone \cap rec \subseteq keep
    BY <2>2 DEF IInv, KeepInv
  <2> QED
    BY <1>0, <2>1, <2>2, <2>3 DEF OneName
<1>2. CASE RemoveDir
  BY <1>0, <1>2, RmdirFacts DEF RemoveDir, DiskOK
<1>3. CASE EntriesDone \/ Postrm \/ EndRun \/ Abort \/ Crash
  BY <1>3 DEF EntriesDone, Postrm, EndRun, Abort, Crash, Stop, disk, entries
<1>4. CASE UNCHANGED vars
  BY <1>4 DEF vars, disk, entries
<1>5. ~(\/ BeginMerge \/ BeginRemoval \/ PickTarget \/ WalkDepend \/ Prepare
        \/ MergeEntry \/ LeaveDir \/ FinishMerge \/ RemovePackage \/ Erase \/ Postinst
        \/ ClearEntry \/ PlaceEntry \/ FillEntry \/ Admin)
  BY DEF BeginMerge, BeginRemoval, PickTarget, WalkDepend, Prepare, MergeEntry,
         LeaveDir, FinishMerge, RemovePackage, Erase, Postinst, ClearEntry, PlaceEntry,
         FillEntry, Admin
<1> QED
  BY <1>1, <1>2, <1>3, <1>4, <1>5 DEF Next, Run

\* qmerge.c:1655: unmerging the old version never touches a file under a name the
\* new version has merged, whatever failed and whoever edited what, when no two
\* names resolve to one file.
THEOREM NewVersionStays ==
  ASSUME OneName
  PROVE  Spec => ReplacedStays
<1>1. IInv /\ [Next]_vars =>
        [(pc = "unmerge" \/ pc = "dirs") /\ stack # <<>>
          => \A n \in rec :
               LET x == Loc[n] IN IsFile(x) => live'[x] = live[x]]_vars
  BY ReplacedStep
<1> QED
  BY <1>1, Invariance, PTL DEF Spec, ReplacedStays

\* The steps that change a file which is there: merging a symlink, an unprotected
\* file, an entry of an old CONTENTS, and the administrator's.
LEMMA ConfigStep ==
  ASSUME IInv, [Next]_vars, edits' = edits, NEW x \in Path,
         live[x].k = "obj", ProtectedFile(x), live'[x] # live[x]
  PROVE  \/ pc = "merge" /\ \E n \in left : Loc[n] = x /\ Entry(n).k = "sym"
         \/ /\ pc = "unmerge" /\ IfModified
            /\ \E n \in gone : Loc[n] = x /\ Old(n) = live[x]
<1>0. DiskOK /\ PlanOK /\ MetaOK /\ JobOK /\ RemovalOK /\ HistoryOK
  BY TypeParts DEF IInv
<1>1. CASE MergeEntry
  <2>1. PICK n \in Coming : MergeDir(n) \/ MergeObj(n) \/ MergeSym(n)
    BY <1>1 DEF MergeEntry
  <2>2. n \in left /\ n \in Path /\ Loc[n] \in Path /\ pc = "merge"
    BY <1>0, <1>1, PathAssumption DEF Coming, JobOK, MergeEntry
  <2>3. \A node : Put(Loc[n], node) => x = Loc[n]
    BY <1>0 DEF Put, DiskOK, Roots
  <2>4. ~MergeDir(n)
    BY <2>3 DEF MergeDir, Exists
  <2>5. ~MergeObj(n)
    BY <2>2, <2>3 DEF MergeObj, Exists, ProtectedFile
  <2>6. MergeSym(n) => x = Loc[n] /\ Entry(n).k = "sym"
    BY <2>3 DEF MergeSym
  <2> QED
    BY <2>1, <2>2, <2>4, <2>5, <2>6
<1>2. CASE UnmergeEntry
  <2>1. PICK n \in gone :
          /\ gone' = gone \ {n}
          /\ \A y \in Path :
               live[y].k \in {"obj", "sym"} /\ live'[y] # live[y]
               => /\ y = Loc[n] /\ n \notin keep
                  /\ FALSE \in Guarded(n) /\ Old(n).k # "dir"
    BY <1>2, EntryGone
  <2>2. x = Loc[n] /\ FALSE \in Guarded(n) /\ n \in Path /\ pc = "unmerge"
    BY <1>0, <1>2, <2>1 DEF RemovalOK, UnmergeEntry
  <2>3. config_protected(n)
    BY <2>2 DEF ProtectedFile
  <2>4. IfModified /\ Old(n).k = "obj" /\ live[x].d = Old(n).d
    BY <2>2, <2>3 DEF Guarded
  <2>5. Old(n) \in Nodes
    <3>1. victim \in Pkg /\ meta[victim] # Unread /\ n \in DOMAIN meta[victim]
      BY <2>1, <2>2 DEF IInv, Control
    <3>2. meta[victim] \in ListingsOf(victim)
      BY <1>0, <3>1 DEF MetaOK
    <3> QED
      BY <3>1, <3>2, ListingFacts DEF Old
  <2>6. Old(n) = live[x]
    BY <1>0, <2>4, <2>5 DEF DiskOK, Roots, Nodes
  <2> QED
    BY <2>1, <2>2, <2>4, <2>6
<1>3. CASE LeaveDir
  <2>1. live' = live \/ \E y \in Path : live[y].k = "dir" /\ Put(y, None)
    <3>1. Loc[at[Len(at)]] \in Path
      BY <1>0, <1>3, WalkEnd, PathAssumption DEF JobOK, LeaveDir
    <3> QED
      BY <1>3, <3>1 DEF LeaveDir
  <2> QED
    BY <1>0, <2>1 DEF Put, DiskOK, Roots
<1>4. CASE RemoveDir
  BY <1>0, <1>4, RmdirFacts DEF RemoveDir, DiskOK
<1>5. CASE EndRun \/ Abort \/ Crash
  BY <1>5 DEF EndRun, Abort, Crash, Stop, disk, entries
<1>6. ~Admin
  BY <1>0, BoundAssumption DEF Admin, HistoryOK
<1>7. CASE \/ BeginMerge \/ BeginRemoval \/ PickTarget \/ WalkDepend \/ Prepare
           \/ FinishMerge \/ RemovePackage \/ EntriesDone \/ Postrm \/ Erase
           \/ Postinst \/ ClearEntry \/ PlaceEntry \/ FillEntry \/ UNCHANGED vars
  BY <1>7 DEF BeginMerge, BeginRemoval, PickTarget, WalkDepend, Prepare, FinishMerge,
     RemovePackage, EntriesDone, Postrm, Erase, Postinst, ClearEntry, PlaceEntry,
     FillEntry, Leave, vars, disk, entries
<1> QED
  BY <1>1, <1>2, <1>3, <1>4, <1>5, <1>6, <1>7 DEF Next, Run

\* CONFIG_PROTECT (qmerge.c:379): over any number of merges, unmerges, kills and
\* edits, an existing protected file is changed by qmerge only for a symlink of
\* its name in a new package, or when config-protect-if-modified is set and it is
\* as the unmerged package installed it.
THEOREM ProtectedStays == Spec => ConfigKept
<1>1. IInv /\ [Next]_vars =>
        [\A x \in Path :
          live[x].k = "obj" /\ ProtectedFile(x) /\ live'[x] # live[x] /\ edits' = edits
            => \/ pc = "merge" /\ \E n \in left : Loc[n] = x /\ Entry(n).k = "sym"
               \/ /\ pc = "unmerge" /\ IfModified
                  /\ \E n \in gone : Loc[n] = x /\ Old(n) = live[x]]_vars
  BY ConfigStep
<1> QED
  BY <1>1, Invariance, PTL DEF Spec, ConfigKept

-----------------------------------------------------------------------------
\* The only step that writes a ._cfg file, but for the administrator's.
LEMMA PendingStep ==
  ASSUME IInv, [Next]_vars, edits' = edits, NEW x \in Path, NEW i \in 0 .. CfgSlots - 1,
         cfg[x][i] # NoData, cfg'[x][i] # cfg[x][i]
  PROVE  i = CfgSlots - 1 /\ NoData \notin {cfg[x][j] : j \in DOMAIN cfg[x]}
<1>0. DiskOK /\ HistoryOK /\ DOMAIN cfg[x] = 0 .. CfgSlots - 1
  BY TypeParts DEF IInv, DiskOK, Pendings
<1>1. CASE MergeEntry
  <2>1. PICK n \in Coming : MergeDir(n) \/ MergeObj(n) \/ MergeSym(n)
    BY <1>1 DEF MergeEntry
  <2>2. cfg' = [cfg EXCEPT ![Loc[n]][CfgNumber(Loc[n])] = Entry(n).d]
    BY <2>1 DEF MergeDir, MergeObj, MergeSym
  <2>3. x = Loc[n] /\ i = CfgNumber(x)
    BY <1>0, <2>2 DEF DiskOK, Pendings
  <2>4. CASE {j \in 0 .. CfgSlots - 1 : cfg[x][j] = NoData} = {}
    BY <1>0, <2>3, <2>4 DEF CfgNumber
  <2>5. CASE {j \in 0 .. CfgSlots - 1 : cfg[x][j] = NoData} # {}
    <3>1. CfgNumber(x) \in {j \in 0 .. CfgSlots - 1 : cfg[x][j] = NoData}
      BY <1>0, <2>5, CfgFacts DEF DiskOK
    <3> QED
      BY <2>3, <3>1
  <2> QED
    BY <2>4, <2>5
<1>2. CASE EndRun \/ Abort \/ Crash
  BY <1>2 DEF EndRun, Abort, Crash, Stop, disk, entries
<1>3. ~Admin
  BY <1>0, BoundAssumption DEF Admin, HistoryOK
<1>4. CASE \/ BeginMerge \/ BeginRemoval \/ PickTarget \/ WalkDepend \/ Prepare
           \/ FinishMerge \/ RemovePackage \/ EntriesDone \/ Postrm \/ Erase
           \/ Postinst \/ ClearEntry \/ PlaceEntry \/ FillEntry \/ LeaveDir
           \/ UnmergeEntry \/ RemoveDir \/ UNCHANGED vars
  BY <1>4 DEF BeginMerge, BeginRemoval, PickTarget, WalkDepend, Prepare, FinishMerge,
     RemovePackage, EntriesDone, Postrm, Erase, Postinst, ClearEntry, PlaceEntry,
     FillEntry, Leave, LeaveDir, UnmergeEntry, RemoveDir, vars, disk, entries
<1> QED
  BY <1>1, <1>2, <1>3, <1>4 DEF Next, Run

\* An update the administrator has not looked at yet is only ever overwritten when
\* all the numbers are taken (qmerge.c:991).
THEOREM UpdatesStay == Spec => PendingKept
<1>1. IInv /\ [Next]_vars =>
        [\A x \in Path, i \in 0 .. CfgSlots - 1 :
           cfg[x][i] # NoData /\ cfg'[x][i] # cfg[x][i] /\ edits' = edits
             => i = CfgSlots - 1 /\ NoData \notin {cfg[x][j] : j \in DOMAIN cfg[x]}]_vars
  BY PendingStep
<1> QED
  BY <1>1, Invariance, PTL DEF Spec, PendingKept

-----------------------------------------------------------------------------
(***************************************************************************)
(* Whole runs.                                                             *)
(***************************************************************************)
-----------------------------------------------------------------------------
(* The order of the phase functions: what has run by a label of the        *)
(* program has at most the rank of that label.                             *)

Rank(e) == PhaseRank[e.phase]

Ascending(s, k) ==
  /\ s \in Logs
  /\ \A i, j \in 1 .. Len(s) : i < j => Rank(s[i]) < Rank(s[j])
  /\ \A i \in 1 .. Len(s) : Rank(s[i]) <= k

RankAt(label) ==
  CASE label \in {"merge", "unmerge", "dirs"} -> 4
    [] label \in {"erase", "postinst"} -> 5
    [] OTHER -> 6

RanInv == Ascending(ran, RankAt(pc))

LEMMA Ranks ==
  /\ PhaseRank["pretend"] = 1 /\ PhaseRank["setup"] = 2 /\ PhaseRank["preinst"] = 3
  /\ PhaseRank["prerm"] = 4 /\ PhaseRank["postrm"] = 5 /\ PhaseRank["postinst"] = 6
  /\ \A f \in PhaseNames : PhaseRank[f] \in 1 .. 6
BY DEF PhaseRank, PhaseNames

LEMMA NoneAscending == \A k \in Nat : Ascending(<<>>, k)
BY EmptySequences, EmptySeq DEF Ascending

LEMMA AscendingMore ==
  ASSUME NEW s, NEW k \in Nat, NEW l \in Nat, k <= l, Ascending(s, k)
  PROVE  Ascending(s, l)
<1>1. \A i \in 1 .. Len(s) : Rank(s[i]) \in Nat
  <2> SUFFICES ASSUME NEW i \in 1 .. Len(s) PROVE Rank(s[i]) \in Nat
    OBVIOUS
  <2>1. s[i] \in PhaseRuns
    BY ElementOfSeq DEF Ascending, Logs
  <2> QED
    BY SMTT(30), <2>1, Ranks DEF PhaseRuns, Rank
<1> QED
  BY <1>1 DEF Ascending

\* A phase function of a higher rank may run next.
LEMMA PhaseAdds ==
  ASSUME NEW s, NEW k \in Nat, NEW f \in PhaseNames, NEW p \in Pkg,
         Ascending(s, k), k < PhaseRank[f]
  PROVE  Ascending(s \o Phase(f, p), PhaseRank[f])
<1> DEFINE e == [phase |-> f, of |-> p]
           m == PhaseRank[f]
<1>1. s \in Seq(PhaseRuns) /\ e \in PhaseRuns /\ m \in Nat /\ Rank(e) = m
  BY Ranks DEF Ascending, Logs, PhaseRuns, Rank
<1>2. CASE f \in Phases[p] /\ (f = "pretend" => Eapi[p] >= 4)
  <2>1. s \o Phase(f, p) = Append(s, e)
    BY <1>1, <1>2, AppendIsConcat DEF Phase
  <2> DEFINE t == Append(s, e)
  <2> HIDE DEF e, m
  <2>2. /\ t \in Seq(PhaseRuns) /\ Len(t) = Len(s) + 1 /\ Len(s) \in Nat
        /\ \A i \in 1 .. Len(s) : t[i] = s[i]
        /\ t[Len(s) + 1] = e
    BY <1>1, AppendProperties, LenProperties
  <2>3. \A i \in 1 .. Len(s) : Rank(s[i]) <= k /\ s[i] \in PhaseRuns
    BY <1>1, ElementOfSeq DEF Ascending
  <2>4. \A i \in 1 .. Len(s) : Rank(s[i]) \in Nat
    BY <2>3, Ranks DEF PhaseRuns, Rank
  <2>5. k < m
    BY DEF m
  <2> HIDE DEF t
  <2>6. \A i \in 1 .. Len(t) : i \in 1 .. Len(s) \/ i = Len(s) + 1
    BY <2>2
  <2>7. \A i, j \in 1 .. Len(t) : i < j => Rank(t[i]) < Rank(t[j])
    BY SMTT(30), <1>1, <2>2, <2>3, <2>4, <2>5, <2>6 DEF Ascending
  <2>8. \A i \in 1 .. Len(t) : Rank(t[i]) <= m
    BY <1>1, <2>2, <2>3, <2>4, <2>5, <2>6
  <2> QED
    BY <2>1, <2>2, <2>7, <2>8 DEF Ascending, Logs, t, m
<1>3. CASE ~(f \in Phases[p] /\ (f = "pretend" => Eapi[p] >= 4))
  <2>1. Phase(f, p) = <<>>
    BY <1>3 DEF Phase
  <2>2. s \o <<>> = s
    BY <1>1, ConcatEmptySeq
  <2>3. PhaseRank[f] \in Nat /\ k <= PhaseRank[f]
    BY <1>1
  <2>4. Ascending(s, PhaseRank[f])
    BY <2>3, AscendingMore
  <2> QED
    BY <2>1, <2>2, <2>4
<1> QED
  BY <1>2, <1>3

\* What pkg_merge runs before it merges.
LEMMA PreparedAscending ==
  ASSUME NEW p \in Pkg, NEW last \in {Phase("prerm", p), <<>>}
  PROVE  Ascending(Phase("pretend", p) \o Phase("setup", p) \o Phase("preinst", p)
                   \o last, 4)
<1> DEFINE a == Phase("pretend", p)
           b == a \o Phase("setup", p)
           c == b \o Phase("preinst", p)
<1>0. {"pretend", "setup", "preinst", "prerm"} \subseteq PhaseNames
  BY DEF PhaseNames
<1>1. a \in Logs /\ <<>> \o a = a
  BY <1>0, PhaseLogged, ConcatEmptySeq DEF Logs
<1>2. Ascending(a, 1)
  <2>1. Ascending(<<>>, 0) /\ 0 < PhaseRank["pretend"]
    BY NoneAscending, Ranks
  <2>2. Ascending(<<>> \o a, PhaseRank["pretend"])
    BY <1>0, <2>1, PhaseAdds
  <2> QED
    BY <1>1, <2>2, Ranks
<1> HIDE DEF a
<1>3. Ascending(b, 2)
  BY <1>0, <1>2, PhaseAdds, Ranks
<1> HIDE DEF b
<1>4. Ascending(c, 3)
  BY <1>0, <1>3, PhaseAdds, Ranks
<1> HIDE DEF c
<1>5. Ascending(c \o Phase("prerm", p), 4)
  BY <1>0, <1>4, PhaseAdds, Ranks
<1>6. Ascending(c, 4) /\ c \in Seq(PhaseRuns)
  <2>1. Ascending(c, 4)
    <3>1. 3 \in Nat /\ 4 \in Nat /\ 3 <= 4
      OBVIOUS
    <3> QED
      BY <1>4, <3>1, AscendingMore
  <2>2. c \in Seq(PhaseRuns)
    BY <1>4 DEF Ascending, Logs
  <2> QED
    BY <2>1, <2>2
<1>7. Ascending(c \o <<>>, 4)
  BY <1>6, ConcatEmptySeq
<1> QED
  BY <1>5, <1>7 DEF a, b, c

LEMMA RanStep == IInv /\ RanInv /\ [Next]_vars => RanInv'
<1> SUFFICES ASSUME IInv, RanInv, [Next]_vars PROVE RanInv'
  OBVIOUS
<1> USE DEF RanInv
<1>0. stack # <<>> => Top.pkg \in Pkg
  BY TypeParts, StackTop DEF IInv, PlanOK, Top, Frames
<1>1. CASE Prepare
  <2>1. Top.pkg \in Pkg /\ pc' = "merge"
    BY <1>0, <1>1 DEF Prepare, PrermOfNew, IInv, Control
  <2>2. Ascending(ran', 4)
    <3> DEFINE last == IF Top.prev # NoPkg THEN Phase("prerm", Top.pkg) ELSE <<>>
    <3>1. /\ ran' = Phase("pretend", Top.pkg) \o Phase("setup", Top.pkg)
                    \o Phase("preinst", Top.pkg) \o last
          /\ last \in {Phase("prerm", Top.pkg), <<>>}
      BY <1>1 DEF Prepare, PrermOfNew
    <3> HIDE DEF last
    <3> QED
      BY <2>1, <3>1, PreparedAscending
  <2> QED
    BY <2>1, <2>2 DEF RankAt
<1>2. CASE RemovePackage
  <2>1. PICK q \in todo : ran' = Phase("prerm", q) /\ Unmerge(q, "remove")
    BY <1>2 DEF RemovePackage
  <2>2. q \in Pkg /\ "prerm" \in PhaseNames /\ pc' \in {"remove", "unmerge"}
    BY <2>1, TypeParts DEF IInv, PlanOK, Unmerge, PhaseNames
  <2>3. Ascending(ran', 4)
    <3>1. Ascending(<<>>, 0) /\ 0 < PhaseRank["prerm"] /\ PhaseRank["prerm"] = 4
      BY NoneAscending, Ranks
    <3>2. Ascending(<<>> \o Phase("prerm", q), PhaseRank["prerm"])
      BY <2>2, <3>1, PhaseAdds
    <3>3. <<>> \o Phase("prerm", q) = Phase("prerm", q)
      BY <2>2, PhaseLogged, ConcatEmptySeq DEF Logs
    <3> QED
      BY <2>1, <3>1, <3>2, <3>3
  <2> QED
    BY <2>2, <2>3, AscendingMore DEF RankAt
<1>3. CASE Postrm
  <2>1. victim \in Pkg /\ Ascending(ran, 4) /\ ran' = ran \o Phase("postrm", victim)
    BY <1>3 DEF Postrm, RankAt, IInv, Control
  <2>2. "postrm" \in PhaseNames /\ PhaseRank["postrm"] = 5
    BY Ranks DEF PhaseNames
  <2>3. Ascending(ran', 5)
    BY <2>1, <2>2, PhaseAdds
  <2>4. RankAt(pc') = 5
    BY <1>3 DEF Postrm, RankAt
  <2> QED
    BY <2>3, <2>4
<1>4. CASE Postinst
  <2>1. Top.pkg \in Pkg /\ Ascending(ran, 5)
        /\ ran' = ran \o Phase("postinst", Top.pkg)
    BY <1>0, <1>4 DEF Postinst, RankAt, IInv, Control
  <2>2. "postinst" \in PhaseNames /\ PhaseRank["postinst"] = 6
    BY Ranks DEF PhaseNames
  <2>3. Ascending(ran', 6)
    BY <2>1, <2>2, PhaseAdds
  <2>4. RankAt(pc') = 6
    BY <1>4 DEF Postinst, RankAt
  <2> QED
    BY <2>3, <2>4
<1>5. CASE EndRun \/ Abort \/ Crash
  BY <1>5, NoneAscending DEF EndRun, Abort, Crash, Stop, RankAt
<1>6. CASE \/ BeginMerge \/ BeginRemoval \/ PickTarget \/ WalkDepend \/ MergeEntry
           \/ LeaveDir \/ FinishMerge \/ UnmergeEntry \/ EntriesDone \/ RemoveDir \/ Erase
           \/ ClearEntry \/ PlaceEntry \/ FillEntry \/ Admin \/ UNCHANGED vars
  <2>1. ran' = ran /\ RankAt(pc) \in Nat /\ RankAt(pc') \in Nat
    BY <1>6 DEF BeginMerge, BeginRemoval, PickTarget, WalkDepend, MergeEntry, LeaveDir,
       FinishMerge, UnmergeEntry, EntriesDone, RemoveDir, Erase, ClearEntry,
       PlaceEntry, FillEntry, Leave, Admin, vars, RankAt
  <2>2. \/ pc' = pc
        \/ pc' \in {"remove", "pick", "walk", "postinst", "place", "fill"}
        \/ pc \in {"merge", "unmerge"} /\ pc' \in {"unmerge", "dirs"}
    BY <1>6 DEF BeginMerge, BeginRemoval, PickTarget, Enter, WalkDepend, MergeEntry,
       LeaveDir, FinishMerge, Unmerge, UnmergeEntry, EntriesDone, RemoveDir, Erase,
       ClearEntry, PlaceEntry, FillEntry, Leave, Admin, vars
  <2>3. pc' = "postinst" => pc' = pc \/ pc \in {"merge", "erase"}
    BY <1>6 DEF BeginMerge, BeginRemoval, PickTarget, Enter, WalkDepend, MergeEntry,
       LeaveDir, FinishMerge, Unmerge, UnmergeEntry, EntriesDone, RemoveDir, Erase,
       ClearEntry, PlaceEntry, FillEntry, Leave, Admin, vars
  <2>4. RankAt(pc) <= RankAt(pc')
    BY <2>2, <2>3 DEF RankAt
  <2> QED
    BY <2>1, <2>4, AscendingMore
<1> QED
  BY <1>1, <1>2, <1>3, <1>4, <1>5, <1>6 DEF Next, Run

\* tests/qmerge/dotest "PMS 9.2 Call order": over any nesting of merges and unmerges,
\* no phase function runs after one that PMS has come later.
THEOREM PhasesInOrder == Spec => []CallOrder
<1>1. Init => RanInv
  BY NoneAscending DEF Init, RanInv, RankAt
<1>2. IInv /\ RanInv /\ [Next]_vars => RanInv'
  BY RanStep
<1>3. RanInv => CallOrder
  BY LenProperties DEF RanInv, Ascending, CallOrder, Rank, Logs
<1> QED
  BY <1>1, <1>2, <1>3, Invariance, PTL DEF Spec

-----------------------------------------------------------------------------
(* A run that merges: its frames and the tree it read.                     *)

\* As opposed to unmerging what the user named.
MergeRun == pc = "pick" \/ stack # <<>>

\* The frames of a run that stays within S: what a frame replaces is what the tree
\* listed when its slot was looked up.
FramesOf(S) ==
  {f \in Frames : /\ f.pkg \in S /\ f.deps \subseteq S
                  /\ cache[Slot[f.pkg]] # Unread
                  /\ f.prev = Previnst(cache[Slot[f.pkg]])}

Within(S) == todo \subseteq S /\ \A i \in 1 .. Len(stack) : stack[i] \in FramesOf(S)

\* What the tree lists of a slot is of that slot.
ListedInv == \A s \in Slots : cache[s] # Unread => \A p \in cache[s] : Slot[p] = s

\* The version that is replaced is the one that is unmerged.
VictimInv ==
  pc \in {"unmerge", "dirs", "erase"} /\ stack # <<>> => victim = Top.prev

\* Nothing is read into memory before a run, nor by one that only unmerges.
FreshInv ==
  /\ ~MergeRun => \A s \in Slots : cache[s] = Unread
  /\ pc = "idle" => \A p \in Pkg : meta[p] = Unread

RunInv == ListedInv /\ VictimInv /\ FreshInv

\* Stacks whose frames are all in a set.
AllIn(s, F) == \A i \in 1 .. Len(s) : s[i] \in F

LEMMA PushIn ==
  ASSUME NEW s \in Stacks, NEW f \in Frames, NEW F, AllIn(s, F), f \in F
  PROVE  /\ AllIn(Append(s, f), F)
         /\ Append(s, f)[Len(Append(s, f))] = f
<1>1. /\ Len(Append(s, f)) = Len(s) + 1 /\ Len(s) \in Nat
      /\ \A i \in 1 .. Len(s) : Append(s, f)[i] = s[i]
      /\ Append(s, f)[Len(s) + 1] = f
  BY AppendProperties, LenProperties DEF Stacks
<1>2. \A i \in 1 .. Len(s) + 1 : i \in 1 .. Len(s) \/ i = Len(s) + 1
  BY <1>1
<1> QED
  BY <1>1, <1>2 DEF AllIn

LEMMA PopIn ==
  ASSUME NEW s \in Stacks, s # <<>>, NEW F, AllIn(s, F)
  PROVE  AllIn(SubSeq(s, 1, Len(s) - 1), F)
<1> DEFINE n == Len(s) - 1
<1>1. n \in Nat /\ Len(s) \in Nat \ {0}
  BY StackTop
<1>2. \A i \in 1 .. n : i \in 1 .. Len(s) /\ s[i] \in Frames
  BY <1>1, StackTop
<1>3. /\ Len(SubSeq(s, 1, n)) = IF 1 <= n THEN n - 1 + 1 ELSE 0
      /\ \A i \in 1 .. n - 1 + 1 : SubSeq(s, 1, n)[i] = s[1 + i - 1]
  <2> HIDE DEF n
  <2> QED
    BY <1>1, <1>2, SubSeqProperties
<1> HIDE DEF n
<1>4. \A i \in 1 .. Len(SubSeq(s, 1, n)) : i \in 1 .. n /\ SubSeq(s, 1, n)[i] = s[i]
  BY <1>1, <1>3
<1>5. AllIn(SubSeq(s, 1, n), F)
  BY <1>2, <1>4 DEF AllIn
<1> QED
  BY <1>5 DEF n

\* A dependency that is dealt with leaves the frame as it was otherwise.
LEMMA RestIn ==
  ASSUME NEW s \in Stacks, s # <<>>, NEW F, NEW d, AllIn(s, F),
         \A f \in F : f \in Frames /\ [f EXCEPT !.deps = @ \ {d}] \in F
  PROVE  AllIn([s EXCEPT ![Len(s)].deps = @ \ {d}], F)
<1> DEFINE f == [s[Len(s)] EXCEPT !.deps = @ \ {d}]
           t == [s EXCEPT ![Len(s)] = f]
<1>1. s[Len(s)] \in F /\ Len(s) \in 1 .. Len(s)
  BY StackTop DEF AllIn
<1>2. f \in F /\ f \in Frames
  BY <1>1
<1> HIDE DEF f
<1>3. /\ Len(t) = Len(s)
      /\ \A j \in 1 .. Len(s) : t[j] = IF j = Len(s) THEN f ELSE s[j]
  BY <1>1, <1>2, ExceptSeq DEF Stacks
<1>4. AllIn(t, F)
  <2> HIDE DEF t
  <2> QED
    BY <1>2, <1>3 DEF AllIn
<1> QED
  BY <1>4 DEF f

\* What a look-up does to the tree in memory.
LEMMA LookedUp ==
  ASSUME IInv, NEW p \in Pkg, Lookup(Slot[p])
  PROVE  /\ Slot[p] \in Slots /\ cache'[Slot[p]] # Unread
         /\ \A s \in Slots : \/ cache'[s] = cache[s]
                             \/ /\ s = Slot[p] /\ cache[s] = Unread
                                /\ cache'[s] \in Listings(s)
         /\ \A s \in Slots : cache[s] # Unread => cache'[s] = cache[s]
<1>0. CacheOK /\ Slot[p] \in Slots
  BY TypeParts DEF IInv, Slots
<1>1. Listings(Slot[p]) \subseteq SUBSET Pkg
  BY DEF Listings
<1>2. \A ps \in SUBSET Pkg : ps # Unread
  BY MarkAssumption
<1>3. CASE cache[Slot[p]] = Unread
  <2>1. PICK ps \in Listings(Slot[p]) : cache' = [cache EXCEPT ![Slot[p]] = ps]
    BY <1>3 DEF Lookup
  <2>2. ps # Unread
    BY <1>1, <1>2
  <2> QED
    BY <1>0, <1>3, <2>1, <2>2 DEF CacheOK
<1>4. CASE cache[Slot[p]] # Unread
  BY <1>0, <1>4 DEF Lookup
<1> QED
  BY <1>3, <1>4

\* What a step does to the plan of a run, the tree included.
LEMMA PlanStep ==
  ASSUME IInv, [Next]_vars
  PROVE  \/ UNCHANGED plan /\ MergeRun' = MergeRun
         \/ BeginMerge
         \/ /\ UNCHANGED <<stack, cache>> /\ ~MergeRun /\ ~MergeRun'
         \/ PickTarget \/ WalkDepend
         \/ /\ pc \in {"place", "fill"} /\ UNCHANGED <<todo, cache>>
            /\ stack' = SubSeq(stack, 1, Len(stack) - 1) /\ MergeRun /\ MergeRun'
            /\ pc' \in {"pick", "walk"}
         \/ Stop
<1> USE DEF MergeRun
<1>1. CASE \/ Prepare \/ MergeEntry \/ LeaveDir \/ FinishMerge \/ UnmergeEntry
           \/ EntriesDone \/ RemoveDir \/ Postrm \/ Erase \/ Postinst \/ ClearEntry
           \/ Admin \/ UNCHANGED vars
  <2>1. UNCHANGED plan
    BY <1>1 DEF Prepare, PrermOfNew, MergeEntry, LeaveDir, FinishMerge, UnmergeEntry, EntriesDone,
       RemoveDir, Postrm, Erase, Postinst, ClearEntry, Admin, vars, plan
  <2>2. pc' = "pick" <=> pc = "pick"
    BY <1>1 DEF Prepare, PrermOfNew, MergeEntry, LeaveDir, FinishMerge, Unmerge, UnmergeEntry,
       EntriesDone, RemoveDir, Postrm, Erase, Postinst, ClearEntry, Admin, vars
  <2> QED
    BY <2>1, <2>2 DEF plan
<1>2. CASE BeginRemoval \/ RemovePackage
  <2>1. stack = <<>> /\ UNCHANGED <<stack, cache>> /\ pc # "pick"
    BY <1>2 DEF BeginRemoval, RemovePackage, IInv, Control
  <2>2. pc' # "pick"
    BY <1>2 DEF BeginRemoval, RemovePackage, Unmerge
  <2> QED
    BY <2>1, <2>2
<1>3. CASE PlaceEntry \/ FillEntry
  <2>1. stack # <<>> /\ pc \in {"place", "fill"}
    BY <1>3 DEF PlaceEntry, FillEntry, IInv, Control
  <2>2. \/ UNCHANGED plan /\ pc' = "fill"
        \/ /\ UNCHANGED <<todo, cache>> /\ stack' = SubSeq(stack, 1, Len(stack) - 1)
           /\ pc' \in {"pick", "walk"} /\ (pc' = "pick" \/ Len(stack) # 1)
    BY <1>3 DEF PlaceEntry, FillEntry, Leave
  <2>3. Len(stack) # 1 => SubSeq(stack, 1, Len(stack) - 1) # <<>>
    BY <2>1, PopFrame, TypeParts DEF IInv, PlanOK
  <2> QED
    BY <2>1, <2>2, <2>3 DEF plan
<1>4. CASE EndRun \/ Abort \/ Crash
  BY <1>4 DEF EndRun, Abort, Crash
<1> QED
  BY <1>1, <1>2, <1>3, <1>4 DEF Next, Run

\* A frame stays one of the run when the tree reads on.
LEMMA FramesStay ==
  ASSUME NEW S \in SUBSET Pkg,
         \A s \in Slots : cache[s] # Unread => cache'[s] = cache[s]
  PROVE  \A f \in FramesOf(S) : f \in FramesOf(S)'
BY DEF FramesOf, Frames, Slots

\* A run keeps to the packages it began with and their dependencies.
LEMMA WithinStep ==
  ASSUME IInv, [Next]_vars, MergeRun, MergeRun',
         NEW S \in SUBSET Pkg, Solo(S), Within(S)
  PROVE  Within(S)'
<1>0. stack \in Stacks /\ todo \subseteq S /\ AllIn(stack, FramesOf(S)) /\ S \subseteq Pkg
  BY TypeParts DEF IInv, PlanOK, Within, AllIn
<1>1. ASSUME NEW p \in S, NEW frames \in Stacks, AllIn(frames, FramesOf(S)),
             Enter(p, frames)
      PROVE  AllIn(stack', FramesOf(S)')
  <2> DEFINE f == [pkg |-> p, prev |-> Previnst(cache'[Slot[p]]), deps |-> RDepend[p]]
  <2>1. stack' = Append(frames, f) /\ Lookup(Slot[p]) /\ p \in Pkg
    BY <1>0, <1>1 DEF Enter
  <2>2. f \in Frames
    BY <2>1, LookupFacts, TypeParts, PkgAssumption DEF Frames, IInv
  <2>3. f \in FramesOf(S)'
    BY <1>1, <2>1, <2>2, LookedUp DEF FramesOf, Solo
  <2>4. AllIn(frames, FramesOf(S)')
    BY <1>1, <2>1, LookedUp, FramesStay DEF AllIn
  <2> HIDE DEF f
  <2> QED
    BY <1>1, <2>1, <2>2, <2>3, <2>4, PushIn
<1>2. CASE UNCHANGED plan
  BY <1>2 DEF plan, Within, FramesOf
<1>3. CASE PickTarget
  <2>1. PICK p \in todo : /\ todo' = todo \ {p}
                          /\ \/ Enter(p, stack)
                             \/ UNCHANGED <<pc, stack, cache>>
    BY <1>3 DEF PickTarget
  <2>2. AllIn(stack', FramesOf(S)')
    BY <1>0, <1>1, <2>1 DEF FramesOf
  <2> QED
    BY <1>0, <2>1, <2>2 DEF Within, AllIn
<1>4. CASE WalkDepend
  <2> DEFINE rest(d) == [stack EXCEPT ![Len(stack)].deps = @ \ {d}]
  <2>0. stack # <<>> /\ UNCHANGED todo /\ Top \in FramesOf(S)
    BY <1>0, <1>4, StackTop DEF WalkDepend, IInv, Control, Top, AllIn
  <2>1. PICK d \in Top.deps : \/ Enter(d, rest(d))
                              \/ Lookup(Slot[d]) /\ stack' = rest(d)
    BY <1>4 DEF WalkDepend
  <2>2. d \in S /\ rest(d) \in Stacks
    BY <1>0, <2>0, <2>1, TopChanged DEF FramesOf
  <2>3. \A f \in FramesOf(S) : f \in Frames /\ [f EXCEPT !.deps = @ \ {d}] \in FramesOf(S)
    BY DEF FramesOf, Frames
  <2>4. AllIn(rest(d), FramesOf(S))
    BY <1>0, <2>0, <2>3, RestIn
  <2> HIDE DEF rest
  <2>5. AllIn(stack', FramesOf(S)')
    <3>1. CASE Enter(d, rest(d))
      BY <1>1, <2>2, <2>4, <3>1
    <3>2. CASE Lookup(Slot[d]) /\ stack' = rest(d)
      BY <1>0, <2>2, <2>4, <3>2, LookedUp, FramesStay DEF AllIn
    <3> QED
      BY <2>1, <3>1, <3>2
  <2> QED
    BY <1>0, <2>0, <2>5 DEF Within, AllIn
<1>5. CASE /\ pc \in {"place", "fill"} /\ UNCHANGED <<todo, cache>>
           /\ stack' = SubSeq(stack, 1, Len(stack) - 1)
  <2>1. stack # <<>>
    BY <1>5 DEF IInv, Control
  <2>2. AllIn(stack', FramesOf(S))
    BY <1>0, <1>5, <2>1, PopIn
  <2>3. AllIn(stack', FramesOf(S)')
    BY <1>5, <2>2 DEF FramesOf
  <2> QED
    BY <1>0, <1>5, <2>3 DEF Within, AllIn
<1>6. ~BeginMerge /\ ~Stop
  BY DEF BeginMerge, Stop, FreshPlan, MergeRun, IInv, Control
<1> QED
  BY <1>2, <1>3, <1>4, <1>5, <1>6, PlanStep

LEMMA RunStep ==
  ASSUME IInv, RunInv, [Next]_vars
  PROVE  RunInv'
<1> USE DEF RunInv
<1>1. ASSUME NEW p \in Pkg, Lookup(Slot[p])
      PROVE  ListedInv'
  <2>1. \A s \in Slots : \A ps \in Listings(s) : \A q \in ps : Slot[q] = s
    BY DEF Listings
  <2> QED
    BY <1>1, <2>1, LookedUp DEF ListedInv
<1>2. CASE PickTarget \/ WalkDepend
  <2>1. /\ stack # <<>> => Top.deps \subseteq Pkg
        /\ todo \subseteq Pkg
    BY TypeParts, StackTop DEF IInv, PlanOK, Top, Frames
  <2>2. (\E p \in Pkg : Lookup(Slot[p])) \/ UNCHANGED <<pc, stack, cache>>
    BY <1>2, <2>1 DEF PickTarget, WalkDepend, Enter, IInv, Control
  <2>3. ListedInv'
    BY <1>1, <2>2 DEF ListedInv
  <2>4. MergeRun' /\ pc' \in {"walk", "pick"}
    <3>1. pc' \in {"walk", "pick"}
      BY <1>2 DEF PickTarget, WalkDepend, Enter
    <3>2. IInv'
      BY NextStep
    <3> QED
      BY <3>1, <3>2 DEF MergeRun, IInv, Control
  <2> QED
    BY <2>3, <2>4 DEF VictimInv, FreshInv
<1>3. CASE Stop
  BY <1>3 DEF Stop, FreshPlan, FreshMeta, ListedInv, VictimInv, FreshInv
<1>4. CASE ~(PickTarget \/ WalkDepend \/ Stop)
  <2>1. UNCHANGED cache /\ (~MergeRun' => ~MergeRun)
    BY <1>4, PlanStep DEF plan, BeginMerge, MergeRun
  <2>2. pc' = "idle" => pc = "idle" /\ UNCHANGED meta
    BY <1>4 DEF Next, Run, BeginMerge, BeginRemoval, Prepare, MergeEntry, LeaveDir,
       FinishMerge, Unmerge, RemovePackage, UnmergeEntry, EntriesDone, RemoveDir,
       Postrm, Erase, Postinst, ClearEntry, PlaceEntry, FillEntry, Leave, EndRun, Abort,
       Crash, Admin, vars
  <2>3. VictimInv'
    <3>1. SUFFICES ASSUME pc' \in {"unmerge", "dirs", "erase"}, stack' # <<>>
                   PROVE  victim' = Top.prev /\ UNCHANGED stack
      BY DEF VictimInv, Top
    <3>2. CASE FinishMerge
      BY <3>1, <3>2 DEF FinishMerge, Unmerge, plan
    <3>3. ~RemovePackage
      BY <3>1 DEF RemovePackage, IInv, Control
    <3>4. CASE ~FinishMerge
      <4>1. pc \in {"unmerge", "dirs", "erase"} /\ victim' = victim /\ UNCHANGED stack
        BY <1>4, <3>1, <3>3, <3>4 DEF Next, Run, BeginMerge, BeginRemoval, Prepare,
           MergeEntry, LeaveDir, UnmergeEntry, EntriesDone, RemoveDir, Postrm, Erase,
           Postinst, ClearEntry, PlaceEntry, FillEntry, Leave, EndRun, Abort, Crash,
           Admin, vars, plan, removal
      <4> QED
        BY <3>1, <4>1 DEF VictimInv
    <3> QED
      BY <3>2, <3>4
  <2> QED
    BY <2>1, <2>2, <2>3 DEF ListedInv, FreshInv
<1> QED
  BY <1>2, <1>3, <1>4

LEMMA RunInvariance == Spec => []RunInv
<1>1. Init => RunInv
  BY DEF Init, RunInv, ListedInv, VictimInv, FreshInv
<1>2. IInv /\ RunInv /\ [Next]_vars => RunInv'
  BY RunStep
<1> QED
  BY <1>1, <1>2, Invariance, PTL DEF Spec

\* And it begins with such packages.
LEMMA WithinBegins ==
  ASSUME OneVersionARun, IInv, RunInv, [Next]_vars, ~MergeRun, MergeRun'
  PROVE  /\ \A s \in Slots : cache'[s] = Unread
         /\ \A p \in Pkg : meta'[p] = Unread
         /\ \E S \in SUBSET Pkg : Solo(S) /\ Within(S)'
<1>1. BeginMerge
  <2>1. ~PickTarget /\ ~WalkDepend
    BY DEF PickTarget, WalkDepend, MergeRun, IInv, Control
  <2>2. ~Stop
    BY DEF Stop, FreshPlan, MergeRun
  <2> QED
    BY <2>1, <2>2, PlanStep
<1>2. PICK ts \in Targets : todo' = ts
  BY <1>1 DEF BeginMerge
<1>3. PICK S \in SUBSET Pkg : ts \subseteq S /\ Solo(S)
  BY DEF OneVersionARun
<1>4. pc = "idle" /\ stack' = <<>> /\ UNCHANGED <<cache, meta>>
  BY <1>1 DEF BeginMerge, IInv, Control
<1>5. Within(S)'
  BY <1>2, <1>3, <1>4, EmptySeq DEF Within
<1> QED
  BY <1>3, <1>4, <1>5 DEF RunInv, FreshInv

-----------------------------------------------------------------------------
(* One version per slot.                                                   *)

\* No slot has two versions registered.
Single == \A p, q \in Pkg : Complete(p) /\ Complete(q) /\ Slot[p] = Slot[q] => p = q

\* The entry has lost its CONTENTS or its SLOT, or has not got it yet.
Half(p) == vdb[p] = Partial \/ p \in bare

SlotInv ==
  /\ Single
  /\ \A p \in Pkg : Half(p) =>
       \/ pc = "erase" /\ p = victim
       \/ pc \in {"clear", "fill"} /\ p = Top.pkg
  /\ \A p \in bare : Complete(p)
  /\ \A s \in Slots : cache[s] # Unread => \A p, q \in cache[s] : p = q
  /\ MergeRun => \E S \in SUBSET Pkg :
       /\ Solo(S) /\ Within(S)
       /\ \A p \in Pkg : Complete(p) /\ cache[Slot[p]] # Unread
                           => p \in S \cup cache[Slot[p]]
  /\ pc \in {"postinst", "clear", "place", "fill"} =>
       \A q \in Pkg : Complete(q) /\ Slot[q] = Slot[Top.pkg] => q = Top.pkg
  /\ pc = "fill" => ~SameDevice

\* What a step does to the VDB: an entry is taken apart by pkg_unmerge or for a new
\* one of its name, and it is put in place.
LEMMA VdbStep ==
  ASSUME IInv, [Next]_vars
  PROVE  \/ UNCHANGED vdb
         \/ /\ Erase /\ UNCHANGED <<pc, stack, cache, victim, todo>>
            /\ vdb' = [vdb EXCEPT ![victim] = vdb'[victim]]
            /\ victim \in Pkg /\ ~Complete(victim)'
         \/ /\ ClearEntry /\ UNCHANGED <<pc, stack, cache, victim, todo>>
            /\ vdb' = [vdb EXCEPT ![Top.pkg] = vdb'[Top.pkg]]
            /\ Top.pkg \in Pkg /\ ~Complete(Top.pkg)'
         \/ /\ PlaceEntry /\ ~SameDevice /\ pc' = "fill" /\ UNCHANGED <<stack, cache, todo>>
            /\ \/ vdb' = [vdb EXCEPT ![Top.pkg] = Partial]
               \/ vdb' = [vdb EXCEPT ![Top.pkg] = NewContents]
            /\ Top.pkg \in Pkg
         \/ /\ pc \in {"place", "fill"} /\ pc' \in {"pick", "walk"} /\ Leave
            /\ vdb' = [vdb EXCEPT ![Top.pkg] = NewContents]
            /\ Top.pkg \in Pkg
<1>0. /\ stack # <<>> => Top.pkg \in Pkg
      /\ DOMAIN vdb = Pkg
  BY TypeParts, StackTop DEF IInv, PlanOK, Top, Frames, DiskOK
<1>1. CASE Erase
  <2>1. victim \in Pkg
    BY <1>1 DEF Erase, IInv, Control
  <2>2. CASE vdb[victim] = Unlisted
    BY <1>1, <2>2 DEF Erase, entries
  <2>3. CASE vdb[victim] # Unlisted
    BY <1>0, <1>1, <2>1, <2>3 DEF Erase, EraseStep, Complete, removal, plan
  <2> QED
    BY <2>2, <2>3
<1>2. CASE ClearEntry
  <2>1. Top.pkg \in Pkg /\ UNCHANGED <<stack, cache, victim, todo>>
    BY <1>0, <1>2 DEF ClearEntry, IInv, Control, plan, removal
  <2>2. CASE vdb[Top.pkg] = Unlisted
    BY <1>2, <2>2 DEF ClearEntry, entries
  <2>3. CASE vdb[Top.pkg] # Unlisted
    <3>1. UNCHANGED pc /\ EraseStep(Top.pkg)
      BY <1>2, <2>3 DEF ClearEntry
    <3>2. \/ UNCHANGED vdb
          \/ ~Complete(Top.pkg)' /\ vdb' = [vdb EXCEPT ![Top.pkg] = vdb'[Top.pkg]]
      <4> DEFINE t == Top.pkg
      <4>1. EraseStep(t) /\ Top.pkg' = t /\ t \in DOMAIN vdb
        BY <1>0, <2>1, <3>1 DEF Top
      <4> HIDE DEF t
      <4>2. \/ UNCHANGED vdb
            \/ vdb'[t] \in {Unlisted, Partial} /\ vdb' = [vdb EXCEPT ![t] = vdb'[t]]
        BY <4>1 DEF EraseStep
      <4> QED
        BY <4>1, <4>2 DEF Complete, t
    <3> QED
      BY <1>2, <2>1, <3>1, <3>2
  <2> QED
    BY <2>2, <2>3
<1>3. CASE PlaceEntry \/ FillEntry
  <2>1. Top.pkg \in Pkg
    BY <1>0, <1>3 DEF PlaceEntry, FillEntry, IInv, Control
  <2>2. pc \in {"place", "fill"} /\ (Leave => pc' \in {"pick", "walk"})
    BY <1>3 DEF PlaceEntry, FillEntry, Leave
  <2>3. CASE PlaceEntry
    BY <2>1, <2>2, <2>3 DEF PlaceEntry, Register, plan
  <2>4. CASE FillEntry
    BY <2>1, <2>2, <2>4 DEF FillEntry, Register, disk, entries
  <2> QED
    BY <1>3, <2>3, <2>4
<1>4. CASE ~(Erase \/ ClearEntry \/ PlaceEntry \/ FillEntry)
  BY <1>4 DEF Next, Run, BeginMerge, BeginRemoval, PickTarget, WalkDepend, Prepare, MergeEntry,
     LeaveDir, FinishMerge, RemovePackage, UnmergeEntry, EntriesDone, RemoveDir,
     Postrm, Postinst, EndRun, Abort, Crash, Stop, Admin, vars, disk, entries
<1> QED
  BY <1>1, <1>2, <1>3, <1>4

\* An entry is completed when its package's merge ends.
LEMMA Registered ==
  ASSUME IInv, [Next]_vars, NEW p \in Pkg, Complete(p)', vdb'[p] # vdb[p]
  PROVE  /\ pc \in {"place", "fill"} /\ stack # <<>> /\ p = Top.pkg
         /\ vdb'[p] = NewContents
         /\ pc' \in {"pick", "walk", "fill"}
<1>1. pc \in {"place", "fill"} => stack # <<>>
  BY DEF IInv, Control
<1>2. vdb'[p] # Partial /\ DOMAIN vdb = Pkg
  BY TypeParts DEF Complete, IInv, DiskOK
<1>3. ~(/\ Erase /\ UNCHANGED <<pc, stack, cache, victim, todo>>
        /\ vdb' = [vdb EXCEPT ![victim] = vdb'[victim]]
        /\ victim \in Pkg /\ ~Complete(victim)')
  BY <1>2 DEF Complete
<1>4. ~(/\ ClearEntry /\ UNCHANGED <<pc, stack, cache, victim, todo>>
        /\ vdb' = [vdb EXCEPT ![Top.pkg] = vdb'[Top.pkg]]
        /\ Top.pkg \in Pkg /\ ~Complete(Top.pkg)')
  <2> DEFINE t == Top.pkg
  <2>1. UNCHANGED stack => t' = t
    BY DEF Top
  <2> HIDE DEF t
  <2> QED
    BY <1>2, <2>1 DEF Complete, t
<1>5. vdb' # [vdb EXCEPT ![Top.pkg] = Partial]
  BY <1>2
<1>6. /\ pc \in {"place", "fill"} /\ pc' \in {"pick", "walk", "fill"}
      /\ vdb' = [vdb EXCEPT ![Top.pkg] = NewContents]
  BY <1>3, <1>4, <1>5, VdbStep DEF PlaceEntry
<1>7. p = Top.pkg /\ vdb'[p] = NewContents
  BY <1>2, <1>6
<1> QED
  BY <1>1, <1>6, <1>7

\* A tree that is read while no entry is half there lists the one version.
LEMMA ListedOne ==
  ASSUME NEW s \in Slots, Single, \A p \in Pkg : ~Half(p),
         NEW ps \in Listings(s)
  PROVE  /\ \A p, q \in ps : p = q
         /\ \A p \in Pkg : Complete(p) /\ Slot[p] = s => p \in ps
<1>1. \A p \in ps : p \in Pkg /\ Complete(p) /\ Slot[p] = s
  BY DEF Listings, Half
<1>2. \A p \in Pkg : Complete(p) /\ Slot[p] = s => p \in ps
  BY DEF Listings, Half
<1> QED
  BY <1>1, <1>2 DEF Single

\* When the old version is dealt with, the slot has the new one or none.
LEMMA SlotCleared ==
  ASSUME IInv, SlotInv, stack # <<>>,
         Top.prev = NoPkg \/ (Top.prev \in Pkg /\ ~Complete(Top.prev)),
         NEW q \in Pkg, Complete(q), Slot[q] = Slot[Top.pkg]
  PROVE  q = Top.pkg
<1>1. PICK S \in SUBSET Pkg :
        /\ Solo(S) /\ Within(S)
        /\ \A p \in Pkg : Complete(p) /\ cache[Slot[p]] # Unread
                             => p \in S \cup cache[Slot[p]]
  BY DEF SlotInv, MergeRun
<1>2. Top \in FramesOf(S)
  BY <1>1, StackTop, TypeParts DEF IInv, PlanOK, Within, Top
<1>3. Top.pkg \in S /\ cache[Slot[q]] # Unread /\ Top.prev = Previnst(cache[Slot[q]])
  BY <1>2 DEF FramesOf
<1>4. CASE q \in S
  BY <1>1, <1>3, <1>4 DEF Solo
<1>5. CASE q \in cache[Slot[q]]
  <2> DEFINE ps == cache[Slot[q]]
  <2>1. Slot[q] \in Slots /\ ps \in SUBSET Pkg
    BY <1>3, TypeParts DEF Slots, IInv, CacheOK
  <2>2. \A p \in ps : p = q
    BY <1>3, <1>5, <2>1 DEF SlotInv
  <2> HIDE DEF ps
  <2>3. Previnst(ps) = q
    <3>1. q \in ps /\ ps # {}
      BY <1>5 DEF ps
    <3>2. \A p \in ps : Ver[p] <= Ver[q]
      BY <2>2, PkgAssumption
    <3> QED
      BY <2>2, <3>1, <3>2 DEF Previnst
  <2> QED
    BY <1>3, <2>3, PkgAssumption DEF ps
<1> QED
  BY <1>1, <1>3, <1>4, <1>5

LEMMA SlotStep ==
  ASSUME OneVersionARun, ~MoveFails \/ SameDevice,
         IInv, RunInv, SlotInv, [Next]_vars, ~Crash
  PROVE  SlotInv'
<1>0. IInv' /\ RunInv' /\ DiskOK /\ DOMAIN vdb = Pkg /\ CacheOK
  BY NextStep, RunStep, TypeParts DEF IInv, DiskOK
<1>1. stack # <<>> => Top.pkg \in Pkg /\ Top.prev \in Pkg \cup {NoPkg}
  BY StackTop, TypeParts DEF IInv, PlanOK, Top, Frames
<1>2. ASSUME NEW p \in Pkg, Complete(p)', ~Complete(p)
      PROVE  /\ pc \in {"place", "fill"} /\ stack # <<>> /\ p = Top.pkg
             /\ pc' \in {"pick", "walk", "fill"}
  BY <1>2, Registered DEF Complete
<1>3. Single'
  <2> SUFFICES ASSUME NEW p \in Pkg, NEW q \in Pkg, Complete(p)', Complete(q)', Slot[p] = Slot[q]
               PROVE  p = q
    BY DEF Single
  <2>1. CASE Complete(p) /\ Complete(q)
    BY <2>1 DEF SlotInv, Single
  <2>2. CASE ~Complete(p) \/ ~Complete(q)
    <3>1. pc \in {"place", "fill"}
      BY <1>2, <2>2
    <3>2. \A r \in Pkg : Complete(r) /\ Slot[r] = Slot[Top.pkg] => r = Top.pkg
      BY <3>1 DEF SlotInv
    <3> QED
      BY <1>2, <2>2, <3>2
  <2> QED
    BY <2>1, <2>2
<1>a. Top.pkg \in Pkg => NewContents \in ListingsOf(Top.pkg) \/ stack = <<>>
  BY DEF IInv, Control, NewContents, ListingsOf
<1>b. \A p \in bare : Complete(p)
  BY DEF SlotInv
<1>4. ASSUME NEW p \in Pkg
      PROVE  /\ Half(p)' => \/ pc' = "erase" /\ p = victim'
                            \/ pc' \in {"clear", "fill"} /\ p = Top.pkg'
             /\ p \in bare' => Complete(p)'
  <2>0. Half(p) => \/ pc = "erase" /\ p = victim
                   \/ pc \in {"clear", "fill"} /\ p = Top.pkg
    BY DEF SlotInv
  <2>1. CASE ~(Erase \/ ClearEntry \/ PlaceEntry \/ FillEntry)
    <3>1. UNCHANGED <<vdb, bare>>
      BY <2>1 DEF Next, Run, BeginMerge, BeginRemoval, PickTarget, WalkDepend, Prepare,
         MergeEntry, LeaveDir, FinishMerge, RemovePackage, UnmergeEntry, EntriesDone,
         RemoveDir, Postrm, Postinst, EndRun, Abort, Crash, Stop, Admin, vars, disk, entries
    <3>2. Half(p)' => pc' = pc /\ victim' = victim /\ stack' = stack
      <4> SUFFICES ASSUME Half(p)' PROVE pc' = pc /\ victim' = victim /\ stack' = stack
        OBVIOUS
      <4>1. pc \in {"erase", "clear", "fill"}
        BY <2>0, <3>1 DEF Half
      <4> QED
        BY <2>1, <4>1 DEF Next, Run, BeginMerge, BeginRemoval, PickTarget, WalkDepend, Prepare,
           MergeEntry, LeaveDir, FinishMerge, RemovePackage, UnmergeEntry, EntriesDone,
           RemoveDir, Postrm, Postinst, EndRun, Abort, Admin, vars, plan, removal
    <3> QED
      BY <1>b, <2>0, <3>1, <3>2 DEF Half, Top, Complete
  <2>2. CASE Erase
    <3>1. pc = "erase" /\ victim \in Pkg
      BY <2>2 DEF Erase, IInv, Control
    <3>2. CASE vdb[victim] = Unlisted
      <4>1. UNCHANGED <<vdb, bare>>
        BY <2>2, <3>2 DEF Erase, entries
      <4>2. ~Half(victim)
        BY <1>b, <3>2, MarkAssumption DEF Half, Complete
      <4> QED
        BY <1>b, <2>0, <3>1, <4>1, <4>2 DEF Half, Complete
    <3>3. CASE vdb[victim] # Unlisted
      <4>1. EraseStep(victim) /\ UNCHANGED <<pc, victim>>
        BY <2>2, <3>3 DEF Erase, removal
      <4>2. p # victim => vdb'[p] = vdb[p] /\ (p \in bare' <=> p \in bare)
        BY <1>0, <3>1, <4>1 DEF EraseStep
      <4>3. p = victim /\ p \in bare' => Complete(p)'
        BY <4>1 DEF EraseStep, Complete
      <4> QED
        BY <1>b, <2>0, <3>1, <4>1, <4>2, <4>3 DEF Half, Complete
    <3> QED
      BY <3>2, <3>3
  <2>3. CASE ClearEntry
    <3>1. pc = "clear" /\ Top.pkg \in Pkg /\ UNCHANGED stack
      BY <1>1, <2>3 DEF ClearEntry, IInv, Control, plan
    <3>2. CASE vdb[Top.pkg] = Unlisted
      <4>1. UNCHANGED <<vdb, bare>>
        BY <2>3, <3>2 DEF ClearEntry, entries
      <4>2. ~Half(Top.pkg)
        BY <1>b, <3>2, MarkAssumption DEF Half, Complete
      <4> QED
        BY <1>b, <2>0, <3>1, <4>1, <4>2 DEF Half, Complete
    <3>3. CASE vdb[Top.pkg] # Unlisted
      <4> DEFINE t == Top.pkg
      <4>1. EraseStep(t) /\ UNCHANGED pc /\ Top' = Top
        BY <2>3, <3>1, <3>3 DEF ClearEntry, Top
      <4> HIDE DEF t
      <4>2. p # t => vdb'[p] = vdb[p] /\ (p \in bare' <=> p \in bare)
        BY <1>0, <4>1 DEF EraseStep
      <4>3. p = t /\ p \in bare' => Complete(p)'
        BY <4>1 DEF EraseStep, Complete
      <4>4. t = Top.pkg /\ Top.pkg' = t
        BY <4>1 DEF t
      <4> QED
        BY <1>b, <2>0, <3>1, <4>1, <4>2, <4>3, <4>4 DEF Half, Complete
    <3> QED
      BY <3>2, <3>3
  <2>4. CASE PlaceEntry \/ FillEntry
    <3>1. /\ pc \in {"place", "fill"} /\ Top.pkg \in Pkg /\ stack # <<>>
          /\ NewContents \in ListingsOf(Top.pkg)
      BY <1>1, <1>a, <2>4 DEF PlaceEntry, FillEntry, IInv, Control
    <3> DEFINE t == Top.pkg
               new == NewContents
    <3>2. new \notin {Unlisted, Partial} /\ t \in Pkg
      BY <3>1, MarkAssumption
    <3>3. \/ vdb' = [vdb EXCEPT ![t] = new] /\ bare' \subseteq bare /\ (pc = "fill" => t \notin bare')
          \/ /\ pc' = "fill" /\ UNCHANGED stack /\ pc = "place"
             /\ \/ vdb' = [vdb EXCEPT ![t] = Partial] /\ UNCHANGED bare
                \/ vdb' = [vdb EXCEPT ![t] = new] /\ bare' = bare \cup {t}
      <4>1. CASE PlaceEntry
        BY <4>1 DEF PlaceEntry, Register, plan
      <4>2. CASE FillEntry
        <5>1. pc = "fill" /\ ~MoveFails
          BY <4>2, BoundAssumption DEF FillEntry, SlotInv
        <5> QED
          BY <4>2, <5>1 DEF FillEntry, Register
      <4> QED
        BY <2>4, <4>1, <4>2
    <3>4. Half(p) => pc = "fill" /\ p = t
      BY <2>0, <3>1
    <3>5. t \in bare => pc = "fill"
      <4>1. Half(t) => pc = "fill"
        BY <3>1 DEF SlotInv
      <4> QED
        BY <4>1 DEF Half
    <3>6. UNCHANGED stack => Top.pkg' = t
      BY DEF Top
    <3> HIDE DEF t, new
    <3>7. p = t => (p \in bare' => vdb'[p] \notin {Unlisted, Partial})
      BY <1>0, <3>2, <3>3, <3>5
    <3>8. p # t => vdb'[p] = vdb[p] /\ (p \in bare' => p \in bare)
      BY <1>0, <3>2, <3>3
    <3>9. p \in bare' => Complete(p)'
      BY <1>b, <3>7, <3>8 DEF Complete
    <3>10. Half(p)' => pc' = "fill" /\ p = t /\ UNCHANGED stack
      <4>1. p # t => ~Half(p)'
        BY <3>4, <3>8 DEF Half
      <4>2. p = t /\ Half(p)' => pc' = "fill" /\ UNCHANGED stack
        BY <1>0, <3>1, <3>2, <3>3, <3>5 DEF Half
      <4> QED
        BY <4>1, <4>2
    <3> QED
      BY <3>6, <3>9, <3>10
  <2> QED
    BY <2>1, <2>2, <2>3, <2>4
<1>5. \A s \in Slots : \A p \in Pkg :
        /\ cache'[s] # Unread => \A r, q \in cache'[s] : r = q
        /\ cache'[s] # Unread /\ cache'[s] # cache[s] =>
             UNCHANGED vdb /\ (Complete(p) /\ Slot[p] = s => p \in cache'[s])
  <2>1. CASE PickTarget \/ WalkDepend
    <3>1. /\ stack # <<>> => Top.deps \subseteq Pkg
          /\ todo \subseteq Pkg
      BY TypeParts, StackTop DEF IInv, PlanOK, Top, Frames
    <3>2. (\E p \in Pkg : Lookup(Slot[p])) \/ UNCHANGED cache
      BY <2>1, <3>1 DEF PickTarget, WalkDepend, Enter, IInv, Control
    <3>3. pc \in {"pick", "walk"} /\ UNCHANGED vdb
      BY <2>1 DEF PickTarget, WalkDepend, disk, entries
    <3>4. Single /\ \A p \in Pkg : ~Half(p)
      BY <3>3 DEF SlotInv
    <3>5. CASE UNCHANGED cache
      BY <3>5 DEF SlotInv
    <3>6. ASSUME NEW p \in Pkg, Lookup(Slot[p]), NEW s \in Slots
          PROVE  \/ cache'[s] = cache[s]
                 \/ /\ \A r, q \in cache'[s] : r = q
                    /\ \A r \in Pkg : Complete(r) /\ Slot[r] = s => r \in cache'[s]
      BY <3>4, <3>6, LookedUp, ListedOne
    <3> QED
      BY <3>2, <3>3, <3>5, <3>6 DEF SlotInv
  <2>2. CASE Stop
    BY <2>2 DEF Stop, FreshPlan
  <2>3. CASE UNCHANGED cache
    BY <2>3 DEF SlotInv
  <2> QED
    BY <2>1, <2>2, <2>3, PlanStep DEF plan, BeginMerge
<1>6. ASSUME MergeRun'
      PROVE  \E S \in SUBSET Pkg :
               /\ Solo(S) /\ Within(S)'
               /\ \A p \in Pkg : Complete(p)' /\ cache'[Slot[p]] # Unread
                                    => p \in S \cup cache'[Slot[p]]
  <2>1. CASE ~MergeRun
    BY <1>6, <2>1, WithinBegins DEF Slots
  <2>2. CASE MergeRun
    <3>1. PICK S \in SUBSET Pkg :
            /\ Solo(S) /\ Within(S)
            /\ \A p \in Pkg : Complete(p) /\ cache[Slot[p]] # Unread
                                 => p \in S \cup cache[Slot[p]]
      BY <2>2 DEF SlotInv
    <3>2. Within(S)'
      BY <1>6, <2>2, <3>1, WithinStep
    <3>3. stack # <<>> => Top.pkg \in S
      BY <3>1, StackTop, TypeParts DEF IInv, PlanOK, Within, Top, FramesOf
    <3>4. ASSUME NEW p \in Pkg, Complete(p)', cache'[Slot[p]] # Unread
          PROVE  p \in S \cup cache'[Slot[p]]
      <4>1. Slot[p] \in Slots
        BY DEF Slots
      <4>2. CASE ~Complete(p)
        BY <1>2, <3>3, <3>4, <4>2
      <4>3. CASE Complete(p)
        BY <1>5, <3>1, <3>4, <4>1, <4>3
      <4> QED
        BY <4>2, <4>3
    <3> QED
      BY <3>1, <3>2, <3>4
  <2> QED
    BY <2>1, <2>2
<1>7. ASSUME pc' \in {"postinst", "clear", "place", "fill"}, NEW q \in Pkg, Complete(q)',
             Slot[q] = Slot[Top.pkg]'
      PROVE  q = Top.pkg'
  <2>0. CASE ~Complete(q)
    <3>1. pc' = "fill" /\ pc \in {"place", "fill"} /\ q = Top.pkg
      BY <1>2, <1>7, <2>0
    <3>2. UNCHANGED stack
      BY <3>1 DEF Next, Run, BeginMerge, BeginRemoval, PickTarget, WalkDepend, Prepare,
         MergeEntry, LeaveDir, FinishMerge, RemovePackage, UnmergeEntry, EntriesDone,
         RemoveDir, Postrm, Erase, Postinst, ClearEntry, PlaceEntry, FillEntry, Leave,
         EndRun, Abort, Crash, Stop, Admin, vars, plan
    <3> QED
      BY <3>1, <3>2 DEF Top
  <2> SUFFICES ASSUME Complete(q) PROVE q = Top.pkg'
    BY <2>0
  <2>1. Complete(q)
    OBVIOUS
  <2>2. \/ pc \in {"postinst", "clear", "place", "fill"} /\ UNCHANGED stack
        \/ FinishMerge /\ UNCHANGED <<stack, vdb>>
        \/ Erase /\ UNCHANGED <<stack, vdb>> /\ vdb[victim] = Unlisted /\ stack # <<>>
    <3>1. CASE FinishMerge
      BY <3>1 DEF FinishMerge, disk, entries, plan
    <3>2. CASE Erase
      BY <1>7, <3>2 DEF Erase, EraseStep, entries, plan
    <3>3. CASE ~(FinishMerge \/ Erase)
      BY <1>7, <3>3 DEF Next, Run, BeginMerge, BeginRemoval, PickTarget, Enter, WalkDepend,
         Prepare, MergeEntry, LeaveDir, RemovePackage, Unmerge, UnmergeEntry, EntriesDone,
         RemoveDir, Postrm, Postinst, ClearEntry, PlaceEntry, FillEntry, Leave, EndRun,
         Abort, Stop, Admin, vars, plan
    <3> QED
      BY <3>1, <3>2, <3>3
  <2>3. CASE pc \in {"postinst", "clear", "place", "fill"} /\ UNCHANGED stack
    BY <1>7, <2>1, <2>3 DEF SlotInv, Top
  <2>4. CASE FinishMerge /\ UNCHANGED <<stack, vdb>>
    <3>1. stack # <<>> /\ (Top.prev = NoPkg \/ ContentsOf(Top.prev) = Unread)
      BY <1>7, <2>4 DEF FinishMerge, Unmerge, IInv, Control
    <3>2. \A p \in Pkg : Complete(p) => vdb[p] # Unread
      BY <1>0, MarkAssumption DEF DiskOK, Complete
    <3>3. Top.prev = NoPkg \/ (Top.prev \in Pkg /\ ~Complete(Top.prev))
      BY <1>1, <3>1, <3>2 DEF ContentsOf
    <3> QED
      BY <1>7, <2>1, <2>4, <3>1, <3>3, SlotCleared DEF Top
  <2>5. CASE Erase /\ UNCHANGED <<stack, vdb>> /\ vdb[victim] = Unlisted /\ stack # <<>>
    <3>1. victim = Top.prev /\ victim \in Pkg /\ ~Complete(victim)
      BY <2>5 DEF Erase, RunInv, VictimInv, IInv, Control, Complete
    <3> QED
      BY <1>7, <2>1, <2>5, <3>1, SlotCleared DEF Top
  <2> QED
    BY <2>2, <2>3, <2>4, <2>5
<1>8. pc' = "fill" => ~SameDevice
  BY DEF SlotInv, Next, Run, BeginMerge, BeginRemoval, PickTarget, Enter, WalkDepend, Prepare,
     MergeEntry, LeaveDir, FinishMerge, RemovePackage, Unmerge, UnmergeEntry, EntriesDone,
     RemoveDir, Postrm, Erase, Postinst, ClearEntry, PlaceEntry, FillEntry, Leave, EndRun,
     Abort, Stop, Admin, vars
<1>9. \A s \in Slots : cache'[s] # Unread => \A p, q \in cache'[s] : p = q
  <2>1. CASE Pkg = {}
    BY <2>1 DEF Slots
  <2>2. CASE Pkg # {}
    BY <1>5, <2>2
  <2> QED
    BY <2>1, <2>2
<1>10. pc' \in {"postinst", "clear", "place", "fill"} =>
         \A q \in Pkg : Complete(q)' /\ Slot[q] = Slot[Top.pkg]' => q = Top.pkg'
  BY <1>7
<1>11. \A p \in bare' : Complete(p)'
  <2>1. bare' \subseteq Pkg
    BY <1>0 DEF IInv, TypeOK
  <2> QED
    BY <1>4, <2>1
<1> QED
  BY <1>3, <1>4, <1>6, <1>8, <1>9, <1>10, <1>11 DEF SlotInv

LEMMA Uncrashed ==
  ASSUME IInv, [Next]_vars, crashes' = 0
  PROVE  ~Crash /\ crashes = 0
<1>1. crashes \in Nat
  BY TypeParts, BoundAssumption DEF IInv, HistoryOK
<1>2. ~Crash
  BY <1>1 DEF Crash
<1>3. UNCHANGED crashes
  BY <1>2 DEF Next, Run, BeginMerge, BeginRemoval, PickTarget, WalkDepend, Prepare,
     MergeEntry, LeaveDir, FinishMerge, RemovePackage, UnmergeEntry, EntriesDone,
     RemoveDir, Postrm, Erase, Postinst, ClearEntry, PlaceEntry, FillEntry, Leave,
     EndRun, Abort, Admin, vars, bounds
<1> QED
  BY <1>2, <1>3

LEMMA SlotInvariance ==
  ASSUME OneVersionARun, ~MoveFails \/ SameDevice
  PROVE  Spec => [](crashes = 0 => SlotInv)
<1>1. Init => (crashes = 0 => SlotInv)
  BY MarkAssumption DEF Init, SlotInv, Single, Half, Complete, MergeRun
<1>2. IInv /\ RunInv /\ (crashes = 0 => SlotInv) /\ [Next]_vars => (crashes = 0 => SlotInv)'
  <2> SUFFICES ASSUME IInv, RunInv, crashes = 0 => SlotInv, [Next]_vars, crashes' = 0
               PROVE  SlotInv'
    OBVIOUS
  <2>1. ~Crash /\ crashes = 0
    BY Uncrashed
  <2> QED
    BY <2>1, SlotStep
<1> QED
  BY <1>1, <1>2, Invariance, RunInvariance, PTL DEF Spec

\* qmerge.c:1655 "Unmerge any stray pieces from the older version": over any number
\* of merges, removals and nested dependencies no slot ever has two versions
\* registered, when no run was killed, no run merges two versions of one slot, and
\* an entry of the VDB is put in place whole or completed.
THEOREM OneVersion ==
  ASSUME OneVersionARun, ~MoveFails \/ SameDevice
  PROVE  Spec => []OnePerSlot
<1>1. (crashes = 0 => SlotInv) => OnePerSlot
  BY DEF OnePerSlot, SlotInv, Single
<1> QED
  BY <1>1, SlotInvariance, PTL

-----------------------------------------------------------------------------
(***************************************************************************)
(* The live root.                                                          *)
(***************************************************************************)
-----------------------------------------------------------------------------
(* Images and nodes.                                                       *)

LEMMA ImageTree ==
  ASSUME NEW p \in Pkg, NEW n \in DOMAIN Image[p]
  PROVE  /\ n \in Path /\ Loc[n] \in Path
         /\ Up[n] \subseteq DOMAIN Image[p] /\ Up[n] \subseteq Path
         /\ \A a \in Up[n] : Image[p][a].k = "dir"
         /\ Image[p][n].k \in {"dir", "obj", "sym"}
BY DataAssumption, PathAssumption, ImageFacts DEF Dir

LEMMA NodeParts == None.k = "none" /\ Dir.k = "dir"
BY DEF None, Dir

-----------------------------------------------------------------------------
(* What a step does to the root.                                           *)

\* Directory x goes, and nothing below it stays.
Pruned(x) ==
  /\ live[x].k = "dir" /\ live'[x].k = "none"
  /\ \A y \in Below(x) : live'[y].k = "none"

Unlinked(x) == live[x].k \in {"obj", "sym"} /\ live'[x].k = "none"

\* An entry of the image is put in place.
Merged(x) ==
  /\ pc = "merge" /\ Reachable(x) /\ live[x].k # "dir"
  /\ \E n \in left : Loc[n] = x /\ live'[x].k = Entry(n).k

\* rmdir_r_at leaves no name below a directory it removes.
LEMMA RmdirPrunes ==
  ASSUME NEW fs \in Roots, NEW c, NEW chain, NEW x \in Path,
         rmdir_r_at(fs, c, chain)[x] # fs[x]
  PROVE  /\ fs[x].k = "dir" /\ rmdir_r_at(fs, c, chain)[x] = None
         /\ \A y \in Below(x) : rmdir_r_at(fs, c, chain)[y].k = "none"
<1> DEFINE used == {y \in Path : fs[y].k # "none" \/ c[y] # NoCfg}
           rm == {Loc[a] : a \in chain}
           go == {y \in rm : fs[y].k = "dir" /\ \A z \in Below(y) \cap used :
                               z \in rm /\ fs[z].k = "dir" /\ c[z] = NoCfg}
<1>1. rmdir_r_at(fs, c, chain) = [y \in Path |-> IF y \in go THEN None ELSE fs[y]]
  BY DEF rmdir_r_at
<1>2. \A y \in Path : rmdir_r_at(fs, c, chain)[y] = IF y \in go THEN None ELSE fs[y]
  BY <1>1
<1>3. x \in go
  BY <1>2
<1>4. ASSUME NEW y \in Below(x), y \in used
      PROVE  y \in go
  <2>1. y \in rm /\ fs[y].k = "dir"
    BY <1>3, <1>4
  <2>2. Below(y) \subseteq Below(x)
    BY PathAssumption DEF Below
  <2> QED
    BY <1>3, <2>1, <2>2
<1>5. \A y \in Below(x) : y \in Path /\ (y \notin used => fs[y].k = "none")
  BY DEF Below
<1> HIDE DEF go
<1>6. \A y \in Below(x) : rmdir_r_at(fs, c, chain)[y].k = "none"
  BY <1>2, <1>4, <1>5, NodeParts
<1> QED
  BY <1>2, <1>3, <1>6 DEF go

LEMMA RootStep ==
  ASSUME IInv, [Next]_vars, NEW x \in Path
  PROVE  live'[x].k = live[x].k \/ Pruned(x) \/ Unlinked(x) \/ Merged(x)
<1>0. live \in Roots /\ left \subseteq Path /\ Loc \in [Path -> Path]
  BY TypeParts, PathAssumption DEF IInv, DiskOK, JobOK
<1> USE NodeParts
<1>1. CASE MergeEntry
  <2>1. PICK n \in Coming : MergeDir(n) \/ MergeObj(n) \/ MergeSym(n)
    BY <1>1 DEF MergeEntry
  <2>2. n \in left /\ Loc[n] \in Path /\ pc = "merge"
    BY <1>0, <1>1, <2>1 DEF Coming, MergeEntry
  <2> DEFINE removed == Put(Loc[n], None) /\ live[Loc[n]].k \in {"obj", "sym"}
             placed == /\ \E node : Put(Loc[n], node) /\ node.k = Entry(n).k
                       /\ Reachable(Loc[n]) /\ live[Loc[n]].k # "dir"
  <2>3. CASE UNCHANGED live
    BY <2>3
  <2>4. CASE removed
    BY <1>0, <2>2, <2>4 DEF Put, Roots, Unlinked
  <2>5. CASE placed
    <3>1. PICK node : Put(Loc[n], node) /\ node.k = Entry(n).k
      BY <2>5
    <3>2. CASE x = Loc[n]
      BY <1>0, <2>2, <2>5, <3>1, <3>2 DEF Put, Roots, Merged
    <3>3. CASE x # Loc[n]
      BY <1>0, <3>1, <3>3 DEF Put, Roots
    <3> QED
      BY <3>2, <3>3
  <2>6. MergeDir(n) => UNCHANGED live \/ placed
    BY DEF MergeDir, Exists
  <2>7. MergeObj(n) => UNCHANGED live \/ placed
    BY DEF MergeObj
  <2>8. MergeSym(n) => UNCHANGED live \/ removed \/ placed
    BY DEF MergeSym
  <2> QED
    BY <2>1, <2>3, <2>4, <2>5, <2>6, <2>7, <2>8
<1>2. CASE LeaveDir
  <2> DEFINE y == Loc[at[Len(at)]]
  <2>1. \/ UNCHANGED live
        \/ live[y].k = "dir" /\ Empty(y) /\ live' = [live EXCEPT ![y] = None]
    BY <1>2 DEF LeaveDir, Put
  <2> HIDE DEF y
  <2>2. CASE live[y].k = "dir" /\ Empty(y) /\ live' = [live EXCEPT ![y] = None]
    <3>1. CASE x = y
      <4>1. \A z \in Below(x) : z \in Path /\ z # x /\ live[z].k = "none"
        BY <2>2, <3>1, PathAssumption DEF Below, Empty, Exists
      <4>2. \A z \in Path : z # x => live'[z] = live[z]
        BY <1>0, <2>2, <3>1 DEF Roots
      <4>3. live'[x].k = "none"
        BY <1>0, <2>2, <3>1 DEF Roots
      <4> QED
        BY <2>2, <3>1, <4>1, <4>2, <4>3 DEF Pruned
    <3>2. CASE x # y
      BY <1>0, <2>2, <3>2 DEF Roots
    <3> QED
      BY <3>1, <3>2
  <2> QED
    BY <2>1, <2>2
<1>3. ASSUME NEW fs \in Roots, NEW chain, live' = rmdir_r_at(fs, cfg, chain),
             \A y \in Path : fs[y] = live[y] \/ (live[y].k # "dir" /\ fs[y] = None)
      PROVE  live'[x].k = live[x].k \/ Pruned(x) \/ Unlinked(x)
  <2>1. CASE live'[x] = fs[x]
    <3>1. live[x].k \in {"none", "dir", "obj", "sym"}
      BY <1>0 DEF Roots, Nodes, Kinds
    <3> QED
      BY <1>3, <2>1, <3>1 DEF Unlinked
  <2>2. CASE live'[x] # fs[x]
    <3>1. fs[x].k = "dir" /\ live'[x] = None /\ \A y \in Below(x) : live'[y].k = "none"
      BY <1>3, <2>2, RmdirPrunes
    <3> QED
      BY <1>3, <3>1 DEF Pruned
  <2> QED
    BY <2>1, <2>2
<1>4. CASE UnmergeEntry
  <2>1. CASE UNCHANGED live
    BY <2>1
  <2>2. CASE ~UNCHANGED live
    <3>1. PICK n \in gone :
            /\ ~Fatal(n)
            /\ live' = rmdir_r_at([live EXCEPT ![Loc[n]] = None], cfg, Up[n])
      BY <1>4, <2>2 DEF UnmergeEntry
    <3>2. Loc[n] \in Path /\ live[Loc[n]].k # "dir"
      BY <1>0, <3>1, TypeParts DEF Fatal, IInv, RemovalOK
    <3>3. [live EXCEPT ![Loc[n]] = None] \in Roots
      BY <1>0, <3>2, NodeFacts DEF Roots
    <3>4. \A y \in Path : LET fs == [live EXCEPT ![Loc[n]] = None] IN
            fs[y] = live[y] \/ (live[y].k # "dir" /\ fs[y] = None)
      BY <1>0, <3>2 DEF Roots
    <3> QED
      BY <1>3, <3>1, <3>3, <3>4
  <2> QED
    BY <2>1, <2>2
<1>5. CASE RemoveDir
  <2>1. PICK d \in dirs : live' = rmdir_r_at(live, cfg, Up[d] \cup {d})
    BY <1>5 DEF RemoveDir
  <2> QED
    BY <1>0, <1>3, <2>1
<1>6. CASE Admin
  <2>1. PICK y \in Path :
          \/ live[y].k = "obj" /\ \E d : Put(y, [k |-> "obj", d |-> d])
          \/ live[y].k \in {"obj", "sym"} /\ Put(y, None)
          \/ UNCHANGED live
    BY <1>6 DEF Admin
  <2> QED
    BY <1>0, <2>1 DEF Put, Roots, Unlinked
<1>7. CASE ~(MergeEntry \/ LeaveDir \/ UnmergeEntry \/ RemoveDir \/ Admin)
  <2>1. UNCHANGED live
    BY <1>7 DEF Next, Run, BeginMerge, BeginRemoval, PickTarget, WalkDepend, Prepare,
       FinishMerge, RemovePackage, EntriesDone, Postrm, Erase, Postinst, ClearEntry,
       PlaceEntry, FillEntry, Leave, EndRun, Abort, Crash, Stop, vars, disk, entries
  <2> QED
    BY <2>1
<1> QED
  BY <1>1, <1>2, <1>4, <1>5, <1>6, <1>7

-----------------------------------------------------------------------------
(* The root is a tree.                                                     *)

TreeInv == \A x \in Path : Exists(x) => Reachable(x)

\* What is a directory in the packages is none or one in the root.
KindInv ==
  \A p \in Pkg : \A n \in DOMAIN Image[p] :
    live[Loc[n]].k \in IF Image[p][n].k = "dir" THEN {"none", "dir"}
                                                ELSE {"none", "obj", "sym"}

LEMMA MergedEntry ==
  ASSUME IInv, pc = "merge", NEW n \in left
  PROVE  /\ stack # <<>> /\ Top.pkg \in Pkg /\ n \in DOMAIN Image[Top.pkg]
         /\ Entry(n) = Image[Top.pkg][n] /\ Entry(n).k \in {"dir", "obj", "sym"}
<1>1. stack # <<>> /\ Top.pkg \in Pkg /\ n \in DOMAIN Image[Top.pkg]
  BY StackTop, TypeParts DEF IInv, Control, PlanOK, Top, Frames
<1> QED
  BY <1>1, ImageTree DEF Entry

LEMMA KindStep ==
  ASSUME Agree, IInv, KindInv, [Next]_vars
  PROVE  KindInv'
<1> SUFFICES ASSUME NEW p \in Pkg, NEW n \in DOMAIN Image[p]
             PROVE  live'[Loc[n]].k \in IF Image[p][n].k = "dir" THEN {"none", "dir"}
                                                            ELSE {"none", "obj", "sym"}
  BY DEF KindInv
<1>1. Loc[n] \in Path
  BY ImageTree
<1>2. CASE live'[Loc[n]].k \in {live[Loc[n]].k, "none"}
  BY <1>2 DEF KindInv
<1>3. CASE Merged(Loc[n])
  <2>1. PICK m \in left : Loc[m] = Loc[n] /\ live'[Loc[n]].k = Entry(m).k
    BY <1>3 DEF Merged
  <2>2. /\ Top.pkg \in Pkg /\ m \in DOMAIN Image[Top.pkg]
        /\ Entry(m) = Image[Top.pkg][m] /\ Entry(m).k \in {"dir", "obj", "sym"}
    BY <1>3, MergedEntry DEF Merged
  <2>3. Entry(m).k = "dir" <=> Image[p][n].k = "dir"
    BY <2>1, <2>2 DEF Agree
  <2> QED
    BY <2>1, <2>2, <2>3
<1> QED
  BY <1>1, <1>2, <1>3, RootStep DEF Pruned, Unlinked

LEMMA TreeStep ==
  ASSUME IInv, TreeInv, [Next]_vars
  PROVE  TreeInv'
<1> SUFFICES ASSUME NEW x \in Path, live'[x].k # "none", NEW a \in Up[x]
             PROVE  live'[a].k = "dir"
  BY DEF TreeInv, Exists, Reachable
<1>1. a \in Path /\ x \in Below(a)
  BY PathAssumption DEF Below
<1>2. live[a].k = "dir"
  <2>1. CASE Exists(x)
    BY <2>1 DEF TreeInv, Reachable
  <2>2. CASE ~Exists(x)
    BY <2>2, RootStep DEF Exists, Pruned, Unlinked, Merged, Reachable
  <2> QED
    BY <2>1, <2>2
<1> QED
  BY <1>1, <1>2, RootStep DEF Pruned, Unlinked, Merged

-----------------------------------------------------------------------------
(* The walk over the image.                                                *)

\* The directory a name is in is the only one.
LEMMA OneParent ==
  ASSUME NEW n \in Path, NEW d \in ParentOf(n)
  PROVE  ParentOf(n) = {d} /\ d \in Up[n] /\ d \in Path
<1>1. d \in Up[n] /\ d \in Path /\ Up[n] = Up[d] \cup {d}
  BY PathAssumption DEF ParentOf
<1>2. ASSUME NEW e \in ParentOf(n), e # d
      PROVE  FALSE
  <2>1. e \in Up[n] /\ e \in Path /\ Up[n] = Up[e] \cup {e}
    BY PathAssumption DEF ParentOf
  <2>2. e \in Up[d] /\ d \in Up[e]
    BY <1>1, <1>2, <2>1
  <2> QED
    BY <1>1, <2>1, <2>2, PathAssumption
<1> QED
  BY <1>1, <1>2

\* The names of a chain of directories.
On(s) == {s[i] : i \in 1 .. Len(s)}

\* merge_tree_at is in a chain of directories that are there, and in none that it
\* has left is anything to merge.
WayThere(s, root, p) ==
  \A i \in 1 .. Len(s) : /\ Up[s[i]] = {s[j] : j \in 1 .. i - 1}
                         /\ root[Loc[s[i]]].k = "dir"
                         /\ s[i] \in DOMAIN Image[p] /\ Image[p][s[i]].k = "dir"
AboveLeft(s, todo1) == \A n \in todo1 : Up[n] \subseteq todo1 \cup On(s)
WalkInv == pc = "merge" => WayThere(at, live, Top.pkg) /\ AboveLeft(at, left)

LEMMA WalkLength ==
  ASSUME NEW s \in Walks
  PROVE  /\ Len(s) \in Nat
         /\ \A i \in 1 .. Len(s) : s[i] \in Path
         /\ s = <<>> => On(s) = {}
         /\ s # <<>> => Len(s) \in 1 .. Len(s)
<1>1. Len(s) \in Nat /\ (s = <<>> <=> Len(s) = 0)
  BY EmptySeq, LenProperties DEF Walks
<1>2. \A i \in 1 .. Len(s) : s[i] \in Path
  BY ElementOfSeq DEF Walks
<1> QED
  BY <1>1, <1>2 DEF On

LEMMA WalkDown ==
  ASSUME NEW s \in Walks, NEW n \in Path
  PROVE  /\ Len(Append(s, n)) = Len(s) + 1
         /\ \A i \in 1 .. Len(s) : Append(s, n)[i] = s[i]
         /\ Append(s, n)[Len(s) + 1] = n
         /\ On(Append(s, n)) = On(s) \cup {n}
<1> DEFINE t == Append(s, n)
<1>1. Len(t) = Len(s) + 1 /\ Len(s) \in Nat /\ t[Len(s) + 1] = n
      /\ \A i \in 1 .. Len(s) : t[i] = s[i]
  BY AppendProperties, LenProperties DEF Walks
<1> HIDE DEF t
<1>2. \A i \in 1 .. Len(t) : i \in 1 .. Len(s) \/ i = Len(s) + 1
  BY <1>1
<1>3. Len(s) + 1 \in 1 .. Len(t) /\ \A i \in 1 .. Len(s) : i \in 1 .. Len(t)
  BY <1>1
<1>4. On(t) \subseteq On(s) \cup {n}
  BY <1>1, <1>2 DEF On
<1>5. On(s) \cup {n} \subseteq On(t)
  <2>1. n \in On(t)
    BY <1>1, <1>3 DEF On
  <2>2. \A i \in 1 .. Len(s) : s[i] = t[i] /\ i \in 1 .. Len(t)
    BY <1>1, <1>3
  <2> QED
    BY <2>1, <2>2 DEF On
<1>6. On(t) = On(s) \cup {n}
  BY <1>4, <1>5
<1> QED
  BY <1>1, <1>6 DEF t

LEMMA WalkUp ==
  ASSUME NEW s \in Walks, s # <<>>
  PROVE  LET t == SubSeq(s, 1, Len(s) - 1) IN
         /\ t \in Walks /\ Len(t) = Len(s) - 1 /\ Len(s) \in Nat \ {0}
         /\ \A i \in 1 .. Len(t) : t[i] = s[i]
         /\ On(s) = On(t) \cup {s[Len(s)]}
<1> DEFINE m == Len(s) - 1
           t == SubSeq(s, 1, m)
<1>1. m \in Nat /\ Len(s) = m + 1 /\ \A i \in 1 .. Len(s) : s[i] \in Path
  BY WalkLength
<1>2. \A i \in 1 .. m : i \in 1 .. Len(s) /\ s[i] \in Path
  BY <1>1
<1> HIDE DEF m
<1>3. t \in Seq(Path) /\ Len(t) = (IF 1 <= m THEN m - 1 + 1 ELSE 0)
      /\ \A i \in 1 .. m - 1 + 1 : t[i] = s[1 + i - 1]
  BY <1>1, <1>2, SubSeqProperties
<1> HIDE DEF t
<1>4. Len(t) = m /\ \A i \in 1 .. m : t[i] = s[i]
  BY <1>1, <1>3
<1>5. \A i \in 1 .. Len(s) : i \in 1 .. m \/ i = Len(s)
  BY <1>1
<1>6. On(s) = On(t) \cup {s[Len(s)]}
  <2>1. On(s) \subseteq On(t) \cup {s[Len(s)]}
    BY <1>4, <1>5 DEF On
  <2>2. \A i \in 1 .. Len(t) : t[i] = s[i] /\ i \in 1 .. Len(s)
    BY <1>2, <1>4
  <2>3. Len(s) \in 1 .. Len(s)
    BY <1>1
  <2> QED
    BY <2>1, <2>2, <2>3 DEF On
<1> QED
  BY <1>1, <1>3, <1>4, <1>6 DEF Walks, m, t

\* The directory merge_tree_at is in and the ones above it are those of an entry of it.
LEMMA ChainAbove ==
  ASSUME IInv, WalkInv, pc = "merge", NEW n \in Coming
  PROVE  n \in left /\ n \in Path /\ Up[n] = On(at)
<1>1. n \in left /\ n \in Path /\ ParentOf(n) = Here /\ at \in Walks
  BY TypeParts DEF Coming, IInv, JobOK
<1>2. CASE at = <<>>
  <2>1. ParentOf(n) = {}
    BY <1>1, <1>2 DEF Here
  <2>2. Up[n] = {}
    BY <1>1, <2>1, ChainAssumption, PathAssumption DEF ParentOf
  <2> QED
    BY <1>1, <1>2, <2>2, WalkLength
<1>3. CASE at # <<>>
  <2> DEFINE d == at[Len(at)]
             k == Len(at)
  <2>1. d \in ParentOf(n) /\ k \in Nat /\ k \in 1 .. k
    BY <1>1, <1>3, WalkLength DEF Here
  <2>2. Up[n] = Up[d] \cup {d}
    BY <2>1 DEF ParentOf
  <2>3. Up[d] = {at[j] : j \in 1 .. k - 1}
    BY <2>1 DEF WalkInv, WayThere, AboveLeft
  <2>4. \A i \in 1 .. k : i \in 1 .. k - 1 \/ i = k
    BY <2>1
  <2>5. \A i \in 1 .. k - 1 : i \in 1 .. k
    BY <2>1
  <2> HIDE DEF k
  <2>6. On(at) = {at[j] : j \in 1 .. k - 1} \cup {d}
    BY <2>1, <2>4, <2>5 DEF On, k
  <2> QED
    BY <1>1, <2>2, <2>3, <2>6
<1> QED
  BY <1>2, <1>3

\* With room on the disk an entry is put in place, but for a protected file that is
\* there already.
LEMMA EntryMerged ==
  ASSUME Straight, ~MoveFails, IInv, KindInv, WalkInv, MergeEntry
  PROVE  \E n \in left :
           /\ left' = left \ {n} /\ rec' = rec \cup {n} /\ keep' = keep \cup {n}
           /\ Up[n] = On(at) /\ Loc[n] \in Path
           /\ \A y \in Path : y # Loc[n] => live'[y] = live[y]
           /\ \/ /\ Entry(n).k = "dir"
                 /\ live'[Loc[n]].k = "dir" /\ at' = Append(at, n)
              \/ /\ Entry(n).k # "dir" /\ live[Loc[n]].k # "dir" /\ at' = at
                 /\ \/ live'[Loc[n]].k = Entry(n).k
                    \/ config_protected(n) /\ Exists(Loc[n]) /\ UNCHANGED live
<1>1. PICK n \in Coming : MergeDir(n) \/ MergeObj(n) \/ MergeSym(n)
  BY DEF MergeEntry
<1> DEFINE x == Loc[n]
<1>2. pc = "merge" /\ n \in left /\ n \in Path /\ Up[n] = On(at)
  BY <1>1, ChainAbove DEF MergeEntry
<1>3. /\ Top.pkg \in Pkg /\ n \in DOMAIN Image[Top.pkg] /\ x \in Path
      /\ Entry(n) = Image[Top.pkg][n] /\ Entry(n).k \in {"dir", "obj", "sym"}
  BY <1>2, MergedEntry, ImageTree
<1>4. live \in Roots
  BY TypeParts DEF IInv, DiskOK
<1>5. live[x].k \in IF Entry(n).k = "dir" THEN {"none", "dir"} ELSE {"none", "obj", "sym"}
  BY <1>3 DEF KindInv
<1>6. Reachable(x)
  <2>1. Up[x] = {Loc[a] : a \in On(at)}
    BY <1>2 DEF Straight
  <2>2. \A a \in On(at) : live[Loc[a]].k = "dir"
    BY <1>2 DEF WalkInv, WayThere, AboveLeft, On
  <2> QED
    BY <2>1, <2>2 DEF Reachable
<1> HIDE DEF x
<1> USE NodeParts
<1>7. CASE MergeDir(n)
  <2>1. Entry(n).k = "dir" /\ live[x].k \in {"none", "dir"}
    BY <1>5, <1>7 DEF MergeDir
  <2>2. /\ Record(n) /\ left' = left \ {n} /\ at' = Append(at, n)
        /\ \/ live[x].k = "dir" /\ UNCHANGED live
           \/ Put(x, Dir)
    BY <1>6, <1>7, <2>1 DEF MergeDir, Exists, x
  <2>3. live'[x].k = "dir" /\ \A y \in Path : y # x => live'[y] = live[y]
    BY <1>3, <1>4, <2>2 DEF Put, Roots
  <2> QED
    BY <1>2, <1>3, <2>1, <2>2, <2>3 DEF Record, x
<1>8. CASE MergeObj(n) \/ MergeSym(n)
  <2>1. Entry(n).k # "dir" /\ live[x].k # "dir"
    BY <1>5, <1>8 DEF MergeObj, MergeSym
  <2>2. /\ Record(n) /\ left' = left \ {n} /\ at' = at
        /\ \/ config_protected(n) /\ Exists(x) /\ UNCHANGED live
           \/ Put(x, Entry(n))
    BY <1>6, <1>8, <2>1 DEF MergeObj, MergeSym, x
  <2>3. /\ \/ config_protected(n) /\ Exists(x) /\ UNCHANGED live
           \/ live'[x].k = Entry(n).k
        /\ \A y \in Path : y # x => live'[y] = live[y]
    BY <1>3, <1>4, <2>2 DEF Put, Roots
  <2> QED
    BY <1>2, <1>3, <2>1, <2>2, <2>3 DEF Record, x
<1> QED
  BY <1>1, <1>7, <1>8

LEMMA WalkStep ==
  ASSUME Straight, ~MoveFails, IInv, KindInv, WalkInv, [Next]_vars
  PROVE  WalkInv'
<1> SUFFICES ASSUME pc' = "merge" PROVE WalkInv'
  BY DEF WalkInv, WayThere, AboveLeft
<1>1. CASE Prepare
  <2>1. /\ at' = <<>> /\ UNCHANGED stack /\ Top.pkg \in Pkg
        /\ left' = DOMAIN Image[Top.pkg] /\ Top' = Top
    BY <1>1, StackTop, TypeParts DEF Prepare, plan, IInv, Control, PlanOK, Top, Frames
  <2>2. \A n \in left' : Up[n] \subseteq left'
    BY <2>1, ImageTree
  <2>3. Len(at') = 0
    BY <2>1, EmptySeq
  <2> QED
    BY <2>1, <2>2, <2>3 DEF WalkInv, WayThere, AboveLeft
<1>2. CASE MergeEntry
  <2>1. PICK n \in left :
          /\ left' = left \ {n}
          /\ Up[n] = On(at) /\ Loc[n] \in Path
          /\ \A y \in Path : y # Loc[n] => live'[y] = live[y]
          /\ \/ /\ Entry(n).k = "dir"
                /\ live'[Loc[n]].k = "dir" /\ at' = Append(at, n)
             \/ Entry(n).k # "dir" /\ live[Loc[n]].k # "dir" /\ at' = at
    BY <1>2, EntryMerged
  <2>2. /\ pc = "merge" /\ UNCHANGED stack /\ Top' = Top /\ at \in Walks /\ n \in Path
        /\ left \subseteq DOMAIN Image[Top.pkg] /\ Top.pkg \in Pkg
        /\ Entry(n) = Image[Top.pkg][n] /\ n \in DOMAIN Image[Top.pkg]
    BY <1>2, MergedEntry, TypeParts DEF MergeEntry, plan, Top, IInv, Control, JobOK
  <2>3. \A i \in 1 .. Len(at) : /\ Up[at[i]] = {at[j] : j \in 1 .. i - 1}
                                /\ live'[Loc[at[i]]].k = "dir"
                                /\ at[i] \in DOMAIN Image[Top.pkg]
                                /\ Image[Top.pkg][at[i]].k = "dir"
    <3> TAKE i \in 1 .. Len(at)
    <3>1. /\ Up[at[i]] = {at[j] : j \in 1 .. i - 1} /\ live[Loc[at[i]]].k = "dir"
          /\ at[i] \in DOMAIN Image[Top.pkg] /\ Image[Top.pkg][at[i]].k = "dir"
      BY <2>2 DEF WalkInv, WayThere, AboveLeft
    <3>2. Loc[at[i]] \in Path
      BY <2>2, <3>1, ImageTree
    <3> QED
      BY <2>1, <3>1, <3>2
  <2>4. \A m \in left : Up[m] \subseteq left \cup On(at)
    BY <2>2 DEF WalkInv, WayThere, AboveLeft
  <2>5. CASE Entry(n).k = "dir" /\ live'[Loc[n]].k = "dir" /\ at' = Append(at, n)
    <3>1. /\ Len(at') = Len(at) + 1 /\ Len(at) \in Nat /\ at'[Len(at) + 1] = n
          /\ \A i \in 1 .. Len(at) : at'[i] = at[i]
          /\ On(at') = On(at) \cup {n}
      BY <2>2, <2>5, WalkDown, WalkLength
    <3>2. \A m \in left' : Up[m] \subseteq left' \cup On(at')
      BY <2>1, <2>4, <3>1
    <3>3. ASSUME NEW i \in 1 .. Len(at')
          PROVE  /\ Up[at'[i]] = {at'[j] : j \in 1 .. i - 1} /\ live'[Loc[at'[i]]].k = "dir"
                 /\ at'[i] \in DOMAIN Image[Top.pkg] /\ Image[Top.pkg][at'[i]].k = "dir"
      <4>1. CASE i \in 1 .. Len(at)
        <5>1. \A j \in 1 .. i - 1 : at'[j] = at[j]
          BY <3>1, <4>1
        <5>2. at'[i] = at[i] /\ {at'[j] : j \in 1 .. i - 1} = {at[j] : j \in 1 .. i - 1}
          BY <3>1, <4>1, <5>1
        <5> QED
          BY <2>3, <4>1, <5>2
      <4>2. CASE i = Len(at) + 1
        <5>1. 1 .. i - 1 = 1 .. Len(at) /\ at'[i] = n
          BY <3>1, <4>2
        <5>2. {at'[j] : j \in 1 .. i - 1} = On(at)
          BY <3>1, <5>1 DEF On
        <5> QED
          BY <2>1, <2>2, <2>5, <5>1, <5>2
      <4> QED
        BY <3>1, <3>3, <4>1, <4>2
    <3> QED
      BY <2>2, <3>2, <3>3 DEF WalkInv, WayThere, AboveLeft
  <2>6. CASE Entry(n).k # "dir" /\ live[Loc[n]].k # "dir" /\ at' = at
    <3>1. \A m \in left : n \notin Up[m]
      BY <2>2, <2>6, ImageTree
    <3>2. \A m \in left' : Up[m] \subseteq left' \cup On(at)
      BY <2>1, <2>4, <3>1
    <3>3. WayThere(at, live', Top.pkg) /\ AboveLeft(at, left')
      BY <2>3, <3>2 DEF WayThere, AboveLeft
    <3> QED
      BY <2>2, <2>6, <3>3 DEF WalkInv
  <2> QED
    BY <2>1, <2>5, <2>6
<1>3. CASE LeaveDir
  <2> DEFINE d == at[Len(at)]
             k == Len(at) - 1
  <2>1. /\ pc = "merge" /\ at # <<>> /\ at \in Walks /\ Coming = {} /\ UNCHANGED <<stack, left>>
        /\ Top' = Top /\ Top.pkg \in Pkg /\ left \subseteq DOMAIN Image[Top.pkg]
        /\ at' = SubSeq(at, 1, Len(at) - 1)
    BY <1>3, StackTop, TypeParts
       DEF LeaveDir, plan, IInv, JobOK, Control, PlanOK, Top, Frames
  <2>2. /\ Len(at') = k /\ k \in Nat /\ Len(at) = k + 1
        /\ \A i \in 1 .. k : at'[i] = at[i]
        /\ On(at) = On(at') \cup {d}
    BY <2>1, WalkUp
  <2>3. d \in Path /\ d \in DOMAIN Image[Top.pkg] /\ Up[d] = {at[j] : j \in 1 .. k}
    <3>1. Len(at) \in 1 .. Len(at) /\ Len(at) - 1 = k
      BY <2>2
    <3> QED
      BY <2>1, <3>1, ImageTree DEF WalkInv, WayThere, AboveLeft
  <2>4. \A x \in Path : x # Loc[d] => live'[x] = live[x]
    <3>1. live \in Roots /\ Loc[d] \in Path
      BY <2>3, TypeParts, PathAssumption DEF IInv, DiskOK
    <3> QED
      BY <1>3, <3>1 DEF LeaveDir, Put, Roots
  <2> HIDE DEF k, d
  <2>5. ASSUME NEW m \in left, d \in Up[m]
        PROVE  FALSE
    <3>1. PICK c \in Up[m] \cup {m} : Up[c] = Up[d] \cup {d}
      BY <2>1, <2>5, ImageTree, ChainAssumption
    <3>2. c \in Path /\ c \in left \cup On(at)
      BY <2>1, <2>5, <3>1, ImageTree DEF WalkInv, WayThere, AboveLeft
    <3>3. CASE c \in left
      <4>1. d \in ParentOf(c)
        BY <3>1 DEF ParentOf
      <4>2. ParentOf(c) = {d} /\ Here = {d}
        BY <2>1, <3>2, <4>1, OneParent DEF Here, d
      <4> QED
        BY <2>1, <3>3, <4>2 DEF Coming
    <3>4. CASE c \in On(at)
      <4>1. PICK i \in 1 .. Len(at) : c = at[i]
        BY <3>4 DEF On
      <4>2. Up[c] = {at[j] : j \in 1 .. i - 1}
        BY <2>1, <4>1 DEF WalkInv, WayThere, AboveLeft
      <4>3. PICK j \in 1 .. i - 1 : d = at[j]
        BY <3>1, <4>2
      <4>4. j \in 1 .. k
        BY <2>2, <4>1, <4>3
      <4> QED
        BY <2>3, <4>3, <4>4, PathAssumption
    <3> QED
      BY <3>2, <3>3, <3>4
  <2>6. \A m \in left' : Up[m] \subseteq left' \cup On(at')
    <3>1. \A m \in left : Up[m] \subseteq left \cup On(at)
      BY <2>1 DEF WalkInv, AboveLeft
    <3> QED
      BY <2>1, <2>2, <2>5, <3>1
  <2>7. ASSUME NEW i \in 1 .. Len(at')
        PROVE  /\ Up[at'[i]] = {at'[j] : j \in 1 .. i - 1} /\ live'[Loc[at'[i]]].k = "dir"
               /\ at'[i] \in DOMAIN Image[Top.pkg] /\ Image[Top.pkg][at'[i]].k = "dir"
    <3>1. i \in 1 .. Len(at) /\ i \in 1 .. k /\ at'[i] = at[i]
      BY <2>2, <2>7
    <3>2. {at'[j] : j \in 1 .. i - 1} = {at[j] : j \in 1 .. i - 1}
      <4>1. \A j \in 1 .. i - 1 : at'[j] = at[j]
        BY <2>2, <3>1
      <4> QED
        BY <4>1
    <3>3. /\ Up[at[i]] = {at[j] : j \in 1 .. i - 1} /\ live[Loc[at[i]]].k = "dir"
          /\ at[i] \in DOMAIN Image[Top.pkg] /\ Image[Top.pkg][at[i]].k = "dir"
      BY <2>1, <3>1 DEF WalkInv, WayThere, AboveLeft
    <3>4. Loc[at[i]] # Loc[d] /\ Loc[at[i]] \in Path
      <4>1. at[i] \in Up[d]
        BY <2>3, <3>1
      <4>2. Loc[at[i]] \in Up[Loc[d]]
        BY <2>3, <4>1 DEF Straight
      <4> QED
        BY <2>3, <4>2, PathAssumption
    <3> QED
      BY <2>4, <3>1, <3>2, <3>3, <3>4
  <2>8. AboveLeft(at', left')
    BY <2>6 DEF AboveLeft, On
  <2>9. WayThere(at', live', Top.pkg)
    BY <2>7 DEF WayThere
  <2> QED
    BY <2>1, <2>8, <2>9 DEF WalkInv
<1>4. CASE ~(Prepare \/ MergeEntry \/ LeaveDir)
  <2>1. pc = "merge" /\ UNCHANGED <<at, left, stack, live>>
    BY <1>4 DEF Next, Run, BeginMerge, BeginRemoval, PickTarget, WalkDepend, Enter,
       FinishMerge, RemovePackage, Unmerge, UnmergeEntry, EntriesDone, RemoveDir, Postrm,
       Erase, Postinst, ClearEntry, PlaceEntry, FillEntry, Leave, EndRun, Abort, Crash,
       Stop, Admin, vars, disk, entries, plan, job
  <2>2. Top' = Top
    BY <2>1 DEF Top
  <2> QED
    BY <2>1, <2>2 DEF WalkInv
<1> QED
  BY <1>1, <1>2, <1>3, <1>4

-----------------------------------------------------------------------------
(* What is recorded of a package is all of it.                             *)

\* All of a package's files.
Whole(p) == Listing(p, DOMAIN Image[p])

\* Merging the package on the top of the stack has begun.
Active == pc \in {"merge", "unmerge", "dirs", "erase", "postinst", "clear", "place", "fill"}
          /\ stack # <<>>

\* It goes on, or was, with the same entries.
LEMMA ActiveStep ==
  ASSUME IInv, [Next]_vars, ~(Prepare \/ MergeEntry \/ FinishMerge \/ RemovePackage), Active'
  PROVE  /\ Active /\ UNCHANGED <<stack, left, rec, torn>>
         /\ pc' = "merge" <=> pc = "merge"
<1>0. Control
  BY DEF IInv
<1>1. CASE LeaveDir \/ UnmergeEntry \/ EntriesDone
  BY <1>1 DEF Active, LeaveDir, UnmergeEntry, EntriesDone, plan, job, history
<1>2. CASE RemoveDir \/ Postrm \/ Erase \/ Postinst
  BY <1>2 DEF Active, RemoveDir, Postrm, Erase, Postinst, plan, job, history
<1>3. CASE ClearEntry \/ PlaceEntry \/ FillEntry
  BY <1>3 DEF Active, ClearEntry, PlaceEntry, FillEntry, Leave, plan, job, history
<1>4. CASE BeginMerge \/ BeginRemoval \/ PickTarget \/ WalkDepend \/ EndRun \/ Abort \/ Crash
  BY <1>4 DEF Active, BeginMerge, BeginRemoval, PickTarget, WalkDepend, Enter, EndRun,
     Abort, Crash, Stop
<1>5. CASE Admin \/ UNCHANGED vars
  BY <1>0, <1>5 DEF Active, Admin, vars, plan, job, history, Control
<1> QED
  BY <1>1, <1>2, <1>3, <1>4, <1>5 DEF Next, Run

WholeInv ==
  /\ Active => rec \cup left = DOMAIN Image[Top.pkg] /\ Top.pkg \in torn
  /\ Active /\ pc # "merge" => left = {}
  /\ \A p \in Pkg : Complete(p) => vdb[p] = Whole(p)
  /\ \A p \in Pkg : meta[p] # Unread => meta[p] = Whole(p)
  /\ pc \in {"unmerge", "dirs", "erase"} => victim \in hurt
  /\ pc \in {"dirs", "erase"} => gone = {}

LEMMA WholeListed ==
  ASSUME NEW p \in Pkg
  PROVE  /\ DOMAIN Whole(p) = DOMAIN Image[p]
         /\ \A n \in DOMAIN Image[p] : Whole(p)[n] = Image[p][n]
         /\ Whole(p) \notin {Unlisted, Partial, Unread}
<1>1. Whole(p) \in ListingsOf(p)
  BY DEF Whole, ListingsOf
<1> QED
  BY <1>1, MarkAssumption DEF Whole, Listing

\* When merge_tree_at is back at the top, nothing of the image is left.
LEMMA WalkDone ==
  ASSUME IInv, WalkInv, pc = "merge", at = <<>>, Coming = {}
  PROVE  left = {}
<1> SUFFICES ASSUME NEW n \in left PROVE FALSE
  OBVIOUS
<1>1. n \in Path /\ Up[n] \subseteq left /\ left \subseteq Path
  BY TypeParts, WalkLength DEF IInv, JobOK, WalkInv, WayThere, AboveLeft
<1>2. PICK c \in Up[n] \cup {n} : Up[c] = {}
  BY <1>1, ChainAssumption
<1>3. ParentOf(c) = {} /\ c \in left
  BY <1>1, <1>2 DEF ParentOf
<1> QED
  BY <1>3 DEF Coming, Here

\* A package that is to be unmerged is known by its files.
LEMMA UnmergeWhole ==
  ASSUME IInv, WholeInv, NEW q \in Pkg, NEW otherwise, Unmerge(q, otherwise)
  PROVE  \/ pc' = otherwise /\ UNCHANGED <<meta, removal, hurt>> /\ ~Complete(q)
         \/ /\ pc' = "unmerge" /\ victim' = q
            /\ meta' = [meta EXCEPT ![q] = Whole(q)]
            /\ gone' = DOMAIN Image[q] /\ dirs' = {}
            /\ hurt' = hurt \cup Rivals(q)
<1>1. ContentsOf(q) \in {Unread, Whole(q)}
  BY DEF WholeInv, ContentsOf
<1>2. Complete(q) => ContentsOf(q) # Unread
  BY WholeListed DEF WholeInv, ContentsOf
<1>3. DOMAIN Whole(q) = DOMAIN Image[q]
  BY WholeListed
<1>4. CASE ContentsOf(q) = Unread
  BY <1>2, <1>4 DEF Unmerge
<1>5. CASE ContentsOf(q) # Unread
  BY <1>1, <1>3, <1>5 DEF Unmerge
<1> QED
  BY <1>4, <1>5

LEMMA WholeStep ==
  ASSUME Straight, ~MoveFails, IInv, KindInv, WalkInv, WholeInv, [Next]_vars
  PROVE  WholeInv'
<1>0. IInv' /\ DiskOK /\ MetaOK
  BY NextStep, TypeParts DEF IInv
<1>1. \A p \in Pkg : Complete(p)' => vdb'[p] = Whole(p)
  <2> SUFFICES ASSUME NEW p \in Pkg, Complete(p)' PROVE vdb'[p] = Whole(p)
    OBVIOUS
  <2>1. CASE vdb'[p] = vdb[p]
    BY <2>1 DEF WholeInv, Complete
  <2>2. CASE vdb'[p] # vdb[p]
    <3>1. pc \in {"place", "fill"} /\ p = Top.pkg /\ vdb'[p] = NewContents /\ Active
      BY <2>2, Registered DEF Active
    <3> QED
      BY <3>1 DEF WholeInv, NewContents, Whole
  <2> QED
    BY <2>1, <2>2
<1>2. CASE Prepare
  <2>1. Top' = Top /\ Top.pkg \in Pkg
    BY <1>2, StackTop, TypeParts DEF Prepare, plan, IInv, Control, PlanOK, Top, Frames
  <2> QED
    BY <1>1, <1>2, <2>1 DEF Prepare, WholeInv, Active, plan
<1>3. CASE MergeEntry
  <2>1. PICK n \in left : left' = left \ {n} /\ rec' = rec \cup {n}
    BY <1>3, EntryMerged
  <2>2. Top' = Top /\ pc = "merge" /\ stack # <<>>
        /\ UNCHANGED <<vdb, pc, stack, meta, victim, hurt, gone, torn>>
    BY <1>3 DEF entries, MergeEntry, plan, Top, IInv, Control, removal, history
  <2> QED
    BY <1>1, <2>1, <2>2 DEF WholeInv, Active
<1>4. CASE FinishMerge \/ RemovePackage
  <2>1. UNCHANGED <<vdb, stack, left, rec, torn>> /\ Top' = Top
    BY <1>4 DEF FinishMerge, RemovePackage, disk, entries, plan, job, Top
  <2>2. CASE UNCHANGED <<meta, removal, hurt>> /\ pc' \in {"postinst", "remove"}
    <3>1. Active' => Active /\ left = {}
      BY <1>4, <2>1, <2>2, WalkDone
         DEF FinishMerge, RemovePackage, Active, IInv, Control
    <3> QED
      BY <1>1, <2>1, <2>2, <3>1 DEF WholeInv, removal
  <2>3. ASSUME NEW q \in Pkg, pc' = "unmerge", victim' = q,
               meta' = [meta EXCEPT ![q] = Whole(q)], hurt' = hurt \cup Rivals(q)
        PROVE  WholeInv'
    <3>0. q \in hurt'
      BY <2>3 DEF Rivals
    <3>1. Active' => Active /\ left = {}
      BY <1>4, <2>1, <2>3, WalkDone
         DEF FinishMerge, RemovePackage, Active, IInv, Control
    <3>2. \A p \in Pkg : meta'[p] # Unread => meta'[p] = Whole(p)
      BY <1>0, <2>3 DEF WholeInv, MetaOK
    <3> QED
      BY <1>1, <2>1, <2>3, <3>0, <3>1, <3>2 DEF WholeInv
  <2>4. \/ UNCHANGED <<meta, removal, hurt>> /\ pc' = "postinst"
        \/ \E q \in Pkg, o \in {"postinst", "remove"} : Unmerge(q, o)
    <3>1. stack # <<>> => Top.prev \in Pkg \cup {NoPkg}
      BY StackTop, TypeParts DEF IInv, PlanOK, Top, Frames
    <3>2. todo \subseteq Pkg
      BY TypeParts DEF IInv, PlanOK
    <3> QED
      BY <1>4, <3>1, <3>2 DEF FinishMerge, RemovePackage, IInv, Control
  <2> QED
    BY <2>2, <2>3, <2>4, UnmergeWhole
<1>5. CASE Stop
  BY <1>1, <1>5 DEF Stop, FreshMeta, WholeInv, Active
<1>6. CASE ~(Prepare \/ MergeEntry \/ FinishMerge \/ RemovePackage \/ Stop)
  <2>1. /\ UNCHANGED meta
        /\ pc' \in {"unmerge", "dirs", "erase"} =>
              /\ pc \in {"unmerge", "dirs", "erase"} /\ victim' = victim /\ hurt' = hurt
              /\ pc' \in {"dirs", "erase"} => gone' = {} \/ (gone' = gone /\ pc # "unmerge")
    BY <1>6 DEF Next, Run, BeginMerge, BeginRemoval, PickTarget, WalkDepend, Enter,
       LeaveDir, UnmergeEntry, EntriesDone, RemoveDir, Postrm, Erase, Postinst,
       ClearEntry, PlaceEntry, FillEntry, Leave, EndRun, Abort, Crash, Admin, vars,
       removal, history
  <2>2. Active' => /\ Active /\ UNCHANGED <<stack, left, rec, torn>> /\ (pc' = "merge" <=> pc = "merge")
    BY <1>6, ActiveStep
  <2>3. Active' => Top' = Top
    BY <2>2 DEF Top
  <2> QED
    BY <1>1, <2>1, <2>2, <2>3 DEF WholeInv
<1> QED
  BY <1>2, <1>3, <1>4, <1>5, <1>6

-----------------------------------------------------------------------------
(* No strays.                                                              *)

\* Which of its names a package can still account for.
Owns(p, n) ==
  \/ p \in torn
  \/ IF pc \in {"unmerge", "dirs", "erase"} /\ p = victim
     THEN n \in gone ELSE p \in hurt \/ Complete(p)

\* Name n of package p accounts for the file it resolves to.
Claims(p, n) ==
  n \in DOMAIN Image[p] /\ Image[p][n].k = live[Loc[n]].k

\* The file at x is accounted for.
Accounted(x) ==
  \E n \in Path : /\ Loc[n] = x
                  /\ config_protected(n) \/ \E p \in Pkg : Claims(p, n) /\ Owns(p, n)

\* A name is kept for what the new package has put in place.
ClaimInv ==
  /\ \A x \in Path : IsFile(x) /\ Base[x].k \notin {"obj", "sym"} => Accounted(x)
  /\ stack = <<>> => keep = {}
  /\ pc \in {"merge", "unmerge"} => \A n \in keep : IsFile(Loc[n]) =>
       \E m \in Path : Loc[m] = Loc[n] /\ (config_protected(m) \/ Claims(Top.pkg, m))

\* A file that was one before stays accounted for when no package loses a name.
LEMMA StaysAccounted ==
  ASSUME \A p \in Pkg, n \in Path :
           Claims(p, n) /\ Owns(p, n) => Owns(p, n)' \/ config_protected(n),
         NEW x \in Path, Accounted(x), live'[x].k = live[x].k
  PROVE  Accounted(x)'
<1>1. PICK n \in Path :
        /\ Loc[n] = x
        /\ config_protected(n) \/ \E p \in Pkg : Claims(p, n) /\ Owns(p, n)
  BY DEF Accounted
<1>2. \A p \in Pkg : Claims(p, n) => Claims(p, n)'
  BY <1>1 DEF Claims
<1>3. config_protected(n) => config_protected(n)'
  BY DEF config_protected
<1> QED
  BY <1>1, <1>2, <1>3 DEF Accounted

\* The steps that take no claim from any package.
LEMMA OwnsStep ==
  ASSUME IInv, WholeInv, ~MoveFails, [Next]_vars, ~UnmergeEntry,
         NEW p \in Pkg, NEW n \in Path, n \in DOMAIN Image[p], Owns(p, n)
  PROVE  Owns(p, n)'
<1>0. DiskOK /\ (stack # <<>> => Top.pkg \in Pkg)
  BY StackTop, TypeParts DEF IInv, PlanOK, Top, Frames
<1>1. CASE FinishMerge \/ RemovePackage
  <2>1. UNCHANGED <<vdb, torn>> /\ pc \in {"merge", "remove"}
    BY <1>1 DEF FinishMerge, RemovePackage, disk, entries
  <2>2. \/ UNCHANGED <<meta, removal, hurt>> /\ pc' = "postinst"
        \/ \E q \in Pkg, o \in {"postinst", "remove"} : Unmerge(q, o)
    <3>1. stack # <<>> => Top.prev \in Pkg \cup {NoPkg}
      BY StackTop, TypeParts DEF IInv, PlanOK, Top, Frames
    <3>2. todo \subseteq Pkg
      BY TypeParts DEF IInv, PlanOK
    <3> QED
      BY <1>1, <3>1, <3>2 DEF FinishMerge, RemovePackage, IInv, Control
  <2>3. CASE UNCHANGED <<meta, removal, hurt>> /\ pc' \in {"postinst", "remove"}
    BY <2>1, <2>3 DEF Owns, Complete, removal
  <2>4. ASSUME NEW q \in Pkg, pc' = "unmerge", victim' = q, gone' = DOMAIN Image[q],
               hurt' = hurt \cup Rivals(q)
        PROVE  Owns(p, n)'
    BY <2>1, <2>4 DEF Owns, Complete
  <2> QED
    BY <2>2, <2>3, <2>4, UnmergeWhole
<1>2. CASE Erase
  <2>1. gone = {} /\ pc = "erase" /\ UNCHANGED torn
    BY <1>2 DEF Erase, WholeInv
  <2>2. CASE p = victim
    BY <2>1, <2>2 DEF Owns
  <2>3. CASE p # victim
    <3>1. vdb'[p] = vdb[p] /\ (p \in hurt => p \in hurt')
      BY <1>0, <1>2, <2>3 DEF entries, Erase, EraseStep, DiskOK
    <3>2. pc' \in {"unmerge", "dirs", "erase"} => victim' = victim
      BY <1>2, <2>1 DEF Erase, removal
    <3> QED
      BY <2>1, <2>3, <3>1, <3>2 DEF Owns, Complete
  <2> QED
    BY <2>2, <2>3
<1>3. CASE ClearEntry \/ PlaceEntry \/ FillEntry
  <2>1. /\ pc \in {"clear", "place", "fill"} /\ pc' \notin {"unmerge", "dirs", "erase"}
        /\ Top.pkg \in Pkg /\ Active
    BY <1>0, <1>3 DEF ClearEntry, PlaceEntry, FillEntry, Leave, IInv, Control, Active
  <2>2. Top.pkg \in torn
    BY <2>1 DEF WholeInv
  <2>3. CASE p # Top.pkg
    <3>1. vdb'[p] = vdb[p] /\ (p \in hurt => p \in hurt') /\ (p \in torn => p \in torn')
      BY <1>0, <1>3, <2>3 DEF ClearEntry, PlaceEntry, FillEntry, EraseStep, Leave, DiskOK,
         history, disk, entries, Register
    <3> QED
      BY <2>1, <3>1 DEF Owns, Complete
  <2>4. CASE p = Top.pkg
    <3>1. CASE Leave /\ vdb' = [vdb EXCEPT ![Top.pkg] = NewContents]
      <4>1. NewContents = Whole(p)
        BY <2>1, <2>4 DEF WholeInv, NewContents, Whole
      <4>2. vdb'[p] = Whole(p)
        BY <1>0, <2>4, <3>1, <4>1 DEF DiskOK
      <4> QED
        BY <2>1, <4>2, WholeListed DEF Owns, Complete
    <3>2. CASE UNCHANGED torn
      BY <2>2, <2>4, <3>2 DEF Owns
    <3> QED
      BY <1>3, <3>1, <3>2 DEF Register, ClearEntry, PlaceEntry, FillEntry, history
  <2> QED
    BY <2>3, <2>4
<1>4. CASE Stop
  <2>1. UNCHANGED <<vdb, torn, hurt>> /\ pc' = "idle"
    BY <1>4 DEF Stop, disk, entries, history
  <2>2. pc \in {"unmerge", "dirs", "erase"} => victim \in hurt
    BY DEF WholeInv
  <2> QED
    BY <2>1, <2>2 DEF Owns, Complete
<1>5. CASE ~(\/ FinishMerge \/ RemovePackage \/ Erase \/ ClearEntry \/ PlaceEntry
             \/ FillEntry \/ Stop)
  <2>1. /\ torn \subseteq torn' /\ UNCHANGED <<vdb, hurt, victim, gone>>
        /\ pc' \in {"unmerge", "dirs", "erase"} <=> pc \in {"unmerge", "dirs", "erase"}
    BY <1>5 DEF Next, Run, BeginMerge, BeginRemoval, PickTarget, WalkDepend, Enter, Prepare,
       MergeEntry, LeaveDir, EntriesDone, RemoveDir, Postrm, Postinst, EndRun, Abort,
       Crash, Admin, vars, disk, entries, removal, history
  <2> QED
    BY <2>1 DEF Owns, Complete
<1> QED
  BY <1>1, <1>2, <1>3, <1>4, <1>5

LEMMA ClaimStep ==
  ASSUME Straight, Agree, ~MoveFails, IInv, TreeInv, KindInv, WalkInv, WholeInv, ClaimInv,
         [Next]_vars
  PROVE  ClaimInv'
<1>0. /\ IInv' /\ live \in Roots /\ live' \in Roots /\ Loc \in [Path -> Path]
      /\ stack # <<>> => Top.pkg \in Pkg
  <2>1. IInv' /\ live \in Roots /\ (stack # <<>> => Top.pkg \in Pkg)
    BY NextStep, StackTop, TypeParts DEF IInv, DiskOK, PlanOK, Top, Frames
  <2>2. live' \in Roots
    BY <2>1 DEF IInv, TypeOK, Roots
  <2> QED
    BY <2>1, <2>2, PathAssumption
\* A file is one from before, or an entry of the image that is merged.
<1>1. ASSUME NEW x \in Path, IsFile(x)', ~Merged(x)
      PROVE  live'[x].k = live[x].k /\ IsFile(x)
  BY <1>1, RootStep DEF IsFile, Pruned, Unlinked
<1>2. CASE MergeEntry
  <2>1. PICK n \in left :
          /\ keep' = keep \cup {n}
          /\ Loc[n] \in Path
          /\ \A y \in Path : y # Loc[n] => live'[y] = live[y]
          /\ \/ Entry(n).k = "dir" /\ live'[Loc[n]].k = "dir"
             \/ live'[Loc[n]].k = Entry(n).k
             \/ config_protected(n) /\ Exists(Loc[n]) /\ UNCHANGED live
    BY <1>2, EntryMerged
  <2>2. /\ pc = "merge" /\ pc' = "merge" /\ UNCHANGED <<stack, torn>> /\ Top' = Top
        /\ stack # <<>> /\ Top.pkg \in Pkg /\ Top.pkg \in torn
        /\ n \in DOMAIN Image[Top.pkg] /\ n \in Path /\ Entry(n) = Image[Top.pkg][n]
    <3>1. pc = "merge" /\ pc' = "merge" /\ UNCHANGED <<stack, torn>>
      BY <1>2 DEF MergeEntry, plan, history
    <3> QED
      BY <3>1, MergedEntry, ImageTree DEF Top, WholeInv, Active
  <2>3. IsFile(Loc[n])' => config_protected(n) \/ Claims(Top.pkg, n)'
    BY <2>1, <2>2 DEF IsFile, Claims
  <2>4. ASSUME NEW x \in Path, IsFile(x)', Base[x].k \notin {"obj", "sym"}
        PROVE  Accounted(x)'
    <3>1. CASE x = Loc[n]
      <4>1. Owns(Top.pkg, n)'
        BY <2>2 DEF Owns
      <4>2. config_protected(n) => config_protected(n)'
        BY DEF config_protected
      <4> QED
        BY <2>2, <2>3, <2>4, <3>1, <4>1, <4>2 DEF Accounted
    <3>2. CASE x # Loc[n]
      <4>1. live'[x] = live[x] /\ Accounted(x)
        BY <2>1, <2>4, <3>2 DEF ClaimInv, IsFile
      <4>2. \A p \in Pkg, m \in Path : Claims(p, m) /\ Owns(p, m) => Owns(p, m)'
        <5>1. ~UnmergeEntry
          BY <2>2 DEF UnmergeEntry
        <5> QED
          BY <5>1, OwnsStep DEF Claims
      <4> QED
        BY <4>1, <4>2, StaysAccounted
    <3> QED
      BY <3>1, <3>2
  <2>5. ASSUME NEW m \in keep', IsFile(Loc[m])'
        PROVE  \E l \in Path : Loc[l] = Loc[m] /\ (config_protected(l) \/ Claims(Top.pkg, l)')
    <3>1. CASE Loc[m] = Loc[n]
      BY <2>2, <2>3, <2>5, <3>1
    <3>2. CASE Loc[m] # Loc[n]
      <4>1. m \in keep /\ m \in Path /\ live'[Loc[m]] = live[Loc[m]]
        BY <1>0, <2>1, <2>5, <3>2, TypeParts DEF IInv, JobOK
      <4>2. PICK l \in Path : Loc[l] = Loc[m] /\ (config_protected(l) \/ Claims(Top.pkg, l))
        BY <2>2, <2>5, <4>1 DEF ClaimInv, IsFile
      <4> QED
        BY <2>2, <4>1, <4>2 DEF Claims
    <3> QED
      BY <3>1, <3>2
  <2>6. stack' # <<>>
    BY <2>2
  <2> QED
    BY <2>2, <2>4, <2>5, <2>6 DEF ClaimInv, Claims, config_protected
<1>3. CASE UnmergeEntry
  <2>1. PICK n \in gone :
          /\ gone' = gone \ {n}
          /\ \/ Old(n).k = "dir" /\ UNCHANGED keep
             \/ LeftBe(n) /\ UNCHANGED keep
             \/ config_protected(n) /\ UNCHANGED keep
             \/ n \in keep /\ keep' = keep \ {n}
             \/ /\ ~Fatal(n) /\ UNCHANGED keep
                /\ live' = rmdir_r_at([live EXCEPT ![Loc[n]] = None], cfg, Up[n])
    BY <1>3 DEF UnmergeEntry, Guarded
  <2>2. /\ pc = "unmerge" /\ pc' = "unmerge" /\ UNCHANGED <<vdb, stack, torn, hurt, victim>>
        /\ Top' = Top /\ victim \in Pkg /\ n \in Path
        /\ Old(n) = Image[victim][n] /\ n \in DOMAIN Image[victim]
    <3>1. pc = "unmerge" /\ pc' = "unmerge" /\ UNCHANGED <<vdb, stack, torn, hurt, victim>>
      BY <1>3 DEF UnmergeEntry, entries, plan, history
    <3>2. victim \in Pkg /\ meta[victim] = Whole(victim) /\ n \in DOMAIN meta[victim]
      BY <3>1 DEF IInv, Control, WholeInv
    <3> QED
      BY <3>1, <3>2, WholeListed, ImageTree DEF Top, Old
  <2>3. ASSUME NEW x \in Path, IsFile(x)'
        PROVE  live'[x].k = live[x].k /\ IsFile(x)
    BY <1>1, <2>2, <2>3 DEF Merged
  <2>4. \A p \in Pkg, m \in Path :
          Owns(p, m) => Owns(p, m)' \/ (p = victim /\ m = n)
    BY <2>1, <2>2 DEF Owns, Complete
  <2>5. ASSUME NEW x \in Path, IsFile(x)', Base[x].k \notin {"obj", "sym"}
        PROVE  Accounted(x)'
    <3>1. live'[x].k = live[x].k /\ IsFile(x) /\ Accounted(x)
      BY <2>3, <2>5 DEF ClaimInv
    <3>2. CASE n \in keep /\ x = Loc[n]
      <4>1. PICK m \in Path : Loc[m] = x /\ (config_protected(m) \/ Claims(Top.pkg, m))
        BY <2>2, <3>1, <3>2 DEF ClaimInv
      <4>2. Top.pkg \in Pkg /\ Top.pkg \in torn
        BY <1>0, <2>2, <3>2 DEF ClaimInv, WholeInv, Active
      <4>3. Owns(Top.pkg, m)' /\ (Claims(Top.pkg, m) => Claims(Top.pkg, m)')
        BY <2>2, <3>1, <4>1, <4>2 DEF Owns, Claims
      <4>4. config_protected(m) => config_protected(m)'
        BY DEF config_protected
      <4> QED
        BY <2>2, <4>1, <4>2, <4>3, <4>4 DEF Accounted
    <3>3. CASE ~(n \in keep /\ x = Loc[n])
      <4>1. PICK m \in Path :
              /\ Loc[m] = x
              /\ config_protected(m) \/ \E p \in Pkg : Claims(p, m) /\ Owns(p, m)
        BY <3>1 DEF Accounted
      <4>2. config_protected(m) => config_protected(m)'
        BY DEF config_protected
      <4>3. ASSUME NEW p \in Pkg, Claims(p, m), Owns(p, m)
            PROVE  Claims(p, m)' /\ (Owns(p, m)' \/ config_protected(m))
        <5>1. Claims(p, m)'
          BY <3>1, <4>1, <4>3 DEF Claims
        <5>2. CASE p = victim /\ m = n
          <6>1. Old(n).k = live[x].k /\ Old(n).k \in {"obj", "sym"} /\ n \notin keep
            BY <2>2, <3>1, <3>3, <4>1, <4>3, <5>2 DEF Claims, IsFile
          <6>2. ~LeftBe(n)
            <7>1. Reachable(x) /\ live[x].k \notin {"none", "dir"}
              BY <3>1, <6>1 DEF TreeInv, Exists, IsFile
            <7>2. ~NotDir(x)
              BY <7>1 DEF NotDir, Reachable
            <7>3. x = Loc[n] /\ (Old(n).k = "sym" => live[x].k = "sym")
              BY <4>1, <5>2, <6>1
            <7> QED
              BY <7>1, <7>2, <7>3 DEF LeftBe
          <6>3. live' # rmdir_r_at([live EXCEPT ![Loc[n]] = None], cfg, Up[n])
            <7> DEFINE fs == [live EXCEPT ![Loc[n]] = None]
            <7>1. fs \in Roots /\ fs[x].k = "none"
              BY <1>0, <4>1, <5>2, NodeFacts, NodeParts DEF Roots
            <7> HIDE DEF fs
            <7>2. rmdir_r_at(fs, cfg, Up[n])[x].k = "none"
              BY <7>1, RmdirFacts
            <7> QED
              BY <2>5, <7>2 DEF fs, IsFile
          <6> QED
            BY <2>1, <5>1, <5>2, <6>1, <6>2, <6>3
        <5>3. CASE ~(p = victim /\ m = n)
          BY <2>4, <4>3, <5>1, <5>3
        <5> QED
          BY <5>2, <5>3
      <4> QED
        BY <4>1, <4>2, <4>3 DEF Accounted
    <3> QED
      BY <3>2, <3>3
  <2>6. keep' \subseteq keep
    BY <2>1
  <2>7. ASSUME NEW m \in keep', IsFile(Loc[m])'
        PROVE  \E l \in Path : Loc[l] = Loc[m] /\ (config_protected(l) \/ Claims(Top.pkg, l)')
    <3>1. m \in keep /\ Loc[m] \in Path
      BY <1>0, <2>6, <2>7, TypeParts DEF IInv, JobOK
    <3>2. live'[Loc[m]].k = live[Loc[m]].k /\ IsFile(Loc[m])
      BY <2>3, <2>7, <3>1
    <3>3. PICK l \in Path : Loc[l] = Loc[m] /\ (config_protected(l) \/ Claims(Top.pkg, l))
      BY <2>2, <3>1, <3>2 DEF ClaimInv
    <3> QED
      BY <2>2, <3>2, <3>3 DEF Claims
  <2> QED
    BY <2>2, <2>5, <2>6, <2>7 DEF ClaimInv, Claims, config_protected
<1>4. CASE ~(MergeEntry \/ UnmergeEntry)
  <2>1. \A x \in Path : IsFile(x)' => live'[x].k = live[x].k /\ IsFile(x)
    <3>1. ASSUME NEW x \in Path, pc # "merge", IsFile(x)'
          PROVE  live'[x].k = live[x].k /\ IsFile(x)
      BY <1>1, <3>1 DEF Merged
    <3>2. ASSUME pc = "merge", NEW x \in Path, IsFile(x)'
          PROVE  live'[x].k = live[x].k /\ IsFile(x)
      <4>1. LeaveDir \/ UNCHANGED live
        BY <1>4, <3>2 DEF Next, Run, BeginMerge, BeginRemoval, PickTarget, WalkDepend,
           Prepare, FinishMerge, RemovePackage, EntriesDone, RemoveDir, Postrm, Erase,
           Postinst, ClearEntry, PlaceEntry, FillEntry, EndRun, Abort, Crash, Stop, Admin,
           vars, disk, entries
      <4>2. LeaveDir => UNCHANGED live \/ \E y : live' = [live EXCEPT ![y] = None]
        BY DEF LeaveDir, Put
      <4> QED
        BY <1>0, <3>2, <4>1, <4>2, NodeParts DEF Roots, IsFile
    <3> QED
      BY <3>1, <3>2
  <2>2. ASSUME NEW x \in Path, IsFile(x)', Base[x].k \notin {"obj", "sym"}
        PROVE  Accounted(x)'
    <3>1. live'[x].k = live[x].k /\ Accounted(x)
      BY <2>1, <2>2 DEF ClaimInv
    <3>2. \A p \in Pkg, m \in Path : Claims(p, m) /\ Owns(p, m) => Owns(p, m)'
      BY <1>4, OwnsStep DEF Claims
    <3> QED
      BY <3>1, <3>2, StaysAccounted
  <2>3. keep' = {} \/ (keep' = keep /\ (stack' = <<>> => stack = <<>>)
                       /\ (pc' \in {"merge", "unmerge"} =>
                             Top' = Top /\ (pc \in {"merge", "unmerge"} \/ stack = <<>>)))
    <3>1. CASE UNCHANGED <<keep, stack>>
      <4>1. Top' = Top
        BY <3>1 DEF Top
      <4>2. pc' \in {"merge", "unmerge"} => pc \in {"merge", "unmerge"} \/ stack = <<>> \/ Prepare
        BY <1>4 DEF Next, Run, BeginMerge, BeginRemoval, PickTarget, WalkDepend, Enter,
           LeaveDir, FinishMerge, RemovePackage, EntriesDone, RemoveDir, Postrm, Erase,
           Postinst, ClearEntry, PlaceEntry, FillEntry, Leave, EndRun, Abort, Crash, Stop,
           Admin, vars, IInv, Control
      <4>3. Prepare => keep' = {}
        BY DEF Prepare, PrermOfNew
      <4> QED
        BY <3>1, <4>1, <4>2, <4>3
    <3>2. CASE PickTarget \/ WalkDepend
      <4>1. stack' # <<>> \/ UNCHANGED stack
        <5>1. pc' = "walk" \/ UNCHANGED stack
          BY <3>2 DEF PickTarget, WalkDepend, Enter
        <5> QED
          BY <1>0, <5>1 DEF IInv, Control
      <4>2. UNCHANGED keep /\ pc' \in {"pick", "walk"}
        BY <3>2 DEF PickTarget, WalkDepend, Enter, job
      <4> QED
        BY <4>1, <4>2
    <3>3. CASE ~(PickTarget \/ WalkDepend)
      <4>1. UNCHANGED <<keep, stack>> \/ keep' = {}
        BY <1>4, <3>3 DEF Next, Run, BeginMerge, BeginRemoval, Prepare,
           LeaveDir, FinishMerge, RemovePackage, EntriesDone, RemoveDir, Postrm, Erase,
           Postinst, ClearEntry, PlaceEntry, FillEntry, Leave, EndRun, Abort, Crash, Stop,
           FreshJob, Admin, vars, job, plan
      <4> QED
        BY <3>1, <4>1
    <3> QED
      BY <3>2, <3>3
  <2>4. CASE keep' = {}
    BY <2>2, <2>4 DEF ClaimInv
  <2>5. CASE /\ keep' = keep /\ (stack' = <<>> => stack = <<>>)
             /\ pc' \in {"merge", "unmerge"} =>
                  Top' = Top /\ (pc \in {"merge", "unmerge"} \/ stack = <<>>)
    <3>1. ASSUME NEW m \in keep, IsFile(Loc[m])', pc' \in {"merge", "unmerge"}
          PROVE  \E l \in Path : Loc[l] = Loc[m] /\ (config_protected(l) \/ Claims(Top.pkg, l)')
      <4>1. Loc[m] \in Path /\ pc \in {"merge", "unmerge"} /\ Top' = Top
        BY <1>0, <2>5, <3>1, TypeParts DEF IInv, JobOK, ClaimInv
      <4>2. live'[Loc[m]].k = live[Loc[m]].k /\ IsFile(Loc[m])
        BY <2>1, <3>1, <4>1
      <4>3. PICK l \in Path : Loc[l] = Loc[m] /\ (config_protected(l) \/ Claims(Top.pkg, l))
        BY <3>1, <4>1, <4>2 DEF ClaimInv
      <4> QED
        BY <4>1, <4>2, <4>3 DEF Claims
    <3>2. stack' = <<>> => keep' = {}
      BY <2>5 DEF ClaimInv
    <3> QED
      BY <2>2, <2>5, <3>1, <3>2 DEF ClaimInv, Claims, config_protected
  <2> QED
    BY <2>3, <2>4, <2>5
<1> QED
  BY <1>2, <1>3, <1>4

RootInv == TreeInv /\ KindInv /\ WalkInv /\ WholeInv

LEMMA RootInvariance ==
  ASSUME Straight, Agree, ~MoveFails
  PROVE  Spec => []RootInv
<1>1. Init => RootInv
  <2> SUFFICES ASSUME Init PROVE RootInv
    OBVIOUS
  <2>1. live = Base /\ pc = "idle" /\ \A p \in Pkg : ~Complete(p) /\ meta[p] = Unread
    BY DEF Init, Complete
  <2>2. TreeInv /\ KindInv
    BY <2>1, ImageTree DEF TreeInv, KindInv, Agree, Exists, Reachable
  <2> QED
    BY <2>1, <2>2 DEF RootInv, WalkInv, WayThere, AboveLeft, WholeInv, Active
<1>2. IInv /\ RootInv /\ [Next]_vars => RootInv'
  BY TreeStep, KindStep, WalkStep, WholeStep DEF RootInv
<1> QED
  BY <1>1, <1>2, Invariance, PTL DEF Spec

\* qmerge.c:1655 "Unmerge any stray pieces from the older version which we didn't
\* replace": whatever was merged, replaced, removed, killed or edited, in any order,
\* each file of the root that is not from the base system has a package that accounts
\* for it, or a protected name.
THEOREM NoStrays ==
  ASSUME Straight, Agree, ~MoveFails
  PROVE  Spec => []NoStray
<1>1. Init => ClaimInv
  BY PathAssumption DEF Init, ClaimInv, IsFile
<1>2. IInv /\ RootInv /\ ClaimInv /\ [Next]_vars => ClaimInv'
  BY ClaimStep DEF RootInv
<1>3. IInv /\ RootInv /\ ClaimInv => NoStray
  <2> SUFFICES ASSUME IInv, RootInv, ClaimInv, NEW x \in Path, IsFile(x),
                      Base[x].k \notin {"obj", "sym"}
               PROVE  \E n \in Path :
                        /\ Loc[n] = x
                        /\ \/ \E p \in Pkg : Complete(p) /\ n \in DOMAIN vdb[p]
                           \/ \E p \in torn \cup hurt : n \in DOMAIN Image[p]
                           \/ config_protected(n)
    BY DEF NoStray
  <2>1. PICK n \in Path :
          /\ Loc[n] = x
          /\ config_protected(n) \/ \E p \in Pkg : Claims(p, n) /\ Owns(p, n)
    BY DEF ClaimInv, Accounted
  <2>2. ASSUME NEW p \in Pkg, Claims(p, n), Owns(p, n)
        PROVE  \/ Complete(p) /\ n \in DOMAIN vdb[p]
               \/ p \in torn \cup hurt /\ n \in DOMAIN Image[p]
    BY <2>2, WholeListed DEF Claims, Owns, RootInv, WholeInv
  <2> QED
    BY <2>1, <2>2
<1> QED
  BY <1>1, <1>2, <1>3, Invariance, RootInvariance, PTL DEF Spec

-----------------------------------------------------------------------------
(* Installed files are there.                                              *)

\* The file of the name is there as far as it is for qmerge.
Kept(p, n) == Image[p][n].k # "dir" /\ Loc[n] \notin dropped => Exists(Loc[n])

\* What is registered beside the version that is unmerged counts as hurt.
RivalInv ==
  pc = "unmerge" => \A p \in Pkg : Complete(p) /\ Slot[p] = Slot[victim] => p \in hurt

PresentInv ==
  /\ \A p \in Pkg : Complete(p) /\ p \notin hurt => \A n \in DOMAIN Image[p] : Kept(p, n)
  /\ Active => \A n \in rec : Kept(Top.pkg, n)
  /\ RivalInv

\* What takes a file away.
LEMMA FileGone ==
  ASSUME Straight, ~MoveFails, IInv, KindInv, WalkInv, [Next]_vars,
         NEW x \in Path, IsFile(x), ~Exists(x)'
  PROVE  \/ x \in dropped'
         \/ /\ pc = "unmerge" /\ UNCHANGED <<pc, stack, victim, rec, meta, hurt, vdb>>
            /\ \E n \in gone : Loc[n] = x /\ n \notin keep /\ Old(n).k # "dir"
<1>0. live \in Roots /\ live[x].k \in {"obj", "sym"} /\ live'[x].k = "none"
  BY TypeParts DEF IInv, DiskOK, IsFile, Exists
<1> USE NodeParts
<1>1. CASE MergeEntry
  <2>1. PICK n \in left :
          /\ Loc[n] \in Path
          /\ \A y \in Path : y # Loc[n] => live'[y] = live[y]
          /\ \/ Entry(n).k = "dir" /\ live'[Loc[n]].k = "dir"
             \/ live'[Loc[n]].k = Entry(n).k
             \/ config_protected(n) /\ Exists(Loc[n]) /\ UNCHANGED live
    BY <1>1, EntryMerged
  <2>2. Entry(n).k \in {"dir", "obj", "sym"}
    BY <1>1, MergedEntry DEF MergeEntry
  <2> QED
    BY <1>0, <2>1, <2>2
<1>2. CASE UnmergeEntry
  <2>1. PICK n \in gone :
          \/ UNCHANGED live
          \/ /\ Old(n).k # "dir" /\ n \notin keep
             /\ live' = rmdir_r_at([live EXCEPT ![Loc[n]] = None], cfg, Up[n])
    BY <1>2 DEF UnmergeEntry
  <2>2. [live EXCEPT ![Loc[n]] = None] \in Roots
    BY <1>0, NodeFacts DEF Roots
  <2>3. Loc[n] = x
    <3> SUFFICES ASSUME Loc[n] # x PROVE FALSE
      OBVIOUS
    <3> DEFINE fs == [live EXCEPT ![Loc[n]] = None]
    <3>1. fs \in Roots /\ fs[x] = live[x]
      BY <1>0, <2>2 DEF Roots
    <3> HIDE DEF fs
    <3>2. rmdir_r_at(fs, cfg, Up[n])[x] = live[x]
      BY <1>0, <3>1, RmdirFacts
    <3> QED
      BY <1>0, <2>1, <3>2 DEF fs
  <2>4. pc = "unmerge" /\ UNCHANGED <<pc, stack, victim, rec, meta, hurt, vdb>>
    BY <1>2 DEF UnmergeEntry, entries, plan, history
  <2> QED
    BY <1>0, <2>1, <2>3, <2>4
<1>3. CASE Admin
  <2>1. PICK y \in Path :
          \/ \E d : Put(y, [k |-> "obj", d |-> d])
          \/ Put(y, None) /\ dropped' = dropped \cup {y}
          \/ UNCHANGED live
    BY <1>3 DEF Admin
  <2> QED
    BY <1>0, <2>1 DEF Put, Roots
<1>4. CASE ~(MergeEntry \/ UnmergeEntry \/ Admin)
  <2>1. \/ UNCHANGED live
        \/ RemoveDir \/ (LeaveDir /\ ~UNCHANGED live)
    BY <1>4 DEF Next, Run, BeginMerge, BeginRemoval, PickTarget, WalkDepend, Prepare,
       FinishMerge, RemovePackage, EntriesDone, Postrm, Erase, Postinst, ClearEntry,
       PlaceEntry, FillEntry, Leave, EndRun, Abort, Crash, Stop, vars, disk, entries
  <2>2. CASE RemoveDir
    BY <1>0, <2>2, RmdirFacts DEF RemoveDir
  <2>3. CASE LeaveDir /\ ~UNCHANGED live
    <3>1. \E y : live[y].k = "dir" /\ live' = [live EXCEPT ![y] = None]
      BY <2>3 DEF LeaveDir, Put
    <3> QED
      BY <1>0, <3>1 DEF Roots
  <2> QED
    BY <1>0, <2>1, <2>2, <2>3
<1> QED
  BY <1>1, <1>2, <1>3, <1>4

\* No step takes the file of an installed package or one that was just merged.
LEMMA KeptStep ==
  ASSUME Straight, ~MoveFails, OwnFiles, OneName,
         IInv, KindInv, WalkInv, WholeInv, RivalInv, [Next]_vars,
         NEW p \in Pkg, NEW n \in DOMAIN Image[p], Kept(p, n),
         (Complete(p) /\ p \notin hurt) \/ (stack # <<>> /\ p = Top.pkg /\ n \in rec)
  PROVE  Kept(p, n)'
<1> SUFFICES ASSUME Image[p][n].k # "dir", Loc[n] \notin dropped', ~Exists(Loc[n])'
             PROVE  FALSE
  BY DEF Kept
<1>1. n \in Path /\ Loc[n] \in Path
  BY ImageTree
<1>2. dropped \subseteq dropped'
  BY DEF Next, Run, BeginMerge, BeginRemoval, PickTarget, WalkDepend, Prepare,
     MergeEntry, LeaveDir, FinishMerge, RemovePackage, UnmergeEntry, EntriesDone,
     RemoveDir, Postrm, Erase, Postinst, ClearEntry, PlaceEntry, FillEntry, Leave, EndRun,
     Abort, Crash, Stop, Admin, vars, history
<1>3. IsFile(Loc[n])
  BY <1>2 DEF Kept, KindInv, Exists, IsFile
<1>4. /\ pc = "unmerge"
      /\ \E m \in gone : Loc[m] = Loc[n] /\ m \notin keep /\ Old(m).k # "dir"
  BY <1>1, <1>3, FileGone
<1>5. n \in gone /\ n \notin keep /\ Old(n).k # "dir"
  BY <1>1, <1>4, TypeParts DEF IInv, RemovalOK, OneName
<1>6. victim \in Pkg /\ victim \in hurt /\ n \in DOMAIN Image[victim]
      /\ Old(n) = Image[victim][n]
  BY <1>4, <1>5, WholeListed DEF IInv, Control, WholeInv, Old
<1>7. stack # <<>> /\ n \in rec
  <2>1. CASE Complete(p) /\ p \notin hurt
    <3>1. Slot[p] = Slot[victim]
      BY <1>5, <1>6, <2>1 DEF OwnFiles
    <3> QED
      BY <1>4, <2>1, <3>1 DEF RivalInv
  <2> QED
    BY <2>1
<1> QED
  BY <1>4, <1>5, <1>7 DEF IInv, KeepInv

LEMMA RivalStep ==
  ASSUME IInv, WholeInv, RivalInv, [Next]_vars
  PROVE  RivalInv'
<1> SUFFICES ASSUME pc' = "unmerge", NEW p \in Pkg, Complete(p)', Slot[p] = Slot[victim']
             PROVE  p \in hurt'
  BY DEF RivalInv
<1>0. /\ stack # <<>> => Top.pkg \in Pkg /\ Top.prev \in Pkg \cup {NoPkg}
      /\ todo \subseteq Pkg
  BY StackTop, TypeParts DEF IInv, PlanOK, Top, Frames
<1>1. CASE FinishMerge \/ RemovePackage
  <2>1. pc \in {"merge", "remove"} /\ UNCHANGED vdb
    BY <1>1 DEF FinishMerge, RemovePackage, disk, entries
  <2>2. PICK q \in Pkg : \E o \in {"postinst", "remove"} : Unmerge(q, o)
    BY <1>0, <1>1 DEF FinishMerge, RemovePackage, IInv, Control
  <2>3. victim' = q /\ hurt' = hurt \cup Rivals(q)
    BY <2>2, UnmergeWhole
  <2> QED
    BY <2>1, <2>3 DEF Rivals, Complete
<1>2. CASE ~(FinishMerge \/ RemovePackage)
  <2>1. pc = "unmerge" /\ UNCHANGED <<hurt, victim, vdb>>
    BY <1>2 DEF Next, Run, BeginMerge, BeginRemoval, PickTarget, WalkDepend, Enter, Prepare,
       MergeEntry, LeaveDir, UnmergeEntry, EntriesDone, RemoveDir, Postrm, Erase,
       Postinst, ClearEntry, PlaceEntry, FillEntry, Leave, EndRun, Abort, Crash, Stop,
       Admin, vars, disk, entries, plan, removal, history
  <2> QED
    BY <2>1 DEF RivalInv, Complete
<1> QED
  BY <1>1, <1>2

LEMMA PresentStep ==
  ASSUME Straight, ~MoveFails, OwnFiles, OneName,
         IInv, KindInv, WalkInv, WholeInv, PresentInv, [Next]_vars
  PROVE  PresentInv'
<1>1. RivalInv'
  BY RivalStep DEF PresentInv
<1>2. ASSUME NEW p \in Pkg, Complete(p)', p \notin hurt', NEW n \in DOMAIN Image[p]
      PROVE  Kept(p, n)'
  <2>1. CASE Complete(p) /\ p \notin hurt
    BY <2>1, KeptStep DEF PresentInv
  <2>2. CASE ~Complete(p) \/ p \in hurt
    <3>1. /\ pc \in {"place", "fill"} /\ stack # <<>> /\ p = Top.pkg
      <4>1. CASE ~Complete(p)
        BY <1>2, <4>1, Registered DEF Complete
      <4>2. CASE Complete(p) /\ p \in hurt
        <5>1. \/ Erase /\ p = victim /\ vdb[victim] = Unlisted
              \/ Leave /\ p = Top.pkg /\ pc \in {"place", "fill"}
          <6>1. CASE Erase
            BY <1>2, <4>2, <6>1 DEF Erase
          <6>2. CASE PlaceEntry \/ FillEntry
            BY <1>2, <4>2, <6>2 DEF PlaceEntry, FillEntry, Leave, history
          <6>3. CASE ~(Erase \/ PlaceEntry \/ FillEntry)
            BY <1>2, <4>2, <6>3 DEF Next, Run, BeginMerge, BeginRemoval, PickTarget,
               WalkDepend, Prepare, MergeEntry, LeaveDir, FinishMerge, RemovePackage, Unmerge,
               UnmergeEntry, EntriesDone, RemoveDir, Postrm, Postinst, ClearEntry, EndRun,
               Abort, Crash, Stop, Admin, vars, history
          <6> QED
            BY <6>1, <6>2, <6>3
        <5> QED
          BY <4>2, <5>1 DEF Complete, IInv, Control
      <4> QED
        BY <2>2, <4>1, <4>2
    <3>2. n \in rec /\ Kept(p, n)
      BY <3>1 DEF PresentInv, WholeInv, Active
    <3> QED
      BY <3>1, <3>2, KeptStep DEF PresentInv
  <2> QED
    BY <2>1, <2>2
<1>3. ASSUME Active', NEW n \in rec'
      PROVE  Kept(Top.pkg, n)'
  <2>1. CASE MergeEntry
    <3>1. PICK m \in left :
            /\ rec' = rec \cup {m} /\ Loc[m] \in Path
            /\ \/ Entry(m).k = "dir"
               \/ live'[Loc[m]].k = Entry(m).k
               \/ Exists(Loc[m]) /\ UNCHANGED live
      BY <2>1, EntryMerged
    <3>2. /\ pc = "merge" /\ stack # <<>> /\ Top.pkg \in Pkg /\ Top' = Top
          /\ m \in DOMAIN Image[Top.pkg] /\ rec \subseteq DOMAIN Image[Top.pkg]
          /\ Entry(m) = Image[Top.pkg][m] /\ Entry(m).k \in {"dir", "obj", "sym"}
      <4>1. pc = "merge" /\ UNCHANGED stack
        BY <2>1 DEF MergeEntry, plan
      <4> QED
        BY <4>1, MergedEntry DEF Top, IInv, Control
    <3>3. CASE n = m
      BY <3>1, <3>2, <3>3 DEF Kept, Exists
    <3>4. CASE n # m
      <4>1. n \in rec /\ Kept(Top.pkg, n)
        BY <3>1, <3>2, <3>4 DEF PresentInv, Active
      <4> DEFINE t == Top.pkg
      <4>2. t' = t /\ t \in Pkg /\ n \in DOMAIN Image[t] /\ Kept(t, n) /\ stack # <<>>
            /\ t = Top.pkg
        BY <3>2, <4>1
      <4> HIDE DEF t
      <4>3. ASSUME NEW p \in Pkg, p = t PROVE Kept(p, n)'
        BY <4>1, <4>2, <4>3, KeptStep DEF PresentInv
      <4> QED
        BY <4>2, <4>3 DEF Kept, t
    <3> QED
      BY <3>3, <3>4
  <2>2. CASE Prepare
    BY <1>3, <2>2 DEF Prepare, PrermOfNew
  <2>3. CASE ~(MergeEntry \/ Prepare)
    <3>1. Active /\ UNCHANGED <<stack, rec>> /\ Top' = Top
      <4>1. Active /\ UNCHANGED <<stack, rec>>
        <5>1. CASE FinishMerge
          BY <1>3, <5>1 DEF Active, FinishMerge, plan, job
        <5>2. CASE RemovePackage
          BY <1>3, <5>2 DEF Active, RemovePackage, IInv, Control
        <5>3. CASE ~(FinishMerge \/ RemovePackage)
          BY <1>3, <2>3, <5>3, ActiveStep
        <5> QED
          BY <5>1, <5>2, <5>3
      <4> QED
        BY <4>1 DEF Top
    <3>2. /\ Top.pkg \in Pkg /\ n \in rec /\ n \in DOMAIN Image[Top.pkg] /\ stack # <<>>
          /\ Kept(Top.pkg, n)
      <4>1. Top.pkg \in Pkg /\ stack # <<>>
        BY <3>1, StackTop, TypeParts DEF Active, IInv, PlanOK, Top, Frames
      <4> QED
        BY <1>3, <3>1, <4>1 DEF PresentInv, IInv, Control
    <3>3. ASSUME NEW p \in Pkg, p = Top.pkg PROVE Kept(p, n)'
      BY <3>2, <3>3, KeptStep DEF PresentInv
    <3> QED
      BY <3>1, <3>2, <3>3 DEF Kept
  <2> QED
    BY <2>1, <2>2, <2>3
<1> QED
  BY <1>1, <1>2, <1>3 DEF PresentInv

LEMMA PresentBegins == Init => PresentInv
<1> SUFFICES ASSUME Init PROVE PresentInv
  OBVIOUS
<1>1. \A p \in Pkg : ~Complete(p)
  BY DEF Init, Complete
<1>2. pc = "idle" /\ stack = <<>> /\ \A p \in Pkg : meta[p] = Unread
  BY DEF Init
<1>3. todo = {}
  BY DEF Init
<1> QED
  BY <1>1, <1>2, <1>3 DEF PresentInv, RivalInv, Active

LEMMA PresentShown == RootInv /\ PresentInv => InstalledPresent
<1> SUFFICES ASSUME RootInv, PresentInv, NEW p \in Pkg, Complete(p), p \notin hurt,
                    NEW n \in DOMAIN vdb[p], vdb[p][n].k # "dir", Loc[n] \notin dropped
             PROVE  Exists(Loc[n])
  BY DEF InstalledPresent
<1>1. n \in DOMAIN Image[p] /\ vdb[p][n] = Image[p][n]
  BY WholeListed DEF RootInv, WholeInv
<1> QED
  BY <1>1 DEF PresentInv, Kept

\* qmerge.c:1655, 1883: a file of an installed package is in the root unless the
\* administrator removed it, whatever was merged, replaced, unmerged and killed, but for
\* the files of what was registered in a slot of which another version was unmerged.
\* The root has no two names for a file, and packages of different slots share none.
THEOREM FilesPresent ==
  ASSUME Straight, Agree, OwnFiles, ~MoveFails, OneName
  PROVE  Spec => []InstalledPresent
<1>1. IInv /\ RootInv /\ PresentInv /\ [Next]_vars => PresentInv'
  BY PresentStep DEF RootInv
<1> QED
  BY <1>1, PresentBegins, PresentShown, Invariance, RootInvariance, PTL DEF Spec
=============================================================================
