------------------------------- MODULE QMerge -------------------------------
(***************************************************************************)
(* qmerge.c: merging binary packages into the live root and unmerging      *)
(* installed ones.  Modelled are the live filesystem, the VDB (one entry   *)
(* with a CONTENTS per installed package), the in-memory VDB tree that     *)
(* best_version() consults, and the control of pkg_fetch(), pkg_merge(),   *)
(* merge_tree_at() and pkg_unmerge(), one path at a time.  The process may *)
(* die between any two steps and be started again; between two runs the    *)
(* administrator edits, removes and updates configuration files.           *)
(*                                                                         *)
(* A package's image is what is left of it after unpacking, INSTALL_MASK   *)
(* (module InstallMask) and the phase functions; moving a single file is   *)
(* module MoveFile, fetching and verifying one is module PkgFetch.         *)
(***************************************************************************)
EXTENDS Naturals, Sequences

CONSTANTS
  Pkg,          \* the package versions (category/PF)
  NoPkg,        \* previnst == NULL
  Slot,         \* [Pkg -> a value]: category/PN:SLOT
  Ver,          \* [Pkg -> Nat]: the order of the versions in a slot
  Path,         \* names as CONTENTS spells them
  Up,           \* [Path -> SUBSET Path]: the directories above a name
  Loc,          \* [Path -> Path]: the file a name resolves to (symlinked dirs)
  Data,         \* what a regular file or a symlink may hold
  NoData,
  User,         \* data the administrator writes
  Image,        \* [Pkg -> names -> Node]: the package's files
  Base,         \* [Path -> Nodes]: the root before any package of Pkg
  RDepend,      \* [Pkg -> SUBSET Pkg]: the binpkgs its RDEPEND resolves to
  Phases,       \* [Pkg -> SUBSET PhaseNames]: DEFINED_PHASES
  Eapi,         \* [Pkg -> 0..8]
  Starts,       \* [Path -> SUBSET Prefix]: the configured prefixes it starts with
  Protect,      \* CONFIG_PROTECT
  Mask,         \* CONFIG_PROTECT_MASK
  BinSh,        \* the name of /bin/sh
  IfModified,   \* FEATURES=config-protect-if-modified
  SameDevice,   \* the temporary directory and the VDB share a device
  MoveFails,    \* move_file() and symlinkat() may fail for lack of space
  Targets,      \* the sets of packages a merge run may be asked for
  Removals,     \* the sets of packages an unmerge run may be asked for
  CfgSlots,     \* number of ._cfg####_ names (10000 in the code)
  MaxRuns, MaxCrashes, MaxEdits,
  Unlisted,     \* no VDB entry
  Partial,      \* a VDB entry without its CONTENTS
  Unread        \* not (yet) read into memory

PhaseNames == {"pretend", "setup", "preinst", "postinst", "prerm", "postrm"}
Kinds == {"none", "dir", "obj", "sym"}
Nodes == [k : Kinds, d : Data \cup {NoData}]
None == [k |-> "none", d |-> NoData]
Dir == [k |-> "dir", d |-> NoData]

ASSUME PkgAssumption ==
  /\ NoPkg \notin Pkg
  /\ Ver \in [Pkg -> Nat]
  /\ RDepend \in [Pkg -> SUBSET Pkg]
  /\ Phases \in [Pkg -> SUBSET PhaseNames] /\ Eapi \in [Pkg -> 0 .. 8]
  /\ \A ps \in (SUBSET Pkg) \ {{}} : \E p \in ps : \A q \in ps : Ver[q] <= Ver[p]
ASSUME PathAssumption ==
  /\ Up \in [Path -> SUBSET Path]
  /\ Loc \in [Path -> Path]
  /\ DOMAIN Starts = Path
  /\ \A n \in Path : n \notin Up[n] /\ \A a \in Up[n] : Up[a] \subseteq Up[n]
\* The names above a name form a chain: with an innermost, an outermost, and each
\* with a next one below it.
ASSUME ChainAssumption ==
  \A n \in Path :
    /\ Up[n] # {} => \E d \in Up[n] : Up[n] = Up[d] \cup {d}
    /\ \E c \in Up[n] \cup {n} : Up[c] = {}
    /\ \A d \in Up[n] : \E c \in Up[n] \cup {n} : Up[c] = Up[d] \cup {d}
ASSUME DataAssumption ==
  /\ NoData \notin Data
  /\ User \in Data
  /\ Base \in [Path -> Nodes]
  /\ DOMAIN Image = Pkg
  /\ \A p \in Pkg :
       /\ DOMAIN Image[p] \subseteq Path
       /\ \A n \in DOMAIN Image[p] :
            /\ Image[p][n] \in [k : {"obj", "sym"}, d : Data] \cup {Dir}
            /\ \A a \in Up[n] : a \in DOMAIN Image[p] /\ Image[p][a] = Dir
\* The part of p's files with the names in s: what a CONTENTS may list.
Listing(p, s) == [n \in s |-> Image[p][n]]
ListingsOf(p) == {Listing(p, s) : s \in SUBSET DOMAIN Image[p]}

ASSUME MarkAssumption ==
  /\ Unlisted # Partial
  /\ \A p \in Pkg : {Unlisted, Partial, Unread} \cap ListingsOf(p) = {}
  /\ \A ps \in SUBSET Pkg : Unread # ps
ASSUME BoundAssumption ==
  /\ CfgSlots \in Nat \ {0}
  /\ {MaxRuns, MaxCrashes, MaxEdits} \subseteq Nat
  /\ {IfModified, SameDevice, MoveFails} \subseteq BOOLEAN
  /\ Targets \subseteq SUBSET Pkg /\ Removals \subseteq SUBSET Pkg

VARIABLES
  \* on disk
  live,    \* [Path -> Nodes]: the live root
  cfg,     \* [Path -> [0 .. CfgSlots-1 -> Data \cup {NoData}]]: ._cfg####_ files
  vdb,     \* [Pkg -> Unlisted, Partial or the CONTENTS]
  bare,    \* the entries that have a CONTENTS and no SLOT
  \* in the process
  pc,
  todo,    \* the packages of this run still to handle
  stack,   \* the active calls of pkg_merge: [pkg, prev, deps]
  cache,   \* [slots -> Unread or the versions the tree lists]
  meta,    \* [Pkg -> Unread or the CONTENTS read from the VDB]
  left,    \* names of the image not merged yet
  at,      \* the directories merge_tree_at is in
  rec,     \* names written to vdb/CONTENTS
  keep,    \* objs: names the replaced version must not take along
  victim,  \* the package pkg_unmerge works on
  gone,    \* its entries still to handle
  dirs,    \* its directories to remove at the end
  ran,     \* the phase functions run so far, in order
  \* history, for the properties
  torn,    \* packages with a merge that never came to its end
  hurt,    \* packages with an unmerge that never came to its end, or registered in
           \* the slot of another while that one was unmerged
  dropped, \* files the administrator removed
  runs, crashes, edits

entries == <<vdb, bare>>
disk == <<live, cfg, entries>>
plan == <<todo, stack, cache>>
job == <<left, at, rec, keep>>
removal == <<victim, gone, dirs>>
history == <<torn, hurt, dropped>>
bounds == <<runs, crashes, edits>>
vars == <<disk, pc, plan, meta, job, removal, ran, history, bounds>>

Labels == {"idle", "pick", "remove", "walk", "merge", "unmerge", "dirs",
           "erase", "postinst", "clear", "place", "fill"}

Slots == {Slot[p] : p \in Pkg}
Frames == [pkg : Pkg, prev : Pkg \cup {NoPkg}, deps : SUBSET Pkg]
PhaseRuns == [phase : PhaseNames, of : Pkg]

TypeOK ==
  /\ live \in [Path -> Nodes]
  /\ cfg \in [Path -> [0 .. CfgSlots - 1 -> Data \cup {NoData}]]
  /\ DOMAIN vdb = Pkg
  /\ \A p \in Pkg : vdb[p] \in {Unlisted, Partial} \cup ListingsOf(p)
  /\ bare \subseteq Pkg
  /\ pc \in Labels
  /\ todo \subseteq Pkg
  /\ stack \in Seq(Frames)
  /\ DOMAIN cache = Slots
  /\ \A s \in Slots : cache[s] \in {Unread} \cup SUBSET Pkg
  /\ DOMAIN meta = Pkg
  /\ \A p \in Pkg : meta[p] \in {Unread} \cup ListingsOf(p)
  /\ left \subseteq Path /\ at \in Seq(Path)
  /\ rec \subseteq Path /\ keep \subseteq Path
  /\ victim \in Pkg \cup {NoPkg}
  /\ gone \subseteq Path /\ dirs \subseteq Path
  /\ ran \in Seq(PhaseRuns)
  /\ torn \subseteq Pkg /\ hurt \subseteq Pkg /\ dropped \subseteq Path
  /\ runs \in 0 .. MaxRuns /\ crashes \in 0 .. MaxCrashes
  /\ edits \in 0 .. MaxEdits

NoCfg == [i \in 0 .. CfgSlots - 1 |-> NoData]

\* The process's own state when it starts.
FreshPlan == todo' = {} /\ stack' = <<>> /\ cache' = [s \in Slots |-> Unread]
FreshMeta == meta' = [p \in Pkg |-> Unread]
FreshJob == left' = {} /\ at' = <<>> /\ rec' = {} /\ keep' = {}
FreshRemoval == victim' = NoPkg /\ gone' = {} /\ dirs' = {}

\* The base system, with nothing of Pkg installed.
Init ==
  /\ live = Base
  /\ cfg = [n \in Path |-> NoCfg]
  /\ vdb = [p \in Pkg |-> Unlisted] /\ bare = {}
  /\ pc = "idle"
  /\ todo = {} /\ stack = <<>> /\ cache = [s \in Slots |-> Unread]
  /\ meta = [p \in Pkg |-> Unread]
  /\ left = {} /\ at = <<>> /\ rec = {} /\ keep = {}
  /\ victim = NoPkg /\ gone = {} /\ dirs = {}
  /\ ran = <<>>
  /\ torn = {} /\ hurt = {} /\ dropped = {}
  /\ runs = 0 /\ crashes = 0 /\ edits = 0

-----------------------------------------------------------------------------
(* Paths.                                                                  *)

\* The directory a name is in; the empty set for a name in the root.
ParentOf(n) == {d \in Up[n] : Up[n] = Up[d] \cup {d}}

\* The innermost directory merge_tree_at is in, likewise.
Here == IF at = <<>> THEN {} ELSE {at[Len(at)]}

Below(x) == {y \in Path : x \in Up[y]}

\* A file can exist at x: everything above it is a directory.
Reachable(x) == \A a \in Up[x] : live[a].k = "dir"

Exists(x) == live[x].k # "none"

\* qmerge.c:379 config_protected(): prefixes are compared as strings, the mask
\* wins, and /bin/sh is always protected.
config_protected(n) ==
  /\ Starts[n] \cap Mask = {}
  /\ Starts[n] \cap Protect # {} \/ n = BinSh

\* libq/xmkdir.c:117 rmdir_r_at(): remove the directory and the ones above it,
\* going up past any error but ENOTEMPTY.  Gone are the directories of the chain
\* with nothing but chain directories below them.
rmdir_r_at(fs, c, chain) ==
  LET used == {x \in Path : fs[x].k # "none" \/ c[x] # NoCfg}
      rm == {Loc[a] : a \in chain}
      go == {x \in rm : fs[x].k = "dir" /\ \A y \in Below(x) \cap used :
                          y \in rm /\ fs[y].k = "dir" /\ c[y] = NoCfg}
  IN [x \in Path |-> IF x \in go THEN None ELSE fs[x]]

\* Is directory x empty, counting the pending ._cfg files in it?
Empty(x) == \A y \in Below(x) : ~Exists(y) /\ cfg[y] = NoCfg

-----------------------------------------------------------------------------
(* Choosing: qmerge_run, best_version, pkg_fetch, the rdepend walk.        *)

Top == stack[Len(stack)]

Complete(p) == vdb[p] \notin {Unlisted, Partial}

\* The versions a tree read now lists for slot s: those whose SLOT file is (still)
\* there, which is open for the entries that have lost their CONTENTS.
Listings(s) ==
  LET of == {p \in Pkg : Slot[p] = s}
      sure == {p \in of : Complete(p) /\ p \notin bare}
  IN {sure \cup t : t \in SUBSET {p \in of : vdb[p] = Partial}}

\* A look-up in the VDB tree loads the slot's package directory once and keeps
\* it for the rest of the run (_qmerge_vdb_tree).
Lookup(s) ==
  IF cache[s] = Unread
  THEN \E ps \in Listings(s) : cache' = [cache EXCEPT ![s] = ps]
  ELSE UNCHANGED cache

\* Mutant of Previnst: no match ever.
Previnst_None(ps) == NoPkg

\* best_version(slotatom, BV_INSTALLED): the highest version the tree lists.
Previnst(ps) ==
  IF ps = {} THEN NoPkg ELSE CHOOSE p \in ps : \A q \in ps : Ver[q] <= Ver[p]

BeginMerge ==
  /\ pc = "idle" /\ runs < MaxRuns
  /\ \E ts \in Targets : todo' = ts
  /\ runs' = runs + 1
  /\ pc' = "pick"
  /\ UNCHANGED <<disk, stack, cache, meta, job, removal, ran, history, crashes,
                 edits>>

\* unmerge_packages: the packages of the VDB that match, in a tree of its own.
BeginRemoval ==
  /\ pc = "idle" /\ runs < MaxRuns
  /\ \E rs \in Removals : todo' = {p \in rs : vdb[p] # Unlisted}
  /\ runs' = runs + 1
  /\ pc' = "remove"
  /\ UNCHANGED <<disk, stack, cache, meta, job, removal, ran, history, crashes,
                 edits>>

\* pkg_fetch found, verified and merges p: a call of pkg_merge begins by looking
\* for the installed version it replaces.
Enter(p, frames) ==
  /\ Lookup(Slot[p])
  /\ stack' = Append(frames,
                [pkg |-> p, prev |-> Previnst(cache'[Slot[p]]), deps |-> RDepend[p]])
  /\ pc' = "walk"

\* qmerge_run: the next target; what cannot be fetched or verified is skipped.
PickTarget ==
  /\ pc = "pick"
  /\ \E p \in todo :
       /\ todo' = todo \ {p}
       /\ \/ Enter(p, stack)
          \/ UNCHANGED <<pc, stack, cache>>
  /\ UNCHANGED <<disk, meta, job, removal, ran, history, bounds>>

\* Mutant of WalkDepend: a dependency that was merged is not crossed off.
WalkDepend_Again ==
  /\ pc = "walk"
  /\ \E d \in Top.deps :
       LET rest == [stack EXCEPT ![Len(stack)].deps = @ \ {d}]
       IN \/ Enter(d, stack)
          \/ Lookup(Slot[d]) /\ stack' = rest /\ UNCHANGED pc
  /\ UNCHANGED <<disk, todo, meta, job, removal, ran, history, bounds>>

\* pkg_merge: every binpkg of RDEPEND is fetched and merged first, installed or
\* not; one that cannot be fetched is skipped and its parent merged all the same.
WalkDepend ==
  /\ pc = "walk"
  /\ \E d \in Top.deps :
       LET rest == [stack EXCEPT ![Len(stack)].deps = @ \ {d}]
       IN \/ Enter(d, rest)
          \/ Lookup(Slot[d]) /\ stack' = rest /\ UNCHANGED pc
  /\ UNCHANGED <<disk, todo, meta, job, removal, ran, history, bounds>>

\* A phase function runs when the package defines it and its EAPI has it.
Phase(f, p) ==
  IF f \in Phases[p] /\ (f = "pretend" => Eapi[p] >= 4)
  THEN <<[phase |-> f, of |-> p]>> ELSE <<>>

\* pkg_prerm right before a version is replaced: the new package's.
PrermOfNew == IF Top.prev # NoPkg THEN Phase("prerm", Top.pkg) ELSE <<>>

\* What is unpacked and masked is Image; the phase functions are from the new package's files.
Prepare ==
  /\ pc = "walk" /\ Top.deps = {}
  /\ LET p == Top.pkg IN
       /\ ran' = Phase("pretend", p) \o Phase("setup", p) \o Phase("preinst", p)
                 \o PrermOfNew
       /\ left' = DOMAIN Image[p]
       /\ torn' = torn \cup {p}
  /\ at' = <<>> /\ rec' = {} /\ keep' = {}
  /\ pc' = "merge"
  /\ UNCHANGED <<disk, plan, meta, removal, hurt, dropped, bounds>>

-----------------------------------------------------------------------------
(* merge_tree_at: the image is walked depth first.                         *)

Entry(n) == Image[Top.pkg][n]

\* The entries of the directory the walk is in that are still to come.
Coming == {n \in left : ParentOf(n) = Here}

\* Mutant of Record: objs is not told of the name.
Record_NoKeep(n) == rec' = rec \cup {n} /\ UNCHANGED keep

\* vdb/CONTENTS and objs both get the name before anything is moved.
Record(n) == rec' = rec \cup {n} /\ keep' = keep \cup {n}

Put(x, node) == live' = [live EXCEPT ![x] = node]

\* mkdirat() accepts whatever is there already.  A directory that cannot be made
\* is skipped with all it contains; a dangling symlink in its place is recorded
\* but not entered.
MergeDir(n) ==
  LET x == Loc[n]
      under == {m \in left : n \in Up[m]}
      skip == left' = left \ ({n} \cup under) /\ UNCHANGED at
      enter == left' = left \ {n} /\ at' = Append(at, n)
  IN /\ Entry(n).k = "dir"
     /\ \/ /\ Exists(x)
           /\ Record(n) /\ UNCHANGED live
           /\ enter \/ (live[x].k = "sym" /\ skip)
        \/ /\ ~Exists(x) /\ Reachable(x)
           /\ Record(n) /\ Put(x, Dir) /\ enter
        \/ /\ ~Exists(x) /\ (~Reachable(x) \/ MoveFails)
           /\ skip
           /\ UNCHANGED <<live, rec, keep>>
     /\ UNCHANGED cfg

\* Mutant of CfgNumber: always number 0.
CfgNumber_Zero(x) == 0

\* The first free ._cfg####_ number; after the last one the last is reused.
CfgNumber(x) ==
  LET free == {i \in 0 .. CfgSlots - 1 : cfg[x][i] = NoData}
  IN IF free = {} THEN CfgSlots - 1 ELSE CHOOSE i \in free : \A j \in free : i <= j

\* A protected file that exists gets the new data as a ._cfg file beside it.
\* Renaming onto a directory, or below something that is no directory, fails
\* with a warning.
MergeObj(n) ==
  LET x == Loc[n] IN
  /\ Entry(n).k = "obj"
  /\ Record(n)
  /\ left' = left \ {n}
  /\ \/ /\ config_protected(n) /\ Exists(x)
        /\ cfg' = [cfg EXCEPT ![x][CfgNumber(x)] = Entry(n).d]
        /\ UNCHANGED live
     \/ /\ ~(config_protected(n) /\ Exists(x))
        /\ live[x].k # "dir" /\ Reachable(x)
        /\ Put(x, Entry(n)) /\ UNCHANGED cfg
     \/ /\ MoveFails \/ live[x].k = "dir" \/ ~Reachable(x)
        /\ UNCHANGED <<live, cfg>>
  /\ UNCHANGED at

\* symlinkat(), and when the name exists unlink it first, protected or not.
MergeSym(n) ==
  LET x == Loc[n] IN
  /\ Entry(n).k = "sym"
  /\ Record(n)
  /\ left' = left \ {n}
  /\ \/ /\ live[x].k # "dir" /\ Reachable(x)
        /\ Put(x, Entry(n))
     \/ /\ live[x].k = "dir" \/ ~Reachable(x) \/ MoveFails
        /\ \/ UNCHANGED live
           \/ live[x].k \in {"obj", "sym"} /\ Put(x, None)
  /\ UNCHANGED <<cfg, at>>

MergeEntry ==
  /\ pc = "merge"
  /\ \E n \in Coming : MergeDir(n) \/ MergeObj(n) \/ MergeSym(n)
  /\ UNCHANGED <<entries, pc, plan, meta, removal, ran, history, bounds>>

\* A directory is done: an empty one is pruned, whoever made it.
LeaveDir ==
  /\ pc = "merge" /\ at # <<>> /\ Coming = {}
  /\ LET x == Loc[at[Len(at)]] IN
       IF live[x].k = "dir" /\ Empty(x) THEN Put(x, None) ELSE UNCHANGED live
  /\ at' = SubSeq(at, 1, Len(at) - 1)
  /\ UNCHANGED <<cfg, entries, pc, plan, meta, left, rec, keep, removal, ran, history,
                 bounds>>

-----------------------------------------------------------------------------
(* pkg_unmerge.                                                            *)

\* The CONTENTS pkg_unmerge works from: read from the VDB once per run, Unread
\* when there is none.
ContentsOf(q) ==
  IF meta[q] # Unread THEN meta[q] ELSE IF Complete(q) THEN vdb[q] ELSE Unread

\* q itself, and what is registered beside it: an unmerge of q may take their files.
Rivals(q) == {p \in Pkg : p = q \/ (Slot[p] = Slot[q] /\ Complete(p))}

\* Begin with package q, or return at once when its entry has no CONTENTS.
Unmerge(q, otherwise) ==
  IF ContentsOf(q) = Unread
  THEN pc' = otherwise /\ UNCHANGED <<meta, removal, hurt>>
  ELSE /\ meta' = [meta EXCEPT ![q] = ContentsOf(q)]
       /\ victim' = q
       /\ gone' = DOMAIN ContentsOf(q) /\ dirs' = {}
       /\ hurt' = hurt \cup Rivals(q)
       /\ pc' = "unmerge"

\* The image is merged: unmerge the version it replaces, if there is one.
FinishMerge ==
  /\ pc = "merge" /\ at = <<>> /\ Coming = {}
  /\ IF Top.prev = NoPkg
     THEN pc' = "postinst" /\ UNCHANGED <<meta, removal, hurt>>
     ELSE Unmerge(Top.prev, "postinst")
  /\ UNCHANGED <<disk, plan, job, ran, torn, dropped, bounds>>

\* qmerge_unmerge_cb: the next matching package, its pkg_prerm first.
RemovePackage ==
  /\ pc = "remove"
  /\ \E q \in todo :
       /\ todo' = todo \ {q}
       /\ ran' = Phase("prerm", q)
       /\ Unmerge(q, "remove")
  /\ UNCHANGED <<disk, stack, cache, job, torn, dropped, bounds>>

Old(n) == meta[victim][n]

\* A mutant of Guarded: nothing is protected.
Guarded_Never(n) == {FALSE}

\* May the entry count as protected?  With config-protect-if-modified a file that
\* still has the recorded hash, or that cannot be hashed, does not; what hashing
\* finds through a symlink or in a directory is open.
Guarded(n) ==
  IF ~config_protected(n) THEN {FALSE}
  ELSE IF ~(IfModified /\ Old(n).k = "obj") THEN {TRUE}
  ELSE CASE live[Loc[n]].k = "obj" -> {live[Loc[n]].d # Old(n).d}
         [] live[Loc[n]].k = "none" -> {FALSE}
         [] OTHER -> BOOLEAN

\* A name below something that is no directory: ENOTDIR rather than ENOENT.
NotDir(x) == \E a \in Up[x] : live[a].k = "obj"

\* Mutant of LeftBe: symlinks are never unlinked.
LeftBe_Always(n) == Old(n).k = "sym"

\* A recorded symlink that is none any more, or cannot be examined, is left be.
LeftBe(n) ==
  LET x == Loc[n]
  IN Old(n).k = "sym" /\ (live[x].k \in {"obj", "dir"} \/ NotDir(x))

\* unlinkat() fails with something else than ENOENT, which ends the program.
Fatal(n) == live[Loc[n]].k = "dir" \/ NotDir(Loc[n])

\* One line of CONTENTS.  del_set() takes a kept name out of keep.
UnmergeEntry ==
  /\ pc = "unmerge"
  /\ \E n \in gone :
       /\ gone' = gone \ {n}
       /\ \/ /\ Old(n).k = "dir"
             /\ dirs' = dirs \cup {n}
             /\ UNCHANGED <<live, keep>>
          \/ /\ Old(n).k # "dir" /\ (LeftBe(n) \/ TRUE \in Guarded(n))
             /\ UNCHANGED <<live, keep, dirs>>
          \/ /\ Old(n).k # "dir" /\ ~LeftBe(n) /\ FALSE \in Guarded(n)
             /\ \/ n \in keep /\ keep' = keep \ {n} /\ UNCHANGED live
                \/ /\ n \notin keep /\ ~Fatal(n)
                   /\ live' = rmdir_r_at([live EXCEPT ![Loc[n]] = None], cfg, Up[n])
                   /\ UNCHANGED keep
             /\ UNCHANGED dirs
  /\ UNCHANGED <<cfg, entries, pc, plan, meta, left, at, rec, victim, ran, history,
                 bounds>>

EntriesDone ==
  /\ pc = "unmerge" /\ gone = {}
  /\ pc' = "dirs"
  /\ UNCHANGED <<disk, plan, meta, job, removal, ran, history, bounds>>

\* The directories in reverse order, each with its emptied parents.
RemoveDir ==
  /\ pc = "dirs"
  /\ \E d \in dirs :
       /\ \A e \in dirs : d \notin Up[e]
       /\ dirs' = dirs \ {d}
       /\ live' = rmdir_r_at(live, cfg, Up[d] \cup {d})
  /\ UNCHANGED <<cfg, entries, pc, plan, meta, job, victim, gone, ran, history, bounds>>

\* Mutant of Postrm: the wrong phase function.
Postrm_Prerm ==
  /\ pc = "dirs" /\ dirs = {}
  /\ ran' = ran \o Phase("prerm", victim)
  /\ pc' = "erase"
  /\ UNCHANGED <<disk, plan, meta, job, removal, history, bounds>>

\* pkg_postrm, from the old package's own VDB entry.
Postrm ==
  /\ pc = "dirs" /\ dirs = {}
  /\ ran' = ran \o Phase("postrm", victim)
  /\ pc' = "erase"
  /\ UNCHANGED <<disk, plan, meta, job, removal, history, bounds>>

\* Removing an entry is file by file, in no order: it can be left without its CONTENTS,
\* or with it and without its SLOT.
EraseStep(p) ==
  \/ /\ vdb' = [vdb EXCEPT ![p] = IF Complete(p) THEN Partial ELSE Unlisted]
     /\ bare' = bare \ {p}
  \/ Complete(p) /\ p \notin bare /\ bare' = bare \cup {p} /\ UNCHANGED vdb

Erase ==
  /\ pc = "erase"
  /\ IF vdb[victim] # Unlisted
     THEN EraseStep(victim) /\ UNCHANGED <<pc, removal, hurt>>
     ELSE /\ pc' = IF stack = <<>> THEN "remove" ELSE "postinst"
          /\ FreshRemoval
          /\ hurt' = hurt \ {victim}
          /\ UNCHANGED entries
  /\ UNCHANGED <<live, cfg, plan, meta, job, ran, torn, dropped, bounds>>

-----------------------------------------------------------------------------
(* The end of pkg_merge: pkg_postinst, then the new VDB entry.             *)

Postinst ==
  /\ pc = "postinst"
  /\ ran' = ran \o Phase("postinst", Top.pkg)
  /\ pc' = "clear"
  /\ UNCHANGED <<disk, plan, meta, job, removal, history, bounds>>

\* rm_rf() of an entry of the same name.
ClearEntry ==
  /\ pc = "clear"
  /\ IF vdb[Top.pkg] # Unlisted
     THEN EraseStep(Top.pkg) /\ UNCHANGED pc
     ELSE pc' = "place" /\ UNCHANGED entries
  /\ UNCHANGED <<live, cfg, plan, meta, job, removal, ran, history, bounds>>

\* Mutant of NewContents: symlinks are not written to it.
NewContents_NoSym == Listing(Top.pkg, {n \in rec : Image[Top.pkg][n].k # "sym"})

NewContents == Listing(Top.pkg, rec)

Leave ==
  /\ stack' = SubSeq(stack, 1, Len(stack) - 1)
  /\ pc' = IF Len(stack) = 1 THEN "pick" ELSE "walk"
  /\ FreshJob
  /\ torn' = torn \ {Top.pkg} /\ hurt' = hurt \ {Top.pkg}
  /\ UNCHANGED <<live, cfg, todo, cache, meta, removal, ran, dropped, bounds>>

Register == vdb' = [vdb EXCEPT ![Top.pkg] = NewContents]

\* rename("vdb", ...) registers the package at once; across devices the files
\* are moved one by one instead, in no order.
PlaceEntry ==
  /\ pc = "place"
  /\ \/ SameDevice /\ Register /\ UNCHANGED bare /\ Leave
     \/ /\ ~SameDevice
        /\ \/ vdb' = [vdb EXCEPT ![Top.pkg] = Partial] /\ UNCHANGED bare
           \/ Register /\ bare' = bare \cup {Top.pkg}
        /\ pc' = "fill"
        /\ UNCHANGED <<live, cfg, plan, meta, job, removal, ran, history, bounds>>

\* A file of the entry that cannot be moved is warned about and lost.
FillEntry ==
  /\ pc = "fill"
  /\ \/ Register /\ bare' = bare \ {Top.pkg} /\ Leave
     \/ /\ MoveFails
        /\ stack' = SubSeq(stack, 1, Len(stack) - 1)
        /\ pc' = IF Len(stack) = 1 THEN "pick" ELSE "walk"
        /\ FreshJob
        /\ UNCHANGED <<disk, todo, cache, meta, removal, ran, history, bounds>>

-----------------------------------------------------------------------------
(* The end of a run, and what happens around it.                           *)

Stop ==
  /\ pc' = "idle"
  /\ FreshPlan /\ FreshMeta /\ FreshJob /\ FreshRemoval
  /\ ran' = <<>>
  /\ UNCHANGED <<disk, history>>

EndRun ==
  /\ pc \in {"pick", "remove"} /\ todo = {}
  /\ Stop
  /\ UNCHANGED bounds

\* pkg_unmerge gives up with errp().
Abort ==
  /\ pc = "unmerge"
  /\ \E n \in gone : /\ Old(n).k # "dir" /\ ~LeftBe(n) /\ FALSE \in Guarded(n)
                     /\ n \notin keep /\ Fatal(n)
  /\ Stop
  /\ UNCHANGED bounds

\* Killed, or ended by a phase function or an archive that fails.
Crash ==
  /\ pc # "idle" /\ crashes < MaxCrashes
  /\ Stop
  /\ crashes' = crashes + 1
  /\ UNCHANGED <<runs, edits>>

\* The administrator edits or removes a file, or deals with a pending ._cfg.
Admin ==
  /\ pc = "idle" /\ edits < MaxEdits
  /\ \E x \in Path :
       \/ /\ live[x].k = "obj"
          /\ Put(x, [k |-> "obj", d |-> User])
          /\ UNCHANGED <<cfg, dropped>>
       \/ /\ live[x].k \in {"obj", "sym"}
          /\ Put(x, None)
          /\ dropped' = dropped \cup {x} /\ UNCHANGED cfg
       \/ \E i \in 0 .. CfgSlots - 1 :
            /\ cfg[x][i] # NoData
            /\ cfg' = [cfg EXCEPT ![x][i] = NoData]
            /\ \/ live[x].k = "obj" /\ Put(x, [k |-> "obj", d |-> cfg[x][i]])
               \/ UNCHANGED live
            /\ UNCHANGED dropped
  /\ edits' = edits + 1
  /\ UNCHANGED <<entries, pc, plan, meta, job, removal, ran, torn, hurt, runs, crashes>>

Run ==
  \/ PickTarget \/ WalkDepend \/ Prepare \/ MergeEntry \/ LeaveDir \/ FinishMerge
  \/ RemovePackage \/ UnmergeEntry \/ EntriesDone \/ RemoveDir \/ Postrm \/ Erase
  \/ Postinst \/ ClearEntry \/ PlaceEntry \/ FillEntry \/ EndRun \/ Abort

Next == BeginMerge \/ BeginRemoval \/ Run \/ Crash \/ Admin

Spec == Init /\ [][Next]_vars

\* A started process goes on by itself until it ends.
FairSpec == Spec /\ WF_vars(Run)

-----------------------------------------------------------------------------
(* Properties.                                                             *)

IsFile(x) == live[x].k \in {"obj", "sym"}

\* Every spelling of x is protected.
ProtectedFile(x) == \A n \in Path : Loc[n] = x => config_protected(n)

\* CONFIG_PROTECT (qmerge.c:379, 959, 1811): an existing protected file is changed
\* by qmerge in two cases only: the new package ships a symlink of that name, or
\* config-protect-if-modified is set and the unmerged file is as it was installed.
ConfigKept ==
  [][\A x \in Path :
       live[x].k = "obj" /\ ProtectedFile(x) /\ live'[x] # live[x] /\ edits' = edits
         => \/ pc = "merge" /\ \E n \in left : Loc[n] = x /\ Entry(n).k = "sym"
            \/ /\ pc = "unmerge" /\ IfModified
               /\ \E n \in gone : Loc[n] = x /\ Old(n) = live[x]]_vars

\* qmerge.c:1655 "Unmerge any stray pieces from the older version which we didn't
\* replace": what the new package has put in place, or has a claim on, stays while
\* the old version is unmerged.
ReplacedStays ==
  [][(pc = "unmerge" \/ pc = "dirs") /\ stack # <<>>
       => \A n \in rec :
            LET x == Loc[n] IN IsFile(x) => live'[x] = live[x]]_vars

\* qmerge.c:1655, 1883: a file of an installed package is in the live root, unless the
\* administrator removed it, the unmerge of the package was begun, or another version
\* was unmerged that was registered in its slot: a kill can leave two of them, when
\* rm_rf_at comes to SLOT before CONTENTS (xmkdir.c:86).
InstalledPresent ==
  \A p \in Pkg :
    Complete(p) /\ p \notin hurt =>
      \A n \in DOMAIN vdb[p] :
        vdb[p][n].k # "dir" /\ Loc[n] \notin dropped => Exists(Loc[n])

\* No strays: every file in the live root has been one of the base system, or is in
\* the CONTENTS of some package, or protected, or from a package whose merge or
\* unmerge was cut short.
NoStray ==
  \A x \in Path : IsFile(x) /\ Base[x].k \notin {"obj", "sym"} =>
    \E n \in Path :
      /\ Loc[n] = x
      /\ \/ \E p \in Pkg : Complete(p) /\ n \in DOMAIN vdb[p]
         \/ \E p \in torn \cup hurt : n \in DOMAIN Image[p]
         \/ config_protected(n)

\* As long as no run was cut short, a slot has one version registered at most.
OnePerSlot ==
  crashes = 0 =>
    \A p, q \in Pkg : Complete(p) /\ Complete(q) /\ Slot[p] = Slot[q] => p = q

\* tests/qmerge/dotest, "PMS 9.2 Call order": pretend, setup, preinst, prerm,
\* postrm, postinst.
PhaseRank == [pretend |-> 1, setup |-> 2, preinst |-> 3, prerm |-> 4,
              postrm |-> 5, postinst |-> 6]
CallOrder ==
  \A i, j \in DOMAIN ran : i < j => PhaseRank[ran[i].phase] < PhaseRank[ran[j].phase]

\* A pending ._cfg update is replaced only when every number is taken.
PendingKept ==
  [][\A x \in Path, i \in 0 .. CfgSlots - 1 :
       cfg[x][i] # NoData /\ cfg'[x][i] # cfg[x][i] /\ edits' = edits
         => i = CfgSlots - 1 /\ NoData \notin {cfg[x][j] : j \in DOMAIN cfg[x]}]_vars

\* No packages depend on each other in a circle.
Acyclic == \A S \in (SUBSET Pkg) \ {{}} : \E p \in S : RDepend[p] \cap S = {}

\* qmerge.c:1154-1204: pkg_merge calls itself for every dependency, installed or not, so
\* that a run of packages that depend on each other in a circle ends when the stack is
\* exhausted.  Every other run comes to an end, whatever fails in it.
RunEnds == Acyclic => (pc # "idle" ~> pc = "idle")
-----------------------------------------------------------------------------
(* What the theorems about the installed files assume of the names, the    *)
(* images and the packages a run is asked for.                             *)

\* The directories of a resolved name are the resolved directories of the name.
Straight == \A n \in Path : Up[Loc[n]] = {Loc[a] : a \in Up[n]}

\* What is a directory in one package is one in all, and not a file of the base
\* system, of which the root is a tree.
Agree ==
  /\ \A p, q \in Pkg : \A n \in DOMAIN Image[p], m \in DOMAIN Image[q] :
       Loc[n] = Loc[m] => (Image[p][n].k = "dir" <=> Image[q][m].k = "dir")
  /\ \A p \in Pkg : \A n \in DOMAIN Image[p] :
       Base[Loc[n]].k \in IF Image[p][n].k = "dir" THEN {"none", "dir"}
                                                   ELSE {"none", "obj", "sym"}
  /\ \A x \in Path : Base[x].k # "none" => \A a \in Up[x] : Base[a].k = "dir"

\* Packages of different slots have no file in common.
OwnFiles ==
  \A p, q \in Pkg : \A n \in DOMAIN Image[p], m \in DOMAIN Image[q] :
    Loc[n] = Loc[m] /\ Image[p][n].k # "dir" => Slot[p] = Slot[q]

\* No file has two names: no symlinked directory in a CONTENTS.
OneName == \A m, n \in Path : Loc[m] = Loc[n] => m = n

\* A set of packages of different slots that has all their dependencies.
Solo(S) ==
  /\ \A p \in S : RDepend[p] \subseteq S
  /\ \A p, q \in S : Slot[p] = Slot[q] => p = q

\* No run merges two versions of a slot.
OneVersionARun == \A ts \in Targets : \E S \in SUBSET Pkg : ts \subseteq S /\ Solo(S)
=============================================================================
