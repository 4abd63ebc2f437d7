# portage-utils in TLA+

portage-utils is a set of small C programs ("applets" of one binary, `q`) that
read a Gentoo system and, in `qmerge`, change it: the live root, the VDB of
installed packages (`/var/db/pkg`), binary package repositories, ebuild trees
and logs.  This directory holds TLA+ models of its logic, the TLC configurations
that check them on small instances, and proofs checked by TLAPS.  Everything is
translated from the C code of the repository; the tests and the comments say
what the code is meant to do.

- [Components](#components): the parts of the program, and what is hard in them
- [Modules](#modules): which module models which part, and how
- [Runs](#runs): what TLC checks, with which bounds
- [Proofs](#proofs): what TLAPS proves, from which assumptions and how
- [What the code does otherwise](#what-the-code-does-otherwise): disagreements met
- [Not modelled](#not-modelled) and [Plan](#plan)

## Components

| part | state | operations | what is hard | correct when |
|---|---|---|---|---|
| qmerge: merge and unmerge | live root, VDB, `._cfg` files, the VDB tree in memory | merge, replace, unmerge, phase functions | kills between any two files; files shared by the old and the new version; protected and edited files; nested merges of dependencies | installed files are there, no strays, edits survive, one version per slot |
| qmerge: fetch and verify | binpkgs in PKGDIR; the globals `install` and `pretend` | rehearse, ask, drop, download, verify, merge | globals changed by the rehearsal; downloads cut short; files that change meanwhile | only what verifies is merged, only when asked to |
| qmerge: INSTALL_MASK | image being walked | include, exclude | masks of different depth decided at different levels | the last match decides |
| libq/move_file, copy_file | one file and its copy | move, copy | every call may fail; short counts; kills | never partial, never lost |
| libq/atom: comparison | none | compare, sort | versions of PMS, globs, blockers, slots | an order; blockers and globs consistent with it |
| libq/atom: parsing | one atom | explode, clone, print | USE defaults, suffixes, slots in one pass | printing gives back what was parsed |
| libq/dep | dependency tree | parse, prune, flatten | unbalanced groups, nested conditions | the tree means what the string says |
| libq/tree | categories, packages and metadata, cached while they are read | traverse, match, read metadata | a partially filled cache; callbacks in the middle of a traversal; sorting | a query answers the same whatever was asked before |
| libq/set, array | hash buckets; an array with a sorted flag | add, delete, sort, search | duplicates; which comparator the flag is about | a set; a sequence |
| libq/xpak, qtbz2, qxpak | archives with length fields | create, list, extract, split, join | files that change while they are packed; full disks; fixed buffers of the reader | extracting gives back what was packed |
| libq/contents, qcheck, qfile, qsize | one line of CONTENTS; a CONTENTS being rewritten | parse, check, update | names with blanks; partial updates | every file is judged by its own line |
| qlop | emerge.log; hashes of names and averages, lists of open merges | two passes over the log, pairing, averages, predictions | interleaved, cut off and repeated merges; a log that grows while it is read | a start is paired with its own end; what runs is told exactly |
| qmanifest, libq/hash | Manifests; messages and a result shared by threads | generate, verify | nested Manifests; edits, kills and failures in between; threads | what was generated verifies, what changed does not, DIST entries survive |
| qdepends | one dependency tree per package and variable | list, reverse query, resolve | filters by USE flags; cached packages in the tree | the answer is the meaning of the string |
| main, profile | settings | read files, fold variables | layers, incremental variables | the later layer wins |
| other applets | none | traverse, filter, print | | |

`main.c` reads the configuration and dispatches to an applet.  Applets open a
tree, which calls them back once per package; they parse and compare atoms.
`qmerge` alone writes: it asks the binpkg tree for the best version, fetches and
verifies the file, unpacks it, masks the image, merges the files with
`move_file`, unmerges the version it replaces, and moves the VDB entry into
place.  Only qmanifest runs in threads (OpenMP); all other concurrency is with other
processes and with the administrator, and kills may come at any time.

## Modules

| module | models | theorems |
|---|---|---|
| `MoveFile` | move_file(), copy_file_fd(): one action per system call | `MoveFileProofs` |
| `QMerge`, `MCQMerge` | qmerge_run(), best_version(), pkg_merge(), merge_tree_at(), pkg_unmerge() | `QMergeProofs` |
| `PkgFetch`, `MCPkgFetch` | qmerge_main(), pkg_fetch(), pkg_verify_checksums(), unlink_empty_at() | `PackageProofs` |
| `InstallMask`, `MCInstallMask` | install_mask_pwd(), install_mask_check_dir(), crossmount_rm() | `InstallMaskProofs` |
| `Tree`, `TreeCache`, `MCTreeCache` | tree_foreach_pkg(), tree_cat_foreach_pkg(), tree_match_atom(), array_sort(), array_binsearch() | `PackageProofs` |
| `Atom`, `MCAtom` | atom_compare_flg(), _atom_compare_match(), atom_compar_cb() | `AtomProofs` |
| `EmergeLog`, `MCEmergeLog` | qlop_main(), probe_proc(), do_emerge_log(), hash_add() | `EmergeLogProofs` |
| `Manifest`, `MCManifest` | generate_dir(), verify_dir(), verify_manifest(), msgs_add() | `ManifestProofs` |
| `DepTree`, `MCDepTree` | dep_grow_tree(), dep_print_tree(), dep_prune_use(), dep_flatten_tree(), dep_resolve_tree(), qdepends' answers | |
| `Xpak`, `MCXpak` | xpak_create(), xpak_process(), qxpak's callback, tbz2_compose(), tbz2_decompose() | `XpakProofs` |

Modules named `MC...` give the constants their values.  Operators whose names end
in an underscore and a word (`Record_NoKeep`) are mutants: the operator they are
named after with a plausible mistake in it.  No specification uses them; each
exists to see that a property notices the mistake.

**MoveFile.** The files are the source, the destination and the temporary file
beside it; the data is the sequence of block numbers, so that a copy with a block
missing or twice is told from a good one.  `TryRename` ... `UnlinkSource` are the
system calls in the order of the code, each with its failing outcome if it is in
`Faults`; `Kill` may come between any two.  `place` holds what the call finds:
one device or two, a directory at the destination, and whether sendfile() ever
stops short.

**QMerge.** State on disk is `live` (the root, one node per path), `cfg` (the
pending `._cfg` files), and the VDB: `vdb` (per package unlisted, listed without
CONTENTS, or its CONTENTS) and `bare` (the entries that have a CONTENTS and no SLOT,
as rm_rf_at and the move across devices take the files of an entry in no order).  State in the process is the stack of pkg_merge calls, the VDB
tree as it was read (`cache`), the CONTENTS read from it (`meta`), the names of
the image still to merge (`left`), the names written to the new CONTENTS (`rec`)
and to objs (`keep`), and the entries of the old version still to unmerge
(`gone`, `dirs`).

| action | code |
|---|---|
| `BeginMerge`, `BeginRemoval`, `PickTarget` | qmerge_main, qmerge_run, unmerge_packages |
| `WalkDepend`, `Prepare` | the RDEPEND walk of pkg_merge, the phases before the merge (`Phase`: if the package has the function and its EAPI knows it) |
| `MergeEntry` (`MergeDir`, `MergeObj`, `MergeSym`), `LeaveDir` | merge_tree_at, one entry of the directory at a time, in any order |
| `FinishMerge` | CONTENTS is written, the replaced version is handed to pkg_unmerge |
| `UnmergeEntry`, `EntriesDone`, `RemoveDir`, `Postrm`, `Erase` | pkg_unmerge |
| `Postinst`, `ClearEntry`, `PlaceEntry`, `FillEntry` | the VDB entry of the new version |
| `EndRun`, `Abort`, `Crash` | the end of the process |
| `Admin` | edits, removals and etc-update between two runs |

A name of CONTENTS and the file it resolves to are two things (`Loc`), because
directories may be reached through symlinks.  The image of a package is what is
left after unpacking, masking and its own phase functions: a constant.  A file
that cannot be moved (`MoveFails`) is skipped with a warning as in the code.

**PkgFetch.** A package goes through `Rehearse`, or `Sweep`, `Check` and `Unlink` (a
forced download looks, and then removes), `Fetch` and `Verify`; what verifies enters
pkg_merge (`EnterMerge`), which takes up its dependencies one by one (`merges` is the
stack of these calls, `MaxDepth` its bound), each through the same steps, and only then
opens the file again by its name, for its metadata (`OpenMeta`) and once more for its
image (`OpenImage`).  `Prompt` lies between the two passes of an interactive run.  A
binpkg is absent, empty, partial, bad or good; `Verdict` is what the verification of its
size and digests makes of it.  `Swap` stands for other programs that write to PKGDIR, at
any time, `Kill` for the end of the process.  `opened` is what pkg_merge opened last:
the property is about what is unpacked, not about what was verified.  A .gpkg.tar is
opened once; the model's two times cover that.  Which binpkg a dependency resolves to is
the constant `Needs`; an RDEPEND that begins with `|| ` counts as none, as in the code.
A download is one step.  With -p nothing is verified, and pkg_merge goes on to unpack
the file to the temporary directory, or ends with an error when there is none; nothing
is merged then, so that the property is about runs in earnest.

**InstallMask.** `CheckDir` is one call of install_mask_check_dir: every mask is
compared on the level of the directory, the last one that matches decides, and
subdirectories are entered with a mode.  fnmatch() is a relation between patterns
and names.

**Atom.** Pure functions, written without recursion.  An atom is what atom_explode
made of it.  `NumericStep` ... `BuildStep` are the stages of the comparison: a
stage decides or leaves it to the next one, where the C code returns or goes on.
The string comparison of components with leading zeros is modelled to the
character, as what lies behind the component takes part in it.  One action,
`Compare`, is one call.  The definitions were also compared with the compiled C
code: on several thousand random pairs of atoms, with and without operators, both
gave the same answer.

**TreeCache.** `ctx` has the tree_cat_ctx, `cats` the array of them in the tree,
`complete` and `ctx[c].complete` the flags cats_complete and pkgs_complete.
`calls` is the call stack: a request from outside, and above it one that its
callback made.  A request stands at a label of the code: `tree`, `catdir`,
`catlist` in tree_foreach_pkg, `cat`, `hits`, `pkglist`, `pkgdir` in
tree_cat_foreach_pkg; a step is one directory entry, one element of an array, or
one call.  The recursions "now use the built cache" are jumps (`Restarts`).  `Kept`, `FirstOf` and
`LatestOf` are what tree_match_atom() leaves of what was called back for.  `kind` is the type
of the tree: "vdb" stands for binary packages without a Packages file too, as both
read a category whole.  Names and categories are numbers in the order of
strcmp().  `Tree` is the interface: a request is answered in one step from the
packages that are there.  TreeCache implements it; the compiled C code was
seen to behave as the model does where the two differ from `Tree`.

**EmergeLog.** The state that lasts is the log: a line has its time, its kind, its
package and, for the properties alone, who wrote it and which line of that writer
began what it ends.  `Write`, `GiveUp` and `Pass` are the emerge processes and the
time between them; `Settled` is what qlop_main makes of the options; `Scan` and
`Read` are the two passes of do_emerge_log as folds over the lines, one operator per
branch of the loop (`Counted`, `Dated`, `Sync`, `Merge`, `Unmerge`, `Completed`);
`Report` is the end.  A line is as good as written before the pass that meets it,
so the log grows between the passes.  Where the code has a set of names it asks that
set and not the atoms (`Wanted`): so it does with -l.  A value in a hash is TRUE when it is freed
memory.  Texts of lines are kinds; dates are numbers.

**Manifest.** `tree` is the ebuild tree (content and time per file), `man` the
Manifest of each directory, with the content of the Manifests it refers to in place
of their digests, so that a reference is stale when the contents differ.
`Generate` ... `TopWrite` are generate_dir() for the root, a subtree, a category
and a package, in the order of the code, one file or directory per step; `Kill` and
`PackageFails` end it early; in `PackageLoses` the disk is full when what is buffered of
a package's Manifest is written, which nobody looks at, or its old one cannot be opened:
the rename puts what there is in place all the same.  That a full disk shortens one of
the compressed Manifests (qmanifest.c:217, gzclose) or the top-level one is left out, and
a package without a Manifest is not told from one with an empty one.  `VerifyRoot` looks at the root; a thread's `Take`
verifies a directory, `Link` and `Advance` are the two halves of msgs_add(), `Load`
and `Store` those of `ret |= ...`, as nothing locks them.  `Take` verifies a directory in one step, and nothing is edited
while the tree is verified.  Signatures (gpgme), the
choice of hashes and the text of messages are left out, and so are IGNORE entries and
the directories of the root that have them (distfiles, local, packages, snapshots,
lost+found).

**DepTree.** The string is chosen token by token while the parser looks at it
(`Type`), which makes every string of the bound a behaviour; one action per case of
the switch in dep_grow_tree.  `nodes` is the tree in the order in which it grows.
`Write` prints it, `Reread` reads what was printed, with and without its optional
blanks, through the scanner `Tokenised`; `Forward`, `Backward`, `Resolve` and
`ResolveInstalled` are what qdepends asks.  The properties read the meaning off the
brackets of the string, never off the tree.

**Xpak.** An archive is a sequence of cells, so that lengths, offsets and what is
cut off are what they are in the file.  `Create`, `Argument`, `Open`, `AddFile`,
`Finish` are xpak_create(), with `Write` and `Delete` of others in between, full
disks in `AddFile` and `Finish`, and `Kill`; `Extract` is qxpak on the xpak or the
tbz2, `Join` and `Split` are qtbz2.  The data goes through a stream: at a full disk what
waits in its `Buffer` is lost, of whatever files it is (`Flushed`, `Until`), and later
data follows the gap.  A subdirectory of a packed directory is opened like a file: an
entry with a size (`DirSize`) and no data.  `Join` takes the size for the footer first
and looks at none of its copies, each of which may stop short.  Left out: that the
stream of the index loses something (xpak.c:255-260, 285), which moves all names; that
qtbz2 fails before it copies anything, with an empty file made.  `WalkIndex` stops at an
entry that passes the end of the index, where the code reads on: no index that
xpak_create writes has one.

The modules meet where one calls the other: QMerge takes MoveFile's contract (a
move either does it all or nothing, or is reported as failed), InstallMask's image
and PkgFetch's verified package as given.  PkgFetch's `EnterMerge` is QMerge's `Enter`, and its `OpenMeta` and `OpenImage` are where
QMerge has `Prepare`.
qdepends finds its packages with TreeCache's traversals and asks DepTree about each;
the archive PkgFetch verifies and QMerge unpacks is Xpak's tbz2.

## Runs

All runs end with every reachable state visited, in about three minutes at most.
"violated" marks a run that shows a disagreement between the code and what its
comments say.

| run | cfg | checks | shows |
|---|---|---|---|
| move_file | `MoveFile.cfg` | `DestinationWhole`, `NothingLost`, `ResultTrue`, `SourceLast` | a move is never partial, never loses data, says truly what it did and removes the source last, whichever call fails and wherever it is killed |
| qmerge | `QMerge.cfg` | `InstalledPresent`, `NoStray`, `OnePerSlot`, `CallOrder`, `ConfigKept`, `ReplacedStays`, `PendingKept`, `RunEnds` | what holds of root, VDB and pending updates over installs, upgrades and removals with a kill and an edit anywhere |
| qmerge_clash | `QMergeClash.cfg` | `NoStray` | the same where packages are at odds: file, directory and symlink of one name, moves that fail |
| pkg_fetch | `PkgFetch.cfg` | `VerifiedOnly`, `GoodKept` | what is unpacked in earnest was verified, though it is opened by name after its dependencies were fetched; good files are not thrown away |
| install_mask | `InstallMask.cfg` | `MaskedGo`, `OnlyMasked` | which files a list of masks takes |
| atom_compare | `Atom.cfg` | `VersionsOrdered`, `Antisymmetric`, `BlockersInvert`, `SortSound` | versions compare as in PMS, and the sort callback is an order |
| tree_cache | `TreeCache.cfg` | `ImplementsTree`, `NestedAnswered`, `CacheTrue`, `CallsReturn` | a cached tree answers as the plain one (`Tree`), nested requests included |
| emerge_log | `EmergeLog.cfg` | `PairsOwn`, `AllReported`, `LastOnly`, `RunningExact` | what qlop tells of interleaved and broken logs is true |
| log_reuse | `EmergeLogReuse.cfg` | `NoUseAfterFree`: violated | a package twice in the log leaves freed memory in a hash |
| manifest | `Manifest.cfg` | `VerifiedUnchanged`, `GeneratedVerifies`, `OnlyChanged`, `DistKept` | verification succeeds on what was hashed and on nothing else; generation is incremental and keeps DIST entries, but those of a package whose new Manifest was cut short unnoticed |
| dep_tree | `DepTree.cfg` | `GrownTrue`, `ReadBack`, `ListedTrue`, `ResolvedTrue` | tree, print-out, filter, query and resolution agree with the string |
| xpak | `Xpak.cfg` | `PackedRead`, `EarlierKept`, `SplitInverts` | archives read back, and damage stays behind the file it began with, or what waited with it |

**Bounds.** MoveFile: three blocks, so that a short count can be followed by a
failure before, at and after it.  QMerge: two versions of a package and a
dependency, up to six paths with one protected, `MaxRuns` = 4 (install, a
removal that may be killed, an install that may not see what that left, and a removal;
or install, upgrade, downgrade and unmerge), one kill (`MaxCrashes`) and one edit (`MaxEdits`)
anywhere, and two `._cfg` numbers (`CfgSlots`; the code has 10000).  Install,
edit, upgrade, reinstall and unmerge happen in every order within them.  The clash
instance has a file, a directory and a symlink of one name in three packages, the
VDB on another device, moves that fail and a single `._cfg` number; a kill leaves
CONTENTS out of step with the root in either.  PkgFetch: three packages, of which two need each other and one
has no digests, three calls of pkg_merge one in the other, so that a package is met again
while it waits to be opened; one run with every combination of options, from any files
an earlier one may have left, one swapped file.
InstallMask: every list of up to three masks out of sixteen on the image of the
code's own example, with a symlink, a mount and a second directory of one name
added.  Atom: about 85 versions (numbers with and without leading zeros, one of
them ending in two zeros, letters, suffixes of every kind and up to two, revisions) against each other under five
operators, and 63 packages that differ in category, name, slot, sub-slot,
repository and build; `SortSound` looks at triples of them.  TreeCache: five
packages in three categories, so that a category has two names and a name two
versions; three requests in a row (`MaxRequests`), which is one to leave the cache
partly filled, one to be misled by it and one to read what that left; callbacks
ask once per package.  EmergeLog: two (`MaxStarted`) of four kinds of emerge, six
lines, one of them after the first pass (`MaxGrowth`), which is room for an attempt
that is cut off and the one that succeeds, or for a start between the start and the
end of another; it is too little for the growth to matter to -l, for which the theorem is
there; `Tolerance` and `Stale` are scaled to a clock of six, so that one
gap is longer than either.  Manifest: six files in a package, a category, a
subtree of two levels and the root; two edits at any time but in a verification, one
kill, failure or loss, two generations, two interchangeable threads (`SYMMETRY`):
enough for an edit in each, or one undone, before, while and after a directory is hashed, and for two failing directories at once.  DepTree:
up to seven tokens over two words, which has conditionals in groups in conditionals
and every unbalanced bracket; one word contains brackets and signs that are no
tokens.  Xpak: up to four files of two directories, contents from nothing to longer
than the four-byte limit `SizeMax`, one of them a subdirectory, a name and an index too
long for the reader, a buffer of two cells, one fault anywhere; a "number of four bytes" is one cell.

`CHECK_DEADLOCK FALSE` is set everywhere: programs end.

**Fairness.** `RunEnds` assumes `WF_vars(Run)`: a process that is started goes on
by itself, as it waits for nobody but the operating system.  Kills, edits and new
runs are not fair: they need never happen.  A run over packages that depend on each
other in a circle does not end but with its stack: `Acyclic` is the precondition.  `CallsReturn` assumes `WF_vars(Step)`
likewise: a function that is called runs.  The other modules have no liveness
properties: their loops are bounded by a directory, a string or a file.

**Preconditions.** Where a property has one, the code does not keep the property
without it, and a section below says so: `~place.stopsShort` in MoveFile,
`OnePerSlot` while no run was cut short, `Acyclic` in
`RunEnds`, that nobody replaced the file in PkgFetch (`kept`, `replaced`), `Unambiguous`, `DeepLast` and `NoneBelowFiles`
in `MaskedGo`,
`Nesting` in TreeCache (callbacks ask again only in sorted traversals, and not of
ebuild trees), `NoLeadingZero`, `PatchedLast` and `~DigitLost` in the properties of
versions.  In
EmergeLog they are those the code's comments name: a log in the order of its times
(`Ordered`), no two processes that do the same at once (`~Clash`), emerges told
apart (`OneByOne`, `Apart`), and that an emerge writes its end; and that it is not -l
with atoms (`~FindsNothing`).  In Manifest
`Regular` is a tree without what qmanifest makes and then refuses, and `gen.short` has
the packages of which a part was lost; in Xpak `Fits`
has the limits of the reader, `Quiet` says that no file changed its size, and `torn`
that a tbz2 lost a part when it was joined.

**What the properties of QMerge excuse.**  `hurt` has the packages with an unmerge that
did not come to its end, and those that were registered in the slot of another while
that was unmerged; `torn` those with a merge cut short.  The first is needed because
rm_rf_at takes the files of an entry in no order: a kill after SLOT and before CONTENTS
leaves an entry that no tree lists, a merge of another version then does not replace it,
two versions are registered, and removing one takes files of the other.  TLC finds this
in four runs.  What is excused is the package itself, until it is merged or removed
again: its neighbours, and what the following runs make of the state, are not.

## Proofs

TLC's instances are small; the theorems hold for every value of the constants
that satisfies the modules' assumptions.

**MoveFileProofs**, for every size, set of failing calls and short counts.
`IInv` is the type invariant, `TempThere` (which of the files exist at which
call) and `CopyInv`: if sendfile() does not stop short, the temporary file is the
prefix of the source up to the read position while it is copied, and complete
from then on.  That the temporary file is a prefix is what makes the rest
inductive; the properties alone do not say what is in it before it is renamed.
`TypeCorrect`, `NeverPartial` (`DestinationWhole`), `DataSafe` (`NothingLost`),
`AnswerTrue` (`ResultTrue`) follow;
`SourceRemovedLast` needs no more than types and `TempThere`, and holds for short
counts as well.

**QMergeProofs**, for any packages, images, slots, prefixes and bounds.  `IInv` is
`TypeOK`, `Control` (which frame and which package a label of the program works
on) and `KeepInv`: while the image is merged, objs is exactly what was written to
CONTENTS, and while the old version is unmerged, what both have in common and has
not been met yet is still in objs.  `KeepInv` is the reason `ReplacedStays` holds:
del_set() takes a name out of objs when it is met, so "objs has all merged names"
is not an invariant.

- `TypeCorrect`: the types.
- `NewVersionStays`: `ReplacedStays`, assuming that no two names resolve to one
  file; without the assumption it is false (see qmerge.c:1883 below).
- `ProtectedStays`: `ConfigKept`.
- `UpdatesStay`: `PendingKept`; that a free number is found is the least-number
  principle on the natural numbers.

Its second part has what holds of whole runs.

- `PhasesInOrder`: `CallOrder`.  `RanInv` gives each label of the program the highest
  rank of a phase function that may have run by it; a merge that is begun within
  another one begins with none.
- `OneVersion`: `OnePerSlot`, assuming `OneVersionARun` and that the VDB entry is put
  in place at once or without failing moves.  `RunInv` says that what a run lists of a
  slot is of that slot and read after the run began, and that what is unmerged is what
  the frame replaces; `SlotInv` that, without a kill, whatever is registered beside
  what the tree listed was merged by this run, so that no version is replaced that the
  tree does not list.  Without `OneVersionARun` the tree, which is read once, hides
  the version merged first (qmerge.c:330 below).

Its third part is about the live root, assuming that no move fails, that the
directories of a resolved name are the resolved directories of the name (`Straight`),
and that packages agree on what is a directory (`Agree`).  `RootInv`: the root is a
tree (`TreeInv`), of the kinds the images have (`KindInv`); merge_tree_at is in a chain
of directories that exist and has left nothing in those it came out of (`WalkInv`);
the names merged and those still to merge are the image, and what is listed is listed
whole (`WholeInv`).

- `NoStrays`: `NoStray`.  `ClaimInv` adds that the names in objs are kept for what the
  new package has put in place.  A file that comes is the new package's; what a package
  has a claim on while it is installed, merged or unmerged is given up only when its
  entry goes, and then each of its files has been unlinked or is claimed by the
  package that replaces it.  Where packages clash or moves fail, qmerge_clash checks it.
- `FilesPresent`: `InstalledPresent`, if moreover a file belongs to packages of one
  slot (`OwnFiles`) and has one name (`OneName`), however often a run was killed and
  whatever it left registered.  While q is unmerged, a package that is registered in its
  slot is in `hurt` (`RivalInv`); any other has none of the files, by `OwnFiles`, but the
  one just merged, whose names objs keeps.

`OwnFiles` and `OneName` are needed: without them the file is unlinked for the other
package (qmerge.c:1907, 1883 below); and so is what `Rivals` excuses.  TLC checks on the instance of
qmerge that they hold there (`TheoremsApply` in MCQMerge).

**InstallMaskProofs**, for any image, lists of masks of any length and any relation
for fnmatch().

- `OnlyMaskedGo`: `OnlyMasked`, from `NamedInv`: what is entered in the mode "exclude"
  is named by an excluding mask or below what is.
- `MaskedGone`: `MaskedGo`.  `WalkInv`: what has gone is masked, what is left is not
  masked or below a directory still to be walked, and a directory is entered in the
  mode that the last of the masks for it or for one above it gives (`Entered`).  The
  proof found two cases that the property has to leave out, and TLC's masks did not
  have: an inclusion that matches nothing but follows a relative exclusion (`DeepLast`
  has relative masks come last), and a mask that goes on below what is a file
  (`NoneBelowFiles`): the file is kept for the inclusion of what cannot be in it.

**AtomProofs**, for versions of any length.  The value of a string of digits
(`Strtoll`) is any natural number, 0 for zeros alone, and names have any order
(`NameRank`, which tells them apart).

- `TypeCorrect`: the answer is one of the four equalities.
- `DirectionsAgree`: `Antisymmetric`.  Each stage answers -1, 0, 1 or nothing, and
  the opposite with its arguments swapped (`NumericFlips`, `LetterFlips`,
  `SuffixFlips`, `RevisionFlips`, `BuildFlips`); so the first stage that decides is
  the same in both directions (`FirstFlips`).  The off-by-one with leading zeros
  and the misplaced `_p` do not break it.
- `BlockersComplement`: `BlockersInvert`.  The stages do not depend on the blocker
  (`StepsSame`), and the operator it is turned into takes the other signs.
- `OrderOfPMS`: `VersionsOrdered`.  Each stage decides exactly as the part of PMS that
  it stands for (`NumericIsPMS`, `LetterIsPMS`, `SuffixIsPMS`), so the first to decide is
  the same (`FirstPart`, `VersionIsPMS`).
- `SortsSoundly`: `SortSound`.  The components and suffixes of a version are numbers
  (`ComponentIsNumber`) that the stages compare lexicographically (`NumericIsLex`,
  `SuffixIsLex`), also where _p is misplaced; an order of keys chains (`LexChain`), and
  so does one that a second one refines (`ThenChain`).  That the proof failed on
  `ComponentIsNumber` showed that 1.0 equals 1.100 (atom.c:1104 below).

**PackageProofs**, about the two modules that packages come from; `FetchSpec` is
PkgFetch's specification, `Spec` TreeCache's.

TreeCache, for any tree on disk, requests of any kind and number, and directories read
in any order.  `RequestsUsual`: a request with a version has a name, as all atoms have.

- `FlagsKept`: `FlagsTrue`, which is part of `CacheTrue`, whoever asks again.  A sort puts
  in order whatever it gets (`InOrder` counts what comes before an element; each
  count below the length comes once), an append resets the flag, and the flags of the
  arrays are of what is in them: `FlagsInv` adds the types, and that the array of
  categories has each `tree_cat_ctx` once.
- `CacheKept`: `CacheTrue`, where callbacks ask again in sorted traversals only
  (`SortedOnly`: such a traversal reads all categories before it calls back for the first, and
  a category before it calls back for its packages).  Between requests `CacheTrue` is
  about the cache alone; in the midst of one, `HeldInv` has to say which part was read:
  at most one category at a time, by the request on top of the stack (`Nested`); what is
  left of its directory is not held (`ReadInv`), of each name in every other category all
  or nothing is (`PkgsInv`); a traversal that knows no category leaves out none of what
  it has not come to (`CatsInv`); and a file's blocks come in the order of their categories
  (`LoadInv`), or one would be listed twice.  The run has no callbacks of ebuild trees; the
  theorem has.

- `CallbacksAnswered`: `NestedAnswered`, and `TreeImplemented`: `ImplementsTree`, where
  callbacks ask again in sorted traversals of all but ebuild trees (`SettledOnly`).
  `AnsInv` says of the request on top of the stack (`TopInv`) that what it was told so
  far has all that matches but what is still to come by its label, each once, nothing
  else, and in order if it sorts.  A request that waits for the one its callback made (`Waits`) finds its arrays as it left
  them (`Untouched`): in a settled traversal all it visits was read before, and a sort of what is in
  order moves nothing.  That `Reduced` of what was told is an answer of `Tree` is about
  sequences alone: a reduction keeps the order (`Picked`).

That the proof failed on `OpenCategory` showed that the model had a CASE whose guards
overlapped, so that TLA+ left open what TLC took for the first: corrected.

PkgFetch, for any index, dependencies in any circles, any options of the runs and any
number of runs, kills and swapped files.  `FetchInv` is the types and the claim that
makes the rest inductive: in a run in earnest, as long as nobody else replaced the file
of a call of pkg_merge, it is good and a digest vouches for it, at whatever depth the
call waits; and a file that is about to be unlinked and was not replaced since it was
looked at does not verify.

- `MergedAreVerified`: `VerifiedOnly`.  A call enters with a file that verifies, and that
  says that a digest was there and nothing was complained about (`RightIsGood`).  The
  steps of nested calls that write to its file are the sweep, which changes nothing
  (`SweptSame`), the unlink, which spares what verifies, and the download, which starts
  only where no file is.
- `GoodFilesStay`: `GoodKept`, from the same.

**ManifestProofs**, for any tree of files.  `IInv` says that Manifests are records,
that the directory worked on is a package's only while its Manifest is replaced
(`Placed`), and that what is about to replace it has its DIST entries (`Copied`), unless
some were lost unnoticed: without it the rename would lose them.  A step puts one Manifest
(`Replacing`) or adds an entry to one (`Amending`).

- `EntriesSurvive`: `DistKept`.  That a loss is of the package being written, and of no
  other one, is `gen.short` and `gen.dir`.
- `VerifiedTrue`: `VerifiedUnchanged`, for any number of threads.  `HashInv` says that a
  Manifest of the root that is whole is of what was last hashed of every file (what is
  still to be hashed by the generation is "fresh": in no Manifest it will refer to);
  `VerifyInv` that, as long as ret is 0, a file is as it was hashed, or its directory is
  still to be taken, or a thread is about to store a failure: threads store nothing
  else, and so no lock is needed.  That a directory which verifies has all of its files as hashed
  goes by induction along paths, as a least path that fails (`WFMin` on the natural
  numbers).  Of the tree, `TreeAssumption` says that no file is in a file, that paths
  have a greatest length, and that subtrees are directories of the root.
- `GeneratedTrue`: `GeneratedVerifies`.  `TimesInv` says that every time was once the
  clock's and none is 0, but of what has none yet.  `GenInv` is about a generation that
  has not failed: of what did not change since it began, a directory it has redone is
  complete (`Ok`), and one it is writing is complete but for the names still to do
  (`Partly`); it holds as long as nothing was lost (`gen.short` is empty), and `CutInv` says
  that no category's time is cut off then.  `PastInv` carries this over to what the last one to finish made of the
  tree as it is now (`Made`).  `SoundInv` says that in a verification of a tree that did
  not change ret stays 0 and no thread has anything to store: every directory they
  take verifies, again by a least path that does not (`VerifiesBelow`).
- `UnchangedKept`: `OnlyChanged`, from the same invariant and `SameInv`: a package's
  Manifest is the one of before, unless its files or DIST entries changed or the same one
  takes its place just now.  Above packages both generations wrote of the same files, and a
  greatest time is one time in whatever order they are met (`SubtreeAgain`, `MetaAgain`).

**EmergeLogProofs**, for any number of emerges, any scripts of theirs of any length,
any gaps between their lines and any options.  `EmergeLogAssumption` has the times
integers; `ScriptAssumption` says of Portage that it begins with "emerge", ends what it
began, once and not after it has exited, and that a name and counter are of one package.

- `PairsAreOwn`: `PairsOwn`, and `AllAreReported`: `AllReported`.  `LogInv` is about the
  log alone: it is in the order of each script, and an end comes after its one start.
  `ReadInv` is what holds after the first k lines of the second pass: what is on the
  lists of open merges was taken from these lines, in their order (`ListTaken`); a start
  whose end is still to come is on its list (`ListKept`), unless -r dropped it
  with all before it; every end that was asked for has its pair, and none two
  (`AllTold`, `OneEach`).  What is asked for is said of the log (`Sought`), and the names
  the first pass gathered are shown to be those.  The second is what a removal from the list may not break,
  and why what comes last with one id is the right one: between a start and its end
  nothing of its id starts (`NoneBetween`).
- `LastIsShown`: `LastOnly`.  `Tracked` says what the first pass knows after k lines:
  the time of the last emerge once it has done something, and that of the one before
  until then; `Marked` that what is reported on begins there.  As emerges begin with
  their own line (`HeadInv`), and are told apart by their times (`Apart`), what another
  one did lies before.  The log may grow between the passes (`PairsReadAll`).

**XpakProofs**, for any files, names and tarballs of any length.
`TarballAssumption` says that a compressed tarball does not begin as an xpak does.
`Layout` describes the archive by offsets: entry j stands in the index at p[j], the
index has its data begin at o[j], and it lies at q[j] of what was written; all three add
up, and o and q are the same as far as each file has what was counted of it.  What a
later file does leaves the entries before it in place, and what is lost of the stream
cuts the q off at its end (`LayoutCut`).  `XInv` adds what was written of it (`OutInv`), and that what was
read or split last is what would be read or split now (`MadeInv`).

- `SplittingInverts`: `SplitInverts`, by the arithmetic of the footer.
- `DamageStaysBehind`: `EarlierKept`.  As long as each file before it kept its size, the
  data of an entry is where the index says (`Steady`), and the walk over the index reads
  each entry in turn up to one that is refused (`ReadFromEntry`).
- `PackedIsRead`: `PackedRead`.  The callback's fold writes a name with the data of the
  last entry of that name, or of the first if names were given (`Stands`, `KeptAfter`); the
  lengths add up to the index (`Sums`); an archive at the end of a tbz2 is found as it is
  alone.

Folds over logs and archives are functions from sets of positions: what holds of the
set {1..k} for each k is stated for one k at a time, and `UpTo` takes it from 0 to the
end as a least number that fails.

`TypeOK` of MoveFile, QMerge and Atom is not among the runs' properties: it is proved.

Model-checked only: liveness (`RunEnds`, `CallsReturn`); `NoStray` where packages clash
or moves fail; DepTree, whose properties
compare recursions over trees, by induction over data, which the provers do not offer;
`RunningExact` of EmergeLog, which the instance's scripts have and others need not: two
starts of one name that an emerge left open are one to qlop.

## What the code does otherwise

With a run that shows it (log_reuse):

- set.c:390-391 says hash_add() returns the existing value when the key is there
  already; it also replaces it.  qlop.c takes what it got back for the old value and
  frees what it passed, which is now in the hash: the next line about the package,
  or the end of the report, uses freed memory.

In the models; where a precondition or a constant is named in brackets, TLC shows
the disagreement without it, or with it:

- copy_file.c:62-63 "rewinds the fd", the source's only: after a short sendfile()
  the fallback appends the file a second time, and returns 0 (`~stopsShort`).
- qmerge.c:1883 protects the files of the new version by name: with /lib a symlink
  to /lib64 the file just installed is unlinked (the names' `Loc` must differ).
- atom.c:471 stores the index of a suffix, where that of `_p` is the value for "no
  suffix": 1_p equals 1, and 1_p1_alpha equals 1_p1 (`PatchedLast`).
- tree.c:1613: a request from the callback of an unsorted traversal is answered from
  a category that is half read, or reads it a second time, after which its packages
  are cached twice; `qdepends -iR` asks so (`Nesting <- Qdepends`).
- tree.c:1701: a full traversal of an ebuild category after a lookup of one of its
  names reads through NULL (`crashed` in TreeCache).
- qdepends.c:232, 248: with `-v -Q` the NULL that array_for_each leaves (array.h:35)
  counts as a match: packages without any atoms are listed (`~answer.verbose`).
- qmerge.c:510 promises that the last match decides; a mask of fewer components is
  decided before one of more, whatever their order (`DeepLast`).
- atom.c:1104 counts one character too few for components with a leading zero:
  1.011 equals 1.012 (`NoLeadingZero`).  So it does when one component is 0: 1.0
  equals 1.100, with 1.1 between them, and no sort can be right (`DigitLost`).
- qlop.c: with the default `-u`, without -U or -E, the unmerge of an old run that was
  cut off is paired with the success of a later autoclean (the precondition of
  `PairsOwn`); `-E` keeps the mark of an upgrade that never completed.
- qlop.c:569: a "terminating" counts as the end of one more emerge when it is near an
  "exiting", which is the wrong way round: one that had no "exiting" is not counted, and what its
  emerge began is shown as running (`RunningExact`).
- qmanifest.c:1283 stops comparing when the directory's names end, so a listed file
  after the last name is not missed, although 1276-1280 has both lists compared.
- qmanifest.c: empty files, other files in packages, and empty directories are
  generated and then fail the verification (`Regular`).
- qmanifest.c: messages of two threads may be lost, and `ret |= ...` may in principle
  lose a failure; the property holds because only failures are stored where
  directories have Manifests.
- xpak.c: a name of 100 or more characters, an index of BUFSIZ or more, or empty
  files only make an archive that cannot be read; a file too big for an int is stored
  as empty (`Fits`).
- xpak.c: what is copied is not counted: a file that changes its size, or a full disk,
  shifts all that follows (`Quiet`), as does a subdirectory, which has a size and no data;
  a full disk also loses what still waits of the files before it; the output is truncated first, so a kill loses
  the archive it was to replace; XPAKSTOP is never looked at, so an xpak that is cut
  off inside a tbz2 may take its footer for data.
- qtbz2.c:110, 118, 121: the size of the xpak is taken before it is copied, and what is
  copied is not counted: a full disk makes a tbz2 that succeeds and cannot be read (`torn`).
- qtbz2 with -x or -t and two names writes both parts.
- qmerge.c:1624 runs the pkg_prerm of the new version where that of the old one
  was meant: 1776-1778 skips the latter's because it "will have" been called.
- qmerge.c:2059 counts `install` up in the rehearsal, so an interactive run merges
  dependencies without `QMERGE` being set.
- qmerge.c:460 compares one component per level: a mask also removes what it
  names below another directory.
- tree.c:1607: a callback that looks up another name of the same ebuild category
  moves the packages its caller visits by index, some of which are skipped (hence
  no "ebuild" in `Nesting`).
- qmerge.c:2122, 2077: a binpkg is verified by its name and opened by it later, twice; a
  forced download looks at a file and unlinks what has its name by then: what another
  program puts there in between is unpacked unverified, or lost (`kept`, `replaced`).
- qmerge.c:1196: packages that need each other in a circle are entered until the stack
  is exhausted: neither that they are installed nor that they are being merged is looked
  at (`Acyclic`).
- qmanifest.c:692-696: fflush() and fclose() are not looked at, and the rename is done
  whatever they return: a full disk replaces a good Manifest by one that is cut short,
  and its DIST entries are gone; so they are when the old one exists and cannot be opened
  (657) (`gen.short`).
- qlop.c:465-482: with -l (or -E) and atoms the set of names is there and empty, and the
  two passes ask it and not the atoms (769, 921): nothing is reported (`FindsNothing`).
- qmerge.c:1966 looks at the size of the wrong path: empty binpkgs are never swept.
- move_file.c:66 returns without removing the temporary file when fchown() or
  fchmod() fails; so does a failing rename.
- xmkdir.c:76 opens with O_NOFOLLOW and gives up: a masked symlink stays.
- atom.c:812: `!perl:0/5.28` goes past slots that differ and matches every perl;
  `!=foo-1` matches nothing; `a:0` is not `a:0/0` because sub-slots are told
  apart by pointer.
- qmerge.c:330: two targets of one slot in one run both stay registered, as the
  VDB tree is read once; qmerge.c:1907: a file that a package of another slot owns,
  too, is unlinked.

Seen while reading, outside the models:

- `qxpak -c xpak .` packs its own temporary file, and does not end while there is
  room on the disk when enough was packed before it; `qxpak -c -d DIR out subdir`
  lists subdir in the current directory, and packs nothing.
- qpkg: archives have no metadata (its path is taken from PKGDIR); the cached
  CONTENTS is cut by strtok_r (tree.c:1217), so that a package packed twice in a run
  has one file; `-c` closes args->vdb twice; tar's status is ignored; for virtual/
  and acct-* packages an existing archive is overwritten.
- tree.c:1374: the cached SLOT is cut at its slash, and its later readers get the rest.
- qlop.c:1533 has no effect ("calculate intersection"), and what it makes of the atoms
  that run may tell of one twice; `-p` with one merge in the log prints nothing, though the
  comment has an estimate of ten per cent more.
- qmanifest.c:527-533 compares "metadata" with "/metadata": the IGNORE entries of
  timestamps are never written; `distfiles` and the like get an IGNORE and a MANIFEST entry; an
  expired signature is a success.
- dep_resolve_tree: what it does with blockers has no caller.

## Not modelled

- What runs outside of portage-utils: the shell of the phase functions, wget, tar,
  and other programs that write to the root during a merge.  The administrator
  acts between runs.
- Two qmerge processes at once: nothing is locked, and the code promises nothing.
- Text: messages, colors, formats, option parsing.
- File modes, owners and times, except that setting them may fail.
- sizes as numbers (atoi of SIZE), digests as strings.
- CONTENTS and qcheck, and the configuration in main.c: candidates for the next
  modules; the first is one pass over lines, the second one over files of settings.
- The metadata of a package (tree.c, from the md5-cache, the ebuild, the VDB), which
  is read in one go and then looked up.
- atom_explode() and atom_format(): passes over characters.  What the comparison
  makes of suffixes, revisions and leading zeros is in Atom.
- qpkg, and what only reads, filters and prints (qlist, qwhich, qsearch, qgrep, quse,
  qkeyword, qfile, qsize, qatom, qglsa, qtegrity).
- The vendored gnulib, more than half of the lines of C in the repository.

## Plan

Done, in this order, as what changes a system comes first and everything depends on
atoms and trees: `MoveFile`, `QMerge`, `PkgFetch`, `InstallMask`, `Atom`,
`TreeCache`; then the components that keep files of their own, `EmergeLog`,
`Manifest`, `DepTree`, `Xpak`.

Next, if the project grows: `Contents` (qcheck -u rewriting CONTENTS while files are
edited), `TreeMeta` (metadata read on demand), `Config` (the layers of make.conf,
profiles and environment), and an abstract package manager (a set of installed
packages per slot, an atomic install and remove) that QMerge implements while no run
is cut short.

Theorems still worth proving: the refinement of TreeCache for callbacks of ebuild
traversals, where the code keeps it.  Where induction over data is
needed, a least counterexample on the natural numbers stands in for it, as in
ManifestProofs, EmergeLogProofs and XpakProofs.
