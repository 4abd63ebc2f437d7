------------------------------ MODULE PkgFetch ------------------------------
(***************************************************************************)
(* qmerge.c: qmerge_main() without -U, up to where pkg_merge() opens the   *)
(* binpkg.  A run handles its targets once, or twice when it is            *)
(* interactive: a rehearsal, the question, and then in earnest.            *)
(* pkg_fetch() drops, downloads and verifies a binpkg and calls            *)
(* pkg_merge(), which goes through pkg_fetch() for what its RDEPEND needs  *)
(* before it opens the file again, by its name; what it does with it is    *)
(* module QMerge.  The files stay from run to run, and others may replace  *)
(* them between any two steps.                                             *)
(***************************************************************************)
EXTENDS Naturals, Sequences

CONSTANTS
  Pkg,        \* the packages the binhost's index lists
  Needs,      \* [Pkg -> SUBSET Pkg]: the binpkgs its RDEPEND resolves to
  Hashes,     \* [Pkg -> SUBSET {"MD5", "SHA1"}]: digests the index has
  Sized,      \* packages with a SIZE in the index
  Runs,       \* what the command line, FEATURES and the environment may say
  MaxDepth,   \* calls of pkg_merge one within the other
  MaxRuns, MaxSwaps,
  NoPkg

\* force: -f or -F; follow: no -O; qmerge: $QMERGE is set.
RunOptions == [force : BOOLEAN, pretend : BOOLEAN, interactive : BOOLEAN,
               follow : BOOLEAN, strict : BOOLEAN, qmerge : BOOLEAN]

\* A binpkg file: complete, cut short, of the right size but wrong, or empty.
Files == {"absent", "empty", "partial", "bad", "good"}

\* The values of pretend: in earnest, -p, and the rehearsal before the question.
Earnest == 0
Showing == 10     \* 1 without the question; nothing tells it from 10
Rehearsing == 100

ASSUME IndexAssumption ==
  /\ NoPkg \notin Pkg
  /\ Needs \in [Pkg -> SUBSET Pkg]
  /\ Hashes \in [Pkg -> SUBSET {"MD5", "SHA1"}]
  /\ Sized \subseteq Pkg
  /\ Runs \subseteq RunOptions
  /\ {MaxDepth, MaxRuns, MaxSwaps} \subseteq Nat

VARIABLES
  file,      \* [Pkg -> Files], on disk
  pc,
  opts,      \* the options of this run
  install, pretend,   \* globals of the program
  targets, todo,
  cur,       \* the package pkg_fetch has in hand
  merges,    \* the calls of pkg_merge, the innermost last: Merging
  opened,    \* what pkg_merge opened last, if anything: Opened
  replaced,  \* history: others replaced cur's file since pkg_fetch looked at it
  runs, swaps

\* kept (history): nobody else replaced the file since this call was made.
Merging == [pkg : Pkg, deps : SUBSET Pkg, kept : BOOLEAN]
Opened == [pkg : Pkg, part : {"vdb", "image"}, file : Files, kept : BOOLEAN,
           pretend : {Earnest, Showing}]

run == <<opts, targets, runs>>
fetchVars == <<file, pc, run, install, pretend, todo, cur, merges, opened, replaced, swaps>>

Labels == {"idle", "next", "sweep", "check", "unlink", "fetch", "verify", "image", "prompt"}

NoOptions == [o \in {"force", "pretend", "interactive", "follow", "strict", "qmerge"}
                |-> FALSE]

FetchInit ==
  /\ file \in [Pkg -> Files]
  /\ pc = "idle"
  /\ opts = NoOptions
  /\ install = FALSE /\ pretend = Earnest
  /\ targets = {} /\ todo = {} /\ cur = NoPkg
  /\ merges = <<>> /\ opened = {} /\ replaced = FALSE
  /\ runs = 0 /\ swaps = 0

-----------------------------------------------------------------------------
(* Verifying.                                                              *)

\* Complaints about SIZE, MD5 and SHA1.  Without a SIZE 0 is expected.
Mismatches(p, f) ==
  (IF p \in Sized THEN f \notin {"bad", "good"} ELSE f # "empty")
  \/ (Hashes[p] # {} /\ f # "good")

\* pkg_verify_checksums(): -1 without any digest, else 0 or the complaints.
Verdict(p, f) ==
  IF Hashes[p] = {} THEN "unknown"
  ELSE IF Mismatches(p, f) THEN "wrong" ELSE "right"

\* unlink_empty_at(): the size is taken by stat() of a path that is relative to
\* the root, in a process that is in PORTAGE_TMPDIR/portage: there is no such
\* file there.
StatFinds == FALSE
Swept(f) == IF f = "empty" /\ StatFinds THEN "absent" ELSE f

-----------------------------------------------------------------------------
(* The run.                                                                *)

Inner == merges[Len(merges)]
Outer == SubSeq(merges, 1, Len(merges) - 1)

\* qmerge_main: installing is the default, but following dependencies for real
\* takes $QMERGE.  An interactive run that is in earnest rehearses first.
Start ==
  /\ pc = "idle" /\ runs < MaxRuns
  /\ \E o \in Runs, ts \in SUBSET Pkg :
       /\ ts # {}
       /\ opts' = o /\ targets' = ts /\ todo' = ts
       /\ install' = (o.pretend \/ ~o.follow \/ o.qmerge)
       /\ pretend' = IF o.pretend THEN Showing
                     ELSE IF o.interactive THEN Rehearsing ELSE Earnest
  /\ opened' = {}
  /\ runs' = runs + 1
  /\ pc' = "next"
  /\ UNCHANGED <<file, cur, merges, replaced, swaps>>

\* The loops that call pkg_fetch: qmerge_run's over the targets, and that of the
\* innermost pkg_merge over its RDEPEND.
Waiting == IF merges = <<>> THEN todo ELSE Inner.deps
TargetsBut(p) == IF merges = <<>> THEN todo \ {p} ELSE todo
MergesBut(p) ==
  IF merges = <<>> THEN merges ELSE [merges EXCEPT ![Len(merges)].deps = @ \ {p}]

\* pkg_merge up to its walk over RDEPEND, called from where ms are under way.
EnterMerge(ms, p) ==
  /\ Len(ms) < MaxDepth
  /\ merges' = Append(ms, [pkg |-> p, deps |-> IF opts.follow THEN Needs[p] ELSE {},
                           kept |-> TRUE])

\* pkg_fetch under pretend: nothing is fetched or verified.
Rehearse ==
  /\ pc = "next" /\ pretend # Earnest
  /\ \E p \in Waiting : todo' = TargetsBut(p) /\ EnterMerge(MergesBut(p), p)
  /\ install' = TRUE
  /\ UNCHANGED <<file, pc, run, pretend, cur, opened, replaced, swaps>>

TakeUp ==
  /\ pc = "next" /\ pretend = Earnest
  /\ \E p \in Waiting : cur' = p /\ todo' = TargetsBut(p) /\ merges' = MergesBut(p)
  /\ pc' = "sweep"
  /\ UNCHANGED <<file, run, install, pretend, opened, replaced, swaps>>

Return == pc' = "next" /\ cur' = NoPkg
Exit == pc' = "idle" /\ cur' = NoPkg /\ merges' = <<>>

\* PKGDIR may be impossible to create.
Sweep ==
  /\ pc = "sweep"
  /\ file' = [file EXCEPT ![cur] = Swept(@)]
  /\ \/ pc' = "check" /\ UNCHANGED cur
     \/ Return
  /\ UNCHANGED <<run, install, pretend, todo, merges, opened, replaced, swaps>>

\* Mutant of Wanted: whatever is there is dropped.
Wanted_Never(p) == FALSE

\* May what is there be kept in a forced download?
Wanted(p) == Verdict(p, file[p]) = "right" \/ opts.qmerge

\* -f and -F do away with a file that does not verify, unless $QMERGE is set:
\* it is looked at, ...
Check ==
  /\ pc = "check"
  /\ pc' = IF opts.force /\ file[cur] # "absent" /\ ~Wanted(cur) THEN "unlink" ELSE "fetch"
  /\ replaced' = FALSE
  /\ UNCHANGED <<file, run, install, pretend, todo, cur, merges, opened, swaps>>

\* ... and what has that name by then is removed.
Unlink ==
  /\ pc = "unlink"
  /\ file' = [file EXCEPT ![cur] = "absent"]
  /\ pc' = "fetch"
  /\ UNCHANGED <<run, install, pretend, todo, cur, merges, opened, replaced, swaps>>

\* Mutant of Missing: a forced download does not look whether the file is there.
Missing_Forced(p) == file[p] = "absent" \/ opts.force

Missing(p) == file[p] = "absent"

\* Only a missing file is downloaded, and only echoed unless it is forced or to
\* be installed.  wget may fail, or leave anything it got so far.
Fetch ==
  /\ pc = "fetch"
  /\ IF Missing(cur) /\ (opts.force \/ install)
     THEN \E f \in Files : file' = [file EXCEPT ![cur] = Swept(f)]
     ELSE UNCHANGED file
  /\ IF file'[cur] = "absent" THEN Return ELSE pc' = "verify" /\ UNCHANGED cur
  /\ UNCHANGED <<run, install, pretend, todo, merges, opened, replaced, swaps>>

\* A file that is gone by now, or is wrong under FEATURES=strict, ends the program.
\* pkg_merge returns at once when install is not set.
Verify ==
  /\ pc = "verify"
  /\ IF file[cur] = "absent" THEN Exit
     ELSE \/ Verdict(cur, file[cur]) = "unknown" /\ Return /\ UNCHANGED merges
          \/ /\ Verdict(cur, file[cur]) = "wrong"
             /\ IF opts.strict THEN Exit ELSE Return /\ UNCHANGED merges
          \/ /\ Verdict(cur, file[cur]) = "right"
             /\ Return
             /\ IF install THEN EnterMerge(merges, cur) ELSE UNCHANGED merges
  /\ UNCHANGED <<file, run, install, pretend, todo, opened, replaced, swaps>>

\* The file of the innermost pkg_merge is opened by its name, for one of its parts.
\* What cannot be opened ends the program.
Open(part) ==
  LET m == Inner IN
  /\ file[m.pkg] # "absent"
  /\ opened' = {[pkg |-> m.pkg, part |-> part, file |-> file[m.pkg],
                 kept |-> m.kept, pretend |-> pretend]}

\* RDEPEND is done: the rehearsal goes no further, all else unpacks the metadata ...
OpenMeta ==
  /\ pc = "next" /\ merges # <<>> /\ Inner.deps = {}
  /\ \/ /\ pretend = Rehearsing
        /\ merges' = Outer /\ UNCHANGED <<pc, opened, cur>>
     \/ /\ pretend # Rehearsing
        /\ Open("vdb") /\ pc' = "image" /\ UNCHANGED <<merges, cur>>
     \/ /\ pretend # Rehearsing /\ file[Inner.pkg] # "good"
        /\ Exit /\ UNCHANGED opened
  /\ UNCHANGED <<file, run, install, pretend, todo, replaced, swaps>>

\* ... and then, the file opened once more, the image.
OpenImage ==
  /\ pc = "image"
  /\ \/ Open("image") /\ merges' = Outer /\ pc' = "next" /\ UNCHANGED cur
     \/ file[Inner.pkg] # "good" /\ Exit /\ UNCHANGED opened
  /\ UNCHANGED <<file, run, install, pretend, todo, replaced, swaps>>

\* All packages are handled: the question after a rehearsal, or the end.
EndPass ==
  /\ pc = "next" /\ merges = <<>> /\ todo = {}
  /\ pc' = IF pretend = Rehearsing THEN "prompt" ELSE "idle"
  /\ UNCHANGED <<file, run, install, pretend, todo, cur, merges, opened, replaced, swaps>>

\* After a yes the run is done again with pretend as it was.
Prompt ==
  /\ pc = "prompt"
  /\ \/ pc' = "next" /\ pretend' = Earnest /\ todo' = targets
     \/ pc' = "idle" /\ UNCHANGED <<pretend, todo>>
  /\ UNCHANGED <<file, run, install, cur, merges, opened, replaced, swaps>>

\* Killed; a download under way leaves what it got.
Kill ==
  /\ pc # "idle" /\ Exit
  /\ IF pc = "fetch" /\ Missing(cur) /\ (opts.force \/ install)
     THEN \E f \in Files : file' = [file EXCEPT ![cur] = f]
     ELSE UNCHANGED file
  /\ UNCHANGED <<run, install, pretend, todo, opened, replaced, swaps>>

\* Somebody else replaces or removes a binpkg, at any time.
Swap ==
  /\ swaps < MaxSwaps
  /\ \E p \in Pkg, f \in Files :
       /\ f # file[p] /\ file' = [file EXCEPT ![p] = f]
       /\ replaced' = (replaced \/ p = cur)
       /\ merges' = [i \in DOMAIN merges |->
                       [merges[i] EXCEPT !.kept = @ /\ merges[i].pkg # p]]
  /\ swaps' = swaps + 1
  /\ UNCHANGED <<pc, run, install, pretend, todo, cur, opened>>

FetchNext ==
  \/ Start \/ Rehearse \/ TakeUp \/ Sweep \/ Check \/ Unlink \/ Fetch \/ Verify
  \/ OpenMeta \/ OpenImage \/ EndPass \/ Prompt \/ Kill \/ Swap

FetchSpec == FetchInit /\ [][FetchNext]_fetchVars

-----------------------------------------------------------------------------
(* Properties.                                                             *)

\* pkg_verify_checksums (qmerge.c:2041, "never return if we couldn't verify any
\* hash"): pkg_merge verifies by name (2122) and opens that name again, twice, after
\* whatever its dependencies drop and download, the package itself among them.  What
\* is merged is still a complete file that a digest vouches for, unless somebody else
\* replaced it in between.
VerifiedOnly ==
  \A u \in opened :
    u.pretend = Earnest /\ u.kept => u.file = "good" /\ Hashes[u.pkg] # {}

\* Only -f and -F ever lose a binpkg that is there, and never one that verifies,
\* unless somebody put it there between the look (qmerge.c:2077) and the unlink (2079).
GoodKept ==
  [][\A p \in Pkg :
       file[p] # "absent" /\ file'[p] # file[p] /\ swaps' = swaps
         => opts.force /\ (Verdict(p, file[p]) # "right" \/ replaced)]_fetchVars

=============================================================================
