------------------------------- MODULE Manifest -------------------------------
(***************************************************************************)
(* qmanifest: generate_dir() writes a thick Manifest into every directory  *)
(* of an ebuild tree, verify_dir() checks the tree against them.  Files    *)
(* are edited between and during the runs, a run may be killed, and the    *)
(* directories of the root are verified by several threads.                *)
(***************************************************************************)
EXTENDS Integers, Sequences, FiniteSets

CONSTANTS
  Files,       \* the paths, sequences of names
  Names,       \* all names, as a sequence in the order of strcmp
  Subtrees,    \* the directories of the root with one Manifest for all below
  Listed,      \* the names a package's Manifest lists, those in files/ apart
  Contents, Empty,   \* what a file may hold; Empty is a member
  New,           \* the files that are not there at first
  Threads, MaxEdits, MaxKills, MaxRuns

Absent == 0
Prefix(dir, f) == Len(dir) < Len(f) /\ SubSeq(f, 1, Len(dir)) = dir
Below(dir) == {f \in Files : Prefix(dir, f)}
Without(dir, f) == SubSeq(f, Len(dir) + 1, Len(f))
RootDirs == {f[1] : f \in {f \in Files : Len(f) > 1}}
Categories == RootDirs \ Subtrees
Packages == {SubSeq(f, 1, 2) : f \in {f \in Files : Len(f) > 2 /\ f[1] \in Categories}}
Dirs == {<<>>} \cup {<<n>> : n \in RootDirs} \cup Packages   \* those with a Manifest
AllDirs == UNION {{SubSeq(f, 1, k) : k \in 0..Len(f) - 1} : f \in Files}
Order == UNION {{<<Names[i], Names[j]>> : i \in 1..(j - 1)} : j \in DOMAIN Names}
Before(a, b) == <<a, b>> \in Order
Greatest(S) == CHOOSE x \in S : \A y \in S : y <= x

ASSUME ManifestAssumption ==
  /\ Files \subseteq Seq({Names[i] : i \in DOMAIN Names}) /\ Empty \in Contents
  /\ {MaxEdits, MaxKills, MaxRuns} \subseteq Nat
\* The files make a tree, of which one is the deepest; the subtrees are directories.
ASSUME TreeAssumption ==
  /\ <<>> \notin Files /\ \A f, g \in Files : ~Prefix(f, g)
  /\ Files # {} => \E f \in Files : \A g \in Files : Len(g) <= Len(f)
  /\ Subtrees \subseteq RootDirs

VARIABLES
  tree,      \* content and mtime of every file
  man,       \* the Manifests: what they hold, whole or partly written, and mtime
  top,       \* the top-level Manifest: the Manifest.files.gz it is for
  pc,        \* where qmanifest is
  gen,       \* the locals of generate_dir
  ver,       \* the locals of verify_dir for the root, the messages, the threads
  clock, edits, kills, runs,
  seen,      \* what of each file was last hashed, and what the last generation that
  before     \* finished with nothing lost made: only the properties read these two
vars == <<tree, man, top, pc, gen, ver, clock, edits, kills, runs, seen, before>>
ghosts == <<seen, before>>
counts == <<clock, edits, kills, runs>>

Nothing == [data |-> {}, subs |-> {}, dist |-> {}, whole |-> FALSE]
NoGen == [todo |-> {}, dir |-> <<>>, sub |-> {}, tv |-> 0, subtv |-> 0, cut |-> 0, new |-> Nothing,
          newtv |-> 0, short |-> {}, began |-> 0]
NoVer == [ret |-> 0, work |-> {}, next |-> {}, tail |-> "",
          th |-> [t \in Threads |-> [at |-> "free", sub |-> "", bad |-> 0, seen |-> 0]]]
-----------------------------------------------------------------------------
(***************************************************************************)
(* The tree.  A directory stays when its files go.                         *)
(***************************************************************************)
Exists(f) == tree[f].c # Absent
Under(dir) == {f \in Below(dir) : Exists(f)}
Entry(dir, f) == <<Without(dir, f), tree[f].c>>
Entries(dir, S) == {Entry(dir, f) : f \in S}
Latest(S) == Greatest({0} \cup {tree[f].m : f \in S})
\* list_dir: what is in a directory, dotfiles and Manifests left out.
ListDir(dir) ==
  {f[Len(dir) + 1] : f \in {f \in Below(dir) : Exists(f) \/ Len(f) > Len(dir) + 1}}

Edit(f) ==
  /\ edits < MaxEdits /\ pc \notin {"verify", "verified"}
  /\ \E c \in (Contents \cup {Absent}) \ {tree[f].c} :
       tree' = [tree EXCEPT ![f] = [c |-> c, m |-> clock + 1]]
  /\ clock' = clock + 1 /\ edits' = edits + 1
  /\ UNCHANGED <<man, top, pc, gen, ver, kills, runs, ghosts>>
-----------------------------------------------------------------------------
(***************************************************************************)
(* generate_dir().  A Manifest that is being written is there, in part.    *)
(***************************************************************************)
Hashed(S) == seen' = [f \in Files |-> IF f \in S THEN tree[f].c ELSE seen[f]]

\* Manifest.files.gz is opened, which empties it, and the root is listed.
Generate ==
  /\ pc = "idle" /\ runs < MaxRuns
  /\ runs' = runs + 1 /\ clock' = clock + 1
  /\ man' = [man EXCEPT ![<<>>] = [c |-> Nothing, m |-> clock']]
  /\ gen' = [NoGen EXCEPT !.todo = ListDir(<<>>), !.began = clock']
  /\ pc' = "root"
  /\ UNCHANGED <<tree, top, ver, edits, kills, ghosts>>

\* Mutant of Done: the Manifest of the root keeps the time at which it is written.
Done_Now(dir, content, tv) ==
  [man EXCEPT ![dir] = [c |-> content, m |-> IF tv # 0 /\ dir # <<>> THEN tv ELSE clock]]
\* A Manifest gets the time of the latest file in it, if there is one.
Done(dir, content, tv) ==
  [man EXCEPT ![dir] = [c |-> content, m |-> IF tv # 0 THEN tv ELSE clock]]

\* The Manifest of a directory of the root is added to Manifest.files.gz.
Referred(g, n, m) == [g EXCEPT !.todo = @ \ {n}, !.tv = Greatest({@, m[<<n>>].m})]
\* Mutant of AddSub: it is hashed while it is open, and not all written.
AddSub_Open(m, dir, n) ==
  [m EXCEPT ![dir].c.subs = @ \cup {<<<<n>>, [m[dir \o <<n>>].c EXCEPT !.whole = FALSE]>>}]
AddSub(m, dir, n) == [m EXCEPT ![dir].c.subs = @ \cup {<<<<n>>, m[dir \o <<n>>].c>>}]

\* The next name of the root: a file is hashed, if it is still there.
RootFile ==
  /\ pc = "root"
  /\ \E n \in gen.todo \ RootDirs :
       /\ \A o \in gen.todo \ {n} : Before(n, o)
       /\ man' = [man EXCEPT ![<<>>].c.data = @ \cup Entries(<<>>, {f \in {<<n>>} : Exists(f)})]
       /\ gen' = [gen EXCEPT !.todo = @ \ {n},
                             !.tv = Greatest({@, Latest({f \in {<<n>>} : Exists(f)})})]
       /\ Hashed({<<n>>})
  /\ UNCHANGED <<tree, top, pc, ver, counts, before>>

\* A subtree: every file below it.  The Manifest is open while they are hashed.
SubtreeOpen ==
  /\ pc = "root" /\ gen.dir = <<>>
  /\ \E n \in gen.todo \cap Subtrees :
       /\ \A o \in gen.todo \ {n} : Before(n, o)
       /\ man' = [man EXCEPT ![<<n>>] = [c |-> Nothing, m |-> clock]]
       /\ gen' = [gen EXCEPT !.dir = <<n>>]
  /\ UNCHANGED <<tree, top, pc, ver, counts, ghosts>>

SubtreeClose ==
  /\ pc = "root" /\ gen.dir # <<>>
  /\ LET dir == gen.dir
         m == Done(dir, [Nothing EXCEPT !.data = Entries(dir, Under(dir)), !.whole = TRUE],
                   Latest(Under(dir)))
     IN /\ man' = AddSub(m, <<>>, dir[1])
        /\ gen' = [Referred(gen, dir[1], m) EXCEPT !.dir = <<>>]
        /\ Hashed(Below(dir))
  /\ UNCHANGED <<tree, top, pc, ver, counts, before>>

CategoryOpen ==
  /\ pc = "root" /\ gen.dir = <<>>
  /\ \E n \in gen.todo \cap Categories :
       /\ \A o \in gen.todo \ {n} : Before(n, o)
       /\ man' = [man EXCEPT ![<<n>>] = [c |-> Nothing, m |-> clock]]
       /\ gen' = [gen EXCEPT !.dir = <<n>>, !.sub = ListDir(<<n>>), !.subtv = 0]
  /\ pc' = "category"
  /\ UNCHANGED <<tree, top, ver, counts, ghosts>>

CategoryFile ==
  /\ pc = "category"
  /\ \E n \in gen.sub :
       LET f == gen.dir \o <<n>> IN
       /\ f \in Files /\ \A o \in gen.sub \ {n} : Before(n, o)
       /\ man' = [man EXCEPT ![gen.dir].c.data =
                    @ \cup Entries(gen.dir, {g \in {f} : Exists(g)})]
       /\ gen' = [gen EXCEPT !.sub = @ \ {n},
                             !.subtv = Greatest({@, Latest({g \in {f} : Exists(g)})})]
       /\ Hashed({f})
  /\ UNCHANGED <<tree, top, pc, ver, counts, before>>

\* What a package's Manifest lists: files/, the ebuilds, ChangeLog and metadata.xml.
InManifest(p) == {f \in Under(p) : f[3] = "files" \/ (Len(f) = 3 /\ f[3] \in Listed)}

\* The new Manifest is written beside the old one, whose DIST entries are copied.
\* Its time counts, too: it changes when a DIST entry does.
PackageWrite ==
  /\ pc = "category"
  /\ \E n \in gen.sub :
       LET p == gen.dir \o <<n>> IN
       /\ p \in Packages /\ \A o \in gen.sub \ {n} : Before(n, o)
       /\ gen' = [gen EXCEPT !.sub = @ \ {n}, !.dir = p,
                    !.new = [Nothing EXCEPT !.data = Entries(p, InManifest(p)),
                                            !.dist = man[p].c.dist, !.whole = TRUE],
                    !.newtv = Greatest({man[p].m, Latest(InManifest(p))})]
       /\ Hashed(Below(p))
  /\ pc' = "package"
  /\ UNCHANGED <<tree, man, top, ver, counts, before>>

\* The lines of files/ are written first, then the DIST entries, then the others: what
\* the end of the new Manifest is cut off leaves.
CutShort(new, d, t) ==
  LET aux == {e \in new.data : e[1][1] = "files"} IN
  /\ t # {} => aux \subseteq d
  /\ ~(d \subseteq aux) => t = new.dist

\* The disk is full when what is buffered is written, which nobody looks at, or the old
\* Manifest cannot be opened, which is taken for there being none.
PackageLoses ==
  /\ pc = "package" /\ kills < MaxKills
  /\ \E d \in SUBSET gen.new.data, t \in SUBSET gen.new.dist, full \in BOOLEAN :
       /\ IF full THEN CutShort(gen.new, d, t) ELSE d = gen.new.data /\ t = {}
       /\ d # gen.new.data \/ t # gen.new.dist
       /\ gen' = [gen EXCEPT !.new.data = d, !.new.dist = t, !.new.whole = ~full,
                             !.short = @ \cup {gen.dir}]
  /\ kills' = kills + 1
  /\ UNCHANGED <<tree, man, top, pc, ver, clock, edits, runs, ghosts>>

\* Mutant of Replaced: the old Manifest is emptied first, and filled in later.
Replaced_Emptied(p) == [man EXCEPT ![p] = [c |-> Nothing, m |-> clock]]
\* rename() puts the new one in its place ...
Replaced(p) == [man EXCEPT ![p] = [c |-> gen.new, m |-> clock]]
PackageRename ==
  /\ pc = "package"
  /\ man' = Replaced(gen.dir)
  /\ pc' = "times"
  /\ UNCHANGED <<tree, top, gen, ver, counts, ghosts>>

\* ... utimes() sets its time, and the category refers to it.
PackageTimes ==
  /\ pc = "times"
  /\ LET cat == <<gen.dir[1]>>
         m == Done(gen.dir, gen.new, gen.newtv)
     IN /\ man' = AddSub(m, cat, gen.dir[2])
        /\ gen' = [gen EXCEPT !.dir = cat, !.subtv = Greatest({@, m[gen.dir].m})]
  /\ pc' = "category"
  /\ UNCHANGED <<tree, top, ver, counts, ghosts>>

\* The new file cannot be made, filled or put in place: the category is finished without
\* the package, and is no result, so that the root stops there.  Its time so far is no
\* longer one to set, but remains the one to exceed.
PackageFails ==
  /\ pc = "package" /\ kills < MaxKills
  /\ kills' = kills + 1
  /\ gen' = [gen EXCEPT !.dir = <<gen.dir[1]>>, !.todo = {}, !.cut = gen.subtv]
  /\ pc' = "category"
  /\ UNCHANGED <<tree, man, top, ver, clock, edits, runs, ghosts>>

CategoryTime == IF gen.subtv > gen.cut THEN gen.subtv ELSE 0
CategoryClose ==
  /\ pc = "category" /\ gen.sub = {}
  /\ LET n == gen.dir[1]
         m == Done(gen.dir, [man[gen.dir].c EXCEPT !.whole = TRUE], CategoryTime)
     IN IF n \in gen.todo
        THEN /\ man' = AddSub(m, <<>>, n)
             /\ gen' = [Referred(gen, n, m) EXCEPT !.dir = <<>>]
             /\ pc' = "root"
        ELSE man' = m /\ gen' = NoGen /\ pc' = "idle"
  /\ UNCHANGED <<tree, top, ver, counts, ghosts>>

RootClose ==
  /\ pc = "root" /\ gen.dir = <<>> /\ gen.todo = {}
  /\ man' = Done(<<>>, [man[<<>>].c EXCEPT !.whole = TRUE], gen.tv)
  /\ pc' = "close"
  /\ UNCHANGED <<tree, top, gen, ver, counts, ghosts>>

\* The top-level Manifest is emptied, and written.
TopOpen ==
  /\ pc = "close"
  /\ top' = Nothing
  /\ pc' = "top"
  /\ UNCHANGED <<tree, man, gen, ver, counts, ghosts>>
TopWrite ==
  /\ pc = "top"
  /\ top' = man[<<>>].c
  /\ before' = IF gen.short = {} THEN [man |-> man, began |-> gen.began, runs |-> runs] ELSE before
  /\ gen' = NoGen /\ pc' = "idle"
  /\ UNCHANGED <<tree, man, ver, counts, seen>>

\* A developer adds a DIST entry to a thin Manifest.
AddDist(p) ==
  /\ pc = "idle" /\ edits < MaxEdits /\ "new" \notin man[p].c.dist
  /\ man' = [man EXCEPT ![p] = [c |-> [man[p].c EXCEPT !.dist = @ \cup {"new"}], m |-> clock + 1]]
  /\ clock' = clock + 1 /\ edits' = edits + 1
  /\ UNCHANGED <<tree, top, pc, gen, ver, kills, runs, ghosts>>

Kill ==
  /\ pc \notin {"idle", "verify", "verified"} /\ kills < MaxKills
  /\ kills' = kills + 1 /\ gen' = NoGen /\ pc' = "idle"
  /\ UNCHANGED <<tree, man, top, ver, clock, edits, runs, ghosts>>
-----------------------------------------------------------------------------
(***************************************************************************)
(* verify_dir() and verify_manifest().                                     *)
(***************************************************************************)
\* verify_file: a file without a byte cannot be told from one that is not there.
VerifyFile(f, c) == tree[f].c = c /\ c # Empty

\* The names listed are merged with those of the directory until the latter end:
\* a file that is listed and not there is found if a later one is there.
Joined(dir, m) ==
  LET listed == {e[1][1] : e \in m.data \cup m.subs}
      present == ListDir(dir)
  IN /\ present \subseteq listed
     /\ \A n \in listed \ present, p \in present : ~Before(n, p)
     /\ \A e \in m.data : Len(e[1]) = 1 /\ e[1][1] \in present => VerifyFile(dir \o e[1], e[2])

\* The entries of a subdirectory, in terms of it.
Within(m, n) ==
  [m EXCEPT !.data = {<<Tail(e[1]), e[2]>> : e \in {e \in m.data : Len(e[1]) > 1 /\ e[1][1] = n}},
            !.subs = {}]

SubDirs(dir, m) ==
  {e[1][1] : e \in m.subs \cup {e \in m.data : Len(e[1]) > 1}} \cap ListDir(dir)

\* What a subdirectory is verified with: its own Manifest if there is one, and else
\* the entries of the one above.
Governing(dir, m, n) ==
  IF \E e \in m.subs : e[1] = <<n>> THEN man[dir \o <<n>>].c ELSE Within(m, n)

\* A Manifest must be what it was when it was hashed.
Referenced(dir, m, n) == \A e \in m.subs : e[1] = <<n>> => man[dir \o <<n>>].c = e[2]

\* verify_dir and verify_manifest, which call each other: every directory they come to,
\* and what it is verified with.
Reached(dir, m) ==
  LET with[d \in {dir} \cup {d \in AllDirs : Prefix(dir, d)}] ==
        IF d = dir THEN {m}
        ELSE LET up == SubSeq(d, 1, Len(d) - 1)
                 n == d[Len(d)]
             IN {Governing(up, u, n) : u \in {u \in with[up] : n \in SubDirs(up, u)}}
  IN with

VerifyDir(dir, m) ==
  LET with == Reached(dir, m)
  IN \A d \in DOMAIN with : \A u \in with[d] :
       Joined(d, u) /\ \A n \in SubDirs(d, u) : Referenced(d, u, n)

\* A directory of the root.
VerifySub(m, n) == Referenced(<<>>, m, n) /\ VerifyDir(<<n>>, Governing(<<>>, m, n))

\* process_dir_vrfy: the top-level Manifest, Manifest.files.gz and the root.
VerifyRoot ==
  /\ pc = "idle"
  /\ LET m == man[<<>>].c
         same == top.whole /\ top = m
         joined == same /\ Joined(<<>>, m)
     IN ver' = [NoVer EXCEPT !.ret = IF joined THEN 0 ELSE 1,
                             !.work = IF same THEN SubDirs(<<>>, m) ELSE {},
                             !.next = IF joined THEN {} ELSE {<<"", "root">>},
                             !.tail = IF joined THEN "" ELSE "root"]
  /\ pc' = "verify"
  /\ UNCHANGED <<tree, man, top, gen, counts, ghosts>>

\* Mutant of Stores: what is below a Manifest of its own is or-ed in, too.
Stores_Always(n, ok) == TRUE
\* Does a thread touch ret?  For a directory with a Manifest only after a failure.
Stores(n, ok) == ~ok \/ ~\E e \in man[<<>>].c.subs : e[1] = <<n>>

\* A thread takes a directory of the root, and verifies all that is below it.
Take(t) ==
  /\ pc = "verify" /\ ver.th[t].at = "free"
  /\ \E n \in ver.work :
       LET ok == VerifySub(man[<<>>].c, n) IN
       ver' = [ver EXCEPT !.work = @ \ {n},
                 !.th[t] = IF ~Stores(n, ok) THEN @
                           ELSE [at |-> IF ok THEN "load" ELSE "link", sub |-> n,
                                 bad |-> IF ok THEN 0 ELSE 1, seen |-> 0]]
  /\ UNCHANGED <<tree, man, top, pc, gen, counts, ghosts>>

\* msgs_add: a failure is linked to the last message, and then becomes the last.
\* Nothing keeps another thread from doing the same in between.
Link(t) ==
  /\ ver.th[t].at = "link"
  /\ ver' = [ver EXCEPT !.next = {e \in @ : e[1] # ver.tail} \cup {<<ver.tail, ver.th[t].sub>>},
                        !.th[t].at = "last"]
  /\ UNCHANGED <<tree, man, top, pc, gen, counts, ghosts>>
Advance(t) ==
  /\ ver.th[t].at = "last"
  /\ ver' = [ver EXCEPT !.tail = ver.th[t].sub, !.th[t].at = "load"]
  /\ UNCHANGED <<tree, man, top, pc, gen, counts, ghosts>>

\* ret |= bad: ret is shared, and is loaded and stored without a lock.
Load(t) ==
  /\ ver.th[t].at = "load"
  /\ ver' = [ver EXCEPT !.th[t].seen = ver.ret, !.th[t].at = "store"]
  /\ UNCHANGED <<tree, man, top, pc, gen, counts, ghosts>>
Store(t) ==
  /\ ver.th[t].at = "store"
  /\ ver' = [ver EXCEPT !.ret = IF ver.th[t].seen = 1 THEN 1 ELSE ver.th[t].bad, !.th[t].at = "free"]
  /\ UNCHANGED <<tree, man, top, pc, gen, counts, ghosts>>

VerifyEnd ==
  /\ pc = "verify" /\ ver.work = {} /\ \A t \in Threads : ver.th[t].at = "free"
  /\ pc' = "verified"
  /\ UNCHANGED <<tree, man, top, gen, ver, counts, ghosts>>
-----------------------------------------------------------------------------
\* A tree with thin Manifests.
Init ==
  /\ tree = [f \in Files |-> [c |-> IF f \in New THEN Absent ELSE 1, m |-> 1]]
  /\ man = [d \in Dirs |-> [c |-> IF d \in Packages THEN [Nothing EXCEPT !.dist = {"old"}] ELSE Nothing,
                             m |-> 1]]
  /\ top = Nothing /\ pc = "idle" /\ gen = NoGen /\ ver = NoVer
  /\ clock = 1 /\ edits = 0 /\ kills = 0 /\ runs = 0
  /\ seen = [f \in Files |-> Absent] /\ before = [man |-> man, began |-> 0, runs |-> 0]

Generator ==
  \/ Generate \/ RootFile \/ SubtreeOpen \/ SubtreeClose
  \/ CategoryOpen \/ CategoryFile \/ PackageWrite \/ PackageLoses \/ PackageRename
  \/ PackageTimes \/ PackageFails \/ CategoryClose \/ RootClose \/ TopOpen \/ TopWrite
Verifier ==
  \/ VerifyRoot \/ VerifyEnd
  \/ \E t \in Threads : Take(t) \/ Link(t) \/ Advance(t) \/ Load(t) \/ Store(t)
Next ==
  \/ Generator \/ Verifier \/ Kill
  \/ \E f \in Files : Edit(f)
  \/ \E p \in Packages : AddDist(p)

Spec == Init /\ [][Next]_vars
-----------------------------------------------------------------------------
\* qmanifest.c:1632-1640, "check there are no files which shouldn't be there": where a
\* verification succeeds, every file is what it was when it was hashed, whatever was
\* edited before, between and during generations, and wherever one was killed.
VerifiedUnchanged ==
  (pc = "verified" /\ ver.ret = 0) => \A f \in Files : Exists(f) => tree[f].c = seen[f]

\* What qmanifest can make a Manifest of that it accepts: no file is empty, packages
\* have the usual files only, and no directory without a Manifest is empty.
Regular ==
  /\ \A f \in Files : tree[f].c # Empty
  /\ \A p \in Packages : Under(p) = InManifest(p)
  /\ \A f \in Files : \A n \in 1..(Len(f) - 1) :
       SubSeq(f, 1, n) \notin Dirs => Under(SubSeq(f, 1, n)) # {}

\* A tree that nobody changed since its generation began, which lost nothing, is verified,
\* whatever was killed, cut short or edited before.
GeneratedVerifies ==
  (/\ pc = "verified" /\ Regular /\ runs > 0 /\ before.runs = runs /\ man = before.man
   /\ \A f \in Files : tree[f].m <= before.began) => ver.ret = 0

\* A directory has a file to take the time of its Manifest from, or that of a package.
HasTime(d) == Under(d) # {} \/ \E p \in Packages : d = p \/ Prefix(d, p)

\* qmanifest.c:395-402, "this way we should keep updates limited to where changes are,
\* and also get reproducible mtimes": a generation leaves the Manifests as they were, with
\* their times, where nothing changed since the one before began and all have a time.
OnlyChanged == [][
  (/\ pc = "top" /\ pc' = "idle" /\ runs > 1 /\ before.runs = runs - 1 /\ kills' = kills
   /\ gen.short = {}) =>
    \A d \in Dirs :
      (/\ \A f \in Below(d) : tree[f].m <= before.began
       /\ \A p \in Packages : SubSeq(p, 1, Len(d)) = d => man[p].c.dist = before.man[p].c.dist
       /\ \A b \in Dirs : d = b \/ Prefix(d, b) => HasTime(b)) => man[d] = before.man[d]]_vars

\* qmanifest.c:659-660: only what verifies nothing in the tree, the DIST entries, cannot be
\* made again: they survive every generation, also one that is killed or fails, and all
\* that is done to other packages.  Where what was written or read for the package itself
\* was lost unnoticed (qmanifest.c:657, 692-693) they do not.
DistKept == [][\A p \in Packages :
  man[p].c.dist \subseteq man'[p].c.dist \/ (p \in gen.short /\ p = gen.dir)]_vars
=============================================================================
