--------------------------- MODULE ManifestProofs ---------------------------
(***************************************************************************)
(* The DIST entries of a package survive every generation, and every kill: *)
(* a package's Manifest is only ever replaced by one that copied them, or  *)
(* of which some were lost on the way.                                     *)
(* And a tree that verifies is as it was hashed: a Manifest of the root    *)
(* that is whole is of what was last hashed of every file, what a          *)
(* directory is verified with is too, by induction along its path, and a   *)
(* thread whose directory does not verify makes ret 1 and never 0.         *)
(* The other way round, a tree that did not change since the generation    *)
(* that finished last began does verify: what a generation has redone is   *)
(* complete.  And what did not change is left as it was, times included:   *)
(* a directory's time is the greatest of what is below it.                 *)
(***************************************************************************)
EXTENDS Manifest, SequenceTheorems, WellFoundedInduction, TLAPS

Content(c) == [data |-> c.data, subs |-> c.subs, dist |-> c.dist, whole |-> c.whole]

\* Manifests and the locals of generate_dir are records.
Record(r) == r = [c |-> Content(r.c), m |-> r.m]
ManShaped(man1) == man1 = [d \in Dirs |-> man1[d]] /\ \A d \in Dirs : Record(man1[d])
GenShaped(g) ==
  g = [todo |-> g.todo, dir |-> g.dir, sub |-> g.sub, tv |-> g.tv,
       subtv |-> g.subtv, cut |-> g.cut, new |-> g.new, newtv |-> g.newtv,
       short |-> g.short, began |-> g.began]
Shaped == ManShaped(man) /\ GenShaped(gen)

\* The directory that is worked on is a package's when its Manifest is replaced only.
Placed ==
  /\ pc \in {"root", "category"} => gen.dir \notin Packages
  /\ pc \in {"package", "times"} => gen.dir \in Packages

\* The Manifest that is ready to take the place of the old one has its DIST entries, if
\* none were lost, and is the one in its place once renamed.
Copied ==
  /\ pc \in {"package", "times"} => gen.new = Content(gen.new)
  /\ pc = "package" => gen.dir \in gen.short \/ gen.new.dist = man[gen.dir].c.dist
  /\ pc = "times" => gen.new.dist = man[gen.dir].c.dist

IInv == Shaped /\ Placed /\ Copied

\* The paths of packages have two names.
LEMMA PackagesDeep == ASSUME NEW p \in Packages PROVE Len(p) = 2 /\ p \in Dirs
<1>1. PICK f \in Files : Len(f) > 2 /\ p = SubSeq(f, 1, 2)
  BY DEF Packages
<1>2. f \in Seq({Names[i] : i \in DOMAIN Names})
  BY ManifestAssumption
<1>3. Len(p) = 2
  BY <1>1, <1>2
<1> QED BY <1>3 DEF Dirs

LEMMA ShallowDirs == <<>> \notin Packages /\ \A n : <<n>> \notin Packages
BY PackagesDeep

\* DIST entries are kept from one set of Manifests to another.
KeptIn(m0, m1) == \A p \in Packages : m0[p].c.dist \subseteq m1[p].c.dist
Lost(p) == p \in gen.short /\ p = gen.dir
Keeps == \A p \in Packages : man[p].c.dist \subseteq man'[p].c.dist \/ Lost(p)
Puts(m0, m1, d, r) == m1 = [m0 EXCEPT ![d] = r]
Amends(m0, m1, d) == \E x : m1 = [m0 EXCEPT ![d].c.data = x] \/ m1 = [m0 EXCEPT ![d].c.subs = x]
SameElsewhere(m0, m1, d) == \A p \in Packages : p # d => m1[p] = m0[p]

\* The Manifest of one directory is replaced; if it is a package's, by one that has the
\* DIST entries.
LEMMA Replacing ==
  ASSUME NEW m0, NEW m1, NEW d, NEW r, ManShaped(m0), Record(r), Puts(m0, m1, d, r),
         d \in Packages => m0[d].c.dist \subseteq r.c.dist
  PROVE  ManShaped(m1) /\ KeptIn(m0, m1) /\ SameElsewhere(m0, m1, d)
<1> USE DEF Puts
<1>1. ManShaped(m1)
  BY DEF ManShaped
<1>2. SameElsewhere(m0, m1, d)
  BY PackagesDeep DEF ManShaped, SameElsewhere
<1>3. ASSUME NEW p \in Packages PROVE m0[p].c.dist \subseteq m1[p].c.dist
  <2>1. CASE p # d
    BY <1>2, <2>1 DEF SameElsewhere
  <2>2. CASE p = d
    <3>1. m1[p] = r
      BY <2>2, PackagesDeep DEF ManShaped
    <3> QED BY <2>2, <3>1
  <2> QED BY <2>1, <2>2
<1> QED BY <1>1, <1>2, <1>3 DEF KeptIn

\* An entry is added to the Manifest of a directory.
LEMMA Amending ==
  ASSUME NEW m0, NEW m1, NEW d, ManShaped(m0), Amends(m0, m1, d)
  PROVE  ManShaped(m1) /\ KeptIn(m0, m1) /\ SameElsewhere(m0, m1, d)
         /\ \A p \in Packages : m1[p].c.dist = m0[p].c.dist
<1> PICK x : m1 = [m0 EXCEPT ![d].c.data = x] \/ m1 = [m0 EXCEPT ![d].c.subs = x]
  BY DEF Amends
<1>1. CASE d \in Dirs
  <2>1. Record(m0[d])
    BY <1>1 DEF ManShaped
  <2>2. PICK r : Record(r) /\ r.c.dist = m0[d].c.dist /\ m1 = [m0 EXCEPT ![d] = r]
    <3>1. CASE m1 = [m0 EXCEPT ![d].c.data = x]
      <4>1. m1 = [m0 EXCEPT ![d] = [m0[d] EXCEPT !.c = [m0[d].c EXCEPT !.data = x]]]
        BY <3>1
      <4>2. Record([m0[d] EXCEPT !.c = [m0[d].c EXCEPT !.data = x]])
            /\ [m0[d] EXCEPT !.c = [m0[d].c EXCEPT !.data = x]].c.dist = m0[d].c.dist
        BY <2>1 DEF Record, Content
      <4> QED BY <4>1, <4>2
    <3>2. CASE m1 = [m0 EXCEPT ![d].c.subs = x]
      <4>1. m1 = [m0 EXCEPT ![d] = [m0[d] EXCEPT !.c = [m0[d].c EXCEPT !.subs = x]]]
        BY <3>2
      <4>2. Record([m0[d] EXCEPT !.c = [m0[d].c EXCEPT !.subs = x]])
            /\ [m0[d] EXCEPT !.c = [m0[d].c EXCEPT !.subs = x]].c.dist = m0[d].c.dist
        BY <2>1 DEF Record, Content
      <4> QED BY <4>1, <4>2
    <3> QED BY <3>1, <3>2
  <2>3. ManShaped(m1) /\ KeptIn(m0, m1) /\ SameElsewhere(m0, m1, d)
    BY <2>2, Replacing DEF Puts
  <2>4. m1[d] = r
    BY <1>1, <2>2 DEF ManShaped
  <2> QED BY <2>2, <2>3, <2>4 DEF SameElsewhere
<1>2. CASE d \notin Dirs
  <2>1. m1 = m0
    BY <1>2 DEF ManShaped
  <2> QED BY <2>1 DEF KeptIn, SameElsewhere
<1> QED BY <1>1, <1>2

LEMMA Chaining ==
  ASSUME NEW m0, NEW m1, NEW m2, KeptIn(m0, m1), KeptIn(m1, m2)
  PROVE  KeptIn(m0, m2)
BY DEF KeptIn

LEMMA NothingShaped == Nothing = Content(Nothing)
BY DEF Nothing, Content

LEMMA EmptyShaped == GenShaped(NoGen) /\ \A t : Record([c |-> Nothing, m |-> t])
BY DEF GenShaped, NoGen, Record, Content, Nothing

LEMMA InitIInv == Init => IInv
<1> SUFFICES ASSUME Init PROVE IInv
  OBVIOUS
<1>1. ManShaped(man)
  <2>1. Record([c |-> [Nothing EXCEPT !.dist = {"old"}], m |-> 1]) /\ Record([c |-> Nothing, m |-> 1])
    <3>1. ASSUME NEW n, n = Content(n)
          PROVE  Record([c |-> [n EXCEPT !.dist = {"old"}], m |-> 1])
      BY <3>1 DEF Record, Content
    <3> QED BY <3>1, NothingShaped, EmptyShaped
  <2>2. ASSUME NEW d \in Dirs PROVE Record(man[d])
    <3>1. CASE d \in Packages
      BY <2>1, <3>1 DEF Init
    <3>2. CASE d \notin Packages
      BY <2>1, <3>2 DEF Init
    <3> QED BY <3>1, <3>2
  <2>3. man = [d \in Dirs |-> [c |-> IF d \in Packages THEN [Nothing EXCEPT !.dist = {"old"}] ELSE Nothing,
                             m |-> 1]]
    BY DEF Init
  <2>4. man = [d \in Dirs |-> man[d]]
    BY <2>3
  <2> QED BY <2>2, <2>4 DEF ManShaped
<1>2. GenShaped(gen)
  BY DEF Init, GenShaped, NoGen, Content, Nothing
<1>3. Placed /\ Copied
  BY DEF Init, Placed, Copied
<1> QED BY <1>1, <1>2, <1>3 DEF IInv, Shaped

LEMMA GenerateStep == ASSUME IInv, Generate PROVE IInv' /\ KeptIn(man, man')
<1>1. Puts(man, man', <<>>, [c |-> Nothing, m |-> clock'])
  BY DEF Generate, Puts
<1>2. ManShaped(man') /\ KeptIn(man, man')
  BY <1>1, EmptyShaped, Replacing, ShallowDirs DEF IInv, Shaped
<1>3. GenShaped(gen') /\ gen'.dir = <<>>
  BY DEF Generate, NoGen, GenShaped
<1>4. Placed' /\ Copied'
  BY <1>3, ShallowDirs DEF Generate, Placed, Copied
<1> QED BY <1>2, <1>3, <1>4 DEF IInv, Shaped, ManShaped, GenShaped

LEMMA RootFileStep == ASSUME IInv, RootFile PROVE IInv' /\ KeptIn(man, man')
<1>1. PICK n : /\ man' = [man EXCEPT ![<<>>].c.data = @ \cup Entries(<<>>, {f \in {<<n>>} : Exists(f)})]
               /\ gen' = [gen EXCEPT !.todo = @ \ {n},
                                     !.tv = Greatest({@, Latest({f \in {<<n>>} : Exists(f)})})]
  BY DEF RootFile
<1>2. Amends(man, man', <<>>)
  BY <1>1 DEF Amends
<1>3. ManShaped(man') /\ KeptIn(man, man')
  BY <1>2, Amending DEF IInv, Shaped
<1>4. GenShaped(gen') /\ gen'.dir = gen.dir
  BY <1>1 DEF IInv, Shaped, GenShaped
<1>5. Placed' /\ Copied'
  BY <1>4 DEF RootFile, Placed, Copied, IInv
<1> QED BY <1>3, <1>4, <1>5 DEF IInv, Shaped, ManShaped, GenShaped

LEMMA SubtreeOpenStep == ASSUME IInv, SubtreeOpen PROVE IInv' /\ KeptIn(man, man')
<1>1. PICK n : /\ man' = [man EXCEPT ![<<n>>] = [c |-> Nothing, m |-> clock]]
               /\ gen' = [gen EXCEPT !.dir = <<n>>]
  BY DEF SubtreeOpen
<1>2. Puts(man, man', <<n>>, [c |-> Nothing, m |-> clock])
  BY <1>1 DEF Puts
<1>3. ManShaped(man') /\ KeptIn(man, man')
  BY <1>2, EmptyShaped, Replacing, ShallowDirs DEF IInv, Shaped
<1>4. GenShaped(gen') /\ gen'.dir = <<n>>
  BY <1>1 DEF IInv, Shaped, GenShaped
<1>5. Placed' /\ Copied'
  BY <1>4, ShallowDirs DEF SubtreeOpen, Placed, Copied
<1> QED BY <1>3, <1>4, <1>5 DEF IInv, Shaped, ManShaped, GenShaped

LEMMA CategoryOpenStep == ASSUME IInv, CategoryOpen PROVE IInv' /\ KeptIn(man, man')
<1>1. PICK n : /\ man' = [man EXCEPT ![<<n>>] = [c |-> Nothing, m |-> clock]]
               /\ gen' = [gen EXCEPT !.dir = <<n>>, !.sub = ListDir(<<n>>), !.subtv = 0]
  BY DEF CategoryOpen
<1>2. Puts(man, man', <<n>>, [c |-> Nothing, m |-> clock])
  BY <1>1 DEF Puts
<1>3. ManShaped(man') /\ KeptIn(man, man')
  BY <1>2, EmptyShaped, Replacing, ShallowDirs DEF IInv, Shaped
<1>4. GenShaped(gen') /\ gen'.dir = <<n>>
  BY <1>1 DEF IInv, Shaped, GenShaped
<1>5. Placed' /\ Copied'
  BY <1>4, ShallowDirs DEF CategoryOpen, Placed, Copied
<1> QED BY <1>3, <1>4, <1>5 DEF IInv, Shaped, ManShaped, GenShaped

LEMMA CategoryFileStep == ASSUME IInv, CategoryFile PROVE IInv' /\ KeptIn(man, man')
<1>1. PICK n : /\ man' = [man EXCEPT ![gen.dir].c.data =
                            @ \cup Entries(gen.dir, {g \in {gen.dir \o <<n>>} : Exists(g)})]
               /\ gen' = [gen EXCEPT !.sub = @ \ {n},
                                     !.subtv = Greatest({@, Latest({g \in {gen.dir \o <<n>>} : Exists(g)})})]
  BY DEF CategoryFile
<1>2. Amends(man, man', gen.dir)
  BY <1>1 DEF Amends
<1>3. ManShaped(man') /\ KeptIn(man, man')
  BY <1>2, Amending DEF IInv, Shaped
<1>4. GenShaped(gen') /\ gen'.dir = gen.dir
  BY <1>1 DEF IInv, Shaped, GenShaped
<1>5. Placed' /\ Copied'
  BY <1>4 DEF CategoryFile, Placed, Copied, IInv
<1> QED BY <1>3, <1>4, <1>5 DEF IInv, Shaped, ManShaped, GenShaped

Lists(m, x, b) == \E a : x = [m EXCEPT !.data = a, !.dist = b, !.whole = TRUE]

LEMMA Listing ==
  ASSUME NEW m, m = Content(m), NEW b, NEW x, Lists(m, x, b)
  PROVE  x = Content(x) /\ x.dist = b
<1> PICK a : x = [m EXCEPT !.data = a, !.dist = b, !.whole = TRUE]
  BY DEF Lists
<1>1. PICK y : y = [m EXCEPT !.data = a]
  OBVIOUS
<1>2. y = Content(y)
  BY <1>1 DEF Content
<1>3. PICK z : z = [y EXCEPT !.dist = b]
  OBVIOUS
<1>4. z = Content(z) /\ z.dist = b
  BY <1>2, <1>3 DEF Content
<1>5. x = [z EXCEPT !.whole = TRUE]
  BY <1>1, <1>3
<1> QED BY <1>4, <1>5 DEF Content

LEMMA PackageWriteStep == ASSUME IInv, PackageWrite PROVE IInv' /\ KeptIn(man, man')
<1>1. PICK n \in gen.sub :
        LET p == gen.dir \o <<n>> IN
        /\ p \in Packages
        /\ gen' = [gen EXCEPT !.sub = @ \ {n}, !.dir = p,
                     !.new = [Nothing EXCEPT !.data = Entries(p, InManifest(p)),
                                             !.dist = man[p].c.dist, !.whole = TRUE],
                     !.newtv = Greatest({man[p].m, Latest(InManifest(p))})]
  BY DEF PackageWrite
<1> DEFINE p == gen.dir \o <<n>>
           x == [Nothing EXCEPT !.data = Entries(p, InManifest(p)),
                                !.dist = man[p].c.dist, !.whole = TRUE]
<1>2. man' = man /\ pc' = "package"
  BY DEF PackageWrite
<1>3. KeptIn(man, man') /\ ManShaped(man')
  BY <1>2 DEF KeptIn, IInv, Shaped
<1>4. Nothing = Content(Nothing)
  BY NothingShaped
<1>5. Lists(Nothing, x, man[p].c.dist)
  BY DEF Lists
<1>6. x = Content(x) /\ x.dist = man[p].c.dist
  BY <1>4, <1>5, Listing
<1>7. GenShaped(gen') /\ gen'.dir = p /\ gen'.new = x
  <2> HIDE DEF x, p
  <2> QED BY <1>1 DEF IInv, Shaped, GenShaped, x, p
<1>8. Placed' /\ Copied'
  BY <1>1, <1>2, <1>6, <1>7 DEF Placed, Copied
<1> QED BY <1>3, <1>7, <1>8 DEF IInv, Shaped, ManShaped, GenShaped

LEMMA Finishing ==
  ASSUME NEW dir, NEW x, NEW tv, ManShaped(man), x = Content(x),
         dir \in Packages => man[dir].c.dist \subseteq x.dist
  PROVE  ManShaped(Done(dir, x, tv)) /\ KeptIn(man, Done(dir, x, tv))
<1> DEFINE r == [c |-> x, m |-> IF tv # 0 THEN tv ELSE clock]
<1>1. Puts(man, Done(dir, x, tv), dir, r)
  BY DEF Puts, Done
<1>2. Record(r) /\ r.c = x
  BY DEF Record
<1> HIDE DEF r
<1> QED BY <1>1, <1>2, Replacing

LEMMA Adding ==
  ASSUME NEW m, NEW dir, NEW n, ManShaped(m)
  PROVE  ManShaped(AddSub(m, dir, n)) /\ KeptIn(m, AddSub(m, dir, n))
<1>1. Amends(m, AddSub(m, dir, n), dir)
  BY DEF Amends, AddSub
<1> QED BY <1>1, Amending

Ends(c, x) ==
  x = [c EXCEPT !.whole = TRUE] \/ \E d : x = [c EXCEPT !.data = d, !.whole = TRUE]

LEMMA Ending == ASSUME NEW c, NEW x, c = Content(c), Ends(c, x) PROVE x = Content(x)
<1>1. PICK y : y = Content(y) /\ x = [y EXCEPT !.whole = TRUE]
  <2>1. CASE x = [c EXCEPT !.whole = TRUE]
    BY <2>1
  <2>2. CASE \E d : x = [c EXCEPT !.data = d, !.whole = TRUE]
    <3>1. PICK d : x = [c EXCEPT !.data = d, !.whole = TRUE]
      BY <2>2
    <3>2. PICK y : y = [c EXCEPT !.data = d]
      OBVIOUS
    <3>3. y = Content(y)
      BY <3>2 DEF Content
    <3>4. x = [y EXCEPT !.whole = TRUE]
      BY <3>1, <3>2
    <3> QED BY <3>3, <3>4
  <2> QED BY <2>1, <2>2 DEF Ends
<1> QED BY <1>1 DEF Content

LEMMA SubtreeCloseStep == ASSUME IInv, SubtreeClose PROVE IInv' /\ KeptIn(man, man')
<1> DEFINE x == [Nothing EXCEPT !.data = Entries(gen.dir, Under(gen.dir)), !.whole = TRUE]
           m == Done(gen.dir, x, Latest(Under(gen.dir)))
<1>1. /\ man' = AddSub(m, <<>>, gen.dir[1])
      /\ gen' = [Referred(gen, gen.dir[1], m) EXCEPT !.dir = <<>>]
      /\ pc = "root" /\ pc' = "root"
  BY DEF SubtreeClose
<1>2. x = Content(x)
  <2>1. Ends(Nothing, x)
    BY DEF Ends
  <2> QED BY <2>1, Ending, NothingShaped
<1>3. gen.dir \notin Packages
  BY <1>1 DEF IInv, Placed
<1>4. ManShaped(m) /\ KeptIn(man, m)
  <2> HIDE DEF x
  <2> QED BY <1>2, <1>3, Finishing DEF IInv, Shaped
<1> HIDE DEF m
<1>5. ManShaped(man') /\ KeptIn(man, man')
  BY <1>1, <1>4, Adding, Chaining
<1>6. GenShaped(gen') /\ gen'.dir = <<>>
  BY <1>1 DEF IInv, Shaped, GenShaped, Referred
<1>7. Placed' /\ Copied'
  BY <1>1, <1>6, ShallowDirs DEF Placed, Copied
<1> QED BY <1>5, <1>6, <1>7 DEF IInv, Shaped, ManShaped, GenShaped

\* Some lines of the new Manifest are lost.
LEMMA PackageLosesEffect ==
  ASSUME IInv, PackageLoses
  PROVE  /\ pc = "package" /\ UNCHANGED <<tree, man, top, pc, ver, clock, edits, runs, seen, before>>
         /\ GenShaped(gen') /\ gen'.dir \in gen'.short
         /\ gen'.todo = gen.todo /\ gen'.dir = gen.dir /\ gen'.sub = gen.sub /\ gen'.tv = gen.tv
         /\ gen'.subtv = gen.subtv /\ gen'.cut = gen.cut /\ gen'.newtv = gen.newtv
         /\ gen'.began = gen.began
         /\ gen'.new = Content(gen'.new)
         /\ gen'.new.data \subseteq gen.new.data /\ gen'.new.subs = gen.new.subs
<1>1. PICK d \in SUBSET gen.new.data, t \in SUBSET gen.new.dist, w \in BOOLEAN :
        gen' = [gen EXCEPT !.new.data = d, !.new.dist = t, !.new.whole = w,
                           !.short = @ \cup {gen.dir}]
  BY DEF PackageLoses
<1>2. gen.new = Content(gen.new) /\ pc = "package"
  BY DEF PackageLoses, IInv, Copied
<1>3. gen'.new = [data |-> d, subs |-> gen.new.subs, dist |-> t, whole |-> w]
  BY <1>1, <1>2 DEF IInv, Shaped, GenShaped, Content
<1>4. /\ GenShaped(gen') /\ gen'.dir = gen.dir /\ gen.dir \in gen'.short
      /\ gen'.todo = gen.todo /\ gen'.sub = gen.sub /\ gen'.tv = gen.tv
      /\ gen'.subtv = gen.subtv /\ gen'.cut = gen.cut /\ gen'.newtv = gen.newtv
      /\ gen'.began = gen.began
  BY <1>1 DEF IInv, Shaped, GenShaped
<1>5. gen'.new = Content(gen'.new)
  BY <1>3 DEF Content
<1>6. UNCHANGED <<tree, man, top, pc, ver, clock, edits, runs, seen, before>>
  BY DEF PackageLoses, ghosts
<1> QED
  BY <1>2, <1>3, <1>4, <1>5, <1>6

LEMMA PackageLosesStep == ASSUME IInv, PackageLoses PROVE IInv' /\ KeptIn(man, man')
<1>1. Placed' /\ Copied'
  BY PackageLosesEffect DEF IInv, Placed, Copied
<1> QED
  BY <1>1, PackageLosesEffect DEF IInv, Shaped, ManShaped, GenShaped, KeptIn

LEMMA PackageRenameStep == ASSUME IInv, PackageRename PROVE IInv' /\ Keeps
<1> DEFINE r == [c |-> gen.new, m |-> clock]
<1>1. Puts(man, man', gen.dir, r) /\ UNCHANGED gen /\ pc = "package" /\ pc' = "times"
  BY DEF PackageRename, Replaced, Puts
<1>2. /\ gen.dir \in Packages /\ gen.new = Content(gen.new)
      /\ gen.dir \in gen.short \/ gen.new.dist = man[gen.dir].c.dist
  BY <1>1 DEF IInv, Placed, Copied
<1>3. Record(r) /\ r.c = gen.new
  BY <1>2 DEF Record
<1>4. /\ man'[gen.dir] = r
      /\ \A d \in Dirs : d # gen.dir => man'[d] = man[d]
      /\ man' = [d \in Dirs |-> man'[d]]
  BY <1>1, <1>2, PackagesDeep DEF Puts, IInv, Shaped, ManShaped
<1> HIDE DEF r
<1>5. ManShaped(man')
  BY <1>3, <1>4 DEF IInv, Shaped, ManShaped
<1>6. Keeps
  BY <1>2, <1>3, <1>4, PackagesDeep DEF Keeps, Lost
<1>7. Placed' /\ Copied'
  BY <1>1, <1>2, <1>3, <1>4 DEF Placed, Copied
<1> QED BY <1>1, <1>5, <1>6, <1>7 DEF IInv, Shaped, ManShaped, GenShaped

LEMMA PackageTimesStep == ASSUME IInv, PackageTimes PROVE IInv' /\ KeptIn(man, man')
<1> DEFINE m == Done(gen.dir, gen.new, gen.newtv)
<1>1. /\ man' = AddSub(m, <<gen.dir[1]>>, gen.dir[2])
      /\ gen' = [gen EXCEPT !.dir = <<gen.dir[1]>>, !.subtv = Greatest({@, m[gen.dir].m})]
      /\ pc = "times" /\ pc' = "category"
  BY DEF PackageTimes
<1>2. gen.new = Content(gen.new) /\ gen.new.dist = man[gen.dir].c.dist
  BY <1>1 DEF IInv, Copied
<1>3. ManShaped(m) /\ KeptIn(man, m)
  BY <1>2, Finishing DEF IInv, Shaped
<1> HIDE DEF m
<1>4. ManShaped(man') /\ KeptIn(man, man')
  BY <1>1, <1>3, Adding, Chaining
<1>5. GenShaped(gen') /\ gen'.dir = <<gen.dir[1]>>
  BY <1>1 DEF IInv, Shaped, GenShaped
<1>6. Placed' /\ Copied'
  BY <1>1, <1>5, ShallowDirs DEF Placed, Copied
<1> QED BY <1>4, <1>5, <1>6 DEF IInv, Shaped, ManShaped, GenShaped

LEMMA PackageFailsStep == ASSUME IInv, PackageFails PROVE IInv' /\ KeptIn(man, man')
<1>1. GenShaped(gen') /\ gen'.dir = <<gen.dir[1]>>
  BY DEF PackageFails, IInv, Shaped, GenShaped
<1>2. Placed' /\ Copied'
  BY <1>1, ShallowDirs DEF PackageFails, Placed, Copied
<1>3. man' = man
  BY DEF PackageFails
<1> QED BY <1>1, <1>2, <1>3 DEF IInv, Shaped, ManShaped, GenShaped, KeptIn

\* The Manifest of a directory of the root, or of the root, is finished.
LEMMA Closing ==
  ASSUME NEW d, NEW tv, ManShaped(man), d \notin Packages
  PROVE  LET m == Done(d, [man[d].c EXCEPT !.whole = TRUE], tv)
         IN ManShaped(m) /\ KeptIn(man, m)
<1> DEFINE x == [man[d].c EXCEPT !.whole = TRUE]
           m == Done(d, x, tv)
<1>1. CASE d \in Dirs
  <2>1. x = Content(x)
    <3>1. Ends(man[d].c, x)
      BY DEF Ends
    <3>2. man[d].c = Content(man[d].c)
      BY <1>1 DEF ManShaped, Record
    <3> QED BY <3>1, <3>2, Ending
  <2>2. ManShaped(m) /\ KeptIn(man, m)
    <3> HIDE DEF x
    <3> QED BY <2>1, Finishing
  <2> QED BY <2>2
<1>2. CASE d \notin Dirs
  <2>1. m = man
    BY <1>2 DEF ManShaped, Done
  <2> QED BY <2>1 DEF KeptIn
<1> QED BY <1>1, <1>2

LEMMA CategoryCloseStep == ASSUME IInv, CategoryClose PROVE IInv' /\ KeptIn(man, man')
<1> DEFINE m == Done(gen.dir, [man[gen.dir].c EXCEPT !.whole = TRUE], CategoryTime)
<1>1. /\ \/ /\ man' = AddSub(m, <<>>, gen.dir[1])
            /\ gen' = [Referred(gen, gen.dir[1], m) EXCEPT !.dir = <<>>] /\ pc' = "root"
         \/ man' = m /\ gen' = NoGen /\ pc' = "idle"
      /\ gen.dir \notin Packages
  BY DEF CategoryClose, IInv, Placed
<1>2. ManShaped(m) /\ KeptIn(man, m)
  BY <1>1, Closing DEF IInv, Shaped
<1> HIDE DEF m
<1>3. ManShaped(man') /\ KeptIn(man, man')
  BY <1>1, <1>2, Adding, Chaining
<1>4. GenShaped(gen') /\ gen'.dir = <<>>
  BY <1>1, EmptyShaped DEF IInv, Shaped, GenShaped, Referred, NoGen
<1>5. Placed' /\ Copied'
  BY <1>1, <1>4, ShallowDirs DEF Placed, Copied
<1> QED BY <1>3, <1>4, <1>5 DEF IInv, Shaped, ManShaped, GenShaped

LEMMA RootCloseStep == ASSUME IInv, RootClose PROVE IInv' /\ KeptIn(man, man')
<1>1. man' = Done(<<>>, [man[<<>>].c EXCEPT !.whole = TRUE], gen.tv) /\ UNCHANGED gen /\ pc' = "close"
  BY DEF RootClose
<1>2. ManShaped(man') /\ KeptIn(man, man')
  BY <1>1, Closing, ShallowDirs DEF IInv, Shaped
<1>3. Placed' /\ Copied'
  BY <1>1 DEF Placed, Copied
<1> QED BY <1>1, <1>2, <1>3 DEF IInv, Shaped, ManShaped, GenShaped

LEMMA AddDistStep ==
  ASSUME IInv, NEW p \in Packages, AddDist(p) PROVE IInv' /\ KeptIn(man, man')
<1> DEFINE x == [man[p].c EXCEPT !.dist = @ \cup {"new"}]
           r == [c |-> x, m |-> clock + 1]
<1>1. UNCHANGED gen /\ pc' = "idle" /\ Puts(man, man', p, r)
  <2>1. UNCHANGED gen /\ pc' = "idle"
    BY DEF AddDist
  <2>2. man' = [man EXCEPT ![p] = r]
    BY Zenon DEF AddDist
  <2> QED BY <2>1, <2>2 DEF Puts
<1>2. man[p].c = Content(man[p].c)
  BY PackagesDeep DEF IInv, Shaped, ManShaped, Record
<1>3. x = Content(x) /\ man[p].c.dist \subseteq x.dist
  BY <1>2 DEF Content
<1>4. Record(r) /\ r.c = x
  <2> HIDE DEF x
  <2> QED BY <1>3 DEF Record
<1> HIDE DEF r, x
<1>5. ManShaped(man') /\ KeptIn(man, man')
  BY <1>1, <1>3, <1>4, Replacing DEF IInv, Shaped
<1>6. Placed' /\ Copied'
  BY <1>1 DEF Placed, Copied
<1> QED BY <1>1, <1>5, <1>6 DEF IInv, Shaped, ManShaped, GenShaped

\* What touches neither the Manifests nor the locals of generate_dir.
LEMMA Unaffected ==
  ASSUME IInv, UNCHANGED <<man, gen>>,
         pc' = pc \/ pc' \notin {"root", "category", "package", "times"}
  PROVE  IInv' /\ KeptIn(man, man')
BY DEF IInv, Shaped, ManShaped, GenShaped, Placed, Copied, KeptIn

LEMMA EndingRun ==
  ASSUME IInv, man' = man, gen' = NoGen, pc' = "idle" PROVE IInv' /\ KeptIn(man, man')
<1>1. GenShaped(gen')
  BY EmptyShaped
<1> QED BY <1>1 DEF IInv, Shaped, ManShaped, GenShaped, Placed, Copied, KeptIn

\* One step per action of Next.
LEMMA NextStep == ASSUME IInv, [Next]_vars PROVE IInv' /\ Keeps
<1>a. KeptIn(man, man') => Keeps
  BY DEF KeptIn, Keeps
<1>1. CASE Generator
  <2>1. CASE TopOpen
    BY <2>1, <1>a, Unaffected DEF TopOpen
  <2>2. CASE TopWrite
    BY <2>2, <1>a, EndingRun DEF TopWrite
  <2> QED
    BY <1>1, <1>a, <2>1, <2>2, GenerateStep, RootFileStep, SubtreeOpenStep, SubtreeCloseStep,
       CategoryOpenStep, CategoryFileStep, PackageWriteStep, PackageLosesStep,
       PackageRenameStep, PackageTimesStep, PackageFailsStep, CategoryCloseStep,
       RootCloseStep DEF Generator
<1>2. CASE Verifier
  <2>1. CASE VerifyRoot \/ VerifyEnd
    BY <2>1, <1>a, Unaffected DEF VerifyRoot, VerifyEnd
  <2>2. ASSUME NEW t \in Threads, Take(t) \/ Link(t) \/ Advance(t) \/ Load(t) \/ Store(t)
        PROVE  IInv' /\ KeptIn(man, man')
    <3>1. UNCHANGED <<man, gen, pc>>
      BY <2>2 DEF Take, Link, Advance, Load, Store
    <3> QED BY <3>1, Unaffected
  <2> QED BY <1>2, <1>a, <2>1, <2>2 DEF Verifier
<1>3. CASE Kill
  BY <1>3, <1>a, EndingRun DEF Kill
<1>4. ASSUME NEW f \in Files, Edit(f) PROVE IInv' /\ KeptIn(man, man')
  BY <1>4, Unaffected DEF Edit
<1>5. CASE \E p \in Packages : AddDist(p)
  BY <1>5, <1>a, AddDistStep
<1>6. CASE UNCHANGED vars
  BY <1>6, <1>a, Unaffected DEF vars
<1> QED BY <1>1, <1>2, <1>3, <1>4, <1>5, <1>6, <1>a DEF Next

\* No step of a generation, a kill or a failure included, of an edit or of a verification
\* takes a DIST entry out of a package's Manifest (qmanifest.c:659-660), but one that puts
\* in its place a new one of which lines were lost unnoticed (qmanifest.c:657, 692-693).
THEOREM EntriesSurvive == Spec => DistKept
<1>1. Init => IInv
  BY InitIInv
<1>2. IInv /\ [Next]_vars => IInv'
  BY NextStep
<1>3. IInv /\ [Next]_vars => [\A p \in Packages :
         man[p].c.dist \subseteq man'[p].c.dist \/ (p \in gen.short /\ p = gen.dir)]_vars
  BY NextStep DEF Keeps, Lost
<1> QED BY <1>1, <1>2, <1>3, PTL DEF Spec, DistKept
-----------------------------------------------------------------------------
(* What the Manifests hold of the files that were hashed.                  *)

Paths == Seq({Names[i] : i \in DOMAIN Names})

\* Every entry of Manifest u of d is of a file below d, as it was last hashed: for a
\* directory of which the Manifest is for all below it,
Hashes(s, d, u) == \A e \in u.data : \E g \in Below(d) : e = <<Without(d, g), s[g]>>
Leaf(s, d, u) == Hashes(s, d, u) /\ u.subs = {}

\* for one that may have packages, whose Manifests it refers to,
Mid(s, d, u) ==
  /\ Hashes(s, d, u)
  /\ \A e \in u.subs : \E p \in Packages :
       d = <<p[1]>> /\ e[1] = <<p[2]>> /\ Leaf(s, p, e[2])

\* and for the root, of which no entry is for a file further down.
Whole(s, u) ==
  /\ Hashes(s, <<>>, u) /\ \A e \in u.data : Len(e[1]) = 1
  /\ \A e \in u.subs : \E n \in RootDirs : e[1] = <<n>> /\ Mid(s, <<n>>, e[2])

\* No entry of u is for n, or is below it.
Fresh(u, n) == \A e \in u.data \cup u.subs : e[1][1] # n

Working == pc \in {"root", "category", "package", "times"}

\* A Manifest of the root that is whole, or being made, is of what was last hashed: no
\* generation hashes a file twice.
HashInv ==
  /\ man[<<>>].c.whole \/ Working => Whole(seen, man[<<>>].c)
  /\ Working =>
       /\ ~man[<<>>].c.whole
       /\ \A n \in gen.todo : Fresh(man[<<>>].c, n) /\ \E f \in Files : n = f[1]
  /\ pc = "root" => gen.dir = <<>> \/ \E n \in gen.todo \cap Subtrees : gen.dir = <<n>>
  /\ pc = "category" => \E c \in Categories :
       /\ gen.dir = <<c>> /\ Fresh(man[<<>>].c, c)
       /\ Mid(seen, <<c>>, man[<<c>>].c)
       /\ \A n \in gen.sub : Fresh(man[<<c>>].c, n)
  /\ pc \in {"package", "times"} =>
       LET c == gen.dir[1] IN
       /\ c \in Categories /\ Fresh(man[<<>>].c, c)
       /\ Mid(seen, <<c>>, man[<<c>>].c)
       /\ \A n \in gen.sub \cup {gen.dir[2]} : Fresh(man[<<c>>].c, n)
       /\ gen.dir[2] \notin gen.sub
       /\ Leaf(seen, gen.dir, gen.new)

\* A verification that has not failed: a file is as hashed, or its directory is still to
\* be verified, or a failure is on its way to ret.
Unchanged(f) == Exists(f) => tree[f].c = seen[f]
VerifyInv ==
  pc \in {"verify", "verified"} =>
    /\ \A t \in Threads : ver.th[t].at # "free" => ver.th[t].bad = 1
    /\ ver.work # {} => man[<<>>].c.whole
    /\ \A n \in ver.work : \E e \in man[<<>>].c.subs : e[1] = <<n>>
    /\ pc = "verified" => ver.work = {} /\ \A t \in Threads : ver.th[t].at = "free"
    /\ ver.ret = 0 => \A f \in Files :
         \/ Unchanged(f)
         \/ Len(f) > 1 /\ f[1] \in ver.work
         \/ \E t \in Threads : ver.th[t].at # "free"

-----------------------------------------------------------------------------
(* Paths.                                                                  *)

LEMMA FileFacts ==
  ASSUME NEW f \in Files
  PROVE  /\ f \in Paths /\ Len(f) \in Nat \ {0}
         /\ \A k \in 1 .. Len(f) : f[k] \in {Names[i] : i \in DOMAIN Names}
<1>1. f \in Seq({Names[i] : i \in DOMAIN Names}) /\ f # <<>>
  BY ManifestAssumption, TreeAssumption
<1>2. Len(f) \in Nat \ {0}
  BY <1>1, EmptySeq
<1> QED
  BY <1>1, <1>2, ElementOfSeq DEF Paths

LEMMA OneOrMore == \A k \in Nat \ {0} : k = 1 \/ (k > 1 /\ 1 < k /\ k # 1)
OBVIOUS

LEMMA OneName == ~(1 > 1) /\ \A i \in 1 .. 1 : i = 1
OBVIOUS

LEMMA EmptyPath == <<>> \in Paths /\ Len(<<>>) = 0
BY EmptySeq DEF Paths

\* The first names of a path.
LEMMA StartFacts ==
  ASSUME NEW f \in Paths, NEW k \in 0 .. Len(f)
  PROVE  /\ SubSeq(f, 1, k) \in Paths /\ Len(SubSeq(f, 1, k)) = k
         /\ \A i \in 1 .. k : SubSeq(f, 1, k)[i] = f[i]
<1> DEFINE N == {Names[i] : i \in DOMAIN Names}
<1>1. Len(f) \in Nat /\ \A i \in 1 .. Len(f) : f[i] \in N
  BY LenProperties, ElementOfSeq DEF Paths
<1>2. k \in Int /\ 1 \in Int /\ \A i \in 1 .. k : f[i] \in N
  BY <1>1
<1> HIDE DEF N
<1>3. /\ SubSeq(f, 1, k) \in Seq(N)
      /\ Len(SubSeq(f, 1, k)) = (IF 1 <= k THEN k - 1 + 1 ELSE 0)
      /\ \A i \in 1 .. k - 1 + 1 : SubSeq(f, 1, k)[i] = f[1 + i - 1]
  BY <1>2, SubSeqProperties
<1>4. k \in Nat
  BY <1>1
<1> QED
  BY <1>3, <1>4 DEF Paths, N

LEMMA PrefixFacts ==
  ASSUME NEW d \in Paths, NEW f \in Paths
  PROVE  /\ Len(d) \in Nat /\ Len(f) \in Nat
         /\ Prefix(d, f) <=> Len(d) < Len(f) /\ \A k \in 1 .. Len(d) : d[k] = f[k]
<1>1. Len(d) \in Nat /\ Len(f) \in Nat
  BY LenProperties DEF Paths
<1>2. CASE Len(d) < Len(f)
  <2>1. Len(d) \in 0 .. Len(f)
    BY <1>1, <1>2
  <2>2. /\ SubSeq(f, 1, Len(d)) \in Paths /\ Len(SubSeq(f, 1, Len(d))) = Len(d)
        /\ \A i \in 1 .. Len(d) : SubSeq(f, 1, Len(d))[i] = f[i]
    BY <2>1, StartFacts
  <2>3. SubSeq(f, 1, Len(d)) = d <=> \A i \in 1 .. Len(d) : d[i] = f[i]
    BY <2>2, SeqEqual DEF Paths
  <2> QED
    BY <1>1, <1>2, <2>3 DEF Prefix
<1>3. CASE ~(Len(d) < Len(f))
  BY <1>1, <1>3 DEF Prefix
<1> QED
  BY <1>2, <1>3

\* What is left of a path below a directory.
LEMMA RestFacts ==
  ASSUME NEW d \in Paths, NEW g \in Paths, Prefix(d, g)
  PROVE  LET w == Without(d, g) IN
         /\ w \in Paths /\ Len(w) \in Nat \ {0} /\ Len(w) = Len(g) - Len(d)
         /\ \A i \in 1 .. Len(w) : w[i] = g[Len(d) + i]
         /\ d \o w = g
<1> DEFINE N == {Names[i] : i \in DOMAIN Names}
           w == Without(d, g)
<1>1. /\ Len(d) \in Nat /\ Len(g) \in Nat /\ Len(d) < Len(g)
      /\ \A k \in 1 .. Len(d) : d[k] = g[k]
  BY PrefixFacts
<1>2. \A i \in 1 .. Len(g) : g[i] \in N
  BY ElementOfSeq DEF Paths
<1>3. \A i \in Len(d) + 1 .. Len(g) : g[i] \in N
  BY <1>1, <1>2
<1> HIDE DEF N
<1>4. Len(d) + 1 \in Int /\ Len(g) \in Int
  BY <1>1
<1>5. /\ w \in Seq(N)
      /\ Len(w) = (IF Len(d) + 1 <= Len(g) THEN Len(g) - (Len(d) + 1) + 1 ELSE 0)
      /\ \A i \in 1 .. Len(g) - (Len(d) + 1) + 1 : w[i] = g[Len(d) + 1 + i - 1]
  BY <1>3, <1>4, SubSeqProperties DEF Without
<1>6. w \in Paths /\ Len(w) = Len(g) - Len(d) /\ Len(w) \in Nat \ {0}
  BY <1>1, <1>5 DEF Paths, N
<1>7. \A i \in 1 .. Len(w) : w[i] = g[Len(d) + i]
  <2> SUFFICES ASSUME NEW i \in 1 .. Len(w) PROVE w[i] = g[Len(d) + i]
    OBVIOUS
  <2>1. i \in 1 .. Len(g) - (Len(d) + 1) + 1 /\ Len(d) + 1 + i - 1 = Len(d) + i
    BY <1>1, <1>6
  <2> QED
    BY <1>5, <2>1
<1> HIDE DEF w
<1>8. /\ d \o w \in Paths /\ Len(d \o w) = Len(g)
      /\ \A i \in 1 .. Len(d \o w) : (d \o w)[i] = g[i]
  <2>1. /\ d \o w \in Paths /\ Len(d \o w) = Len(d) + Len(w)
        /\ \A i \in 1 .. Len(d) + Len(w) :
             (d \o w)[i] = IF i <= Len(d) THEN d[i] ELSE w[i - Len(d)]
    BY <1>6, ConcatProperties DEF Paths
  <2>2. Len(d) + Len(w) = Len(g)
    BY <1>1, <1>6
  <2>3. ASSUME NEW i \in 1 .. Len(g) PROVE (d \o w)[i] = g[i]
    <3>1. CASE i <= Len(d)
      BY <1>1, <2>1, <2>2, <3>1
    <3>2. CASE ~(i <= Len(d))
      <4>1. i - Len(d) \in 1 .. Len(w) /\ Len(d) + (i - Len(d)) = i
        BY <1>1, <1>6, <3>2
      <4> QED
        BY <1>7, <2>1, <2>2, <3>2, <4>1
    <3> QED
      BY <3>1, <3>2
  <2> QED
    BY <2>1, <2>2, <2>3
<1>9. d \o w = g
  BY <1>8, SeqEqual DEF Paths
<1> QED
  BY <1>6, <1>7, <1>9 DEF w

\* One name further.
LEMMA NextName ==
  ASSUME NEW f \in Paths, NEW k \in Nat, k < Len(f)
  PROVE  LET d == SubSeq(f, 1, k)
             e == SubSeq(f, 1, k + 1)
         IN /\ d \in Paths /\ e \in Paths /\ Len(d) = k /\ Len(e) = k + 1
            /\ d \o <<f[k + 1]>> = e /\ e[Len(e)] = f[k + 1]
            /\ SubSeq(e, 1, Len(e) - 1) = d
            /\ Prefix(d, f)
<1> DEFINE d == SubSeq(f, 1, k)
           e == SubSeq(f, 1, k + 1)
<1>0. Len(f) \in Nat
  BY LenProperties DEF Paths
<1>1. k \in 0 .. Len(f) /\ k + 1 \in 0 .. Len(f) /\ k + 1 \in 1 .. Len(f) /\ k + 1 - 1 = k
  BY <1>0
<1>2. /\ d \in Paths /\ Len(d) = k /\ \A i \in 1 .. k : d[i] = f[i]
      /\ e \in Paths /\ Len(e) = k + 1 /\ \A i \in 1 .. k + 1 : e[i] = f[i]
  BY <1>1, StartFacts
<1>3. d \o <<f[k + 1]>> = e
  <2>1. 1 \in 1 .. Len(f) /\ k + 1 \in 1 .. Len(f)
    BY <1>0, <1>1
  <2> QED
    BY <1>1, <2>1, SubSeqRecursiveSecond DEF Paths
<1> HIDE DEF d, e
<1>4. SubSeq(e, 1, Len(e) - 1) = d
  <2>1. Len(e) - 1 = k /\ k \in 0 .. Len(e)
    BY <1>2
  <2>2. /\ SubSeq(e, 1, k) \in Paths /\ Len(SubSeq(e, 1, k)) = k
        /\ \A i \in 1 .. k : SubSeq(e, 1, k)[i] = e[i]
    BY <1>2, <2>1, StartFacts
  <2>3. \A i \in 1 .. k : SubSeq(e, 1, k)[i] = d[i]
    BY <1>2, <2>2
  <2> QED
    BY <1>2, <2>1, <2>2, <2>3, SeqEqual DEF Paths
<1>5. Prefix(d, f) /\ e[Len(e)] = f[k + 1]
  BY <1>0, <1>2, PrefixFacts
<1> QED
  BY <1>2, <1>3, <1>4, <1>5 DEF d, e

\* The entry of a file, seen from one directory further down.
LEMMA TailRest ==
  ASSUME NEW d \in Paths, NEW g \in Paths, Prefix(d, g), Len(g) > Len(d) + 1
  PROVE  LET b == SubSeq(g, 1, Len(d) + 1)
         IN Prefix(b, g) /\ Tail(Without(d, g)) = Without(b, g)
<1> DEFINE b == SubSeq(g, 1, Len(d) + 1)
           w == Without(d, g)
           v == Without(b, g)
<1>1. Len(d) \in Nat /\ Len(g) \in Nat
  BY PrefixFacts
<1>2. /\ w \in Paths /\ Len(w) = Len(g) - Len(d)
      /\ \A i \in 1 .. Len(w) : w[i] = g[Len(d) + i]
  BY RestFacts
<1>3. Len(d) + 1 \in Nat /\ Len(d) + 1 < Len(g)
  BY <1>1
<1>4. b \in Paths /\ Len(b) = Len(d) + 1 /\ Prefix(b, g)
  BY <1>3, NextName
<1> HIDE DEF b, w
<1>5. /\ v \in Paths /\ Len(v) = Len(g) - Len(b)
      /\ \A i \in 1 .. Len(v) : v[i] = g[Len(b) + i]
  BY <1>4, RestFacts
<1> HIDE DEF v
<1>6. w # <<>>
  BY <1>1, <1>2, EmptyPath
<1>7. /\ Tail(w) \in Paths /\ Len(Tail(w)) = Len(w) - 1
      /\ \A i \in 1 .. Len(Tail(w)) : Tail(w)[i] = w[i + 1]
  BY <1>2, <1>6, HeadTailProperties DEF Paths
<1>8. Len(Tail(w)) = Len(v)
  BY <1>1, <1>2, <1>4, <1>5, <1>7
<1>9. ASSUME NEW i \in 1 .. Len(Tail(w)) PROVE Tail(w)[i] = v[i]
  <2>1. i + 1 \in 1 .. Len(w) /\ Len(d) + (i + 1) = Len(b) + i
    BY <1>1, <1>2, <1>4, <1>7
  <2>2. Tail(w)[i] = w[i + 1] /\ w[i + 1] = g[Len(d) + (i + 1)]
    BY <1>2, <1>7, <2>1
  <2>3. v[i] = g[Len(b) + i]
    BY <1>5, <1>8
  <2> QED
    BY <2>1, <2>2, <2>3
<1>10. Tail(w) = v
  BY <1>5, <1>7, <1>8, <1>9, SeqEqual DEF Paths
<1> QED
  BY <1>4, <1>10 DEF b, w, v

-----------------------------------------------------------------------------
(* Every directory of the tree is come to, or not, along its path: the     *)
(* recursion of verify_dir is well-founded.                                *)

DirsOf(dir) == {dir} \cup {d \in AllDirs : Prefix(dir, d)}
Up(d) == SubSeq(d, 1, Len(d) - 1)
From(us, d) == {Governing(Up(d), u, d[Len(d)]) : u \in {u \in us : d[Len(d)] \in SubDirs(Up(d), u)}}
With(w, dir, m, d) == IF d = dir THEN {m} ELSE From(w[Up(d)], d)

LEMMA UpFacts ==
  ASSUME NEW dir \in Paths, NEW d \in DirsOf(dir)
  PROVE  /\ d \in Paths /\ Len(d) \in Nat
         /\ d # dir => /\ Up(d) \in DirsOf(dir) /\ Len(Up(d)) = Len(d) - 1
                       /\ Len(Up(d)) \in Nat
         /\ d # dir => \E f \in Files : Len(d) < Len(f)
<1>1. CASE d = dir
  BY <1>1, LenProperties DEF Paths
<1>2. CASE d # dir
  <2>1. d \in AllDirs /\ Prefix(dir, d)
    BY <1>2 DEF DirsOf
  <2>2. PICK f \in Files : d \in {SubSeq(f, 1, k) : k \in 0 .. Len(f) - 1}
    BY <2>1 DEF AllDirs
  <2>0. PICK k \in 0 .. Len(f) - 1 : d = SubSeq(f, 1, k)
    BY <2>2
  <2>3. f \in Paths /\ Len(f) \in Nat \ {0}
    BY FileFacts
  <2>4. k \in 0 .. Len(f) /\ k \in Nat
    BY <2>3
  <2>5. d \in Paths /\ Len(d) = k /\ \A i \in 1 .. k : d[i] = f[i]
    BY <2>0, <2>3, <2>4, StartFacts
  <2>6. Len(dir) \in Nat /\ Len(dir) < k /\ \A i \in 1 .. Len(dir) : dir[i] = d[i]
    BY <2>1, <2>5, PrefixFacts
  <2> DEFINE j == k - 1
             e == SubSeq(f, 1, j)
  <2>7. j \in Nat /\ j < Len(f) /\ j + 1 = k /\ j \in 0 .. Len(f) - 1 /\ j \in 0 .. Len(f)
    BY <2>3, <2>4, <2>6
  <2>8. /\ e \in Paths /\ Len(e) = j /\ Up(d) = e
    <3>1. d = SubSeq(f, 1, j + 1)
      BY <2>0, <2>7
    <3> HIDE DEF j
    <3> QED
      BY <2>3, <2>7, <3>1, NextName DEF Up
  <2>9. \A i \in 1 .. j : e[i] = f[i]
    BY <2>3, <2>7, StartFacts
  <2>10. e \in AllDirs
    BY <2>7 DEF AllDirs
  <2> HIDE DEF e
  <2>11. \A i \in 1 .. Len(dir) : dir[i] = e[i]
    BY <2>5, <2>6, <2>7, <2>9
  <2>12. e = dir \/ Prefix(dir, e)
    <3>1. CASE Len(dir) = j
      BY <2>8, <2>11, <3>1, SeqEqual DEF Paths
    <3>2. CASE Len(dir) # j
      BY <2>6, <2>7, <2>8, <2>11, <3>2, PrefixFacts
    <3> QED
      BY <3>1, <3>2
  <2>13. Len(d) < Len(f)
    BY <2>3, <2>5, <2>7
  <2> QED
    BY <2>4, <2>5, <2>7, <2>8, <2>10, <2>12, <2>13 DEF DirsOf
<1> QED
  BY <1>1, <1>2

LEMMA ReachedFacts ==
  ASSUME NEW dir \in Paths, NEW m
  PROVE  Reached(dir, m) = [d \in DirsOf(dir) |-> With(Reached(dir, m), dir, m, d)]
<1> DEFINE D(k) == {d \in DirsOf(dir) : Len(d) < k}
           K == {k \in Nat : \E w : w = [d \in D(k) |-> With(w, dir, m, d)]}
\* shallow directories first
<1>1. ASSUME NEW k \in K PROVE k + 1 \in K
  <2>1. PICK w : w = [d \in D(k) |-> With(w, dir, m, d)]
    OBVIOUS
  <2> DEFINE v == [d \in D(k + 1) |-> IF d \in D(k) THEN w[d] ELSE With(w, dir, m, d)]
  <2>2. \A d \in D(k) : d \in D(k + 1) /\ v[d] = w[d]
    <3>1. \A d \in DirsOf(dir) : Len(d) \in Nat
      BY UpFacts
    <3> QED
      BY <3>1
  <2>3. ASSUME NEW d \in D(k + 1), d # dir PROVE v[Up(d)] = w[Up(d)]
    <3>1. Up(d) \in D(k)
      BY <2>3, UpFacts
    <3> QED
      BY <2>2, <3>1
  <2>4. ASSUME NEW d \in D(k + 1) PROVE v[d] = With(v, dir, m, d)
    <3>1. v[d] = With(w, dir, m, d)
      BY <2>1
    <3> HIDE DEF v
    <3> QED
      BY <2>3, <2>4, <3>1 DEF With
  <2>5. v = [d \in D(k + 1) |-> v[d]]
    OBVIOUS
  <2>6. v = [d \in D(k + 1) |-> With(v, dir, m, d)]
    <3> HIDE DEF v
    <3> QED
      BY <2>4, <2>5
  <2>7. \E x : x = [d \in D(k + 1) |-> With(x, dir, m, d)]
    BY <2>6
  <2>8. k + 1 \in Nat
    OBVIOUS
  <2> HIDE DEF D
  <2> QED
    BY <2>7, <2>8
<1>2. 0 \in K
  <2>1. D(0) = {}
    BY UpFacts
  <2> DEFINE v == [d \in D(0) |-> {}]
  <2>2. v = [d \in D(0) |-> With(v, dir, m, d)]
    BY <2>1
  <2>3. \E x : x = [d \in D(0) |-> With(x, dir, m, d)]
    BY <2>2
  <2> QED
    BY <2>3
<1>3. K = Nat
  <2>1. SUFFICES ASSUME Nat \ K # {} PROVE FALSE
    OBVIOUS
  <2>2. PICK k \in Nat \ K : \A j \in Nat \ K : ~(<<j, k>> \in OpToRel(<, Nat))
    BY <2>1, NatLessThanWellFounded, WFMin
  <2>3. \A j \in Nat : j < k => j \in K
    BY <2>2 DEF OpToRel
  <2>4. CASE k = 0
    BY <1>2, <2>2, <2>4
  <2>5. CASE k # 0
    <3> HIDE DEF K
    <3>0. k \in Nat /\ k \notin K
      OBVIOUS
    <3>1. k - 1 \in K /\ k - 1 + 1 = k
      BY <2>3, <2>5, <3>0
    <3> QED
      BY <1>1, <2>2, <3>1
  <2> QED
    BY <2>4, <2>5
\* some depth is that of all
<1>4. PICK k \in Nat : DirsOf(dir) = D(k)
  <2>1. CASE Files = {}
    <3>1. Len(dir) + 1 \in Nat /\ DirsOf(dir) = D(Len(dir) + 1)
      <4>1. \A d \in DirsOf(dir) : d = dir
        BY <2>1, UpFacts
      <4>2. dir \in DirsOf(dir) /\ Len(dir) \in Nat
        BY UpFacts DEF DirsOf
      <4> QED
        BY <4>1, <4>2
    <3> QED
      BY <3>1
  <2>2. CASE Files # {}
    <3>1. PICK f \in Files : \A g \in Files : Len(g) <= Len(f)
      BY <2>2, TreeAssumption
    <3>2. Len(f) \in Nat /\ Len(dir) \in Nat /\ \A g \in Files : Len(g) \in Nat
      BY FileFacts, UpFacts DEF DirsOf
    <3>3. ASSUME NEW d \in DirsOf(dir) PROVE Len(d) < Len(f) + Len(dir) + 1
      <4>1. CASE d = dir
        BY <3>2, <4>1
      <4>2. CASE d # dir
        <5>1. PICK g \in Files : Len(d) < Len(g)
          BY <4>2, UpFacts
        <5> QED
          BY <3>1, <3>2, <5>1, UpFacts
      <4> QED
        BY <4>1, <4>2
    <3>4. Len(f) + Len(dir) + 1 \in Nat /\ DirsOf(dir) = D(Len(f) + Len(dir) + 1)
      BY <3>2, <3>3
    <3> QED
      BY <3>4
  <2> QED
    BY <2>1, <2>2
<1>5. \E w : w = [d \in D(k) |-> With(w, dir, m, d)]
  BY <1>3
<1>6. \E w : w = [d \in DirsOf(dir) |-> With(w, dir, m, d)]
  BY <1>4, <1>5
<1>7. Reached(dir, m) = CHOOSE w : w = [d \in DirsOf(dir) |-> With(w, dir, m, d)]
  BY Zenon DEF Reached, With, From, DirsOf, Up
<1> QED
  BY <1>6, <1>7

-----------------------------------------------------------------------------
(* What a verified directory shows of the files below it.                  *)

LEMMA PackageFacts ==
  ASSUME NEW p \in Packages
  PROVE  p \in Paths /\ Len(p) = 2 /\ p \in Dirs /\ \E g \in Files : Prefix(p, g)
<1>1. PICK g \in Files : Len(g) > 2 /\ p = SubSeq(g, 1, 2)
  BY DEF Packages
<1>2. g \in Paths /\ Len(g) \in Nat /\ 2 \in Nat /\ 2 < Len(g)
  BY <1>1, FileFacts
<1> QED
  BY <1>1, <1>2, NextName, PackagesDeep

\* Two paths with the same next name below a directory.
LEMMA SameStart ==
  ASSUME NEW d \in Paths, NEW f \in Paths, NEW g \in Paths, Prefix(d, f), Prefix(d, g),
         f[Len(d) + 1] = g[Len(d) + 1]
  PROVE  /\ SubSeq(f, 1, Len(d)) = d
         /\ SubSeq(f, 1, Len(d) + 1) = SubSeq(g, 1, Len(d) + 1)
         /\ Len(g) = Len(d) + 1 => g = SubSeq(f, 1, Len(d) + 1)
<1> DEFINE k == Len(d) + 1
<1>1. /\ Len(d) \in Nat /\ Len(f) \in Nat /\ Len(g) \in Nat /\ Len(d) < Len(f)
      /\ Len(d) < Len(g)
      /\ \A i \in 1 .. Len(d) : d[i] = f[i] /\ d[i] = g[i]
  BY PrefixFacts
<1>2. k \in 0 .. Len(f) /\ k \in 0 .. Len(g) /\ k \in Nat /\ Len(d) + 1 = k
  BY <1>1
<1>3. \A i \in 1 .. k : f[i] = g[i]
  <2> SUFFICES ASSUME NEW i \in 1 .. k PROVE f[i] = g[i]
    OBVIOUS
  <2>1. i \in 1 .. Len(d) \/ i = Len(d) + 1
    BY <1>1
  <2> QED
    BY <1>1, <2>1
<1> HIDE DEF k
<1>4. /\ SubSeq(f, 1, k) \in Paths /\ Len(SubSeq(f, 1, k)) = k
      /\ \A i \in 1 .. k : SubSeq(f, 1, k)[i] = f[i]
  BY <1>2, StartFacts
<1>5. /\ SubSeq(g, 1, k) \in Paths /\ Len(SubSeq(g, 1, k)) = k
      /\ \A i \in 1 .. k : SubSeq(g, 1, k)[i] = g[i]
  BY <1>2, StartFacts
<1>6. SubSeq(f, 1, k) = SubSeq(g, 1, k)
  BY <1>2, <1>3, <1>4, <1>5, SeqEqual DEF Paths
<1>7. Len(g) = k => g = SubSeq(g, 1, k)
  BY <1>2, <1>5, SeqEqual DEF Paths
<1>8. SubSeq(f, 1, Len(d)) = d
  BY DEF Prefix
<1> QED
  BY <1>2, <1>6, <1>7, <1>8

\* A package that is referred to is the next directory on the way.
LEMMA PackageOnTheWay ==
  ASSUME NEW f \in Paths, NEW p \in Packages, NEW d \in Paths, d = <<p[1]>>,
         Prefix(d, f), f[Len(d) + 1] = p[2]
  PROVE  p = SubSeq(f, 1, Len(d) + 1)
<1>1. p \in Paths /\ Len(p) = 2 /\ Len(d) = 1 /\ d[1] = p[1]
  BY PackageFacts
<1>2. Prefix(d, p) /\ p[Len(d) + 1] = p[2]
  BY SMTT(30), <1>1, PrefixFacts
<1>3. Len(p) = Len(d) + 1 /\ p[Len(d) + 1] = f[Len(d) + 1]
  <2>1. Len(p) = Len(d) + 1
    BY <1>1
  <2>2. p[Len(d) + 1] = f[Len(d) + 1]
    BY <1>2
  <2> QED
    BY <2>1, <2>2
<1>4. \A b \in Paths : Prefix(b, f) /\ Prefix(b, p) /\ p[Len(b) + 1] = f[Len(b) + 1]
                       /\ Len(p) = Len(b) + 1 => p = SubSeq(f, 1, Len(b) + 1)
  BY <1>1, SameStart
<1> QED
  BY <1>2, <1>3, <1>4

\* In a directory that was verified with hashes, a file is as hashed and a directory is
\* gone into.
LEMMA JoinedFacts ==
  ASSUME NEW d \in Paths, NEW u, Mid(seen, d, u), Joined(d, u),
         NEW f \in Files, Prefix(d, f), Exists(f)
  PROVE  /\ Len(f) > Len(d) + 1 => f[Len(d) + 1] \in SubDirs(d, u)
         /\ Len(f) = Len(d) + 1 => tree[f].c = seen[f]
<1> DEFINE x == f[Len(d) + 1]
<1>1. f \in Paths /\ Len(d) \in Nat /\ Len(f) \in Nat /\ Len(d) < Len(f)
  BY FileFacts, PrefixFacts
<1>2. x \in ListDir(d)
  BY DEF ListDir, Below
<1>3. PICK e \in u.data \cup u.subs : e[1][1] = x
  BY <1>2 DEF Joined
<1>4. CASE e \in u.subs
  <2>1. x \in SubDirs(d, u)
    BY <1>2, <1>3, <1>4 DEF SubDirs
  <2>2. PICK p \in Packages : d = <<p[1]>> /\ e[1] = <<p[2]>>
    BY <1>4 DEF Mid
  <2>3. p = SubSeq(f, 1, Len(d) + 1)
    <3>1. e[1][1] = p[2] /\ x = p[2]
      BY <1>3, <2>2
    <3> QED
      BY <1>1, <2>2, <3>1, PackageOnTheWay
  <2>4. ASSUME Len(f) = Len(d) + 1 PROVE FALSE
    <3>1. f = p
      BY <1>1, <2>3, <2>4, SubSeqFull DEF Paths
    <3> QED
      BY <3>1, PackageFacts, TreeAssumption
  <2> QED
    BY <2>1, <2>4
<1>5. CASE e \in u.data
  <2>1. PICK g \in Files : Prefix(d, g) /\ e = <<Without(d, g), seen[g]>>
    BY <1>5 DEF Mid, Hashes, Below
  <2>2. g \in Paths /\ Len(g) \in Nat
    BY FileFacts
  <2>3. /\ e[1] = Without(d, g) /\ e[2] = seen[g] /\ Len(e[1]) = Len(g) - Len(d)
        /\ e[1][1] = g[Len(d) + 1] /\ d \o e[1] = g /\ Len(e[1]) \in Nat \ {0}
    <3>1. /\ Len(Without(d, g)) \in Nat \ {0} /\ Len(Without(d, g)) = Len(g) - Len(d)
          /\ \A i \in 1 .. Len(Without(d, g)) : Without(d, g)[i] = g[Len(d) + i]
          /\ d \o Without(d, g) = g
      BY <2>1, <2>2, RestFacts
    <3>2. 1 \in 1 .. Len(Without(d, g))
      BY <3>1
    <3> QED
      BY <2>1, <3>1, <3>2
  <2>4. SubSeq(f, 1, Len(d) + 1) = SubSeq(g, 1, Len(d) + 1)
    BY <1>1, <1>3, <2>1, <2>2, <2>3, SameStart
  <2>5. ASSUME Len(f) > Len(d) + 1 PROVE x \in SubDirs(d, u)
    <3>1. Len(e[1]) > 1
      <4>1. SUFFICES ASSUME Len(g) = Len(d) + 1 PROVE FALSE
        BY <1>1, <2>2, <2>3
      <4>2. g = SubSeq(f, 1, Len(d) + 1)
        BY <2>2, <2>4, <4>1, SubSeqFull DEF Paths
      <4>3. Len(d) + 1 \in Nat /\ Len(d) + 1 < Len(f)
        BY <1>1, <2>5
      <4>4. Prefix(g, f)
        BY <1>1, <4>2, <4>3, NextName
      <4> QED
        BY <4>4, TreeAssumption
    <3> QED
      BY <1>2, <1>3, <1>5, <3>1 DEF SubDirs
  <2>6. ASSUME Len(f) = Len(d) + 1 PROVE tree[f].c = seen[f]
    <3>1. f = SubSeq(g, 1, Len(d) + 1)
      BY <1>1, <2>4, <2>6, SubSeqFull DEF Paths
    <3>2. Len(g) = Len(d) + 1
      <4>1. SUFFICES ASSUME Len(g) # Len(d) + 1 PROVE FALSE
        OBVIOUS
      <4>2. Len(d) + 1 \in Nat /\ Len(d) + 1 < Len(g)
        BY <1>1, <2>2, <2>3, <4>1
      <4>3. Prefix(f, g)
        BY <2>2, <3>1, <4>2, NextName
      <4> QED
        BY <4>3, TreeAssumption
    <3>3. g = f /\ Len(e[1]) = 1
      BY <1>1, <2>2, <2>3, <3>1, <3>2, SubSeqFull DEF Paths
    <3>4. VerifyFile(d \o e[1], e[2])
      BY <1>2, <1>3, <1>5, <3>3 DEF Joined
    <3> QED
      BY <2>3, <3>3, <3>4 DEF VerifyFile
  <2> QED
    BY <2>5, <2>6
<1> QED
  BY <1>3, <1>4, <1>5

LEMMA WithinFacts ==
  ASSUME NEW u, NEW n, u = Content(u)
  PROVE  /\ Within(u, n) = Content(Within(u, n)) /\ Within(u, n).subs = {}
         /\ Within(u, n).data =
              {<<Tail(e[1]), e[2]>> : e \in {e \in u.data : Len(e[1]) > 1 /\ e[1][1] = n}}
<1> DEFINE a == {<<Tail(e[1]), e[2]>> : e \in {e \in u.data : Len(e[1]) > 1 /\ e[1][1] = n}}
<1>1. Within(u, n) = [u EXCEPT !.data = a, !.subs = {}]
  BY DEF Within
<1> HIDE DEF a
<1>2. PICK v : v = [u EXCEPT !.data = a]
  OBVIOUS
<1>3. v = [data |-> a, subs |-> u.subs, dist |-> u.dist, whole |-> u.whole]
  BY <1>2 DEF Content
<1>4. Within(u, n) = [v EXCEPT !.subs = {}]
  BY <1>1, <1>2
<1>5. Within(u, n) = [data |-> a, subs |-> {}, dist |-> u.dist, whole |-> u.whole]
  BY <1>3, <1>4
<1> QED
  BY <1>5 DEF Content, a

\* The Manifests that are read are of the right shape.
LEMMA ReadShape == ASSUME Shaped, NEW d \in Dirs PROVE man[d].c = Content(man[d].c)
BY DEF Shaped, ManShaped, Record, Content

\* What a directory is verified with holds the hashes of its files, if that of the
\* directory above does.
LEMMA GovernedFacts ==
  ASSUME Shaped, NEW d \in Paths, NEW u, u = Content(u), Mid(seen, d, u),
         NEW f \in Files, Prefix(d, f), f[Len(d) + 1] \in SubDirs(d, u),
         Referenced(d, u, f[Len(d) + 1]), Len(f) > Len(d) + 1
  PROVE  LET v == Governing(d, u, f[Len(d) + 1])
         IN v = Content(v) /\ Mid(seen, SubSeq(f, 1, Len(d) + 1), v)
<1> DEFINE x == f[Len(d) + 1]
           b == SubSeq(f, 1, Len(d) + 1)
           v == Governing(d, u, x)
<1>1. f \in Paths /\ Len(d) \in Nat /\ Len(f) \in Nat /\ Len(d) < Len(f)
  BY FileFacts, PrefixFacts
<1>2. d \o <<x>> = b /\ b \in Paths /\ Len(b) = Len(d) + 1
  BY <1>1, NextName DEF Prefix
<1>3. CASE \E e \in u.subs : e[1] = <<x>>
  <2>1. PICK e \in u.subs : e[1] = <<x>>
    BY <1>3
  <2>2. v = man[b].c /\ v = e[2]
    BY <1>2, <1>3, <2>1 DEF Governing, Referenced
  <2>3. PICK p \in Packages : d = <<p[1]>> /\ e[1] = <<p[2]>> /\ Leaf(seen, p, e[2])
    BY <2>1 DEF Mid
  <2>4. x = p[2]
    <3>1. <<x>> = <<p[2]>>
      BY <2>1, <2>3
    <3> QED
      BY <3>1
  <2>5. p = b
    BY <1>1, <2>3, <2>4, PackageOnTheWay
  <2>6. p \in Dirs /\ man[p].c = Content(man[p].c)
    BY PackageFacts, ReadShape
  <2>7. Mid(seen, p, e[2])
    BY <2>3 DEF Leaf, Mid
  <2>8. v = Content(v)
    BY <2>2, <2>5, <2>6
  <2> HIDE DEF v, b
  <2> QED
    BY <2>2, <2>5, <2>7, <2>8 DEF v, b
<1>4. CASE ~\E e \in u.subs : e[1] = <<x>>
  <2>1. v = Within(u, x)
    BY <1>4 DEF Governing
  <2>2. v = Content(v) /\ v.subs = {}
        /\ v.data = {<<Tail(e[1]), e[2]>> : e \in {e \in u.data : Len(e[1]) > 1 /\ e[1][1] = x}}
    BY <2>1, WithinFacts
  <2>3. ASSUME NEW e \in u.data, Len(e[1]) > 1, e[1][1] = x
        PROVE  \E g \in Below(b) : <<Tail(e[1]), e[2]>> = <<Without(b, g), seen[g]>>
    <3>1. PICK g \in Files : Prefix(d, g) /\ e = <<Without(d, g), seen[g]>>
      BY DEF Mid, Hashes, Below
    <3>2. g \in Paths /\ Len(g) \in Nat
      BY FileFacts
    <3>3. Len(Without(d, g)) = Len(g) - Len(d) /\ Without(d, g)[1] = g[Len(d) + 1]
      <4>1. /\ Len(Without(d, g)) \in Nat \ {0} /\ Len(Without(d, g)) = Len(g) - Len(d)
            /\ \A i \in 1 .. Len(Without(d, g)) : Without(d, g)[i] = g[Len(d) + i]
        BY <3>1, <3>2, RestFacts
      <4>2. 1 \in 1 .. Len(Without(d, g))
        BY <4>1
      <4> QED
        BY <4>1, <4>2
    <3>4. Len(g) > Len(d) + 1 /\ g[Len(d) + 1] = x
      BY <1>1, <2>3, <3>1, <3>2, <3>3
    <3>5. SubSeq(g, 1, Len(d) + 1) = b
      BY <1>1, <3>1, <3>2, <3>4, SameStart
    <3>6. Prefix(b, g) /\ Tail(Without(d, g)) = Without(b, g)
      BY <3>1, <3>2, <3>4, <3>5, TailRest
    <3> QED
      BY <3>1, <3>6 DEF Below
  <2>4. ASSUME NEW h \in v.data PROVE \E g \in Below(b) : h = <<Without(b, g), seen[g]>>
    BY <2>2, <2>3
  <2> QED
    BY <2>2, <2>4 DEF Mid, Hashes
<1> QED
  BY <1>3, <1>4

\* On the way to a file each directory is verified with its hashes.
LEMMA WayVerified ==
  ASSUME Shaped, NEW n \in RootDirs, NEW m, m = Content(m), Mid(seen, <<n>>, m),
         VerifyDir(<<n>>, m), NEW f \in Files, Len(f) > 1, f[1] = n, Exists(f)
  PROVE  tree[f].c = seen[f]
<1> DEFINE dir == <<n>>
           W == Reached(dir, m)
           K == {k \in Nat : /\ 0 < k /\ k < Len(f)
                             /\ \A u \in W[SubSeq(f, 1, k)] :
                                  ~(u = Content(u) /\ Mid(seen, SubSeq(f, 1, k), u))}
<1>1. f \in Paths /\ Len(f) \in Nat
  BY FileFacts
<1>2. /\ SubSeq(f, 1, 1) = dir /\ dir \in Paths /\ Len(dir) = 1
  <2>1. /\ SubSeq(f, 1, 1) \in Paths /\ Len(SubSeq(f, 1, 1)) = 1
        /\ \A i \in 1 .. 1 : SubSeq(f, 1, 1)[i] = f[i]
    <3>1. 1 \in 0 .. Len(f)
      BY <1>1
    <3> QED
      BY <1>1, <3>1, StartFacts
  <2>2. f[1] \in {Names[i] : i \in DOMAIN Names}
    BY FileFacts, <1>1
  <2>3. dir \in Paths /\ Len(dir) = 1 /\ dir[1] = f[1]
    BY <2>2 DEF Paths
  <2>4. \A i \in 1 .. 1 : SubSeq(f, 1, 1)[i] = dir[i]
    BY <2>1, <2>3
  <2> QED
    BY <2>1, <2>3, <2>4, SeqEqual DEF Paths
<1> HIDE DEF dir
<1>3. W = [d \in DirsOf(dir) |-> With(W, dir, m, d)]
  BY <1>2, ReachedFacts
<1>4. \A d \in DirsOf(dir) : \A u \in W[d] :
        Joined(d, u) /\ \A x \in SubDirs(d, u) : Referenced(d, u, x)
  <2>1. \A d \in DOMAIN W : \A u \in W[d] :
          Joined(d, u) /\ \A x \in SubDirs(d, u) : Referenced(d, u, x)
    BY DEF VerifyDir, dir
  <2> HIDE DEF W
  <2> QED
    BY <1>3, <2>1
<1> HIDE DEF W
<1>5. ASSUME NEW k \in Nat, 0 < k, k < Len(f) PROVE SubSeq(f, 1, k) \in DirsOf(dir)
  <2>1. /\ SubSeq(f, 1, k) \in Paths /\ Len(SubSeq(f, 1, k)) = k
        /\ \A i \in 1 .. k : SubSeq(f, 1, k)[i] = f[i]
    BY <1>1, <1>5, StartFacts
  <2>2. dir[1] = f[1]
    BY DEF dir
  <2>3. k = 1 \/ Prefix(dir, SubSeq(f, 1, k))
    <3>1. ASSUME k # 1 PROVE Len(dir) < k /\ \A i \in 1 .. Len(dir) : dir[i] = SubSeq(f, 1, k)[i]
      <4>1. \A i \in 1 .. Len(dir) : i = 1 /\ i \in 1 .. k
        BY <1>2, <1>5
      <4> QED
        BY <1>2, <1>5, <2>1, <2>2, <3>1, <4>1
    <3> QED
      BY <1>2, <2>1, <3>1, PrefixFacts
  <2>4. k \in 0 .. Len(f) - 1
    BY <1>1, <1>5
  <2>5. SubSeq(f, 1, k) \in AllDirs
    BY <2>4 DEF AllDirs
  <2> QED
    BY <1>2, <2>3, <2>5 DEF DirsOf
<1>6. 1 \notin K
  <2>1. dir \in DirsOf(dir)
    BY DEF DirsOf
  <2>2. W[dir] = {m}
    BY <1>3, <2>1 DEF With
  <2> QED
    BY <1>2, <2>2 DEF dir
<1>7. ASSUME NEW k \in Nat, 0 < k, k \notin K, k + 1 < Len(f) PROVE k + 1 \notin K
  <2> DEFINE d == SubSeq(f, 1, k)
             b == SubSeq(f, 1, k + 1)
             x == f[k + 1]
  <2>1. k < Len(f) /\ k + 1 \in Nat /\ 0 < k + 1
    BY <1>1, <1>7
  <2>2. PICK u \in W[d] : u = Content(u) /\ Mid(seen, d, u)
    BY <1>7, <2>1
  <2>3. /\ d \in Paths /\ Len(d) = k /\ Len(b) = k + 1 /\ Up(b) = d /\ b[Len(b)] = x
        /\ Prefix(d, f)
    BY <1>1, <2>1, NextName DEF Up
  <2>4. d \in DirsOf(dir) /\ b \in DirsOf(dir) /\ b # dir
    BY <1>2, <1>5, <1>7, <2>1, <2>3
  <2> HIDE DEF d
  <2>5. x \in SubDirs(d, u) /\ Referenced(d, u, x)
    BY <1>4, <1>7, <2>2, <2>3, <2>4, JoinedFacts
  <2>6. /\ Governing(d, u, x) = Content(Governing(d, u, x))
        /\ Mid(seen, b, Governing(d, u, x))
    BY <1>7, <2>2, <2>3, <2>5, GovernedFacts
  <2>7. Governing(d, u, x) \in W[b]
    <3>1. W[b] = From(W[Up(b)], b)
      BY <1>3, <2>4 DEF With
    <3> QED
      BY <2>2, <2>3, <2>5, <3>1 DEF From
  <2> QED
    BY <2>6, <2>7
<1>8. K = {}
  <2>1. SUFFICES ASSUME K # {} PROVE FALSE
    OBVIOUS
  <2>2. K \subseteq Nat
    OBVIOUS
  <2>3. \A k \in K : 0 < k /\ k < Len(f)
    OBVIOUS
  <2> HIDE DEF K
  <2>4. PICK k \in K : \A j \in K : ~(<<j, k>> \in OpToRel(<, Nat))
    BY <2>1, <2>2, NatLessThanWellFounded, WFMin
  <2>5. \A j \in Nat : j < k => j \notin K
    BY <2>2, <2>4 DEF OpToRel
  <2>6. k \in Nat /\ k \in K
    BY <2>2
  <2>7. k - 1 \in Nat /\ 0 < k - 1 /\ k - 1 + 1 = k
    BY <1>6, <2>3, <2>6
  <2>8. k - 1 \notin K
    BY <2>5, <2>6, <2>7
  <2> QED
    BY <1>7, <2>3, <2>6, <2>7, <2>8
<1> DEFINE j == Len(f) - 1
           d == SubSeq(f, 1, j)
<1>9. j \in Nat /\ 0 < j /\ j < Len(f) /\ Len(f) = j + 1
  BY <1>1
<1> HIDE DEF j
<1>10. PICK u \in W[d] : u = Content(u) /\ Mid(seen, d, u)
  BY <1>8, <1>9
<1>11. d \in Paths /\ Len(d) = j /\ Prefix(d, f) /\ d \in DirsOf(dir)
  BY <1>1, <1>5, <1>9, NextName
<1> HIDE DEF d
<1> QED
  BY <1>4, <1>9, <1>10, <1>11, JoinedFacts

-----------------------------------------------------------------------------
(* The steps of a verification.                                            *)

\* The locals of verify_dir are records.
ThreadShaped(r) == r = [at |-> r.at, sub |-> r.sub, bad |-> r.bad, seen |-> r.seen]
VerShaped(v) ==
  /\ v = [ret |-> v.ret, work |-> v.work, next |-> v.next, tail |-> v.tail, th |-> v.th]
  /\ v.th = [t \in Threads |-> v.th[t]] /\ \A t \in Threads : ThreadShaped(v.th[t])

\* In the root a file is as hashed, and a directory has a Manifest of its own.
LEMMA RootFacts ==
  ASSUME NEW m, Whole(seen, m), Joined(<<>>, m), NEW f \in Files, Exists(f)
  PROVE  /\ Len(f) = 1 => tree[f].c = seen[f]
         /\ Len(f) > 1 => \E e \in m.subs : e[1] = <<f[1]>>
<1>1. f \in Paths /\ Len(f) \in Nat \ {0} /\ <<>> \in Paths /\ Len(<<>>) = 0 /\ 0 + 1 = 1
  BY FileFacts, EmptyPath
<1>2. \A g \in Paths : Len(g) # 0 => Prefix(<<>>, g)
  BY <1>1, PrefixFacts
<1>3. f[1] \in ListDir(<<>>)
  BY <1>1, <1>2 DEF ListDir, Below
<1>4. PICK e \in m.data \cup m.subs : e[1][1] = f[1]
  BY <1>3 DEF Joined
<1>5. CASE e \in m.subs
  <2>1. PICK n \in RootDirs : e[1] = <<n>>
    BY <1>5 DEF Whole
  <2>2. n = f[1]
    BY <1>4, <2>1
  <2>3. Len(f) # 1
    <3>1. SUFFICES ASSUME Len(f) = 1 PROVE FALSE
      OBVIOUS
    <3>2. PICK h \in Files : Len(h) > 1 /\ n = h[1]
      BY DEF RootDirs
    <3>3. h \in Paths /\ Len(f) < Len(h)
      BY <3>1, <3>2, FileFacts
    <3>4. \A i \in 1 .. Len(f) : f[i] = h[i]
      <4>1. 1 .. Len(f) = 1 .. 1
        BY <3>1
      <4>2. \A i \in 1 .. Len(f) : i = 1
        BY <4>1, OneName
      <4>3. f[1] = h[1]
        BY <2>2, <3>2
      <4> QED
        BY <4>2, <4>3
    <3> QED
      BY <1>1, <3>3, <3>4, PrefixFacts, TreeAssumption
  <2> QED
    BY <1>5, <2>1, <2>2, <2>3
<1>6. CASE e \in m.data
  <2>1. PICK g \in Files : e = <<Without(<<>>, g), seen[g]>> /\ Prefix(<<>>, g)
    BY <1>6 DEF Whole, Hashes, Below
  <2>2. g \in Paths /\ Len(g) \in Nat \ {0}
    BY FileFacts
  <2>3. /\ Len(Without(<<>>, g)) = Len(g)
        /\ \A i \in 1 .. Len(Without(<<>>, g)) : Without(<<>>, g)[i] = g[i]
        /\ <<>> \o Without(<<>>, g) = g
    <3>1. /\ Len(Without(<<>>, g)) = Len(g) - Len(<<>>)
          /\ \A i \in 1 .. Len(Without(<<>>, g)) : Without(<<>>, g)[i] = g[Len(<<>>) + i]
          /\ <<>> \o Without(<<>>, g) = g
      BY <1>1, <2>1, <2>2, RestFacts
    <3> QED
      BY <1>1, <2>2, <3>1
  <2>4. Len(e[1]) = 1 /\ e[1] = Without(<<>>, g) /\ e[2] = seen[g]
    BY <1>6, <2>1 DEF Whole
  <2>5. Len(g) = 1 /\ g[1] = f[1]
    <3>0. Len(g) = Len(Without(<<>>, g)) /\ e[1] = Without(<<>>, g) /\ Len(e[1]) = 1
      BY <2>3, <2>4
    <3>1. Len(g) = 1 /\ 1 \in 1 .. 1
      BY <3>0, Zenon, SMT
    <3>2. e[1][1] = g[1]
      BY <2>3, <2>4, <3>1
    <3> QED
      BY <1>4, <3>1, <3>2
  <2>6. Len(f) = 1
    <3>1. SUFFICES ASSUME Len(f) # 1 PROVE FALSE
      OBVIOUS
    <3>2. Len(g) < Len(f) /\ \A i \in 1 .. Len(g) : g[i] = f[i]
      BY <1>1, <2>5, <3>1
    <3> QED
      BY <1>1, <2>2, <3>2, PrefixFacts, TreeAssumption
  <2>7. f = g
    <3>1. Len(f) = Len(g) /\ \A i \in 1 .. Len(f) : f[i] = g[i]
      BY <2>5, <2>6
    <3> QED
      BY <1>1, <2>2, <3>1, SeqEqual DEF Paths
  <2>8. VerifyFile(<<>> \o e[1], e[2])
    BY <1>3, <1>4, <1>6, <2>4 DEF Joined
  <2> QED
    BY <2>3, <2>4, <2>6, <2>7, <2>8 DEF VerifyFile
<1> QED
  BY <1>4, <1>5, <1>6

\* A directory of the root that verifies has its files as hashed.
LEMMA SubVerified ==
  ASSUME Shaped, NEW m, Whole(seen, m), NEW e \in m.subs, NEW n, e[1] = <<n>>,
         VerifySub(m, n), NEW f \in Files, Len(f) > 1, f[1] = n, Exists(f)
  PROVE  tree[f].c = seen[f]
<1>1. n \in RootDirs /\ Mid(seen, <<n>>, e[2])
  <2>1. PICK r \in RootDirs : e[1] = <<r>> /\ Mid(seen, <<r>>, e[2])
    BY DEF Whole
  <2>2. r = n
    <3>1. <<r>> = <<n>>
      BY <2>1
    <3> QED
      BY <3>1
  <2> QED
    BY <2>1, <2>2
<1>2. <<n>> \in Dirs
  BY <1>1 DEF Dirs
<1>3. <<>> \o <<n>> = <<n>>
  <2>1. f[1] \in {Names[i] : i \in DOMAIN Names}
    BY FileFacts
  <2>2. <<n>> \in Paths
    BY <2>1 DEF Paths
  <2> QED
    BY <2>2, ConcatEmptySeq DEF Paths
<1>4. man[<<n>>].c = e[2] /\ Governing(<<>>, m, n) = man[<<n>>].c
  BY <1>3 DEF VerifySub, Referenced, Governing
<1>5. e[2] = Content(e[2]) /\ VerifyDir(<<n>>, e[2])
  BY <1>2, <1>4, ReadShape DEF VerifySub
<1> QED
  BY <1>1, <1>5, WayVerified

LEMMA VerifyRootStep ==
  ASSUME Shaped, HashInv, VerifyRoot PROVE VerShaped(ver') /\ VerifyInv'
<1> DEFINE m == man[<<>>].c
           same == top.whole /\ top = m
           joined == same /\ Joined(<<>>, m)
<1>1. ver' = [ret |-> IF joined THEN 0 ELSE 1,
              work |-> IF same THEN SubDirs(<<>>, m) ELSE {},
              next |-> IF joined THEN {} ELSE {<<"", "root">>},
              tail |-> IF joined THEN "" ELSE "root",
              th |-> NoVer.th]
  BY DEF VerifyRoot, NoVer
<1>2. /\ NoVer.th = [t \in Threads |-> [at |-> "free", sub |-> "", bad |-> 0, seen |-> 0]]
      /\ UNCHANGED <<man, tree, seen>> /\ pc' = "verify"
  BY DEF NoVer, VerifyRoot, ghosts
<1>3. same => m.whole /\ Whole(seen, m)
  BY DEF HashInv
<1>4. ASSUME same, NEW n \in SubDirs(<<>>, m) PROVE \E e \in m.subs : e[1] = <<n>>
  <2>1. PICK e \in m.subs \cup {e \in m.data : Len(e[1]) > 1} : n = e[1][1]
    BY <1>4 DEF SubDirs
  <2>2. e \in m.subs
    <3>1. \A d \in m.data : Len(d[1]) = 1
      BY <1>3, <1>4 DEF Whole
    <3>2. ASSUME e \in m.data, Len(e[1]) > 1 PROVE FALSE
      <4>1. Len(e[1]) = 1
        BY <3>1, <3>2
      <4>2. 1 > 1
        BY <3>2, <4>1, Zenon
      <4> QED
        BY <4>2, OneName
    <3> QED
      BY <2>1, <3>2
  <2>3. PICK r : e[1] = <<r>>
    BY <1>3, <1>4, <2>2 DEF Whole
  <2> QED
    BY <2>1, <2>2, <2>3
<1>5. ASSUME joined, NEW f \in Files, Exists(f)
      PROVE  tree[f].c = seen[f] \/ (Len(f) > 1 /\ f[1] \in SubDirs(<<>>, m))
  <2>1. Len(f) = 1 \/ Len(f) > 1
    <3>1. Len(f) \in Nat \ {0}
      BY FileFacts
    <3> QED
      BY <3>1, OneOrMore, Zenon
  <2>2. ASSUME Len(f) > 1 PROVE f[1] \in SubDirs(<<>>, m)
    <3>1. PICK e \in m.subs : e[1] = <<f[1]>>
      BY <1>3, <1>5, <2>2, RootFacts
    <3>2. f[1] \in ListDir(<<>>)
      <4>1. f \in Paths /\ Len(f) \in Nat \ {0} /\ Len(<<>>) = 0 /\ 0 + 1 = 1
        BY FileFacts, EmptyPath
      <4>2. Prefix(<<>>, f)
        BY <4>1, EmptyPath, PrefixFacts
      <4> QED
        BY <1>5, <4>1, <4>2 DEF ListDir, Below
    <3> QED
      BY <3>1, <3>2 DEF SubDirs
  <2> QED
    BY <1>3, <1>5, <2>1, <2>2, RootFacts
<1>9. ver'.ret = 0 => joined /\ ver'.work = SubDirs(<<>>, m)
  <2>1. ver'.ret = (IF joined THEN 0 ELSE 1) /\ ver'.work = (IF same THEN SubDirs(<<>>, m) ELSE {})
    BY <1>1
  <2>2. CASE joined
    BY <2>1, <2>2
  <2>3. CASE ~joined
    <3>1. ver'.ret = 1
      BY <2>1, <2>3
    <3> QED
      BY <3>1
  <2> QED
    BY <2>2, <2>3
<1> HIDE DEF m, same, joined
<1>7. ver'.th = [t \in Threads |-> [at |-> "free", sub |-> "", bad |-> 0, seen |-> 0]]
  <2>1. ver'.th = NoVer.th
    BY <1>1
  <2> QED
    BY <1>2, <2>1
<1>11. \A t \in Threads : ver'.th[t] = [at |-> "free", sub |-> "", bad |-> 0, seen |-> 0]
  BY <1>7, Zenon
<1>6. VerShaped(ver')
  <2>2. \A t \in Threads : ThreadShaped(ver'.th[t])
    <3> SUFFICES ASSUME NEW t \in Threads PROVE ThreadShaped(ver'.th[t])
      OBVIOUS
    <3>1. ver'.th[t] = [at |-> "free", sub |-> "", bad |-> 0, seen |-> 0]
      BY <1>11
    <3> QED
      BY <3>1 DEF ThreadShaped
  <2>3. ver'.th = [t \in Threads |-> ver'.th[t]]
    BY <1>7
  <2> QED
    BY <1>1, <2>2, <2>3 DEF VerShaped
<1>12. \A t \in Threads : ver'.th[t].at = "free"
  <2> SUFFICES ASSUME NEW t \in Threads PROVE ver'.th[t].at = "free"
    OBVIOUS
  <2>1. ver'.th[t] = [at |-> "free", sub |-> "", bad |-> 0, seen |-> 0]
    BY <1>11
  <2>2. [at |-> "free", sub |-> "", bad |-> 0, seen |-> 0].at = "free"
    OBVIOUS
  <2> QED
    BY <2>1, <2>2, Zenon
<1>8. \A n \in ver'.work : same /\ n \in SubDirs(<<>>, m)
  BY <1>1
<1>10. man'[<<>>].c = m /\ \A f \in Files : Unchanged(f)' <=> Unchanged(f)
  BY <1>2 DEF m, Unchanged, Exists
<1> QED
  BY <1>3, <1>4, <1>5, <1>2, <1>6, <1>12, <1>8, <1>9, <1>10 DEF VerifyInv, Unchanged

\* A step of one thread.
LEMMA ThreadPut ==
  ASSUME VerShaped(ver), NEW t \in Threads, NEW q, ThreadShaped(q),
         NEW rt, NEW wk, NEW nx, NEW tl,
         ver' = [ret |-> rt, work |-> wk, next |-> nx, tail |-> tl,
                 th |-> [ver.th EXCEPT ![t] = q]]
  PROVE  /\ VerShaped(ver') /\ ver'.ret = rt /\ ver'.work = wk
         /\ ver'.th[t] = q /\ \A o \in Threads : o # t => ver'.th[o] = ver.th[o]
<1> DEFINE th1 == [ver.th EXCEPT ![t] = q]
<1>1. ver.th = [o \in Threads |-> ver.th[o]] /\ \A o \in Threads : ThreadShaped(ver.th[o])
  BY DEF VerShaped
<1>2. /\ th1 = [o \in Threads |-> th1[o]] /\ th1[t] = q
      /\ \A o \in Threads : o # t => th1[o] = ver.th[o]
  BY <1>1
<1>3. \A o \in Threads : ThreadShaped(th1[o])
  BY <1>1, <1>2
<1>4. /\ ver' = [ret |-> rt, work |-> wk, next |-> nx, tail |-> tl, th |-> th1]
      /\ ver'.th = th1 /\ ver'.ret = rt /\ ver'.work = wk
  OBVIOUS
<1> HIDE DEF th1
<1>5. VerShaped(ver')
  BY <1>2, <1>3, <1>4 DEF VerShaped
<1> QED
  BY <1>2, <1>4, <1>5

\* A thread that is on its way to ret has failed, and takes a 1 there.
Going(t, q, rt) ==
  /\ ver.th[t].at # "free" /\ q.bad = ver.th[t].bad
  /\ (q.at # "free" /\ rt = ver.ret) \/ rt = 1

LEMMA GoingStep ==
  ASSUME VerShaped(ver), VerifyInv, NEW t \in Threads, NEW q, ThreadShaped(q),
         NEW rt, NEW nx, NEW tl,
         ver' = [ret |-> rt, work |-> ver.work, next |-> nx, tail |-> tl,
                 th |-> [ver.th EXCEPT ![t] = q]],
         pc \in {"verify", "verified"} => Going(t, q, rt),
         UNCHANGED <<tree, man, seen, pc>>
  PROVE  VerShaped(ver') /\ VerifyInv'
<1>1. /\ VerShaped(ver') /\ ver'.ret = rt /\ ver'.work = ver.work
      /\ ver'.th[t] = q /\ \A o \in Threads : o # t => ver'.th[o] = ver.th[o]
  BY ThreadPut
<1>2. SUFFICES ASSUME pc' \in {"verify", "verified"} PROVE VerifyInv'
  BY <1>1 DEF VerifyInv
<1>3. pc \in {"verify", "verified"} /\ Going(t, q, rt) /\ pc # "verified"
  BY <1>2 DEF Going, VerifyInv
<1>4. \A o \in Threads : ver'.th[o].at # "free" => ver'.th[o].bad = 1
  BY <1>1, <1>3 DEF VerifyInv, Going
<1>5. ver'.ret = 0 => ver.ret = 0 /\ q.at # "free"
  <2>1. 1 # 0
    OBVIOUS
  <2> QED
    BY <1>1, <1>3, <2>1 DEF Going
<1>6. man' = man /\ \A f \in Files : Unchanged(f)' <=> Unchanged(f)
  BY DEF Unchanged, Exists
<1>7. ver'.ret = 0 => \E o \in Threads : ver'.th[o].at # "free"
  BY <1>1, <1>5
<1> QED
  BY <1>1, <1>3, <1>4, <1>6, <1>7 DEF VerifyInv

LEMMA LinkStep ==
  ASSUME VerShaped(ver), VerifyInv, NEW t \in Threads, Link(t)
  PROVE  VerShaped(ver') /\ VerifyInv'
<1> DEFINE nx == {e \in ver.next : e[1] # ver.tail} \cup {<<ver.tail, ver.th[t].sub>>}
           q == [ver.th[t] EXCEPT !.at = "last"]
<1>1. ver.th[t].at = "link" /\ UNCHANGED <<tree, man, seen, pc>>
      /\ ver' = [ver EXCEPT !.next = nx, !.th[t].at = "last"]
  BY DEF Link, ghosts
<1>2. ThreadShaped(ver.th[t])
  BY DEF VerShaped
<1>3. ThreadShaped(q) /\ q.at = "last" /\ q.bad = ver.th[t].bad
  BY <1>2 DEF ThreadShaped
<1> HIDE DEF nx
<1>4. ver' = [ret |-> ver.ret, work |-> ver.work, next |-> nx, tail |-> ver.tail,
              th |-> [ver.th EXCEPT ![t] = q]]
  BY <1>1 DEF VerShaped
<1> HIDE DEF q
<1>5. Going(t, q, ver.ret)
  BY <1>1, <1>3 DEF Going
<1> QED
  BY <1>1, <1>3, <1>4, <1>5, GoingStep

LEMMA AdvanceStep ==
  ASSUME VerShaped(ver), VerifyInv, NEW t \in Threads, Advance(t)
  PROVE  VerShaped(ver') /\ VerifyInv'
<1> DEFINE q == [ver.th[t] EXCEPT !.at = "load"]
           s == ver.th[t].sub
<1>1. ver.th[t].at = "last" /\ UNCHANGED <<tree, man, seen, pc>>
      /\ ver' = [ver EXCEPT !.tail = ver.th[t].sub, !.th[t].at = "load"]
  BY DEF Advance, ghosts
<1>2. ThreadShaped(ver.th[t])
  BY DEF VerShaped
<1>3. ThreadShaped(q) /\ q.at = "load" /\ q.bad = ver.th[t].bad
  BY <1>2 DEF ThreadShaped
<1>4. ver' = [ret |-> ver.ret, work |-> ver.work, next |-> ver.next, tail |-> s,
              th |-> [ver.th EXCEPT ![t] = q]]
  BY <1>1 DEF VerShaped
<1> HIDE DEF q, s
<1>5. Going(t, q, ver.ret)
  BY <1>1, <1>3 DEF Going
<1> QED
  BY ZenonT(30), <1>1, <1>3, <1>4, <1>5, GoingStep

LEMMA LoadStep ==
  ASSUME VerShaped(ver), VerifyInv, NEW t \in Threads, Load(t)
  PROVE  VerShaped(ver') /\ VerifyInv'
<1> DEFINE l == [ver.th[t] EXCEPT !.seen = ver.ret]
           q == [l EXCEPT !.at = "store"]
<1>1. ver.th[t].at = "load" /\ UNCHANGED <<tree, man, seen, pc>>
      /\ ver' = [ver EXCEPT !.th[t].seen = ver.ret, !.th[t].at = "store"]
  BY DEF Load, ghosts
<1>2. ThreadShaped(ver.th[t])
  BY DEF VerShaped
<1>3. ThreadShaped(q) /\ q.at = "store" /\ q.bad = ver.th[t].bad
  <2>1. ThreadShaped(l) /\ l.bad = ver.th[t].bad
    BY <1>2 DEF ThreadShaped
  <2> HIDE DEF l
  <2> QED
    BY <2>1 DEF ThreadShaped
<1>4. ver' = [ret |-> ver.ret, work |-> ver.work, next |-> ver.next, tail |-> ver.tail,
              th |-> [ver.th EXCEPT ![t] = q]]
  BY <1>1 DEF VerShaped
<1> HIDE DEF q
<1>5. Going(t, q, ver.ret)
  BY <1>1, <1>3 DEF Going
<1> QED
  BY <1>1, <1>3, <1>4, <1>5, GoingStep

LEMMA StoreStep ==
  ASSUME VerShaped(ver), VerifyInv, NEW t \in Threads, Store(t)
  PROVE  VerShaped(ver') /\ VerifyInv'
<1> DEFINE rt == IF ver.th[t].seen = 1 THEN 1 ELSE ver.th[t].bad
           q == [ver.th[t] EXCEPT !.at = "free"]
<1>1. ver.th[t].at = "store" /\ UNCHANGED <<tree, man, seen, pc>>
      /\ ver' = [ver EXCEPT !.ret = rt, !.th[t].at = "free"]
  BY DEF Store, ghosts
<1>2. ThreadShaped(ver.th[t])
  BY DEF VerShaped
<1>3. ThreadShaped(q) /\ q.at = "free" /\ q.bad = ver.th[t].bad
  BY <1>2 DEF ThreadShaped
<1>4. pc \in {"verify", "verified"} => rt = 1
  BY <1>1 DEF VerifyInv
<1> HIDE DEF rt
<1>5. ver' = [ret |-> rt, work |-> ver.work, next |-> ver.next, tail |-> ver.tail,
              th |-> [ver.th EXCEPT ![t] = q]]
  BY <1>1 DEF VerShaped
<1> HIDE DEF q
<1>6. pc \in {"verify", "verified"} => Going(t, q, rt)
  BY <1>1, <1>3, <1>4 DEF Going
<1> QED
  BY <1>1, <1>3, <1>5, <1>6, GoingStep

\* A thread whose directory verifies leaves ret alone.
LEMMA TakeStep ==
  ASSUME Shaped, HashInv, VerShaped(ver), VerifyInv, NEW t \in Threads, Take(t)
  PROVE  VerShaped(ver') /\ VerifyInv'
<1>1. PICK n \in ver.work :
        ver' = [ver EXCEPT !.work = @ \ {n},
                  !.th[t] = IF ~Stores(n, VerifySub(man[<<>>].c, n)) THEN @
                            ELSE [at |-> IF VerifySub(man[<<>>].c, n) THEN "load" ELSE "link",
                                  sub |-> n,
                                  bad |-> IF VerifySub(man[<<>>].c, n) THEN 0 ELSE 1, seen |-> 0]]
  BY DEF Take
<1>2. pc = "verify" /\ ver.th[t].at = "free" /\ UNCHANGED <<tree, man, seen, pc>>
  BY DEF Take, ghosts
<1>3. PICK e \in man[<<>>].c.subs : e[1] = <<n>>
  BY <1>2 DEF VerifyInv
<1>4. Whole(seen, man[<<>>].c)
  BY <1>2 DEF VerifyInv, HashInv
<1> DEFINE ok == VerifySub(man[<<>>].c, n)
           q == IF ok THEN ver.th[t] ELSE [at |-> "link", sub |-> n, bad |-> 1, seen |-> 0]
<1>5. Stores(n, ok) <=> ~ok
  BY <1>3 DEF Stores
<1>6. ver' = [ver EXCEPT !.work = @ \ {n}, !.th[t] = q]
  BY <1>1, <1>5
<1>7. /\ ThreadShaped(q)
      /\ ok => q = ver.th[t]
      /\ ~ok => q.at = "link" /\ q.bad = 1
  BY DEF VerShaped, ThreadShaped
<1>8. ok => \A f \in Files : Len(f) > 1 /\ f[1] = n => Unchanged(f)
  BY <1>3, <1>4, SubVerified DEF Unchanged
<1> HIDE DEF q, ok
<1>9. ver' = [ret |-> ver.ret, work |-> ver.work \ {n}, next |-> ver.next, tail |-> ver.tail,
              th |-> [ver.th EXCEPT ![t] = q]]
  BY <1>6 DEF VerShaped
<1>10. /\ VerShaped(ver') /\ ver'.ret = ver.ret /\ ver'.work = ver.work \ {n}
       /\ ver'.th[t] = q /\ \A o \in Threads : o # t => ver'.th[o] = ver.th[o]
  BY <1>7, <1>9, ThreadPut
<1>11. man' = man /\ \A f \in Files : Unchanged(f)' <=> Unchanged(f)
  BY <1>2 DEF Unchanged, Exists
<1>12. \A o \in Threads : ver'.th[o].at # "free" => ver'.th[o].bad = 1
  BY <1>2, <1>7, <1>10 DEF VerifyInv
<1>13. ASSUME ver'.ret = 0, NEW f \in Files
       PROVE  \/ Unchanged(f)'
              \/ Len(f) > 1 /\ f[1] \in ver'.work
              \/ \E o \in Threads : ver'.th[o].at # "free"
  <2>1. CASE ~ok
    BY <1>7, <1>10, <2>1
  <2>2. CASE ok
    <3>1. \/ Unchanged(f)
          \/ Len(f) > 1 /\ f[1] \in ver.work
          \/ \E o \in Threads : ver.th[o].at # "free"
      BY <1>2, <1>10, <1>13 DEF VerifyInv
    <3>2. CASE Len(f) > 1 /\ f[1] \in ver.work
      <4>1. f[1] = n \/ f[1] \in ver'.work
        BY <1>10, <3>2
      <4> QED
        BY <1>8, <1>11, <2>2, <3>2, <4>1
    <3>3. CASE \E o \in Threads : ver.th[o].at # "free"
      BY <1>2, <1>10, <3>3
    <3> QED
      BY <1>11, <3>1, <3>2, <3>3
  <2> QED
    BY <2>1, <2>2
<1>14. ver'.work # {} => man'[<<>>].c.whole
  BY <1>2, <1>11 DEF VerifyInv
<1>15. \A r \in ver'.work : \E d \in man'[<<>>].c.subs : d[1] = <<r>>
  BY <1>2, <1>10, <1>11 DEF VerifyInv
<1> QED
  BY <1>2, <1>10, <1>12, <1>13, <1>14, <1>15 DEF VerifyInv

LEMMA VerifyEndStep ==
  ASSUME VerShaped(ver), VerifyInv, VerifyEnd PROVE VerShaped(ver') /\ VerifyInv'
<1>1. /\ pc = "verify" /\ pc' = "verified" /\ UNCHANGED <<tree, man, seen, ver>>
      /\ ver.work = {} /\ \A t \in Threads : ver.th[t].at = "free"
  BY DEF VerifyEnd, ghosts
<1>2. man' = man /\ \A f \in Files : Unchanged(f)' <=> Unchanged(f)
  BY <1>1 DEF Unchanged, Exists
<1> QED
  BY <1>1, <1>2 DEF VerifyInv

-----------------------------------------------------------------------------
(* What hashing does to the Manifests there are.                           *)

LEMMA RootName ==
  ASSUME NEW c \in RootDirs
  PROVE  /\ <<c>> \in Paths /\ Len(<<c>>) = 1 /\ <<c>>[1] = c
         /\ <<c>> \in Dirs /\ <<c>> # <<>> /\ <<c>> \notin Packages
<1>1. PICK f \in Files : Len(f) > 1 /\ c = f[1]
  BY DEF RootDirs
<1>2. Len(f) \in Nat
  BY FileFacts
<1>3. c \in {Names[i] : i \in DOMAIN Names}
  BY <1>1, <1>2, FileFacts
<1>4. <<c>> \in Paths
  BY <1>3 DEF Paths
<1>5. <<c>> # <<>> /\ Len(<<c>>) = 1
  OBVIOUS
<1> QED
  BY <1>4, <1>5, ShallowDirs DEF Dirs

\* The first name of an entry is the next one of the file.
LEMMA EntryName ==
  ASSUME NEW d \in Paths, NEW g \in Files, Prefix(d, g)
  PROVE  /\ Without(d, g)[1] = g[Len(d) + 1]
         /\ Len(Without(d, g)) = Len(g) - Len(d)
<1>1. g \in Paths
  BY FileFacts
<1>2. /\ Len(Without(d, g)) \in Nat \ {0} /\ Len(Without(d, g)) = Len(g) - Len(d)
      /\ \A i \in 1 .. Len(Without(d, g)) : Without(d, g)[i] = g[Len(d) + i]
  BY <1>1, RestFacts
<1>3. 1 \in 1 .. Len(Without(d, g))
  BY <1>2
<1> QED
  BY <1>2, <1>3

\* A file below a directory of the root, and one below a package.
LEMMA FileBelow ==
  ASSUME NEW g \in Files, NEW c \in RootDirs
  PROVE  Prefix(<<c>>, g) <=> Len(g) > 1 /\ g[1] = c
<1>1. /\ g \in Paths /\ Len(g) \in Nat
      /\ <<c>> \in Paths /\ Len(<<c>>) = 1 /\ <<c>>[1] = c
  BY FileFacts, RootName
<1>2. Prefix(<<c>>, g) <=> Len(<<c>>) < Len(g) /\ \A k \in 1 .. Len(<<c>>) : <<c>>[k] = g[k]
  BY <1>1, PrefixFacts
<1>3. \A k \in 1 .. Len(<<c>>) : k = 1
  BY <1>1
<1>4. 1 \in 1 .. Len(<<c>>)
  BY <1>1
<1>5. (\A k \in 1 .. Len(<<c>>) : <<c>>[k] = g[k]) <=> g[1] = c
  BY <1>1, <1>3, <1>4
<1>6. Len(<<c>>) < Len(g) <=> Len(g) > 1
  BY <1>1
<1> QED
  BY <1>2, <1>5, <1>6

LEMMA PackageBelow ==
  ASSUME NEW p \in Packages, NEW g \in Files, Prefix(p, g)
  PROVE  Len(g) > 2 /\ g[1] = p[1] /\ g[2] = p[2] /\ p[1] \in Categories
<1>1. p \in Paths /\ Len(p) = 2 /\ g \in Paths /\ Len(g) \in Nat
  BY FileFacts, PackageFacts
<1>2. Len(p) < Len(g) /\ \A k \in 1 .. Len(p) : p[k] = g[k]
  BY <1>1, PrefixFacts
<1>3. 1 \in 1 .. Len(p) /\ 2 \in 1 .. Len(p)
  BY <1>1
<1>4. p[1] = g[1] /\ p[2] = g[2]
  BY <1>2, <1>3
<1>5. PICK h \in Files : Len(h) > 2 /\ h[1] \in Categories /\ p = SubSeq(h, 1, 2)
  BY DEF Packages
<1>6. h \in Paths /\ Len(h) \in Nat
  BY FileFacts
<1>7. 2 \in 0 .. Len(h) /\ 1 \in 1 .. 2
  BY <1>5, <1>6
<1>8. p[1] = h[1]
  BY <1>5, <1>6, <1>7, StartFacts
<1> QED
  BY <1>1, <1>2, <1>4, <1>5, <1>8

\* What files were hashed to is kept: below d except below its x, in c except below its
\* x, and everywhere except below x.
KeptBelow(s0, s1, d, x) ==
  \A g \in Files : Prefix(d, g) /\ g[Len(d) + 1] # x => s1[g] = s0[g]
KeptInRootDir(s0, s1, c, x) ==
  \A g \in Files : Len(g) > 1 /\ g[1] = c /\ g[2] # x => s1[g] = s0[g]
KeptOutside(s0, s1, x) == \A g \in Files : g[1] # x => s1[g] = s0[g]

NoData(u, x) == \A e \in u.data : e[1][1] # x

\* Hashes of other files are what they were.
LEMMA HashesKept ==
  ASSUME NEW s0, NEW s1, NEW d \in Paths, NEW u, NEW x,
         Hashes(s0, d, u), NoData(u, x), KeptBelow(s0, s1, d, x)
  PROVE  Hashes(s1, d, u)
<1> SUFFICES ASSUME NEW e \in u.data
             PROVE  \E g \in Below(d) : e = <<Without(d, g), s1[g]>>
  BY DEF Hashes
<1>1. PICK g \in Files : Prefix(d, g) /\ e = <<Without(d, g), s0[g]>>
  BY DEF Hashes, Below
<1>2. e[1] = Without(d, g) /\ Without(d, g)[1] = g[Len(d) + 1]
  BY <1>1, EntryName
<1>3. g[Len(d) + 1] # x
  BY <1>2 DEF NoData
<1>4. s1[g] = s0[g]
  BY <1>1, <1>3 DEF KeptBelow
<1> QED
  BY <1>1, <1>4 DEF Below

LEMMA MidKept ==
  ASSUME NEW s0, NEW s1, NEW c \in RootDirs, NEW u, NEW x, Mid(s0, <<c>>, u), Fresh(u, x),
         KeptInRootDir(s0, s1, c, x)
  PROVE  Mid(s1, <<c>>, u)
<1>1. <<c>> \in Paths /\ Len(<<c>>) + 1 = 2
  BY RootName
<1>2. Hashes(s1, <<c>>, u)
  <2>1. \A g \in Files : Prefix(<<c>>, g) /\ g[2] # x => s1[g] = s0[g]
    BY FileBelow DEF KeptInRootDir
  <2>2. Hashes(s0, <<c>>, u) /\ NoData(u, x)
    BY DEF Mid, Fresh, NoData
  <2> DEFINE d == <<c>>
  <2>3. d \in Paths /\ KeptBelow(s0, s1, d, x)
    BY <1>1, <2>1 DEF KeptBelow
  <2>4. Hashes(s0, d, u)
    BY <2>2
  <2>5. Hashes(s1, d, u)
    <3> HIDE DEF d
    <3> QED
      BY <2>2, <2>3, <2>4, HashesKept
  <2> QED
    BY <2>5
<1>3. ASSUME NEW e \in u.subs
      PROVE  \E p \in Packages : <<c>> = <<p[1]>> /\ e[1] = <<p[2]>> /\ Leaf(s1, p, e[2])
  <2>1. PICK p \in Packages : <<c>> = <<p[1]>> /\ e[1] = <<p[2]>> /\ Leaf(s0, p, e[2])
    BY <1>3 DEF Mid
  <2>2. p[1] = c /\ p[2] # x
    <3>1. e[1][1] # x
      BY <1>3 DEF Fresh
    <3> QED
      BY <2>1, <3>1
  <2>3. \A g \in Below(p) : s1[g] = s0[g]
    <3> SUFFICES ASSUME NEW g \in Files, Prefix(p, g) PROVE s1[g] = s0[g]
      BY DEF Below
    <3>1. Len(g) > 2 /\ g[1] = c /\ g[2] # x
      BY <2>2, PackageBelow
    <3>2. Len(g) \in Nat
      BY FileFacts
    <3>3. Len(g) > 1
      BY <3>1, <3>2
    <3> QED
      BY <3>1, <3>3 DEF KeptInRootDir
  <2>4. Leaf(s1, p, e[2])
    BY <2>1, <2>3 DEF Leaf, Hashes
  <2> QED
    BY <2>1, <2>4
<1> QED
  BY <1>2, <1>3 DEF Mid

LEMMA RootKept ==
  ASSUME NEW s0, NEW s1, NEW u, NEW x, Whole(s0, u), Fresh(u, x),
         KeptOutside(s0, s1, x)
  PROVE  Whole(s1, u)
<1>1. <<>> \in Paths /\ Len(<<>>) + 1 = 1
  BY EmptyPath
<1>2. Hashes(s1, <<>>, u)
  <2>1. Hashes(s0, <<>>, u) /\ NoData(u, x)
    BY DEF Whole, Fresh, NoData
  <2> DEFINE d == <<>>
  <2>2. d \in Paths /\ KeptBelow(s0, s1, d, x)
    BY <1>1 DEF KeptBelow, KeptOutside
  <2>3. Hashes(s0, d, u)
    BY <2>1
  <2>4. Hashes(s1, d, u)
    <3> HIDE DEF d
    <3> QED
      BY <2>1, <2>2, <2>3, HashesKept
  <2> QED
    BY <2>4
<1>3. ASSUME NEW e \in u.subs
      PROVE  \E n \in RootDirs : e[1] = <<n>> /\ Mid(s1, <<n>>, e[2])
  <2>1. PICK n \in RootDirs : e[1] = <<n>> /\ Mid(s0, <<n>>, e[2])
    BY <1>3 DEF Whole
  <2>2. n # x
    <3>1. e[1][1] # x
      BY <1>3 DEF Fresh
    <3> QED
      BY <2>1, <3>1
  <2>3. \A g \in Files : g[1] = n => s1[g] = s0[g]
    BY <2>2 DEF KeptOutside
  <2>4. Mid(s1, <<n>>, e[2])
    <3>1. Hashes(s1, <<n>>, e[2])
      <4>1. \A g \in Below(<<n>>) : s1[g] = s0[g]
        BY <2>3, FileBelow DEF Below
      <4> QED
        BY <2>1, <4>1 DEF Mid, Hashes
    <3>2. ASSUME NEW h \in e[2].subs
          PROVE  \E p \in Packages : <<n>> = <<p[1]>> /\ h[1] = <<p[2]>> /\ Leaf(s1, p, h[2])
      <4>1. PICK p \in Packages : <<n>> = <<p[1]>> /\ h[1] = <<p[2]>> /\ Leaf(s0, p, h[2])
        BY <2>1, <3>2 DEF Mid
      <4>2. p[1] = n
        BY <4>1
      <4>3. \A g \in Below(p) : s1[g] = s0[g]
        BY <2>3, <4>2, PackageBelow DEF Below
      <4> QED
        BY <4>1, <4>3 DEF Leaf, Hashes
    <3> QED
      BY <3>1, <3>2 DEF Mid
  <2> QED
    BY <2>1, <2>4
<1> QED
  BY <1>2, <1>3 DEF Whole

-----------------------------------------------------------------------------
(* The steps of a generation: what they write is what they hash.           *)

PutsData(m0, m1, d, x) == m1 = [m0 EXCEPT ![d].c.data = x]
PutsSubs(m0, m1, d, x) == m1 = [m0 EXCEPT ![d].c.subs = x]

\* What the Manifests are then.
Has(m0, m1, d, r) == m1[d] = r /\ \A b \in Dirs : b # d => m1[b] = m0[b]
HasData(m0, m1, d, x) ==
  /\ m1[d].c.data = x /\ m1[d].c.subs = m0[d].c.subs /\ m1[d].c.whole = m0[d].c.whole
  /\ m1[d].c.dist = m0[d].c.dist /\ m1[d].m = m0[d].m
  /\ \A b \in Dirs : b # d => m1[b] = m0[b]
HasSubs(m0, m1, d, x) ==
  /\ m1[d].c.subs = x /\ m1[d].c.data = m0[d].c.data /\ m1[d].c.whole = m0[d].c.whole
  /\ m1[d].c.dist = m0[d].c.dist /\ m1[d].m = m0[d].m
  /\ \A b \in Dirs : b # d => m1[b] = m0[b]

LEMMA PutAt ==
  ASSUME NEW m0, NEW m1, NEW d \in Dirs, NEW r, ManShaped(m0), Puts(m0, m1, d, r)
  PROVE  Has(m0, m1, d, r)
BY DEF ManShaped, Puts, Has

LEMMA DataAt ==
  ASSUME NEW m0, NEW m1, NEW d \in Dirs, NEW x, ManShaped(m0), PutsData(m0, m1, d, x)
  PROVE  HasData(m0, m1, d, x)
<1> DEFINE k == [m0[d].c EXCEPT !.data = x]
           r == [m0[d] EXCEPT !.c = k]
<1>1. Record(m0[d])
  BY DEF ManShaped
<1>2. k.data = x /\ k.subs = m0[d].c.subs /\ k.whole = m0[d].c.whole /\ k.dist = m0[d].c.dist
  BY <1>1 DEF Record, Content
<1>3. Puts(m0, m1, d, r)
  BY DEF PutsData, Puts
<1> HIDE DEF k
<1>4. r.c = k /\ r.m = m0[d].m
  BY <1>1 DEF Record
<1> HIDE DEF r
<1>5. Has(m0, m1, d, r)
  BY <1>3, PutAt
<1> QED
  BY <1>2, <1>4, <1>5 DEF Has, HasData

LEMMA SubsAt ==
  ASSUME NEW m0, NEW m1, NEW d \in Dirs, NEW x, ManShaped(m0), PutsSubs(m0, m1, d, x)
  PROVE  HasSubs(m0, m1, d, x)
<1> DEFINE k == [m0[d].c EXCEPT !.subs = x]
           r == [m0[d] EXCEPT !.c = k]
<1>1. Record(m0[d])
  BY DEF ManShaped
<1>2. k.subs = x /\ k.data = m0[d].c.data /\ k.whole = m0[d].c.whole /\ k.dist = m0[d].c.dist
  BY <1>1 DEF Record, Content
<1>3. Puts(m0, m1, d, r)
  BY DEF PutsSubs, Puts
<1> HIDE DEF k
<1>4. r.c = k /\ r.m = m0[d].m
  BY <1>1 DEF Record
<1> HIDE DEF r
<1>5. Has(m0, m1, d, r)
  BY <1>3, PutAt
<1> QED
  BY <1>2, <1>4, <1>5 DEF Has, HasSubs

LEMMA RootDir == <<>> \in Dirs
BY DEF Dirs

LEMMA Joining == (\A n : <<>> \o <<n>> = <<n>>) /\ \A c, n : <<c>> \o <<n>> = <<c, n>>
<1>1. ASSUME NEW n PROVE <<>> \o <<n>> = <<n>>
  <2>1. <<n>> \in Seq({n})
    OBVIOUS
  <2> QED
    BY <2>1, ConcatEmptySeq
<1>2. ASSUME NEW c, NEW n PROVE <<c>> \o <<n>> = <<c, n>>
  <2>1. <<c>> \in Seq({c, n}) /\ <<n>> \in Seq({c, n}) /\ <<c, n>> \in Seq({c, n})
    OBVIOUS
  <2> DEFINE a == <<c>>
             b == <<n>>
             d == <<c, n>>
  <2>2. Len(a) = 1 /\ Len(b) = 1 /\ Len(d) = 2 /\ a[1] = c /\ b[1] = n /\ d[1] = c /\ d[2] = n
    OBVIOUS
  <2>3. a \in Seq({c, n}) /\ b \in Seq({c, n}) /\ d \in Seq({c, n})
    BY <2>1
  <2> HIDE DEF a, b, d
  <2>4. /\ a \o b \in Seq({c, n}) /\ Len(a \o b) = Len(a) + Len(b)
        /\ \A i \in 1 .. Len(a) + Len(b) :
             (a \o b)[i] = IF i <= Len(a) THEN a[i] ELSE b[i - Len(a)]
    BY <2>3, ConcatProperties
  <2>5. Len(a \o b) = 2 /\ (a \o b)[1] = c /\ (a \o b)[2] = n
    BY <2>2, <2>4
  <2>6. \A i \in 1 .. Len(d) : (a \o b)[i] = d[i]
    BY <2>2, <2>5
  <2>7. a \o b = d
    BY <2>2, <2>3, <2>4, <2>5, <2>6, SeqEqual
  <2> QED
    BY <2>7 DEF a, b, d
<1> QED
  BY <1>1, <1>2

LEMMA RootPrefix == \A f \in Files : Prefix(<<>>, f)
<1> SUFFICES ASSUME NEW f \in Files PROVE Prefix(<<>>, f)
  OBVIOUS
<1>1. f \in Paths /\ Len(f) \in Nat \ {0} /\ Len(<<>>) = 0
  BY FileFacts, EmptyPath
<1> QED
  BY <1>1, EmptyPath, PrefixFacts

\* A name of the root that is to do.
LEMMA ToDo ==
  ASSUME HashInv, Working, NEW n \in gen.todo
  PROVE  /\ Fresh(man[<<>>].c, n)
         /\ n \in RootDirs \/ (<<n>> \in Files /\ Len(<<n>>) = 1)
<1>1. PICK f \in Files : n = f[1]
  BY DEF HashInv
<1>2. f \in Paths /\ Len(f) \in Nat \ {0}
  BY FileFacts
<1>3. CASE Len(f) > 1
  BY <1>1, <1>3 DEF RootDirs, HashInv
<1>4. CASE Len(f) = 1
  <2>1. f = <<n>>
    BY <1>1, <1>2, <1>4 DEF Paths
  <2> QED
    BY <1>4, <2>1 DEF HashInv
<1> QED
  BY <1>2, <1>3, <1>4, OneOrMore

\* What is hashed is entered as it was read.
LEMMA HashedEntries ==
  ASSUME NEW d, NEW S, NEW T, S \subseteq Below(d), S \subseteq T, Hashed(T),
         NEW e \in Entries(d, S)
  PROVE  \E g \in S : g \in Below(d) /\ e = <<Without(d, g), seen'[g]>>
<1>1. PICK g \in S : e = <<Without(d, g), tree[g].c>>
  BY DEF Entries, Entry
<1>2. g \in Files /\ seen'[g] = tree[g].c
  BY DEF Hashed, Below
<1> QED
  BY <1>1, <1>2

LEMMA GenerateHashed == ASSUME IInv, HashInv, Generate PROVE HashInv'
<1> DEFINE r == [c |-> Nothing, m |-> clock']
<1>1. /\ man' = [man EXCEPT ![<<>>] = r] /\ gen'.todo = ListDir(<<>>) /\ gen'.dir = <<>>
      /\ pc' = "root" /\ UNCHANGED seen
  BY DEF Generate, NoGen, ghosts
<1>2. man'[<<>>].c = Nothing
  <2>1. ManShaped(man)
    BY DEF IInv, Shaped
  <2> DEFINE b == <<>>
  <2>2. b \in Dirs /\ Puts(man, man', b, r)
    BY <1>1, RootDir DEF Puts
  <2> HIDE DEF b, r
  <2>3. Has(man, man', b, r)
    BY <2>1, <2>2, PutAt
  <2> QED
    BY <2>3 DEF Has, b, r
<1>3. \A n \in ListDir(<<>>) : \E f \in Files : n = f[1]
  <2>1. Len(<<>>) + 1 = 1
    BY EmptyPath
  <2> QED
    BY <2>1 DEF ListDir, Below
<1>4. Whole(seen, Nothing) /\ ~Nothing.whole /\ \A n : Fresh(Nothing, n)
  BY DEF Whole, Hashes, Fresh, Nothing
<1> QED
  BY <1>1, <1>2, <1>3, <1>4 DEF HashInv, Working

LEMMA RootFileHashed == ASSUME IInv, HashInv, RootFile PROVE HashInv'
<1>1. PICK n \in gen.todo \ RootDirs :
        /\ man' = [man EXCEPT ![<<>>].c.data =
                     @ \cup Entries(<<>>, {f \in {<<n>>} : Exists(f)})]
        /\ gen' = [gen EXCEPT !.todo = @ \ {n},
                              !.tv = Greatest({@, Latest({f \in {<<n>>} : Exists(f)})})]
        /\ Hashed({<<n>>})
  BY DEF RootFile
<1>2. pc = "root" /\ pc' = "root" /\ Working /\ Working'
  BY DEF RootFile, Working
<1> DEFINE S == {f \in {<<n>>} : Exists(f)}
           E == Entries(<<>>, S)
<1>3. gen'.todo = gen.todo \ {n} /\ gen'.dir = gen.dir
  BY <1>1 DEF IInv, Shaped, GenShaped
<1>4. Fresh(man[<<>>].c, n) /\ <<n>> \in Files /\ Len(<<n>>) = 1
  BY <1>1, <1>2, ToDo
<1>5. /\ man'[<<>>].c.data = man[<<>>].c.data \cup E
      /\ man'[<<>>].c.subs = man[<<>>].c.subs /\ man'[<<>>].c.whole = man[<<>>].c.whole
  <2>1. ManShaped(man)
    BY DEF IInv, Shaped
  <2> DEFINE b == <<>>
  <2>2. b \in Dirs /\ PutsData(man, man', b, man[b].c.data \cup E)
    BY <1>1, RootDir DEF PutsData
  <2> HIDE DEF b, E
  <2>3. HasData(man, man', b, man[b].c.data \cup E)
    BY <2>1, <2>2, DataAt
  <2> QED
    BY <2>3 DEF HasData, b
<1>6. Whole(seen', man[<<>>].c)
  <2>1. KeptOutside(seen, seen', n)
    BY <1>1 DEF Hashed, KeptOutside
  <2> QED
    BY <1>2, <1>4, <2>1, RootKept DEF HashInv
<1>7. S \subseteq Below(<<>>) /\ S \subseteq {<<n>>}
  BY <1>4, RootPrefix DEF Below
<1> HIDE DEF S
<1>8. ASSUME NEW e \in E
      PROVE  /\ \E g \in Below(<<>>) : e = <<Without(<<>>, g), seen'[g]>>
             /\ Len(e[1]) = 1 /\ e[1][1] = n
  <2>1. PICK g \in S : g \in Below(<<>>) /\ e = <<Without(<<>>, g), seen'[g]>>
    BY <1>1, <1>7, HashedEntries
  <2>2. g = <<n>>
    BY <1>7
  <2>3. /\ <<>> \in Paths /\ Len(<<>>) = 0 /\ 0 + 1 = 1 /\ 1 - 0 = 1
        /\ g \in Files /\ Prefix(<<>>, g) /\ Len(g) = 1 /\ g[1] = n
    BY <1>4, <2>1, <2>2, EmptyPath DEF Below
  <2>4. Without(<<>>, g)[1] = n /\ Len(Without(<<>>, g)) = 1
    BY <2>3, EntryName
  <2> QED
    BY <2>1, <2>4
<1> HIDE DEF E
<1>9. Whole(seen', man'[<<>>].c)
  BY <1>5, <1>6, <1>8 DEF Whole, Hashes
<1>10. \A k \in gen'.todo : Fresh(man'[<<>>].c, k) /\ \E f \in Files : k = f[1]
  BY <1>2, <1>3, <1>5, <1>8 DEF HashInv, Fresh
<1>11. gen'.dir = <<>> \/ \E k \in gen'.todo \cap Subtrees : gen'.dir = <<k>>
  <2>1. n \notin Subtrees
    BY TreeAssumption
  <2> QED
    BY <1>2, <1>3, <2>1 DEF HashInv
<1>12. ~man'[<<>>].c.whole
  BY <1>2, <1>5 DEF HashInv
<1> QED
  BY <1>2, <1>9, <1>10, <1>11, <1>12 DEF HashInv

\* The Manifest of a directory of the root is referred to.
LEMMA RootSubs ==
  ASSUME NEW m, NEW m1, ManShaped(m), NEW n \in RootDirs, m1 = AddSub(m, <<>>, n)
  PROVE  HasSubs(m, m1, <<>>, m[<<>>].c.subs \cup {<<<<n>>, m[<<n>>].c>>})
<1> DEFINE d == <<>>
           x == m[d].c.subs \cup {<<<<n>>, m[<<n>>].c>>}
<1>1. PutsSubs(m, m1, d, x)
  BY Joining DEF AddSub, PutsSubs
<1>2. d \in Dirs
  BY RootDir
<1> HIDE DEF d
<1>3. HasSubs(m, m1, d, x)
  <2> HIDE DEF x
  <2> QED
    BY <1>1, <1>2, SubsAt
<1> QED
  BY <1>3 DEF d

Refers(u, v, n, k) ==
  v.subs = u.subs \cup {<<<<n>>, k>>} /\ v.data = u.data /\ v.whole = u.whole

LEMMA Referring ==
  ASSUME NEW s, NEW u, NEW v, NEW n \in RootDirs, NEW k, Refers(u, v, n, k),
         Whole(s, u), Mid(s, <<n>>, k)
  PROVE  Whole(s, v) /\ \A x : Fresh(u, x) /\ x # n => Fresh(v, x)
<1>1. v.subs = u.subs \cup {<<<<n>>, k>>} /\ v.data = u.data
  BY DEF Refers
<1>2. Whole(s, v)
  <2>1. Hashes(s, <<>>, v) /\ \A e \in v.data : Len(e[1]) = 1
    BY <1>1 DEF Whole, Hashes
  <2>2. ASSUME NEW e \in v.subs PROVE \E r \in RootDirs : e[1] = <<r>> /\ Mid(s, <<r>>, e[2])
    <3>1. CASE e \in u.subs
      BY <3>1 DEF Whole
    <3>2. CASE e = <<<<n>>, k>>
      <4>1. e[1] = <<n>> /\ e[2] = k
        BY <3>2
      <4> QED
        BY <4>1
    <3> QED
      BY <1>1, <2>2, <3>1, <3>2
  <2> QED
    BY <2>1, <2>2 DEF Whole
<1>3. ASSUME NEW x, Fresh(u, x), x # n PROVE Fresh(v, x)
  <2>1. <<<<n>>, k>>[1][1] = n
    OBVIOUS
  <2> QED
    BY <1>1, <1>3, <2>1 DEF Fresh
<1> QED
  BY <1>2, <1>3

\* A Manifest that has been opened.
LEMMA Opening ==
  ASSUME NEW m0, NEW m1, NEW n \in RootDirs, ManShaped(m0),
         m1 = [m0 EXCEPT ![<<n>>] = [c |-> Nothing, m |-> clock]]
  PROVE  m1[<<>>] = m0[<<>>] /\ m1[<<n>>].c = Nothing
<1> DEFINE d == <<n>>
           r == [c |-> Nothing, m |-> clock]
<1>1. d \in Dirs /\ d # <<>> /\ Puts(m0, m1, d, r)
  BY RootName DEF Puts
<1>2. r.c = Nothing
  OBVIOUS
<1> HIDE DEF d, r
<1>3. Has(m0, m1, d, r)
  BY <1>1, PutAt
<1> QED
  BY <1>1, <1>2, <1>3, RootDir DEF Has, d

LEMMA NothingHashed ==
  \A s, d, x : Hashes(s, d, Nothing) /\ Mid(s, d, Nothing) /\ Fresh(Nothing, x)
BY DEF Nothing, Hashes, Mid, Fresh

LEMMA SubtreeOpenHashed == ASSUME IInv, HashInv, SubtreeOpen PROVE HashInv'
<1>1. PICK n \in gen.todo \cap Subtrees :
        /\ man' = [man EXCEPT ![<<n>>] = [c |-> Nothing, m |-> clock]]
        /\ gen' = [gen EXCEPT !.dir = <<n>>]
  BY DEF SubtreeOpen
<1>2. pc = "root" /\ pc' = "root" /\ Working /\ Working' /\ seen' = seen
  BY DEF SubtreeOpen, Working, ghosts
<1>3. gen'.todo = gen.todo /\ gen'.dir = <<n>>
  BY <1>1 DEF IInv, Shaped, GenShaped
<1>4. man'[<<>>] = man[<<>>]
  <2>1. n \in RootDirs
    BY TreeAssumption
  <2> QED
    BY <1>1, <2>1, Opening DEF IInv, Shaped
<1> QED
  BY <1>2, <1>3, <1>4 DEF HashInv

LEMMA CategoryOpenHashed == ASSUME IInv, HashInv, CategoryOpen PROVE HashInv'
<1>1. PICK n \in gen.todo \cap Categories :
        /\ man' = [man EXCEPT ![<<n>>] = [c |-> Nothing, m |-> clock]]
        /\ gen' = [gen EXCEPT !.dir = <<n>>, !.sub = ListDir(<<n>>), !.subtv = 0]
  BY DEF CategoryOpen
<1>2. pc = "root" /\ pc' = "category" /\ Working /\ Working' /\ seen' = seen
  BY DEF CategoryOpen, Working, ghosts
<1>3. gen'.todo = gen.todo /\ gen'.dir = <<n>>
  BY <1>1 DEF IInv, Shaped, GenShaped
<1>4. man'[<<>>] = man[<<>>] /\ man'[<<n>>].c = Nothing
  <2>1. n \in RootDirs
    BY DEF Categories
  <2> QED
    BY <1>1, <2>1, Opening DEF IInv, Shaped
<1>5. Fresh(man'[<<>>].c, n) /\ Mid(seen', <<n>>, man'[<<n>>].c)
      /\ \A x : Fresh(man'[<<n>>].c, x)
  BY <1>2, <1>4, NothingHashed DEF HashInv
<1> QED
  BY <1>2, <1>3, <1>4, <1>5 DEF HashInv

LEMMA SubtreeCloseHashed == ASSUME IInv, HashInv, SubtreeClose PROVE HashInv'
<1>1. PICK n \in gen.todo \cap Subtrees : gen.dir = <<n>>
  BY DEF SubtreeClose, HashInv
<1>2. pc = "root" /\ pc' = "root" /\ Working /\ Working' /\ gen.dir[1] = n /\ n \in RootDirs
  BY <1>1, TreeAssumption DEF SubtreeClose, Working
<1> DEFINE d == <<n>>
           x == [Nothing EXCEPT !.data = Entries(d, Under(d)), !.whole = TRUE]
           m == Done(d, x, Latest(Under(d)))
<1>3. /\ man' = AddSub(m, <<>>, n)
      /\ gen' = [Referred(gen, n, m) EXCEPT !.dir = <<>>]
      /\ Hashed(Below(d))
  BY <1>1, <1>2 DEF SubtreeClose
<1>4. x = Content(x) /\ x.data = Entries(d, Under(d)) /\ x.subs = {}
  <2>1. Ends(Nothing, x)
    BY DEF Ends
  <2>2. x = Content(x)
    BY <2>1, Ending, NothingShaped
  <2> QED
    BY <2>2 DEF Nothing
<1>5. d \in Dirs /\ d # <<>> /\ d \notin Packages /\ <<>> \in Dirs
  BY <1>2, RootName, RootDir
<1> HIDE DEF x, d
<1>6. ManShaped(m)
  BY <1>4, <1>5, Finishing DEF IInv, Shaped
<1>7. m[<<>>] = man[<<>>] /\ m[d].c = x
  <2> DEFINE r == [c |-> x, m |-> IF Latest(Under(d)) # 0 THEN Latest(Under(d)) ELSE clock]
  <2>1. Puts(man, m, d, r) /\ r.c = x
    BY DEF Done, Puts
  <2> HIDE DEF r, m
  <2>2. Has(man, m, d, r)
    BY <1>5, <2>1, PutAt DEF IInv, Shaped
  <2> QED
    BY <1>5, <2>1, <2>2 DEF Has
<1>8. gen'.todo = gen.todo \ {n} /\ gen'.dir = <<>>
  BY <1>3 DEF IInv, Shaped, GenShaped, Referred
<1> HIDE DEF m
<1>9. HasSubs(m, man', <<>>, m[<<>>].c.subs \cup {<<<<n>>, x>>})
  <2>1. HasSubs(m, man', <<>>, m[<<>>].c.subs \cup {<<<<n>>, m[<<n>>].c>>})
    BY <1>2, <1>3, <1>6, RootSubs
  <2> QED
    BY <1>7, <2>1 DEF d
<1>10. Whole(seen', m[<<>>].c) /\ Fresh(m[<<>>].c, n)
  <2>1. KeptOutside(seen, seen', n)
    BY <1>2, <1>3, FileBelow DEF Hashed, Below, d, KeptOutside
  <2>2. Fresh(man[<<>>].c, n) /\ Whole(seen, man[<<>>].c)
    BY <1>1, <1>2 DEF HashInv
  <2> QED
    BY <1>7, <2>1, <2>2, RootKept
<1>11. Mid(seen', <<n>>, x)
  <2>1. Under(d) \subseteq Below(d)
    BY DEF Under
  <2>2. \A e \in x.data : \E g \in Below(d) : e = <<Without(d, g), seen'[g]>>
    BY <1>3, <1>4, <2>1, HashedEntries
  <2> QED
    BY <1>4, <2>2 DEF Mid, Hashes, d
<1>12. /\ Whole(seen', man'[<<>>].c) /\ man'[<<>>].c.whole = man[<<>>].c.whole
       /\ \A k : Fresh(man[<<>>].c, k) /\ k # n => Fresh(man'[<<>>].c, k)
  <2> DEFINE u == m[<<>>].c
             v == man'[<<>>].c
  <2>1. Refers(u, v, n, x)
    BY <1>9 DEF HasSubs, Refers
  <2>2. Whole(seen', u) /\ u = man[<<>>].c
    BY <1>7, <1>10
  <2> HIDE DEF u, v
  <2>3. Whole(seen', v) /\ \A k : Fresh(u, k) /\ k # n => Fresh(v, k)
    BY <1>2, <1>11, <2>1, <2>2, Referring
  <2>4. v.whole = u.whole
    BY <2>1 DEF Refers
  <2> QED
    BY <2>2, <2>3, <2>4 DEF v
<1>13. \A k \in gen'.todo : Fresh(man'[<<>>].c, k) /\ \E f \in Files : k = f[1]
  BY <1>2, <1>8, <1>12 DEF HashInv
<1> QED
  BY <1>2, <1>8, <1>12, <1>13 DEF HashInv

LEMMA CategoryFileHashed == ASSUME IInv, HashInv, CategoryFile PROVE HashInv'
<1>1. PICK c \in Categories :
        /\ gen.dir = <<c>> /\ Fresh(man[<<>>].c, c) /\ Mid(seen, <<c>>, man[<<c>>].c)
        /\ \A n \in gen.sub : Fresh(man[<<c>>].c, n)
  BY DEF CategoryFile, HashInv
<1> DEFINE d == <<c>>
<1>2. PICK n \in gen.sub :
        /\ d \o <<n>> \in Files
        /\ man' = [man EXCEPT ![d].c.data =
                     @ \cup Entries(d, {g \in {d \o <<n>>} : Exists(g)})]
        /\ gen' = [gen EXCEPT !.sub = @ \ {n},
                              !.subtv = Greatest({@, Latest({g \in {d \o <<n>>} : Exists(g)})})]
        /\ Hashed({d \o <<n>>})
  BY <1>1 DEF CategoryFile
<1>3. pc = "category" /\ pc' = "category" /\ Working /\ Working'
  BY DEF CategoryFile, Working
<1> DEFINE f == d \o <<n>>
           S == {g \in {f} : Exists(g)}
           E == Entries(d, S)
<1>4. f \in Files /\ Len(f) = 2 /\ f[1] = c /\ f[2] = n
  <2>1. f = <<c, n>>
    BY Joining
  <2> QED
    BY <1>2, <2>1
<1>5. /\ c \in RootDirs /\ d \in Paths /\ d \in Dirs /\ d # <<>> /\ Len(d) = 1
      /\ 1 + 1 = 2
  BY RootName DEF Categories
<1>6. Prefix(d, f)
  <2>1. Len(f) > 1
    BY <1>4
  <2> QED
    BY <1>4, <1>5, <2>1, FileBelow
<1>7. HasData(man, man', d, man[d].c.data \cup E)
  <2>1. PutsData(man, man', d, man[d].c.data \cup E)
    BY <1>2 DEF PutsData
  <2> HIDE DEF d, E
  <2> QED
    BY <1>5, <2>1, DataAt DEF IInv, Shaped
<1>8. gen'.todo = gen.todo /\ gen'.dir = d /\ gen'.sub = gen.sub \ {n}
  BY <1>1, <1>2 DEF IInv, Shaped, GenShaped
<1>9. Hashed({f}) /\ S \subseteq {f} /\ S \subseteq Below(d)
  BY <1>2, <1>4, <1>6 DEF Below
<1> HIDE DEF d, f, S
<1>10. ASSUME NEW e \in E
       PROVE  (\E g \in Below(d) : e = <<Without(d, g), seen'[g]>>) /\ e[1][1] = n
  <2>1. PICK g \in S : g \in Below(d) /\ e = <<Without(d, g), seen'[g]>>
    BY <1>9, HashedEntries
  <2>2. g = f
    BY <1>9
  <2>3. Without(d, f)[1] = f[Len(d) + 1]
    BY <1>4, <1>5, <1>6, EntryName
  <2>4. Len(d) + 1 = 2
    BY <1>5
  <2> QED
    BY <1>4, <2>1, <2>2, <2>3, <2>4
<1> HIDE DEF E
<1>11. Mid(seen', d, man[d].c)
  <2>1. KeptInRootDir(seen, seen', c, n)
    BY <1>4, <1>9 DEF Hashed, KeptInRootDir
  <2>2. Mid(seen, <<c>>, man[d].c) /\ Fresh(man[d].c, n)
    BY <1>1, <1>2 DEF d
  <2> QED
    BY <1>5, <2>1, <2>2, MidKept DEF d
<1>12. Whole(seen', man[<<>>].c)
  <2>1. KeptOutside(seen, seen', c)
    BY <1>4, <1>9 DEF Hashed, KeptOutside
  <2> QED
    BY <1>1, <1>3, <2>1, RootKept DEF HashInv
<1>13. Mid(seen', d, man'[d].c)
  BY <1>7, <1>10, <1>11 DEF HasData, Mid, Hashes
<1>14. \A k \in gen'.sub : Fresh(man'[d].c, k)
  <2>1. \A k \in gen'.sub : Fresh(man[d].c, k) /\ k # n
    BY <1>1, <1>8 DEF d
  <2> QED
    BY <1>7, <1>10, <2>1 DEF HasData, Fresh
<1>15. man'[<<>>] = man[<<>>]
  BY <1>5, <1>7, RootDir DEF HasData
<1>16. \A k \in gen'.todo : Fresh(man'[<<>>].c, k) /\ \E g \in Files : k = g[1]
  BY <1>3, <1>8, <1>15 DEF HashInv
<1>17. ~man'[<<>>].c.whole /\ Fresh(man'[<<>>].c, c)
  BY <1>1, <1>3, <1>15 DEF HashInv
<1> QED
  BY <1>3, <1>8, <1>12, <1>13, <1>14, <1>15, <1>16, <1>17 DEF HashInv, d

LEMMA PackageWriteHashed == ASSUME IInv, HashInv, PackageWrite PROVE HashInv'
<1>1. PICK c \in Categories :
        /\ gen.dir = <<c>> /\ Fresh(man[<<>>].c, c) /\ Mid(seen, <<c>>, man[<<c>>].c)
        /\ \A n \in gen.sub : Fresh(man[<<c>>].c, n)
  BY DEF PackageWrite, HashInv
<1> DEFINE d == <<c>>
<1>2. PICK n \in gen.sub :
        LET p == d \o <<n>> IN
        /\ p \in Packages
        /\ gen' = [gen EXCEPT !.sub = @ \ {n}, !.dir = p,
                     !.new = [Nothing EXCEPT !.data = Entries(p, InManifest(p)),
                                             !.dist = man[p].c.dist, !.whole = TRUE],
                     !.newtv = Greatest({man[p].m, Latest(InManifest(p))})]
        /\ Hashed(Below(p))
  BY <1>1 DEF PackageWrite
<1>3. /\ pc = "category" /\ pc' = "package" /\ Working /\ Working' /\ man' = man
      /\ pc' # "category" /\ pc' # "root"
  BY DEF PackageWrite, Working
<1> DEFINE p == d \o <<n>>
           x == [Nothing EXCEPT !.data = Entries(p, InManifest(p)),
                                !.dist = man[p].c.dist, !.whole = TRUE]
<1>4. p \in Packages /\ p[1] = c /\ p[2] = n
  <2>1. p = <<c, n>>
    BY Joining
  <2> QED
    BY <1>2, <2>1
<1>5. c \in RootDirs
  BY DEF Categories
<1>6. x.data = Entries(p, InManifest(p)) /\ x.subs = {}
  <2>1. PICK E, D : E = Entries(p, InManifest(p)) /\ D = man[p].c.dist
    OBVIOUS
  <2>2. x = [Nothing EXCEPT !.data = E, !.dist = D, !.whole = TRUE]
    BY <2>1
  <2>3. PICK y : y = [Nothing EXCEPT !.data = E]
    OBVIOUS
  <2>4. PICK z : z = [y EXCEPT !.dist = D]
    OBVIOUS
  <2>5. y = [data |-> E, subs |-> {}, dist |-> {}, whole |-> FALSE]
    BY <2>3 DEF Nothing
  <2>6. z = [data |-> E, subs |-> {}, dist |-> D, whole |-> FALSE]
    BY <2>4, <2>5
  <2>7. x = [z EXCEPT !.whole = TRUE]
    BY <2>2, <2>3, <2>4
  <2> HIDE DEF x
  <2>8. x.data = z.data /\ x.subs = z.subs
    BY <2>6, <2>7
  <2> QED
    BY <2>1, <2>6, <2>8
<1>7. /\ gen'.todo = gen.todo /\ gen'.dir = p /\ gen'.sub = gen.sub \ {n}
      /\ gen'.new = x
  <2> HIDE DEF x, p
  <2> QED
    BY <1>2 DEF IInv, Shaped, GenShaped, x, p
<1>8. Hashed(Below(p))
  BY <1>2
<1> HIDE DEF x, p
<1>9. \A g \in Files : g \in Below(p) => g[1] = c /\ g[2] = n
  BY <1>4, PackageBelow DEF Below
<1>10. Mid(seen', <<c>>, man[<<c>>].c)
  <2>1. KeptInRootDir(seen, seen', c, n)
    BY <1>8, <1>9 DEF Hashed, KeptInRootDir
  <2> DEFINE u == man[<<c>>].c
  <2>2. Mid(seen, <<c>>, u) /\ Fresh(u, n)
    BY <1>1, <1>2
  <2> HIDE DEF u
  <2> QED
    BY <1>5, <2>1, <2>2, MidKept DEF u
<1>11. Whole(seen', man[<<>>].c)
  <2>1. KeptOutside(seen, seen', c)
    BY <1>8, <1>9 DEF Hashed, KeptOutside
  <2> QED
    BY <1>1, <1>3, <2>1, RootKept DEF HashInv
<1>12. Leaf(seen', p, x)
  <2>1. InManifest(p) \subseteq Below(p)
    BY DEF InManifest, Under
  <2>2. \A e \in x.data : \E g \in Below(p) : e = <<Without(p, g), seen'[g]>>
    BY <1>6, <1>8, <2>1, HashedEntries
  <2> QED
    BY <1>6, <2>2 DEF Leaf, Hashes
<1>13. \A k \in gen'.sub \cup {n} : Fresh(man[<<c>>].c, k)
  BY <1>1, <1>2, <1>7
<1>14. /\ ~man[<<>>].c.whole
       /\ \A k \in gen'.todo : Fresh(man[<<>>].c, k) /\ \E g \in Files : k = g[1]
  BY <1>3, <1>7 DEF HashInv
<1>15. gen'.dir[1] = c /\ gen'.dir[2] = n /\ n \notin gen'.sub
  BY <1>4, <1>7
<1> QED
  BY <1>1, <1>3, <1>7, <1>10, <1>11, <1>12, <1>13, <1>14, <1>15 DEF HashInv

LEMMA PackageLosesHashed == ASSUME IInv, HashInv, PackageLoses PROVE HashInv'
<1>1. Leaf(seen, gen.dir, gen.new)
  BY PackageLosesEffect DEF HashInv
<1>2. Leaf(seen', gen'.dir, gen'.new)
  BY <1>1, PackageLosesEffect DEF Leaf, Hashes
<1>3. Working /\ Working'
  BY PackageLosesEffect DEF Working
<1> QED
  BY <1>2, <1>3, PackageLosesEffect DEF HashInv

LEMMA PackageRenameHashed == ASSUME IInv, HashInv, PackageRename PROVE HashInv'
<1>1. /\ pc = "package" /\ pc' = "times" /\ Working /\ Working' /\ UNCHANGED <<gen, seen>>
      /\ Puts(man, man', gen.dir, [c |-> gen.new, m |-> clock])
  BY DEF PackageRename, Replaced, Working, Puts, ghosts
<1>2. gen.dir \in Packages /\ gen.dir \in Dirs
  BY <1>1, PackagesDeep DEF IInv, Placed
<1>3. Has(man, man', gen.dir, [c |-> gen.new, m |-> clock])
  BY <1>1, <1>2, PutAt DEF IInv, Shaped
<1> DEFINE c == gen.dir[1]
<1>4. c \in RootDirs
  BY <1>1 DEF HashInv, Categories
<1>5. <<c>> \in Dirs /\ <<c>> # gen.dir /\ <<>> # gen.dir /\ <<>> \in Dirs
  BY <1>2, <1>4, RootName, RootDir, ShallowDirs
<1> HIDE DEF c
<1>6. man'[<<>>] = man[<<>>] /\ man'[<<c>>] = man[<<c>>]
  BY <1>3, <1>5 DEF Has
<1> QED
  BY <1>1, <1>6 DEF HashInv, c

LEMMA PackageTimesHashed == ASSUME IInv, HashInv, PackageTimes PROVE HashInv'
<1> DEFINE p == gen.dir
           c == p[1]
           n == p[2]
           d == <<c>>
           m == Done(p, gen.new, gen.newtv)
<1>1. /\ pc = "times" /\ pc' = "category" /\ Working /\ Working' /\ seen' = seen
      /\ man' = AddSub(m, d, n)
      /\ gen' = [gen EXCEPT !.dir = d, !.subtv = Greatest({@, m[p].m})]
  BY DEF PackageTimes, Working, ghosts
<1>2. /\ p \in Packages /\ p \in Dirs /\ p \in Paths /\ Len(p) = 2
      /\ gen.new = Content(gen.new) /\ gen.new.dist = man[p].c.dist
  BY <1>1, PackageFacts DEF IInv, Placed, Copied
<1>3. /\ c \in Categories /\ Fresh(man[<<>>].c, c) /\ Mid(seen, d, man[d].c)
      /\ \A k \in gen.sub \cup {n} : Fresh(man[d].c, k)
      /\ n \notin gen.sub /\ Leaf(seen, p, gen.new)
  BY <1>1 DEF HashInv
<1>4. /\ c \in RootDirs /\ d \in Dirs /\ d # p /\ d # <<>> /\ p # <<>> /\ <<>> \in Dirs
  BY <1>2, <1>3, RootName, RootDir, ShallowDirs DEF Categories
<1>5. d \o <<n>> = p
  <2>1. p = <<c, n>>
    BY <1>2 DEF Paths
  <2> QED
    BY <2>1, Joining
<1>6. gen'.todo = gen.todo /\ gen'.dir = d /\ gen'.sub = gen.sub
  BY <1>1 DEF IInv, Shaped, GenShaped
<1>7. ManShaped(m)
  <2> HIDE DEF p
  <2> QED
    BY <1>2, Finishing DEF IInv, Shaped
<1>8. m[p].c = gen.new /\ m[d] = man[d] /\ m[<<>>] = man[<<>>]
  <2> DEFINE q == [c |-> gen.new, m |-> IF gen.newtv # 0 THEN gen.newtv ELSE clock]
  <2>1. Puts(man, m, p, q) /\ q.c = gen.new
    BY DEF Done, Puts
  <2> HIDE DEF q, m, p, d
  <2>2. Has(man, m, p, q)
    BY <1>2, <2>1, PutAt DEF IInv, Shaped
  <2> QED
    BY <1>4, <2>1, <2>2 DEF Has
<1>9. HasSubs(m, man', d, m[d].c.subs \cup {<<<<n>>, gen.new>>})
  <2>1. PutsSubs(m, man', d, m[d].c.subs \cup {<<<<n>>, m[d \o <<n>>].c>>})
    BY <1>1 DEF AddSub, PutsSubs
  <2>2. m[d \o <<n>>].c = gen.new
    BY <1>5, <1>8
  <2>3. PutsSubs(m, man', d, m[d].c.subs \cup {<<<<n>>, gen.new>>})
    BY <2>1, <2>2
  <2> HIDE DEF m, d, n
  <2> QED
    BY <1>4, <1>7, <2>3, SubsAt
<1> DEFINE u == man[d].c
           v == man'[d].c
<1>10. v.data = u.data /\ v.subs = u.subs \cup {<<<<n>>, gen.new>>} /\ man'[<<>>] = man[<<>>]
  <2> HIDE DEF m, d, n
  <2> QED
    BY <1>4, <1>8, <1>9 DEF HasSubs
<1>11. d = <<p[1]>> /\ n = p[2]
  OBVIOUS
<1> HIDE DEF m, u, v, n, d, p
<1>12. Mid(seen, d, v)
  <2>1. ASSUME NEW e \in v.subs
        PROVE  \E a \in Packages : d = <<a[1]>> /\ e[1] = <<a[2]>> /\ Leaf(seen, a, e[2])
    <3>1. CASE e \in u.subs
      BY <1>3, <3>1 DEF Mid, u
    <3>2. CASE e = <<<<n>>, gen.new>>
      <4>1. e[1] = <<n>> /\ e[2] = gen.new
        BY <3>2
      <4> QED
        BY <1>2, <1>3, <1>11, <4>1
    <3> QED
      BY <1>10, <2>1, <3>1, <3>2
  <2> QED
    BY <1>3, <1>10, <2>1 DEF Mid, Hashes, u
<1>13. \A k \in gen.sub : Fresh(v, k)
  <2>1. <<<<n>>, gen.new>>[1][1] = n
    OBVIOUS
  <2>2. \A k \in gen.sub : Fresh(u, k) /\ k # n
    BY <1>3 DEF u
  <2> QED
    BY <1>10, <2>1, <2>2 DEF Fresh
<1>14. /\ ~man'[<<>>].c.whole /\ Fresh(man'[<<>>].c, c) /\ Whole(seen', man'[<<>>].c)
       /\ \A k \in gen'.todo : Fresh(man'[<<>>].c, k) /\ \E g \in Files : k = g[1]
  BY <1>1, <1>3, <1>6, <1>10 DEF HashInv
<1> QED
  BY <1>1, <1>3, <1>6, <1>12, <1>13, <1>14 DEF HashInv, v, d

LEMMA PackageFailsHashed == ASSUME IInv, HashInv, PackageFails PROVE HashInv'
<1>1. /\ pc = "package" /\ pc' = "category" /\ Working /\ Working'
      /\ UNCHANGED <<man, seen>>
      /\ gen' = [gen EXCEPT !.dir = <<gen.dir[1]>>, !.todo = {}, !.cut = gen.subtv]
  BY DEF PackageFails, Working, ghosts
<1>2. gen'.todo = {} /\ gen'.dir = <<gen.dir[1]>> /\ gen'.sub = gen.sub
  BY <1>1 DEF IInv, Shaped, GenShaped
<1> QED
  BY <1>1, <1>2 DEF HashInv

LEMMA CategoryCloseHashed == ASSUME IInv, HashInv, CategoryClose PROVE HashInv'
<1>1. PICK c \in Categories :
        gen.dir = <<c>> /\ Fresh(man[<<>>].c, c) /\ Mid(seen, <<c>>, man[<<c>>].c)
  BY DEF CategoryClose, HashInv
<1> DEFINE d == <<c>>
           x == [man[d].c EXCEPT !.whole = TRUE]
           m == Done(d, x, CategoryTime)
<1>2. /\ pc = "category" /\ Working /\ seen' = seen
      /\ \/ /\ c \in gen.todo
            /\ man' = AddSub(m, <<>>, c)
            /\ gen' = [Referred(gen, c, m) EXCEPT !.dir = <<>>]
            /\ pc' = "root"
         \/ man' = m /\ gen' = NoGen /\ pc' = "idle"
  <2>1. gen.dir = d /\ gen.dir[1] = c
    BY <1>1
  <2>2. pc = "category" /\ Working /\ seen' = seen
    BY DEF CategoryClose, Working, ghosts
  <2> HIDE DEF d
  <2>3. \/ /\ c \in gen.todo
           /\ man' = AddSub(m, <<>>, c)
           /\ gen' = [Referred(gen, c, m) EXCEPT !.dir = <<>>]
           /\ pc' = "root"
        \/ man' = m /\ gen' = NoGen /\ pc' = "idle"
    BY <2>1 DEF CategoryClose
  <2> QED
    BY <2>2, <2>3
<1>3. c \in RootDirs /\ d \in Dirs /\ d # <<>> /\ d \notin Packages /\ <<>> \in Dirs
  BY RootName, RootDir DEF Categories
<1>4. x.data = man[d].c.data /\ x.subs = man[d].c.subs
  BY <1>3 DEF IInv, Shaped, ManShaped, Record, Content
<1> HIDE DEF d
<1>5. ManShaped(m)
  BY <1>3, Closing DEF IInv, Shaped
<1> HIDE DEF x
<1>6. m[<<>>] = man[<<>>] /\ m[d].c = x
  <2> DEFINE q == [c |-> x, m |-> IF CategoryTime # 0 THEN CategoryTime ELSE clock]
  <2>1. Puts(man, m, d, q) /\ q.c = x
    BY DEF Done, Puts
  <2> HIDE DEF q, m
  <2>2. Has(man, m, d, q)
    BY <1>3, <2>1, PutAt DEF IInv, Shaped
  <2> QED
    BY <1>3, <2>1, <2>2 DEF Has
<1>7. Mid(seen, d, x)
  BY <1>1, <1>4 DEF Mid, Hashes, d
<1> HIDE DEF m
<1>8. CASE man' = m /\ gen' = NoGen /\ pc' = "idle"
  <2>1. ~man'[<<>>].c.whole /\ ~Working'
    BY <1>2, <1>6, <1>8 DEF HashInv, Working
  <2> QED
    BY <1>8, <2>1 DEF HashInv
<1>9. CASE /\ c \in gen.todo
           /\ man' = AddSub(m, <<>>, c)
           /\ gen' = [Referred(gen, c, m) EXCEPT !.dir = <<>>]
           /\ pc' = "root"
  <2>1. gen'.todo = gen.todo \ {c} /\ gen'.dir = <<>>
    BY <1>9 DEF IInv, Shaped, GenShaped, Referred
  <2>2. HasSubs(m, man', <<>>, m[<<>>].c.subs \cup {<<<<c>>, m[<<c>>].c>>})
    BY <1>3, <1>5, <1>9, RootSubs
  <2>3. m[<<c>>].c = x
    BY <1>6 DEF d
  <2> DEFINE u == m[<<>>].c
             v == man'[<<>>].c
  <2>4. Refers(u, v, c, x)
    BY <2>2, <2>3 DEF HasSubs, Refers
  <2>5. Whole(seen, u) /\ u = man[<<>>].c
    BY <1>2, <1>6 DEF HashInv
  <2>6. Mid(seen, <<c>>, x)
    BY <1>7 DEF d
  <2> HIDE DEF u, v
  <2>7. Whole(seen, v) /\ \A k : Fresh(u, k) /\ k # c => Fresh(v, k)
    BY <1>3, <2>4, <2>5, <2>6, Referring
  <2>8. v.whole = u.whole /\ ~u.whole
    BY <1>2, <2>4, <2>5 DEF Refers, HashInv
  <2>9. \A k \in gen'.todo : Fresh(v, k) /\ \E g \in Files : k = g[1]
    BY <1>2, <2>1, <2>5, <2>7 DEF HashInv
  <2> QED
    BY <1>2, <1>9, <2>1, <2>7, <2>8, <2>9 DEF HashInv, Working, v
<1> QED
  BY <1>2, <1>8, <1>9

LEMMA RootCloseHashed == ASSUME IInv, HashInv, RootClose PROVE HashInv'
<1> DEFINE d == <<>>
           x == [man[d].c EXCEPT !.whole = TRUE]
           q == [c |-> x, m |-> IF gen.tv # 0 THEN gen.tv ELSE clock]
<1>1. /\ pc = "root" /\ pc' = "close" /\ Working /\ ~Working' /\ seen' = seen
      /\ Puts(man, man', d, q)
  BY DEF RootClose, Done, Working, Puts, ghosts
<1>2. d \in Dirs
  BY RootDir
<1>3. x.data = man[d].c.data /\ x.subs = man[d].c.subs
  BY <1>2 DEF IInv, Shaped, ManShaped, Record, Content
<1>4. q.c = x
  OBVIOUS
<1>5. Whole(seen, man[d].c)
  BY <1>1 DEF HashInv
<1> HIDE DEF d, x, q
<1>6. Has(man, man', d, q)
  BY <1>1, <1>2, PutAt DEF IInv, Shaped
<1>7. man'[d].c = x
  BY <1>4, <1>6 DEF Has
<1>8. Whole(seen, man'[d].c)
  BY <1>3, <1>5, <1>7 DEF Whole, Hashes
<1>9. Whole(seen', man'[<<>>].c)
  BY <1>1, <1>8 DEF d
<1> QED
  BY <1>1, <1>9 DEF HashInv, Working

LEMMA AddDistHashed ==
  ASSUME IInv, HashInv, NEW p \in Packages, AddDist(p) PROVE HashInv'
<1> DEFINE q == [c |-> [man[p].c EXCEPT !.dist = @ \cup {"new"}], m |-> clock + 1]
<1>1. pc = "idle" /\ pc' = "idle" /\ UNCHANGED <<gen, seen>>
  BY DEF AddDist, ghosts
<1>2. Puts(man, man', p, q)
  BY Zenon DEF AddDist, Puts
<1>3. p \in Dirs /\ p # <<>> /\ <<>> \in Dirs
  BY PackagesDeep, ShallowDirs, RootDir
<1> HIDE DEF q
<1>4. Has(man, man', p, q)
  BY <1>2, <1>3, PutAt DEF IInv, Shaped
<1>5. man'[<<>>] = man[<<>>]
  BY <1>3, <1>4 DEF Has
<1> QED
  BY <1>1, <1>5 DEF HashInv, Working

\* What ends a generation, or is no step of one.
LEMMA OthersHashed ==
  ASSUME HashInv, UNCHANGED <<man, seen>>,
         (pc' = pc /\ gen' = gen) \/ pc' \notin {"root", "category", "package", "times"}
  PROVE  HashInv'
<1>1. CASE pc' = pc /\ gen' = gen
  BY <1>1 DEF HashInv, Working
<1>2. CASE pc' \notin {"root", "category", "package", "times"}
  BY <1>2 DEF HashInv, Working
<1> QED
  BY <1>1, <1>2

-----------------------------------------------------------------------------
(* A verification that succeeds.                                           *)

VInv == IInv /\ HashInv /\ VerShaped(ver) /\ VerifyInv

LEMMA InitVInv == Init => VInv
<1> SUFFICES ASSUME Init PROVE VInv
  OBVIOUS
<1>1. IInv
  BY InitIInv
<1>2. HashInv
  <2> DEFINE b == <<>>
  <2>1. man[b].c = Nothing
    <3>1. b \in Dirs /\ b \notin Packages
      BY RootDir, ShallowDirs
    <3> HIDE DEF b
    <3> QED
      BY <3>1 DEF Init
  <2>2. ~man[<<>>].c.whole /\ ~Working /\ pc = "idle"
    BY <2>1 DEF Init, Working, Nothing
  <2> QED
    BY <2>2 DEF HashInv
<1>3. VerShaped(ver)
  <2>1. ver.th = [t \in Threads |-> [at |-> "free", sub |-> "", bad |-> 0, seen |-> 0]]
    BY DEF Init, NoVer
  <2>2. ver = [ret |-> ver.ret, work |-> ver.work, next |-> ver.next, tail |-> ver.tail,
               th |-> ver.th]
    BY DEF Init, NoVer
  <2>3. ASSUME NEW t \in Threads PROVE ThreadShaped(ver.th[t])
    <3>1. ver.th[t] = [at |-> "free", sub |-> "", bad |-> 0, seen |-> 0]
      BY <2>1
    <3> QED
      BY <3>1 DEF ThreadShaped
  <2>4. ver.th = [t \in Threads |-> ver.th[t]]
    BY <2>1
  <2> QED
    BY <2>2, <2>3, <2>4 DEF VerShaped
<1>4. VerifyInv
  BY DEF Init, VerifyInv
<1> QED
  BY <1>1, <1>2, <1>3, <1>4 DEF VInv

\* Outside a verification.
LEMMA NotVerifying ==
  ASSUME VInv, ver' = ver, pc' \notin {"verify", "verified"}
  PROVE  VerShaped(ver') /\ VerifyInv'
BY DEF VInv, VerShaped, ThreadShaped, VerifyInv

\* One step per action of Next.
LEMMA VerifiedStep == ASSUME VInv, [Next]_vars PROVE VInv'
<1>1. IInv'
  BY NextStep DEF VInv
<1>2. CASE Generator
  <2>1. HashInv'
    <3>1. CASE TopOpen
      BY <3>1, OthersHashed DEF VInv, TopOpen, ghosts
    <3>2. CASE TopWrite
      BY SMTT(30), <3>2, OthersHashed DEF VInv, TopWrite
    <3> QED
      BY <1>2, <3>1, <3>2, GenerateHashed, RootFileHashed, SubtreeOpenHashed,
         SubtreeCloseHashed, CategoryOpenHashed, CategoryFileHashed, PackageWriteHashed,
         PackageLosesHashed, PackageRenameHashed, PackageTimesHashed, PackageFailsHashed,
         CategoryCloseHashed, RootCloseHashed DEF Generator, VInv
  <2>2. ver' = ver /\ pc' \notin {"verify", "verified"}
    <3>1. CASE PackageLoses
      BY <3>1 DEF PackageLoses
    <3> QED
      BY ZenonT(30), <1>2, <3>1 DEF Generator, Generate, RootFile, SubtreeOpen, SubtreeClose,
         CategoryOpen, CategoryFile, PackageWrite, PackageRename, PackageTimes, PackageFails,
         CategoryClose, RootClose, TopOpen, TopWrite
  <2> QED
    BY <1>1, <2>1, <2>2, NotVerifying DEF VInv
<1>3. CASE Verifier
  <2>1. CASE VerifyRoot
    <3>1. HashInv'
      BY <2>1, OthersHashed DEF VInv, VerifyRoot, ghosts
    <3> QED
      BY <1>1, <2>1, <3>1, VerifyRootStep DEF VInv, IInv
  <2>2. CASE VerifyEnd
    <3>1. HashInv'
      BY <2>2, OthersHashed DEF VInv, VerifyEnd, ghosts
    <3> QED
      BY <1>1, <2>2, <3>1, VerifyEndStep DEF VInv
  <2>3. ASSUME NEW t \in Threads, Take(t) \/ Link(t) \/ Advance(t) \/ Load(t) \/ Store(t)
        PROVE  VInv'
    <3>1. UNCHANGED <<man, gen, pc, seen>>
      BY <2>3 DEF Take, Link, Advance, Load, Store, ghosts
    <3>2. HashInv'
      BY <3>1, OthersHashed DEF VInv
    <3>3. VerShaped(ver') /\ VerifyInv'
      BY <2>3, TakeStep, LinkStep, AdvanceStep, LoadStep, StoreStep DEF VInv, IInv
    <3> QED
      BY <1>1, <3>2, <3>3 DEF VInv
  <2> QED
    BY <1>3, <2>1, <2>2, <2>3 DEF Verifier
<1>4. CASE Kill
  <2>1. HashInv'
    BY <1>4, OthersHashed DEF VInv, Kill, ghosts
  <2>2. ver' = ver /\ pc' \notin {"verify", "verified"}
    BY <1>4 DEF Kill
  <2> QED
    BY <1>1, <2>1, <2>2, NotVerifying DEF VInv
<1>5. ASSUME NEW f \in Files, Edit(f) PROVE VInv'
  <2>1. HashInv'
    BY <1>5, OthersHashed DEF VInv, Edit, ghosts
  <2>2. ver' = ver /\ pc' \notin {"verify", "verified"}
    BY <1>5 DEF Edit
  <2> QED
    BY <1>1, <2>1, <2>2, NotVerifying DEF VInv
<1>6. ASSUME NEW p \in Packages, AddDist(p) PROVE VInv'
  <2>1. HashInv'
    BY <1>6, AddDistHashed DEF VInv
  <2>2. ver' = ver /\ pc' \notin {"verify", "verified"}
    BY <1>6 DEF AddDist
  <2> QED
    BY <1>1, <2>1, <2>2, NotVerifying DEF VInv
<1>7. CASE UNCHANGED vars
  BY <1>7 DEF vars, VInv, IInv, Shaped, ManShaped, GenShaped, Placed, Copied, HashInv,
     Working, VerShaped, ThreadShaped, VerifyInv, Unchanged, Exists
<1> QED
  BY <1>2, <1>3, <1>4, <1>5, <1>6, <1>7 DEF Next

\* Where qmanifest says that a tree is as it was hashed it is, whatever was edited between
\* and during the generations, wherever one was killed, and in whatever order the threads
\* that verify add to ret without a lock (qmanifest.c:1632-1640).
THEOREM VerifiedTrue == Spec => []VerifiedUnchanged
<1>1. Init => VInv
  BY InitVInv
<1>2. VInv /\ [Next]_vars => VInv'
  BY VerifiedStep
<1>3. VInv => VerifiedUnchanged
  BY DEF VInv, VerifyInv, VerifiedUnchanged, Unchanged
<1> QED
  BY <1>1, <1>2, <1>3, PTL DEF Spec

-----------------------------------------------------------------------------
(* What a generation makes of a tree that stays as it is.                  *)

Name(k) == k[Len(k)]
\* The files that are there below d in the tree tr, and the time of the last change.
Here(tr, d) == {f \in Below(d) : tr[f].c # Absent}
ListedIn(tr, p) == {f \in Here(tr, p) : f[3] = "files" \/ (Len(f) = 3 /\ f[3] \in Listed)}
EntriesOf(tr, d, S) == {<<Without(d, f), tr[f].c>> : f \in S}
TimesOf(tr, S) == {tr[f].m : f \in S}
Still(tr, d, b) == \A f \in Below(d) : tr[f].m <= b
IsGreatest(v, S) == v \in S /\ \A y \in S : y <= v

\* The files and the directories in d, but for the names in T.
FilesAt(tr, d, T) == {f \in Files : Up(f) = d /\ tr[f].c # Absent /\ Name(f) \notin T}
DirsAt(d, T) == {k \in Dirs : k # <<>> /\ Up(k) = d /\ Name(k) \notin T}

\* The Manifest of d, of the root or a category, is of all but the names in T; v is the
\* latest of their times.
DataOf(tr, d, T) == {<<<<Name(f)>>, tr[f].c>> : f \in FilesAt(tr, d, T)}
SubsOf(mn, d, T) == {<<<<Name(k)>>, mn[k].c>> : k \in DirsAt(d, T)}
LatestOf(tr, mn, d, T) ==
  {0} \cup TimesOf(tr, FilesAt(tr, d, T)) \cup {mn[k].m : k \in DirsAt(d, T)}
Partly(tr, mn, d, T, v) ==
  /\ mn[d].c.data = DataOf(tr, d, T) /\ mn[d].c.subs = SubsOf(mn, d, T) /\ mn[d].c.dist = {}
  /\ IsGreatest(v, LatestOf(tr, mn, d, T))

MetaDirs == {<<>>} \cup {<<c>> : c \in Categories}
SubtreeDirs == {<<n>> : n \in Subtrees}

MetaOk(tr, mn, d) ==
  mn[d].c.whole /\ \E v : Partly(tr, mn, d, {}, v) /\ (v # 0 => mn[d].m = v)
SubtreeOk(tr, mn, d) ==
  /\ mn[d].c.data = EntriesOf(tr, d, Here(tr, d)) /\ mn[d].c.subs = {}
  /\ mn[d].c.dist = {} /\ mn[d].c.whole
  /\ Here(tr, d) # {} => IsGreatest(mn[d].m, TimesOf(tr, Here(tr, d)))
PackageOk(tr, p, u, v) ==
  /\ u.data = EntriesOf(tr, p, ListedIn(tr, p)) /\ u.subs = {} /\ u.whole
  /\ \A y \in TimesOf(tr, ListedIn(tr, p)) : y <= v
Ok(tr, mn, d) ==
  /\ d \in MetaDirs => MetaOk(tr, mn, d)
  /\ d \in SubtreeDirs => SubtreeOk(tr, mn, d)
  /\ d \in Packages => PackageOk(tr, d, mn[d].c, mn[d].m)

\* A generation that began at b has made these of what has not changed since.
Made(tr, mn, b) == \A d \in Dirs : Still(tr, d, b) => Ok(tr, mn, d)

-----------------------------------------------------------------------------
(* Greatest numbers, and names in directories.                             *)

LEMMA GreatestOf ==
  ASSUME NEW S \in SUBSET Nat, S # {}, NEW b \in Nat, \A y \in S : y <= b
  PROVE  IsGreatest(Greatest(S), S)
<1> DEFINE B == {b - x : x \in S}
<1>1. B \in SUBSET Nat /\ B # {}
  <2>1. \A x \in S : b - x \in Nat
    OBVIOUS
  <2> QED
    BY <2>1
<1>2. PICK m \in B : \A j \in B : ~(<<j, m>> \in OpToRel(<, Nat))
  BY <1>1, WFMin, NatLessThanWellFounded
<1>3. \A i, j \in Nat : ~(<<j, i>> \in OpToRel(<, Nat)) => i <= j
  BY DEF OpToRel
<1>4. \A j \in B : m <= j
  BY <1>1, <1>2, <1>3
<1>5. PICK x \in S : m = b - x
  BY <1>2
<1>6. ASSUME NEW y \in S PROVE y <= x
  <2>1. b - y \in B
    OBVIOUS
  <2>2. b - x <= b - y
    BY <1>4, <1>5, <2>1
  <2> QED
    BY <2>2
<1>7. \E z \in S : \A y \in S : y <= z
  BY <1>6
<1> QED
  BY <1>7 DEF Greatest, IsGreatest

LEMMA GreatestOfTwo ==
  ASSUME NEW a \in Nat, NEW b \in Nat
  PROVE  /\ Greatest({a, b}) \in {a, b} /\ Greatest({a, b}) \in Nat
         /\ a <= Greatest({a, b}) /\ b <= Greatest({a, b})
<1>1. {a, b} \in SUBSET Nat /\ {a, b} # {} /\ \A y \in {a, b} : y <= a + b
  OBVIOUS
<1>2. IsGreatest(Greatest({a, b}), {a, b})
  BY <1>1, GreatestOf
<1> QED
  BY <1>2 DEF IsGreatest

\* The tree has no times after the clock.
Bounded(tr) == \E b \in Nat : \A f \in Files : tr[f].m \in Nat /\ tr[f].m <= b

LEMMA LatestIs ==
  ASSUME NEW tr, Bounded(tr), NEW S \in SUBSET Files
  PROVE  LET v == Greatest({0} \cup TimesOf(tr, S))
         IN v \in Nat /\ IsGreatest(v, {0} \cup TimesOf(tr, S))
<1>1. PICK b \in Nat : \A f \in Files : tr[f].m \in Nat /\ tr[f].m <= b
  BY DEF Bounded
<1> DEFINE M == {0} \cup TimesOf(tr, S)
<1>2. M \in SUBSET Nat /\ M # {} /\ \A y \in M : y <= b
  BY <1>1 DEF TimesOf
<1> HIDE DEF M
<1>3. IsGreatest(Greatest(M), M)
  BY <1>2, GreatestOf
<1>4. Greatest(M) \in Nat
  BY <1>2, <1>3 DEF IsGreatest
<1> QED
  BY <1>3, <1>4 DEF M

\* The greatest of what there was and what is added.
LEMMA GreatestGrows ==
  ASSUME NEW v, NEW S \in SUBSET Nat, NEW w, NEW T \in SUBSET Nat,
         IsGreatest(v, S), IsGreatest(w, T)
  PROVE  IsGreatest(Greatest({v, w}), S \cup T)
<1>1. v \in Nat /\ w \in Nat /\ v \in S /\ w \in T
  BY DEF IsGreatest
<1>2. /\ Greatest({v, w}) \in {v, w} /\ Greatest({v, w}) \in Nat
      /\ v <= Greatest({v, w}) /\ w <= Greatest({v, w})
  BY <1>1, GreatestOfTwo
<1>3. ASSUME NEW y \in S \cup T PROVE y <= Greatest({v, w})
  <2>1. y \in Nat /\ (y <= v \/ y <= w)
    BY DEF IsGreatest
  <2> QED
    BY <1>1, <1>2, <2>1
<1> QED
  BY <1>1, <1>2, <1>3 DEF IsGreatest

\* A name in a directory.
LEMMA NameIn ==
  ASSUME NEW d \in Paths, NEW n, d \o <<n>> \in Paths
  PROVE  LET k == d \o <<n>>
         IN /\ Len(k) = Len(d) + 1 /\ Up(k) = d /\ Name(k) = n /\ k # <<>>
            /\ Prefix(d, k) /\ Without(d, k) = <<n>>
<1> DEFINE k == d \o <<n>>
           N == {Names[i] : i \in DOMAIN Names} \cup {n}
<1>1. d \in Seq(N) /\ <<n>> \in Seq(N) /\ Len(<<n>>) = 1 /\ <<n>>[1] = n
  <2>1. d \in Seq(N)
    BY DEF Paths
  <2> QED
    BY <2>1
<1> HIDE DEF N
<1>2. /\ k \in Seq(N) /\ Len(k) = Len(d) + Len(<<n>>)
      /\ \A i \in 1 .. Len(d) + Len(<<n>>) :
           k[i] = IF i <= Len(d) THEN d[i] ELSE <<n>>[i - Len(d)]
  BY <1>1, ConcatProperties
<1>3. Len(d) \in Nat
  BY <1>1, LenProperties
<1> HIDE DEF k
<1>4. /\ Len(k) = Len(d) + 1 /\ Len(k) \in Nat /\ k[Len(d) + 1] = n
      /\ \A i \in 1 .. Len(d) : k[i] = d[i]
  <2>1. Len(k) = Len(d) + 1
    BY <1>1, <1>2
  <2>2. \A i \in 1 .. Len(d) : k[i] = d[i]
    BY <1>1, <1>2, <1>3
  <2>3. Len(d) + 1 \in 1 .. Len(d) + Len(<<n>>) /\ ~(Len(d) + 1 <= Len(d)) /\ Len(d) + 1 - Len(d) = 1
    BY <1>1, <1>3
  <2>4. k[Len(d) + 1] = n
    BY <1>1, <1>2, <2>3
  <2> QED
    BY <1>3, <2>1, <2>2, <2>4
<1>5. k \in Paths
  BY DEF k
<1>6. Prefix(d, k)
  BY <1>3, <1>4, <1>5, PrefixFacts
<1>7. Up(k) = d
  BY <1>3, <1>4, <1>6 DEF Up, Prefix
<1>8. k # <<>> /\ Name(k) = n
  BY <1>3, <1>4, EmptyPath DEF Name
<1>9. Without(d, k) = <<n>>
  <2> DEFINE w == Without(d, k)
  <2>1. w \in Paths /\ Len(w) = Len(k) - Len(d) /\ \A i \in 1 .. Len(w) : w[i] = k[Len(d) + i]
    BY <1>5, <1>6, RestFacts
  <2> HIDE DEF w
  <2>2. Len(w) = 1 /\ w[1] = n
    BY <1>3, <1>4, <2>1
  <2> QED
    BY <2>1, <2>2 DEF Paths, w
<1> QED
  BY <1>4, <1>6, <1>7, <1>8, <1>9 DEF k

LEMMA NameOf ==
  ASSUME NEW k \in Paths, k # <<>>
  PROVE  Up(k) \in Paths /\ k = Up(k) \o <<Name(k)>>
<1>1. Len(k) \in Nat \ {0}
  BY EmptySeq, LenProperties DEF Paths
<1> DEFINE j == Len(k) - 1
<1>2. j \in Nat /\ j < Len(k) /\ j + 1 = Len(k)
  BY <1>1
<1> HIDE DEF j
<1>3. /\ SubSeq(k, 1, j) \in Paths
      /\ SubSeq(k, 1, j) \o <<k[j + 1]>> = SubSeq(k, 1, j + 1)
  BY <1>2, NextName
<1>4. SubSeq(k, 1, j + 1) = k
  <2>1. /\ SubSeq(k, 1, Len(k)) \in Paths /\ Len(SubSeq(k, 1, Len(k))) = Len(k)
        /\ \A i \in 1 .. Len(k) : SubSeq(k, 1, Len(k))[i] = k[i]
    BY <1>1, StartFacts
  <2>2. SubSeq(k, 1, Len(k)) = k
    BY <2>1, SeqEqual DEF Paths
  <2> QED
    BY <1>2, <2>2
<1> QED
  BY <1>2, <1>3, <1>4 DEF Up, Name, j

But(T, n) == T \ {n}
AsIs(tr, f) == {g \in {f} : tr[g].c # Absent}
Newest(tr, S) == Greatest({0} \cup TimesOf(tr, S))
Greater(a, b) == Greatest({a, b})

LEMMA DirFacts ==
  ASSUME NEW d \in Dirs
  PROVE  /\ d \in Paths /\ d \notin Files
         /\ d = <<>> \/ d \in Packages \/ \E n \in RootDirs : d = <<n>>
<1>1. CASE d = <<>>
  BY <1>1, EmptyPath, TreeAssumption
<1>2. ASSUME NEW n \in RootDirs, d = <<n>> PROVE d \in Paths /\ d \notin Files
  <2>1. PICK g \in Files : Len(g) > 1 /\ g[1] = n
    BY DEF RootDirs
  <2>2. Prefix(d, g)
    BY <1>2, <2>1, FileBelow
  <2> QED
    BY <1>2, <2>2, RootName, TreeAssumption
<1>3. CASE d \in Packages
  BY <1>3, PackageFacts, TreeAssumption
<1>4. d = <<>> \/ d \in Packages \/ \E n \in RootDirs : d = <<n>>
  BY DEF Dirs
<1> QED
  BY <1>1, <1>2, <1>3, <1>4

\* A directory is the root or of a category, or of a subtree, or of a package.
LEMMA KindOfDir ==
  /\ Dirs = MetaDirs \cup SubtreeDirs \cup Packages
  /\ MetaDirs \cap SubtreeDirs = {} /\ MetaDirs \cap Packages = {} /\ SubtreeDirs \cap Packages = {}
<1>1. RootDirs = Categories \cup Subtrees
  BY TreeAssumption DEF Categories
<1>2. \A n : <<n>> # <<>> /\ <<n>>[1] = n
  OBVIOUS
<1>3. Dirs = MetaDirs \cup SubtreeDirs \cup Packages
  BY <1>1 DEF Dirs, MetaDirs, SubtreeDirs
<1>4. MetaDirs \cap SubtreeDirs = {}
  BY <1>2 DEF MetaDirs, SubtreeDirs, Categories
<1> QED
  BY <1>3, <1>4, ShallowDirs DEF MetaDirs, SubtreeDirs

LEMMA FileAt ==
  ASSUME NEW tr, NEW d, NEW T, NEW f, d \in Paths, f \in FilesAt(tr, d, T)
  PROVE  /\ f \in Below(d) /\ f \in Files /\ f \in Paths
         /\ f = d \o <<Name(f)>> /\ Without(d, f) = <<Name(f)>>
<1>1. f \in Files /\ f \in Paths /\ f # <<>> /\ Up(f) = d
  BY FileFacts, TreeAssumption DEF FilesAt
<1>2. f = d \o <<Name(f)>>
  BY <1>1, NameOf
<1> QED
  BY <1>1, <1>2, NameIn DEF Below

LEMMA DirAt ==
  ASSUME NEW d, NEW T, NEW k, d \in Paths, k \in DirsAt(d, T)
  PROVE  k \in Dirs /\ k \in Paths /\ k = d \o <<Name(k)>> /\ Prefix(d, k) /\ Name(k) \notin T
<1>1. k \in Dirs /\ k \in Paths /\ k # <<>> /\ Up(k) = d /\ Name(k) \notin T
  BY DirFacts DEF DirsAt
<1>2. k = d \o <<Name(k)>>
  BY <1>1, NameOf
<1> QED
  BY <1>1, <1>2, NameIn

\* A file or a directory is of its own name in the directory it is in.
LEMMA OwnName ==
  ASSUME NEW k, NEW b, k \in Paths, b \in Paths, k # <<>>, b # <<>>,
         Up(b) = Up(k), Name(b) = Name(k)
  PROVE  b = k
<1>1. k = Up(k) \o <<Name(k)>> /\ b = Up(b) \o <<Name(b)>>
  BY NameOf
<1> QED
  BY <1>1

LEMMA FileKinds ==
  ASSUME NEW f, f \in Files
  PROVE  f \in Paths /\ f # <<>> /\ f \notin Dirs
BY FileFacts, TreeAssumption, DirFacts

\* One name less that is left out.
LEMMA FileNamed ==
  ASSUME NEW tr, NEW d, NEW T, NEW f, NEW g, f \in Files, Up(f) = d, Name(f) \in T
  PROVE  g \in FilesAt(tr, d, But(T, Name(f))) <=>
           g \in FilesAt(tr, d, T) \/ (g = f /\ tr[f].c # Absent)
<1>1. f \in Paths /\ f # <<>> /\ \A h \in Files : h \in Paths /\ h # <<>>
  BY FileKinds
<1>2. ASSUME g \in FilesAt(tr, d, But(T, Name(f))), Name(g) \in T PROVE g = f /\ tr[f].c # Absent
  <2>1. g \in Files /\ Up(g) = d /\ Name(g) = Name(f) /\ tr[g].c # Absent
    BY <1>2 DEF FilesAt, But
  <2> QED
    BY <1>1, <2>1, OwnName
<1>3. ASSUME g \in FilesAt(tr, d, But(T, Name(f))), Name(g) \notin T PROVE g \in FilesAt(tr, d, T)
  BY <1>3 DEF FilesAt, But
<1>4. ASSUME g \in FilesAt(tr, d, T) PROVE g \in FilesAt(tr, d, But(T, Name(f)))
  BY <1>4 DEF FilesAt, But
<1>5. ASSUME g = f, tr[f].c # Absent PROVE g \in FilesAt(tr, d, But(T, Name(f)))
  BY <1>5 DEF FilesAt, But
<1> QED
  BY <1>2, <1>3, <1>4, <1>5

LEMMA FileNotNamed ==
  ASSUME NEW tr, NEW d, NEW T, NEW k, NEW g, k \in Dirs, k # <<>>, Up(k) = d, Name(k) \in T
  PROVE  g \in FilesAt(tr, d, But(T, Name(k))) <=> g \in FilesAt(tr, d, T)
<1>1. k \in Paths /\ k \notin Files /\ \A h \in Files : h \in Paths /\ h # <<>>
  BY FileKinds, DirFacts
<1>2. ASSUME g \in FilesAt(tr, d, But(T, Name(k))) PROVE Name(g) \notin T
  <2>1. g \in Files /\ Up(g) = d /\ Name(g) \notin But(T, Name(k))
    BY <1>2 DEF FilesAt
  <2>2. Name(g) # Name(k)
    BY <1>1, <2>1, OwnName
  <2> QED
    BY <2>1, <2>2 DEF But
<1> QED
  BY <1>2 DEF FilesAt, But

LEMMA DirNamed ==
  ASSUME NEW d, NEW T, NEW k, NEW b, k \in Dirs, k # <<>>, Up(k) = d, Name(k) \in T
  PROVE  b \in DirsAt(d, But(T, Name(k))) <=> b \in DirsAt(d, T) \/ b = k
<1>1. \A a \in Dirs : a \in Paths
  BY DirFacts
<1>2. ASSUME b \in DirsAt(d, But(T, Name(k))), Name(b) \in T PROVE b = k
  <2>1. b \in Dirs /\ b # <<>> /\ Up(b) = d /\ Name(b) = Name(k)
    BY <1>2 DEF DirsAt, But
  <2> QED
    BY <1>1, <2>1, OwnName
<1>3. ASSUME b \in DirsAt(d, But(T, Name(k))), Name(b) \notin T PROVE b \in DirsAt(d, T)
  BY <1>3 DEF DirsAt, But
<1>4. ASSUME b \in DirsAt(d, T) PROVE b \in DirsAt(d, But(T, Name(k)))
  BY <1>4 DEF DirsAt, But
<1>5. ASSUME b = k PROVE b \in DirsAt(d, But(T, Name(k)))
  BY <1>5 DEF DirsAt, But
<1> QED
  BY <1>2, <1>3, <1>4, <1>5

LEMMA DirNotNamed ==
  ASSUME NEW d, NEW T, NEW f, NEW b, f \in Files, Up(f) = d, Name(f) \in T
  PROVE  b \in DirsAt(d, But(T, Name(f))) <=> b \in DirsAt(d, T)
<1>1. f \in Paths /\ f # <<>> /\ f \notin Dirs /\ \A a \in Dirs : a \in Paths
  BY FileKinds, DirFacts
<1>2. ASSUME b \in DirsAt(d, But(T, Name(f))) PROVE Name(b) \notin T
  <2>1. b \in Dirs /\ b # <<>> /\ Up(b) = d /\ Name(b) \notin But(T, Name(f))
    BY <1>2 DEF DirsAt
  <2>2. Name(b) # Name(f)
    BY <1>1, <2>1, OwnName
  <2> QED
    BY <2>1, <2>2 DEF But
<1> QED
  BY <1>2 DEF DirsAt, But
-----------------------------------------------------------------------------
(* One name more.                                                          *)

\* Manifests have times.
Timed(mn) == \A d \in Dirs : mn[d].m \in Nat \ {0}

LEMMA LatestTyped ==
  ASSUME NEW tr, NEW mn, NEW d, NEW T, Bounded(tr), Timed(mn)
  PROVE  LatestOf(tr, mn, d, T) \in SUBSET Nat
<1>1. \A f \in FilesAt(tr, d, T) : tr[f].m \in Nat
  BY DEF Bounded, FilesAt
<1>2. \A k \in DirsAt(d, T) : mn[k].m \in Nat
  BY DEF Timed, DirsAt
<1> QED
  BY <1>1, <1>2 DEF LatestOf, TimesOf

\* A Manifest that was opened has nothing in it yet.
LEMMA PartlyEmpty ==
  ASSUME NEW tr, NEW mn, NEW d, NEW T, mn[d].c = Nothing,
         FilesAt(tr, d, T) = {}, DirsAt(d, T) = {}
  PROVE  Partly(tr, mn, d, T, 0)
<1>1. mn[d].c.data = {} /\ mn[d].c.subs = {} /\ mn[d].c.dist = {}
  BY DEF Nothing
<1>2. DataOf(tr, d, T) = {} /\ SubsOf(mn, d, T) = {}
  BY DEF DataOf, SubsOf
<1>3. LatestOf(tr, mn, d, T) = {0}
  BY DEF LatestOf, TimesOf
<1> QED
  BY <1>1, <1>2, <1>3 DEF Partly, IsGreatest

\* What of a directory its Manifest depends on.
LEMMA PartlyKept ==
  ASSUME NEW tr, NEW m0, NEW m1, NEW d, NEW T, NEW v, Partly(tr, m0, d, T, v),
         m1[d] = m0[d], \A k \in DirsAt(d, T) : m1[k] = m0[k]
  PROVE  Partly(tr, m1, d, T, v)
<1>1. SubsOf(m1, d, T) = SubsOf(m0, d, T)
  BY DEF SubsOf
<1>2. LatestOf(tr, m1, d, T) = LatestOf(tr, m0, d, T)
  BY DEF LatestOf
<1> QED
  BY <1>1, <1>2 DEF Partly

\* Its content is the same.
LEMMA PartlyMoved ==
  ASSUME NEW tr, NEW m0, NEW m1, NEW d, NEW T, NEW v, Partly(tr, m0, d, T, v),
         m1[d].c.data = m0[d].c.data, m1[d].c.subs = m0[d].c.subs, m1[d].c.dist = m0[d].c.dist,
         \A k \in DirsAt(d, T) : m1[k] = m0[k]
  PROVE  Partly(tr, m1, d, T, v)
<1>1. SubsOf(m1, d, T) = SubsOf(m0, d, T)
  BY DEF SubsOf
<1>2. LatestOf(tr, m1, d, T) = LatestOf(tr, m0, d, T)
  BY DEF LatestOf
<1> QED
  BY <1>1, <1>2 DEF Partly

\* The data and the subs of one more.
LEMMA AddedFile ==
  ASSUME NEW tr, NEW m0, NEW m1, NEW d, NEW T, NEW v, NEW f,
         Partly(tr, m0, d, T, v), Bounded(tr), Timed(m0),
         f \in Files, Up(f) = d, Name(f) \in T,
         m1[d].c.data = m0[d].c.data \cup EntriesOf(tr, d, AsIs(tr, f)),
         m1[d].c.subs = m0[d].c.subs, m1[d].c.dist = m0[d].c.dist,
         \A k \in DirsAt(d, T) : m1[k] = m0[k]
  PROVE  Partly(tr, m1, d, But(T, Name(f)), Greater(v, Newest(tr, AsIs(tr, f))))
<1> DEFINE S == AsIs(tr, f)
           w == Newest(tr, S)
           U == But(T, Name(f))
<1>1. \A g : g \in S <=> (g = f /\ tr[f].c # Absent)
  BY DEF AsIs
<1>2. \A g : g \in FilesAt(tr, d, U) <=> g \in FilesAt(tr, d, T) \/ (g = f /\ tr[f].c # Absent)
  BY FileNamed
<1>3. \A b : b \in DirsAt(d, U) <=> b \in DirsAt(d, T)
  BY DirNotNamed
<1> HIDE DEF S, U
<1>4. FilesAt(tr, d, U) = FilesAt(tr, d, T) \cup S
  BY <1>1, <1>2
<1>5. DirsAt(d, U) = DirsAt(d, T)
  BY <1>3
<1>6. EntriesOf(tr, d, S) = {<<<<Name(g)>>, tr[g].c>> : g \in S}
  <2>1. d \in Paths /\ f = d \o <<Name(f)>>
    BY FileKinds, NameOf
  <2>2. Without(d, f) = <<Name(f)>>
    BY <2>1, FileKinds, NameIn
  <2>3. \A g \in S : Without(d, g) = <<Name(g)>>
    BY <1>1, <2>2
  <2> QED
    BY <2>3 DEF EntriesOf
<1>7. m1[d].c.data = DataOf(tr, d, U)
  BY <1>4, <1>6 DEF Partly, DataOf, S
<1>8. SubsOf(m1, d, U) = SubsOf(m0, d, T)
  BY <1>5 DEF SubsOf
<1>9. LatestOf(tr, m1, d, U) = LatestOf(tr, m0, d, T) \cup ({0} \cup TimesOf(tr, S))
  <2>1. {m1[k].m : k \in DirsAt(d, U)} = {m0[k].m : k \in DirsAt(d, T)}
    BY <1>5
  <2>2. TimesOf(tr, FilesAt(tr, d, U)) = TimesOf(tr, FilesAt(tr, d, T)) \cup TimesOf(tr, S)
    BY <1>4 DEF TimesOf
  <2> QED
    BY <2>1, <2>2 DEF LatestOf
<1>10. S \in SUBSET Files
  BY <1>1
<1>11. w \in Nat /\ IsGreatest(w, {0} \cup TimesOf(tr, S))
  BY <1>10, LatestIs DEF Newest
<1>12. {0} \cup TimesOf(tr, S) \in SUBSET Nat
  BY <1>10 DEF TimesOf, Bounded
<1> HIDE DEF w
<1>13. IsGreatest(Greatest({v, w}), LatestOf(tr, m1, d, U))
  <2> DEFINE L == LatestOf(tr, m0, d, T)
             M == {0} \cup TimesOf(tr, S)
  <2>1. L \in SUBSET Nat /\ IsGreatest(v, L) /\ M \in SUBSET Nat /\ IsGreatest(w, M)
    BY <1>11, <1>12, LatestTyped DEF Partly
  <2> HIDE DEF L, M
  <2>2. IsGreatest(Greatest({v, w}), L \cup M)
    BY <2>1, GreatestGrows
  <2> QED
    BY <1>9, <2>2 DEF L, M
<1> QED
  BY <1>7, <1>8, <1>13 DEF Partly, Greater, w, S, U

LEMMA AddedDir ==
  ASSUME NEW tr, NEW m0, NEW m1, NEW d, NEW T, NEW v, NEW k,
         Partly(tr, m0, d, T, v), Bounded(tr), Timed(m0), Timed(m1),
         k \in Dirs, k # <<>>, Up(k) = d, Name(k) \in T,
         m1[d].c.data = m0[d].c.data, m1[d].c.dist = m0[d].c.dist,
         m1[d].c.subs = m0[d].c.subs \cup {<<<<Name(k)>>, m1[k].c>>},
         \A b \in DirsAt(d, T) : m1[b] = m0[b]
  PROVE  Partly(tr, m1, d, But(T, Name(k)), Greater(v, m1[k].m))
<1> DEFINE U == But(T, Name(k))
<1>1. \A g : g \in FilesAt(tr, d, U) <=> g \in FilesAt(tr, d, T)
  BY FileNotNamed
<1>2. \A b : b \in DirsAt(d, U) <=> b \in DirsAt(d, T) \/ b = k
  BY DirNamed
<1> HIDE DEF U
<1>3. FilesAt(tr, d, U) = FilesAt(tr, d, T)
  BY <1>1
<1>4. DirsAt(d, U) = DirsAt(d, T) \cup {k}
  BY <1>2
<1>5. SubsOf(m1, d, U) = SubsOf(m0, d, T) \cup {<<<<Name(k)>>, m1[k].c>>}
  BY <1>4 DEF SubsOf
<1>6. LatestOf(tr, m1, d, U) = LatestOf(tr, m0, d, T) \cup {m1[k].m}
  <2>1. {m1[b].m : b \in DirsAt(d, U)} = {m0[b].m : b \in DirsAt(d, T)} \cup {m1[k].m}
    <3> DEFINE D == DirsAt(d, T)
               E == DirsAt(d, U)
    <3>1. E = D \cup {k} /\ \A b \in D : m1[b] = m0[b]
      BY <1>4
    <3> HIDE DEF D, E
    <3>2. \A y \in {m1[b].m : b \in E} : y \in {m0[a].m : a \in D} \cup {m1[k].m}
      BY <3>1
    <3>3. \A y \in {m0[a].m : a \in D} : y \in {m1[b].m : b \in E}
      BY <3>1
    <3>4. m1[k].m \in {m1[b].m : b \in E}
      BY <3>1
    <3>5. {m1[b].m : b \in E} = {m0[a].m : a \in D} \cup {m1[k].m}
      BY Zenon, <3>2, <3>3, <3>4
    <3> QED
      BY Zenon, <3>5 DEF D, E
  <2> QED
    BY <1>3, <2>1 DEF LatestOf
<1>7. {m1[k].m} \in SUBSET Nat /\ IsGreatest(m1[k].m, {m1[k].m})
  BY DEF Timed, IsGreatest
<1>8. IsGreatest(Greatest({v, m1[k].m}), LatestOf(tr, m1, d, U))
  <2> DEFINE L == LatestOf(tr, m0, d, T)
             M == {m1[k].m}
  <2>1. L \in SUBSET Nat /\ IsGreatest(v, L) /\ M \in SUBSET Nat /\ IsGreatest(m1[k].m, M)
    BY <1>7, LatestTyped DEF Partly
  <2> HIDE DEF L, M
  <2>2. IsGreatest(Greatest({v, m1[k].m}), L \cup M)
    BY <2>1, GreatestGrows
  <2> QED
    BY <1>6, <2>2 DEF L, M
<1>9. DataOf(tr, d, U) = DataOf(tr, d, T)
  BY <1>3 DEF DataOf
<1> QED
  BY <1>5, <1>8, <1>9 DEF Partly, Greater, U

-----------------------------------------------------------------------------
(* What each step of a generation does.                                    *)

LEMMA RootChild ==
  ASSUME NEW n, n \in RootDirs
  PROVE  /\ <<n>> \in Dirs /\ <<n>> # <<>> /\ Up(<<n>>) = <<>> /\ Name(<<n>>) = n
         /\ <<n>>[1] = n /\ <<n>> \notin Packages
<1>1. <<n>> \in Dirs /\ <<n>> # <<>> /\ <<n>> \notin Packages /\ <<n>> \in Paths
  BY RootName
<1>2. <<>> \o <<n>> = <<n>> /\ <<>> \in Paths
  BY Joining, EmptyPath
<1>3. Up(<<n>>) = <<>> /\ Name(<<n>>) = n
  <2>1. <<>> \o <<n>> \in Paths
    BY <1>1, <1>2
  <2> DEFINE d == <<>>
  <2>2. d \in Paths /\ d \o <<n>> \in Paths
    BY <1>2, <2>1
  <2> HIDE DEF d
  <2>3. Up(d \o <<n>>) = d /\ Name(d \o <<n>>) = n
    BY <2>2, NameIn
  <2> QED
    BY <1>2, <2>3 DEF d
<1> QED
  BY <1>1, <1>3

LEMMA PackageChild ==
  ASSUME NEW p, p \in Packages
  PROVE  /\ p \in Dirs /\ p \in Paths /\ p # <<>> /\ Up(p) = <<p[1]>> /\ Name(p) = p[2]
         /\ p[1] \in Categories /\ p[1] \in RootDirs /\ p = <<p[1], p[2]>>
<1>1. /\ p \in Paths /\ Len(p) = 2 /\ p \in Dirs
  BY PackageFacts, PackagesDeep
<1>2. p = <<p[1], p[2]>>
  BY <1>1 DEF Paths
<1>3. PICK h \in Files : Len(h) > 2 /\ h[1] \in Categories /\ p = SubSeq(h, 1, 2)
  BY DEF Packages
<1>4. h \in Paths /\ Len(h) \in Nat /\ 2 \in 0 .. Len(h) /\ 1 \in 1 .. 2
  BY <1>3, FileFacts
<1>5. p[1] = h[1]
  BY <1>3, <1>4, StartFacts
<1>6. p[1] \in Categories /\ p[1] \in RootDirs
  BY <1>3, <1>5 DEF Categories
<1> DEFINE c == p[1]
           n == p[2]
           d == <<c>>
<1>7. d \in Paths /\ d \o <<n>> = p
  BY <1>2, <1>6, RootName, Joining
<1> HIDE DEF d, n
<1>8. Up(d \o <<n>>) = d /\ Name(d \o <<n>>) = n /\ d \o <<n>> # <<>>
  BY <1>1, <1>7, NameIn
<1> QED
  BY <1>1, <1>2, <1>6, <1>7, <1>8 DEF d, n

LEMMA RootFileNamed ==
  ASSUME NEW n, <<n>> \in Files
  PROVE  Up(<<n>>) = <<>> /\ Name(<<n>>) = n
<1>1. <<n>> \in Paths
  BY FileFacts
<1>2. <<>> \o <<n>> = <<n>> /\ <<>> \in Paths
  BY Joining, EmptyPath
<1> DEFINE d == <<>>
<1>3. d \in Paths /\ d \o <<n>> \in Paths
  BY <1>1, <1>2
<1> HIDE DEF d
<1>4. Up(d \o <<n>>) = d /\ Name(d \o <<n>>) = n
  BY <1>3, NameIn
<1> QED
  BY <1>2, <1>4 DEF d

LEMMA GenerateEffect ==
  ASSUME IInv, Generate
  PROVE  /\ Has(man, man', <<>>, [c |-> Nothing, m |-> clock'])
         /\ gen'.todo = ListDir(<<>>) /\ gen'.dir = <<>> /\ gen'.tv = 0 /\ gen'.subtv = 0
         /\ gen'.cut = 0 /\ gen'.short = {} /\ gen'.newtv = 0 /\ gen'.began = clock' /\ pc = "idle" /\ pc' = "root"
         /\ clock' = clock + 1 /\ runs' = runs + 1 /\ UNCHANGED <<tree, top, ver, before>>
<1>1. /\ gen'.todo = ListDir(<<>>) /\ gen'.dir = <<>> /\ gen'.tv = 0 /\ gen'.subtv = 0
      /\ gen'.cut = 0 /\ gen'.short = {} /\ gen'.newtv = 0 /\ gen'.began = clock' /\ pc = "idle" /\ pc' = "root"
      /\ clock' = clock + 1 /\ runs' = runs + 1 /\ UNCHANGED <<tree, top, ver, before>>
  BY DEF Generate, NoGen, ghosts
<1> DEFINE b == <<>>
           r == [c |-> Nothing, m |-> clock']
<1>2. b \in Dirs /\ Puts(man, man', b, r)
  BY RootDir DEF Generate, Puts
<1> HIDE DEF b, r
<1>3. Has(man, man', b, r)
  BY <1>2, PutAt DEF IInv, Shaped
<1> QED
  BY <1>1, <1>3 DEF b, r

\* The locals that stay.
SpoiltKept(g0, g1) == g1.cut = g0.cut /\ g1.short = g0.short
GenKept(g0, g1) ==
  g1.new = g0.new /\ g1.newtv = g0.newtv /\ g1.began = g0.began /\ SpoiltKept(g0, g1)

LEMMA NewestHere == \A f : Latest({g \in {f} : Exists(g)}) = Newest(tree, AsIs(tree, f))
BY DEF Latest, Newest, AsIs, Exists, TimesOf

LEMMA EntriesHere == \A d, f : Entries(d, {g \in {f} : Exists(g)}) = EntriesOf(tree, d, AsIs(tree, f))
BY DEF Entries, EntriesOf, Entry, AsIs, Exists

LEMMA RootFileEffect ==
  ASSUME IInv, HashInv, RootFile
  PROVE  /\ \E f \in Files :
              /\ Up(f) = <<>> /\ Name(f) \in gen.todo /\ Name(f) \notin RootDirs
              /\ HasData(man, man', <<>>,
                         man[<<>>].c.data \cup EntriesOf(tree, <<>>, AsIs(tree, f)))
              /\ gen'.todo = But(gen.todo, Name(f))
              /\ gen'.tv = Greater(gen.tv, Newest(tree, AsIs(tree, f)))
         /\ gen'.dir = gen.dir /\ gen'.sub = gen.sub /\ gen'.subtv = gen.subtv
         /\ GenKept(gen, gen') /\ pc = "root" /\ pc' = "root"
         /\ UNCHANGED <<tree, top, ver, counts, before>>
<1>1. PICK n \in gen.todo \ RootDirs :
        /\ man' = [man EXCEPT ![<<>>].c.data =
                     @ \cup Entries(<<>>, {f \in {<<n>>} : Exists(f)})]
        /\ gen' = [gen EXCEPT !.todo = @ \ {n},
                              !.tv = Greatest({@, Latest({f \in {<<n>>} : Exists(f)})})]
  BY DEF RootFile
<1>2. /\ pc = "root" /\ pc' = "root" /\ Working
      /\ UNCHANGED <<tree, top, ver, counts, before>>
  BY DEF RootFile, Working
<1> DEFINE f == <<n>>
           S == {g \in {f} : Exists(g)}
           E == Entries(<<>>, S)
<1>3. /\ gen'.todo = gen.todo \ {n} /\ gen'.dir = gen.dir /\ gen'.sub = gen.sub
      /\ gen'.tv = Greatest({gen.tv, Latest(S)}) /\ gen'.subtv = gen.subtv
      /\ gen'.new = gen.new /\ gen'.newtv = gen.newtv /\ gen'.began = gen.began
      /\ gen'.cut = gen.cut /\ gen'.short = gen.short
  <2> HIDE DEF S
  <2>1. gen' = [gen EXCEPT !.todo = @ \ {n}, !.tv = Greatest({@, Latest(S)})]
    BY <1>1 DEF S
  <2> QED
    BY <2>1 DEF IInv, Shaped, GenShaped
<1>4. f \in Files
  BY <1>1, <1>2, ToDo
<1>5. Up(f) = <<>> /\ Name(f) = n
  BY <1>4, RootFileNamed
<1>6. HasData(man, man', <<>>, man[<<>>].c.data \cup E)
  <2>1. ManShaped(man)
    BY DEF IInv, Shaped
  <2> DEFINE b == <<>>
  <2>2. b \in Dirs /\ PutsData(man, man', b, man[b].c.data \cup E)
    BY <1>1, RootDir DEF PutsData
  <2> HIDE DEF b, E
  <2>3. HasData(man, man', b, man[b].c.data \cup E)
    BY <2>1, <2>2, DataAt
  <2> QED
    BY <2>3 DEF b
<1>7. E = EntriesOf(tree, <<>>, AsIs(tree, f)) /\ Latest(S) = Newest(tree, AsIs(tree, f))
  <2> HIDE DEF f
  <2> QED
    BY NewestHere, EntriesHere
<1> HIDE DEF E, S, f
<1>8. gen'.todo = But(gen.todo, Name(f)) /\ gen'.tv = Greater(gen.tv, Newest(tree, AsIs(tree, f)))
  BY <1>3, <1>5, <1>7 DEF But, Greater
<1>9. Name(f) \in gen.todo /\ Name(f) \notin RootDirs
  BY <1>1, <1>5
<1>10. HasData(man, man', <<>>, man[<<>>].c.data \cup EntriesOf(tree, <<>>, AsIs(tree, f)))
  BY <1>6, <1>7
<1>11. GenKept(gen, gen') /\ gen'.dir = gen.dir /\ gen'.sub = gen.sub /\ gen'.subtv = gen.subtv
  BY <1>3 DEF GenKept, SpoiltKept
<1> QED
  BY <1>2, <1>4, <1>5, <1>8, <1>9, <1>10, <1>11

LEMMA SubtreeOpenEffect ==
  ASSUME IInv, HashInv, SubtreeOpen
  PROVE  /\ \E n \in gen.todo \cap Subtrees :
              /\ Has(man, man', <<n>>, [c |-> Nothing, m |-> clock])
              /\ gen'.dir = <<n>>
         /\ gen'.todo = gen.todo /\ gen'.tv = gen.tv /\ gen'.sub = gen.sub /\ gen'.subtv = gen.subtv
         /\ GenKept(gen, gen') /\ pc = "root" /\ pc' = "root" /\ gen.dir = <<>>
         /\ UNCHANGED <<tree, top, ver, counts, before>>
<1>1. PICK n \in gen.todo \cap Subtrees :
        /\ man' = [man EXCEPT ![<<n>>] = [c |-> Nothing, m |-> clock]]
        /\ gen' = [gen EXCEPT !.dir = <<n>>]
  BY DEF SubtreeOpen
<1>2. /\ pc = "root" /\ pc' = "root" /\ gen.dir = <<>>
      /\ UNCHANGED <<tree, top, ver, counts, before>>
  BY DEF SubtreeOpen, ghosts
<1>3. /\ gen'.dir = <<n>> /\ gen'.todo = gen.todo /\ gen'.tv = gen.tv /\ gen'.sub = gen.sub
      /\ gen'.subtv = gen.subtv /\ GenKept(gen, gen')
  BY <1>1 DEF IInv, Shaped, GenShaped, GenKept, SpoiltKept
<1> DEFINE k == <<n>>
           r == [c |-> Nothing, m |-> clock]
<1>4. k \in Dirs
  BY TreeAssumption, RootChild
<1>5. Puts(man, man', k, r)
  BY <1>1 DEF Puts
<1> HIDE DEF k, r
<1>6. Has(man, man', k, r)
  BY <1>4, <1>5, PutAt DEF IInv, Shaped
<1> QED
  BY <1>2, <1>3, <1>6 DEF k, r

LEMMA CategoryOpenEffect ==
  ASSUME IInv, HashInv, CategoryOpen
  PROVE  /\ \E n \in gen.todo \cap Categories :
              /\ Has(man, man', <<n>>, [c |-> Nothing, m |-> clock])
              /\ gen'.dir = <<n>> /\ gen'.sub = ListDir(<<n>>)
         /\ gen'.todo = gen.todo /\ gen'.tv = gen.tv /\ gen'.subtv = 0
         /\ GenKept(gen, gen') /\ pc = "root" /\ pc' = "category" /\ gen.dir = <<>>
         /\ UNCHANGED <<tree, top, ver, counts, before>>
<1>1. PICK n \in gen.todo \cap Categories :
        /\ man' = [man EXCEPT ![<<n>>] = [c |-> Nothing, m |-> clock]]
        /\ gen' = [gen EXCEPT !.dir = <<n>>, !.sub = ListDir(<<n>>), !.subtv = 0]
  BY DEF CategoryOpen
<1>2. /\ pc = "root" /\ pc' = "category" /\ gen.dir = <<>>
      /\ UNCHANGED <<tree, top, ver, counts, before>>
  BY DEF CategoryOpen, ghosts
<1>3. /\ gen'.dir = <<n>> /\ gen'.todo = gen.todo /\ gen'.tv = gen.tv /\ gen'.sub = ListDir(<<n>>)
      /\ gen'.subtv = 0 /\ GenKept(gen, gen')
  BY <1>1 DEF IInv, Shaped, GenShaped, GenKept, SpoiltKept
<1> DEFINE k == <<n>>
           r == [c |-> Nothing, m |-> clock]
<1>4. k \in Dirs
  BY RootChild DEF Categories
<1>5. Puts(man, man', k, r)
  BY <1>1 DEF Puts
<1> HIDE DEF k, r
<1>6. Has(man, man', k, r)
  BY <1>4, <1>5, PutAt DEF IInv, Shaped
<1> QED
  BY <1>2, <1>3, <1>6 DEF k, r

\* The Manifest r of k is in place, and is entered into the one of d.
Enters(m0, m1, d, k, r) ==
  /\ m1[k] = r /\ m1[d].c.subs = m0[d].c.subs \cup {<<<<Name(k)>>, r.c>>}
  /\ m1[d].c.data = m0[d].c.data /\ m1[d].c.dist = m0[d].c.dist
  /\ m1[d].c.whole = m0[d].c.whole /\ m1[d].m = m0[d].m
  /\ \A b \in Dirs : b # d /\ b # k => m1[b] = m0[b]

LEMMA Entering ==
  ASSUME NEW m0, NEW m, NEW m1, NEW d, NEW k, NEW r, NEW x, d \in Dirs, k \in Dirs, d # k,
         Has(m0, m, k, r), HasSubs(m, m1, d, x),
         x = m[d].c.subs \cup {<<<<Name(k)>>, m[k].c>>}
  PROVE  Enters(m0, m1, d, k, r)
<1>1. m[k] = r /\ m[d] = m0[d] /\ m1[k] = m[k]
  BY DEF Has, HasSubs
<1>2. /\ m1[d].c.subs = x /\ m1[d].c.data = m[d].c.data /\ m1[d].c.dist = m[d].c.dist
      /\ m1[d].c.whole = m[d].c.whole /\ m1[d].m = m[d].m
  BY DEF HasSubs
<1>3. \A b \in Dirs : b # d /\ b # k => m1[b] = m0[b]
  BY DEF Has, HasSubs
<1>4. x = m0[d].c.subs \cup {<<<<Name(k)>>, r.c>>}
  BY <1>1
<1> QED
  BY <1>1, <1>2, <1>3, <1>4 DEF Enters

\* A time is set where there is one.
TimeOr(tv) == IF tv # 0 THEN tv ELSE clock

LEMMA DoneHas ==
  ASSUME ManShaped(man), NEW d, NEW x, NEW tv, d \in Dirs
  PROVE  Has(man, Done(d, x, tv), d, [c |-> x, m |-> TimeOr(tv)])
<1> DEFINE r == [c |-> x, m |-> TimeOr(tv)]
<1>1. Puts(man, Done(d, x, tv), d, r)
  BY DEF Puts, Done, TimeOr
<1> HIDE DEF r
<1>2. Has(man, Done(d, x, tv), d, r)
  BY <1>1, PutAt
<1> QED
  BY <1>2 DEF r

LEMMA SubtreeCloseEffect ==
  ASSUME IInv, HashInv, SubtreeClose
  PROVE  /\ \E n \in gen.todo \cap Subtrees : \E r :
              /\ gen.dir = <<n>> /\ Enters(man, man', <<>>, <<n>>, r)
              /\ r.c.data = EntriesOf(tree, <<n>>, Here(tree, <<n>>)) /\ r.c.subs = {}
              /\ r.c.dist = {} /\ r.c.whole /\ r.m = TimeOr(Newest(tree, Here(tree, <<n>>)))
              /\ gen'.todo = But(gen.todo, n) /\ gen'.tv = Greater(gen.tv, r.m)
         /\ gen'.dir = <<>> /\ gen'.sub = gen.sub /\ gen'.subtv = gen.subtv
         /\ GenKept(gen, gen') /\ pc = "root" /\ pc' = "root"
         /\ UNCHANGED <<tree, top, ver, counts, before>>
<1>1. PICK n \in gen.todo \cap Subtrees : gen.dir = <<n>>
  BY DEF SubtreeClose, HashInv
<1>2. /\ pc = "root" /\ pc' = "root" /\ gen.dir[1] = n /\ n \in RootDirs
      /\ UNCHANGED <<tree, top, ver, counts, before>>
  BY <1>1, TreeAssumption DEF SubtreeClose
<1> DEFINE d == <<n>>
           x == [Nothing EXCEPT !.data = Entries(d, Under(d)), !.whole = TRUE]
           v == Latest(Under(d))
           m == Done(d, x, v)
           r == [c |-> x, m |-> TimeOr(v)]
           b == <<>>
<1>3. man' = AddSub(m, b, n) /\ gen' = [Referred(gen, n, m) EXCEPT !.dir = b]
  BY <1>1, <1>2 DEF SubtreeClose
<1>4. x = Content(x) /\ x.data = Entries(d, Under(d)) /\ x.subs = {} /\ x.dist = {} /\ x.whole
  <2>1. Ends(Nothing, x)
    BY DEF Ends
  <2>2. x = Content(x)
    BY <2>1, Ending, NothingShaped
  <2> QED
    BY <2>2 DEF Nothing
<1>5. x.data = EntriesOf(tree, d, Here(tree, d)) /\ v = Newest(tree, Here(tree, d))
  <2>1. Under(d) = Here(tree, d)
    BY DEF Under, Here, Exists
  <2> HIDE DEF x, d
  <2> QED
    BY <1>4, <2>1 DEF Entries, Entry, EntriesOf, Latest, Newest, TimesOf, v
<1>6. r.c = x /\ r.m = TimeOr(v)
  OBVIOUS
<1>7. d \in Dirs /\ d # b /\ d \notin Packages /\ b \in Dirs /\ Name(d) = n
  BY <1>2, RootChild, RootDir
<1> HIDE DEF x, d, v
<1>8. ManShaped(m)
  BY <1>4, <1>7, Finishing DEF IInv, Shaped
<1>9. Has(man, m, d, r)
  BY <1>7, DoneHas DEF IInv, Shaped
<1> HIDE DEF r, m, b
<1>10. HasSubs(m, man', b, m[b].c.subs \cup {<<<<n>>, m[d].c>>})
  BY <1>2, <1>3, <1>8, RootSubs DEF d, b
<1>11. Enters(man, man', b, d, r)
  BY <1>7, <1>9, <1>10, Entering
<1>12. gen' = [gen EXCEPT !.todo = @ \ {n}, !.tv = Greatest({@, m[d].m}), !.dir = b]
  BY <1>3 DEF Referred, d
<1>13. /\ gen'.todo = But(gen.todo, n) /\ gen'.tv = Greater(gen.tv, m[d].m) /\ gen'.dir = b
       /\ gen'.sub = gen.sub /\ gen'.subtv = gen.subtv /\ GenKept(gen, gen')
  BY <1>12 DEF IInv, Shaped, GenShaped, GenKept, SpoiltKept, But, Greater
<1>14. m[d].m = r.m
  BY <1>9 DEF Has
<1>15. gen'.tv = Greater(gen.tv, r.m)
  BY <1>13, <1>14
<1> QED
  BY <1>1, <1>2, <1>4, <1>5, <1>6, <1>11, <1>13, <1>15 DEF d, b

LEMMA CategoryAt ==
  ASSUME HashInv, pc = "category"
  PROVE  \E c \in Categories : gen.dir = <<c>> /\ gen.dir[1] = c
<1>1. PICK c \in Categories : gen.dir = <<c>>
  BY DEF HashInv
<1>2. gen.dir[1] = c
  BY <1>1
<1> QED
  BY <1>1, <1>2

LEMMA ChildNamed ==
  ASSUME NEW c, NEW n, c \in RootDirs, <<c>> \o <<n>> \in Files \/ <<c>> \o <<n>> \in Packages
  PROVE  Up(<<c>> \o <<n>>) = <<c>> /\ Name(<<c>> \o <<n>>) = n
<1> DEFINE d == <<c>>
           k == d \o <<n>>
<1>1. d \in Paths /\ k \in Paths
  BY RootName, FileFacts, PackageFacts
<1> HIDE DEF d
<1>2. Up(d \o <<n>>) = d /\ Name(d \o <<n>>) = n
  BY <1>1, NameIn
<1> QED
  BY <1>2 DEF d

LEMMA CategoryFileEffect ==
  ASSUME IInv, HashInv, CategoryFile
  PROVE  /\ \E c \in Categories, f \in Files :
              /\ gen.dir = <<c>> /\ Up(f) = <<c>> /\ Name(f) \in gen.sub
              /\ HasData(man, man', <<c>>,
                         man[<<c>>].c.data \cup EntriesOf(tree, <<c>>, AsIs(tree, f)))
              /\ gen'.sub = But(gen.sub, Name(f))
              /\ gen'.subtv = Greater(gen.subtv, Newest(tree, AsIs(tree, f)))
         /\ gen'.dir = gen.dir /\ gen'.todo = gen.todo /\ gen'.tv = gen.tv
         /\ GenKept(gen, gen') /\ pc = "category" /\ pc' = "category"
         /\ UNCHANGED <<tree, top, ver, counts, before>>
<1>1. PICK c \in Categories : gen.dir = <<c>>
  BY CategoryAt DEF CategoryFile
<1> DEFINE d == <<c>>
<1>2. PICK n \in gen.sub :
        /\ d \o <<n>> \in Files
        /\ man' = [man EXCEPT ![d].c.data =
                     @ \cup Entries(d, {g \in {d \o <<n>>} : Exists(g)})]
        /\ gen' = [gen EXCEPT !.sub = @ \ {n},
                              !.subtv = Greatest({@, Latest({g \in {d \o <<n>>} : Exists(g)})})]
  BY <1>1 DEF CategoryFile
<1>3. /\ pc = "category" /\ pc' = "category"
      /\ UNCHANGED <<tree, top, ver, counts, before>>
  BY DEF CategoryFile
<1> DEFINE f == d \o <<n>>
           S == {g \in {f} : Exists(g)}
           E == Entries(d, S)
<1>4. c \in RootDirs /\ d \in Dirs
  BY RootChild DEF Categories
<1>5. f \in Files /\ Up(f) = d /\ Name(f) = n
  BY <1>2, <1>4, ChildNamed
<1>6. HasData(man, man', d, man[d].c.data \cup E)
  <2>1. PutsData(man, man', d, man[d].c.data \cup E)
    BY <1>2 DEF PutsData
  <2> HIDE DEF d, E
  <2> QED
    BY <1>4, <2>1, DataAt DEF IInv, Shaped
<1>7. E = EntriesOf(tree, d, AsIs(tree, f)) /\ Latest(S) = Newest(tree, AsIs(tree, f))
  <2> HIDE DEF f, d
  <2> QED
    BY NewestHere, EntriesHere
<1>8. gen' = [gen EXCEPT !.sub = @ \ {n}, !.subtv = Greatest({@, Latest(S)})]
  BY <1>2
<1> HIDE DEF E, S, f, d
<1>9. /\ gen'.sub = But(gen.sub, n) /\ gen'.subtv = Greater(gen.subtv, Latest(S))
      /\ gen'.dir = gen.dir /\ gen'.todo = gen.todo /\ gen'.tv = gen.tv /\ GenKept(gen, gen')
  BY <1>8 DEF IInv, Shaped, GenShaped, GenKept, SpoiltKept, But, Greater
<1>10. /\ Name(f) \in gen.sub /\ gen'.sub = But(gen.sub, Name(f))
       /\ gen'.subtv = Greater(gen.subtv, Newest(tree, AsIs(tree, f)))
  BY <1>2, <1>5, <1>7, <1>9
<1>11. HasData(man, man', d, man[d].c.data \cup EntriesOf(tree, d, AsIs(tree, f)))
  BY <1>6, <1>7
<1> QED
  BY <1>1, <1>3, <1>5, <1>9, <1>10, <1>11 DEF d

LEMMA PackageWriteEffect ==
  ASSUME IInv, HashInv, PackageWrite
  PROVE  /\ \E p \in Packages :
              /\ gen.dir = Up(p) /\ Name(p) \in gen.sub
              /\ gen'.sub = But(gen.sub, Name(p)) /\ gen'.dir = p
              /\ gen'.new.data = EntriesOf(tree, p, ListedIn(tree, p)) /\ gen'.new.subs = {}
              /\ gen'.new.dist = man[p].c.dist /\ gen'.new.whole
              /\ gen'.newtv = Greater(man[p].m, Newest(tree, ListedIn(tree, p)))
         /\ gen'.todo = gen.todo /\ gen'.tv = gen.tv /\ gen'.subtv = gen.subtv
         /\ gen'.began = gen.began /\ SpoiltKept(gen, gen') /\ pc = "category" /\ pc' = "package"
         /\ UNCHANGED <<tree, man, top, ver, counts, before>>
<1>1. PICK c \in Categories : gen.dir = <<c>>
  BY CategoryAt DEF PackageWrite
<1> DEFINE d == <<c>>
<1>2. PICK n \in gen.sub :
        /\ d \o <<n>> \in Packages
        /\ gen' = [gen EXCEPT !.sub = @ \ {n}, !.dir = d \o <<n>>,
                     !.new = [Nothing EXCEPT !.data = Entries(d \o <<n>>, InManifest(d \o <<n>>)),
                                             !.dist = man[d \o <<n>>].c.dist, !.whole = TRUE],
                     !.newtv = Greatest({man[d \o <<n>>].m, Latest(InManifest(d \o <<n>>))})]
  BY <1>1 DEF PackageWrite
<1>3. /\ pc = "category" /\ pc' = "package"
      /\ UNCHANGED <<tree, man, top, ver, counts, before>>
  BY DEF PackageWrite
<1> DEFINE p == d \o <<n>>
           x == [Nothing EXCEPT !.data = Entries(p, InManifest(p)),
                                !.dist = man[p].c.dist, !.whole = TRUE]
           v == Greatest({man[p].m, Latest(InManifest(p))})
<1>4. c \in RootDirs
  BY DEF Categories
<1>5. p \in Packages /\ Up(p) = d /\ Name(p) = n
  BY <1>2, <1>4, ChildNamed
<1>6. gen' = [gen EXCEPT !.sub = @ \ {n}, !.dir = p, !.new = x, !.newtv = v]
  BY <1>2
<1>7. x.data = Entries(p, InManifest(p)) /\ x.subs = {} /\ x.dist = man[p].c.dist /\ x.whole
  BY DEF Nothing
<1> HIDE DEF x, v, p, d
<1>8. InManifest(p) = ListedIn(tree, p)
  BY DEF InManifest, ListedIn, Under, Here, Exists
<1>9. x.data = EntriesOf(tree, p, ListedIn(tree, p))
  BY <1>7, <1>8 DEF Entries, Entry, EntriesOf
<1>10. v = Greater(man[p].m, Newest(tree, ListedIn(tree, p)))
  BY <1>8 DEF v, Greater, Latest, Newest, TimesOf
<1>11. /\ gen'.sub = But(gen.sub, n) /\ gen'.dir = p /\ gen'.new = x /\ gen'.newtv = v
       /\ gen'.todo = gen.todo /\ gen'.tv = gen.tv /\ gen'.subtv = gen.subtv
       /\ gen'.began = gen.began /\ SpoiltKept(gen, gen')
  BY <1>6 DEF IInv, Shaped, GenShaped, But, SpoiltKept
<1> QED
  BY <1>1, <1>2, <1>3, <1>5, <1>7, <1>9, <1>10, <1>11 DEF d

LEMMA PackageRenameEffect ==
  ASSUME IInv, PackageRename
  PROVE  /\ gen.dir \in Packages /\ Has(man, man', gen.dir, [c |-> gen.new, m |-> clock])
         /\ pc = "package" /\ pc' = "times"
         /\ UNCHANGED <<tree, top, gen, ver, counts, before>>
<1>1. /\ pc = "package" /\ pc' = "times" /\ UNCHANGED <<tree, top, gen, ver, counts, before>>
      /\ man' = Replaced(gen.dir)
  BY DEF PackageRename, ghosts
<1>2. gen.dir \in Packages /\ gen.dir \in Dirs
  BY <1>1, PackageFacts, PackagesDeep DEF IInv, Placed
<1> DEFINE r == [c |-> gen.new, m |-> clock]
<1>3. Puts(man, man', gen.dir, r)
  BY <1>1 DEF Replaced, Puts
<1> HIDE DEF r
<1>4. Has(man, man', gen.dir, r)
  BY <1>2, <1>3, PutAt DEF IInv, Shaped
<1> QED
  BY <1>1, <1>2, <1>4 DEF r

LEMMA PackageTimesEffect ==
  ASSUME IInv, HashInv, PackageTimes
  PROVE  /\ \E r : /\ r.c = gen.new /\ r.m = TimeOr(gen.newtv)
                   /\ Enters(man, man', Up(gen.dir), gen.dir, r)
                   /\ gen'.subtv = Greater(gen.subtv, r.m)
         /\ gen.dir \in Packages /\ gen'.dir = Up(gen.dir) /\ gen'.dir[1] = gen.dir[1]
         /\ gen'.sub = gen.sub
         /\ gen'.todo = gen.todo /\ gen'.tv = gen.tv
         /\ GenKept(gen, gen') /\ pc = "times" /\ pc' = "category"
         /\ UNCHANGED <<tree, top, ver, counts, before>>
<1> DEFINE p == gen.dir
           c == p[1]
           n == p[2]
           d == <<c>>
           m == Done(p, gen.new, gen.newtv)
           r == [c |-> gen.new, m |-> TimeOr(gen.newtv)]
<1>1. /\ pc = "times" /\ pc' = "category" /\ man' = AddSub(m, d, n)
      /\ gen' = [gen EXCEPT !.dir = d, !.subtv = Greatest({@, m[p].m})]
      /\ UNCHANGED <<tree, top, ver, counts, before>>
  BY DEF PackageTimes, ghosts
<1>2. p \in Packages /\ gen.new = Content(gen.new) /\ gen.new.dist = man[p].c.dist
  BY <1>1 DEF IInv, Placed, Copied
<1>3. /\ p \in Dirs /\ p \in Paths /\ Up(p) = d /\ Name(p) = n /\ d \in Dirs /\ d # p
      /\ p = <<c, n>> /\ d[1] = c
  BY <1>2, PackageChild, RootChild
<1>4. d \o <<n>> = p
  BY <1>3, Joining
<1>5. r.c = gen.new /\ r.m = TimeOr(gen.newtv)
  OBVIOUS
<1>6. ManShaped(m) /\ Has(man, m, p, r)
  <2> HIDE DEF p
  <2> QED
    BY <1>2, <1>3, Finishing, DoneHas DEF IInv, Shaped
<1>7. gen' = [gen EXCEPT !.dir = d, !.subtv = Greatest({@, m[p].m})]
  BY <1>1
<1>8. PutsSubs(m, man', d, m[d].c.subs \cup {<<<<n>>, m[p].c>>})
  <2>1. PutsSubs(m, man', d, m[d].c.subs \cup {<<<<n>>, m[d \o <<n>>].c>>})
    BY <1>1 DEF AddSub, PutsSubs
  <2> QED
    BY <1>4, <2>1
<1> HIDE DEF m, n, d, r, p, c
<1>9. HasSubs(m, man', d, m[d].c.subs \cup {<<<<n>>, m[p].c>>})
  BY <1>3, <1>6, <1>8, SubsAt
<1>10. Enters(man, man', d, p, r)
  BY <1>3, <1>6, <1>9, Entering
<1>11. m[p].m = r.m
  BY <1>6 DEF Has
<1>12. /\ gen'.dir = d /\ gen'.subtv = Greater(gen.subtv, m[p].m) /\ gen'.sub = gen.sub
       /\ gen'.todo = gen.todo /\ gen'.tv = gen.tv /\ GenKept(gen, gen')
  BY <1>7 DEF IInv, Shaped, GenShaped, GenKept, SpoiltKept, Greater
<1>13. gen'.subtv = Greater(gen.subtv, r.m)
  BY <1>11, <1>12
<1> QED
  BY <1>1, <1>2, <1>3, <1>5, <1>10, <1>12, <1>13 DEF p, c

LEMMA PackageFailsEffect ==
  ASSUME IInv, PackageFails
  PROVE  /\ gen'.todo = {} /\ gen'.dir = <<gen.dir[1]>> /\ gen'.sub = gen.sub /\ gen'.tv = gen.tv
         /\ gen'.subtv = gen.subtv /\ gen'.new = gen.new /\ gen'.newtv = gen.newtv
         /\ gen'.began = gen.began /\ gen'.short = gen.short
         /\ pc = "package" /\ pc' = "category"
         /\ UNCHANGED <<tree, man, top, ver, clock, runs, before>>
BY DEF PackageFails, ghosts, IInv, Shaped, GenShaped

LEMMA CategoryCloseEffect ==
  ASSUME IInv, HashInv, CategoryClose
  PROVE  /\ \E c \in Categories : \E r :
              /\ gen.dir = <<c>> /\ r.c.data = man[<<c>>].c.data /\ r.c.subs = man[<<c>>].c.subs
              /\ r.c.dist = man[<<c>>].c.dist /\ r.c.whole /\ r.m = TimeOr(CategoryTime)
              /\ \/ /\ c \in gen.todo /\ Enters(man, man', <<>>, <<c>>, r)
                    /\ gen'.todo = But(gen.todo, c) /\ gen'.tv = Greater(gen.tv, r.m)
                    /\ gen'.dir = <<>> /\ gen'.sub = gen.sub /\ gen'.subtv = gen.subtv
                    /\ GenKept(gen, gen') /\ pc' = "root"
                 \/ c \notin gen.todo /\ Has(man, man', <<c>>, r) /\ gen' = NoGen /\ pc' = "idle"
         /\ pc = "category" /\ gen.sub = {}
         /\ UNCHANGED <<tree, top, ver, counts, before>>
<1>1. PICK c \in Categories : gen.dir = <<c>> /\ gen.dir[1] = c
  BY CategoryAt DEF CategoryClose
<1> DEFINE d == <<c>>
           x == [man[d].c EXCEPT !.whole = TRUE]
           m == Done(d, x, CategoryTime)
           r == [c |-> x, m |-> TimeOr(CategoryTime)]
           b == <<>>
<1>2. pc = "category" /\ gen.sub = {} /\ UNCHANGED <<tree, top, ver, counts, before>>
  BY DEF CategoryClose, ghosts
<1>3. \/ /\ c \in gen.todo /\ man' = AddSub(m, b, c)
         /\ gen' = [Referred(gen, c, m) EXCEPT !.dir = b] /\ pc' = "root"
      \/ c \notin gen.todo /\ man' = m /\ gen' = NoGen /\ pc' = "idle"
  <2>1. gen.dir = d /\ gen.dir[1] = c
    BY <1>1
  <2> HIDE DEF d
  <2> QED
    BY <2>1 DEF CategoryClose
<1>4. c \in RootDirs /\ d \in Dirs /\ d # b /\ d \notin Packages /\ b \in Dirs /\ Name(d) = c
  BY RootChild, RootDir DEF Categories
<1>5. /\ x.data = man[d].c.data /\ x.subs = man[d].c.subs /\ x.dist = man[d].c.dist /\ x.whole
  BY <1>4 DEF IInv, Shaped, ManShaped, Record, Content
<1>6. r.c = x /\ r.m = TimeOr(CategoryTime)
  OBVIOUS
<1> HIDE DEF d
<1>7. ManShaped(m)
  BY <1>4, Closing DEF IInv, Shaped
<1> HIDE DEF x
<1>8. Has(man, m, d, r)
  BY <1>4, DoneHas DEF IInv, Shaped
<1> HIDE DEF m, r, b
<1>9. CASE c \notin gen.todo /\ man' = m /\ gen' = NoGen /\ pc' = "idle"
  BY <1>1, <1>2, <1>5, <1>6, <1>8, <1>9 DEF d
<1>10. CASE /\ c \in gen.todo /\ man' = AddSub(m, b, c)
            /\ gen' = [Referred(gen, c, m) EXCEPT !.dir = b] /\ pc' = "root"
  <2>1. HasSubs(m, man', b, m[b].c.subs \cup {<<<<c>>, m[d].c>>})
    BY <1>4, <1>7, <1>10, RootSubs DEF d, b
  <2>2. Enters(man, man', b, d, r)
    BY <1>4, <1>8, <2>1, Entering
  <2>3. gen' = [gen EXCEPT !.todo = @ \ {c}, !.tv = Greatest({@, m[d].m}), !.dir = b]
    BY <1>10 DEF Referred, d
  <2>4. /\ gen'.todo = But(gen.todo, c) /\ gen'.tv = Greater(gen.tv, m[d].m) /\ gen'.dir = b
        /\ gen'.sub = gen.sub /\ gen'.subtv = gen.subtv /\ GenKept(gen, gen')
    BY <2>3 DEF IInv, Shaped, GenShaped, GenKept, SpoiltKept, But, Greater
  <2>5. m[d].m = r.m
    BY <1>8 DEF Has
  <2>6. gen'.tv = Greater(gen.tv, r.m)
    BY <2>4, <2>5
  <2> QED
    BY <1>1, <1>2, <1>5, <1>6, <1>10, <2>2, <2>4, <2>6 DEF d, b
<1> QED
  BY <1>3, <1>9, <1>10

LEMMA RootCloseEffect ==
  ASSUME IInv, RootClose
  PROVE  /\ \E r : /\ Has(man, man', <<>>, r)
                   /\ r.c.data = man[<<>>].c.data /\ r.c.subs = man[<<>>].c.subs
                   /\ r.c.dist = man[<<>>].c.dist /\ r.c.whole /\ r.m = TimeOr(gen.tv)
         /\ pc = "root" /\ pc' = "close" /\ gen.dir = <<>> /\ gen.todo = {}
         /\ UNCHANGED <<tree, top, gen, ver, counts, before>>
<1> DEFINE d == <<>>
           x == [man[d].c EXCEPT !.whole = TRUE]
           r == [c |-> x, m |-> TimeOr(gen.tv)]
<1>1. /\ pc = "root" /\ pc' = "close" /\ gen.dir = <<>> /\ gen.todo = {}
      /\ UNCHANGED <<tree, top, gen, ver, counts, before>> /\ man' = Done(d, x, gen.tv)
  BY DEF RootClose, ghosts
<1>2. d \in Dirs
  BY RootDir
<1>3. /\ x.data = man[d].c.data /\ x.subs = man[d].c.subs /\ x.dist = man[d].c.dist /\ x.whole
      /\ r.c = x /\ r.m = TimeOr(gen.tv)
  BY <1>2 DEF IInv, Shaped, ManShaped, Record, Content
<1> HIDE DEF d, x
<1>4. Has(man, man', d, r)
  BY <1>1, <1>2, DoneHas DEF IInv, Shaped
<1> QED
  BY <1>1, <1>3, <1>4 DEF d

-----------------------------------------------------------------------------
(* Times.                                                                  *)

InCategory == pc \in {"category", "package", "times"}
Finished == pc \in {"close", "top"}
Generating == pc = "root" \/ InCategory \/ Finished

\* Every time was once the clock's, and none is 0 but of what has none yet.
TimesInv ==
  /\ clock \in Nat \ {0} /\ runs \in Nat
  /\ tree = [f \in Files |-> tree[f]]
  /\ \A f \in Files : tree[f].m \in Nat /\ tree[f].m # 0 /\ tree[f].m <= clock
  /\ Timed(man)
  /\ gen.tv \in Nat /\ gen.subtv \in Nat /\ gen.newtv \in Nat
  /\ gen.began \in Nat /\ before.began \in Nat /\ before.runs \in Nat
  /\ before.began <= clock /\ before.runs <= runs
  /\ Generating => gen.began <= clock /\ before.began <= gen.began /\ before.runs < runs

LEMMA TreeBounded == ASSUME TimesInv PROVE Bounded(tree)
BY DEF TimesInv, Bounded

LEMMA NewestNat ==
  ASSUME TimesInv, NEW S, S \in SUBSET Files
  PROVE  Newest(tree, S) \in Nat
BY TreeBounded, LatestIs DEF Newest

LEMMA GreaterNat ==
  ASSUME NEW a, NEW b, a \in Nat, b \in Nat
  PROVE  /\ Greater(a, b) \in Nat /\ a <= Greater(a, b) /\ b <= Greater(a, b)
         /\ Greater(a, b) = a \/ Greater(a, b) = b
BY GreatestOfTwo DEF Greater

LEMMA TimeOrNat ==
  ASSUME TimesInv, NEW v, v \in Nat
  PROVE  TimeOr(v) \in Nat \ {0}
BY DEF TimesInv, TimeOr

LEMMA HasTimed ==
  ASSUME NEW m0, NEW m1, NEW d, NEW r, Timed(m0), Has(m0, m1, d, r), r.m \in Nat \ {0}
  PROVE  Timed(m1)
BY DEF Timed, Has

LEMMA HasDataTimed ==
  ASSUME NEW m0, NEW m1, NEW d, NEW x, Timed(m0), HasData(m0, m1, d, x)
  PROVE  Timed(m1)
BY DEF Timed, HasData

LEMMA EntersTimed ==
  ASSUME NEW m0, NEW m1, NEW d, NEW k, NEW r, Timed(m0), Enters(m0, m1, d, k, r),
         r.m \in Nat \ {0}
  PROVE  Timed(m1)
BY DEF Timed, Enters

\* A step of a generation.
LEMMA TimesKept ==
  ASSUME TimesInv, UNCHANGED <<tree, before, clock, runs>>, Timed(man'),
         gen'.tv \in Nat, gen'.subtv \in Nat, gen'.newtv \in Nat,
         gen'.began = gen.began, Generating
  PROVE  TimesInv'
BY DEF TimesInv, Timed

LEMMA TimesEnded ==
  ASSUME TimesInv, UNCHANGED <<tree, before, clock, runs>>, Timed(man'), gen' = NoGen,
         pc' = "idle"
  PROVE  TimesInv'
BY DEF TimesInv, Timed, NoGen, Generating, InCategory, Finished

LEMMA InitTimes == Init => TimesInv
<1> SUFFICES ASSUME Init PROVE TimesInv
  OBVIOUS
<1>1. \A f \in Files : tree[f].m = 1
  BY DEF Init
<1>2. \A d \in Dirs : man[d].m = 1
  BY DEF Init
<1>3. /\ clock = 1 /\ runs = 0 /\ gen = NoGen /\ pc = "idle" /\ before.began = 0
      /\ before.runs = 0 /\ tree = [f \in Files |-> tree[f]]
  BY DEF Init
<1> QED
  BY <1>1, <1>2, <1>3 DEF TimesInv, Timed, NoGen, Generating, InCategory, Finished

LEMMA GenerateTimes == ASSUME IInv, TimesInv, Generate PROVE TimesInv'
<1> DEFINE r == [c |-> Nothing, m |-> clock']
<1>1. /\ Has(man, man', <<>>, r) /\ r.m = clock'
      /\ gen'.tv = 0 /\ gen'.subtv = 0 /\ gen'.newtv = 0 /\ gen'.began = clock'
      /\ clock' = clock + 1 /\ runs' = runs + 1 /\ UNCHANGED <<tree, before>>
  BY GenerateEffect
<1> HIDE DEF r
<1>2. Timed(man')
  BY <1>1, HasTimed DEF TimesInv
<1> QED
  BY <1>1, <1>2 DEF TimesInv, Timed

LEMMA RootFileTimes == ASSUME IInv, HashInv, TimesInv, RootFile PROVE TimesInv'
<1>1. PICK f \in Files :
        /\ HasData(man, man', <<>>, man[<<>>].c.data \cup EntriesOf(tree, <<>>, AsIs(tree, f)))
        /\ gen'.tv = Greater(gen.tv, Newest(tree, AsIs(tree, f)))
  BY RootFileEffect
<1>2. gen'.subtv = gen.subtv /\ GenKept(gen, gen') /\ pc = "root"
      /\ UNCHANGED <<tree, before, clock, runs>>
  BY RootFileEffect DEF counts
<1>3. AsIs(tree, f) \in SUBSET Files
  BY DEF AsIs
<1>4. gen'.tv \in Nat
  BY <1>1, <1>3, NewestNat, GreaterNat DEF TimesInv
<1> DEFINE x == man[<<>>].c.data \cup EntriesOf(tree, <<>>, AsIs(tree, f))
           d == <<>>
<1>5. HasData(man, man', d, x)
  BY <1>1
<1> HIDE DEF x, d
<1>6. Timed(man')
  BY <1>5, HasDataTimed DEF TimesInv
<1> QED
  BY <1>2, <1>4, <1>6, TimesKept DEF TimesInv, GenKept, Generating

LEMMA OpenTimes ==
  ASSUME IInv, HashInv, TimesInv, SubtreeOpen \/ CategoryOpen
  PROVE  TimesInv'
<1>1. PICK n : Has(man, man', <<n>>, [c |-> Nothing, m |-> clock])
  BY SubtreeOpenEffect, CategoryOpenEffect
<1>2. /\ gen'.tv = gen.tv /\ (gen'.subtv = gen.subtv \/ gen'.subtv = 0) /\ GenKept(gen, gen')
      /\ pc = "root" /\ UNCHANGED <<tree, before, clock, runs>>
  BY SubtreeOpenEffect, CategoryOpenEffect DEF counts
<1> DEFINE r == [c |-> Nothing, m |-> clock]
           d == <<n>>
<1>3. Has(man, man', d, r) /\ r.m = clock
  BY <1>1
<1> HIDE DEF r, d
<1>4. Timed(man')
  BY <1>3, HasTimed DEF TimesInv
<1> QED
  BY <1>2, <1>4, TimesKept DEF TimesInv, GenKept, Generating

LEMMA SubtreeCloseTimes == ASSUME IInv, HashInv, TimesInv, SubtreeClose PROVE TimesInv'
<1>1. PICK n, r :
        /\ Enters(man, man', <<>>, <<n>>, r)
        /\ r.m = TimeOr(Newest(tree, Here(tree, <<n>>))) /\ gen'.tv = Greater(gen.tv, r.m)
  BY SubtreeCloseEffect
<1>2. gen'.subtv = gen.subtv /\ GenKept(gen, gen') /\ pc = "root"
      /\ UNCHANGED <<tree, before, clock, runs>>
  BY SubtreeCloseEffect DEF counts
<1>3. Here(tree, <<n>>) \in SUBSET Files
  BY DEF Here, Below
<1>4. r.m \in Nat \ {0}
  BY <1>1, <1>3, NewestNat, TimeOrNat
<1>5. gen'.tv \in Nat
  BY <1>1, <1>4, GreaterNat DEF TimesInv
<1> DEFINE d == <<>>
           k == <<n>>
<1>6. Enters(man, man', d, k, r)
  BY <1>1
<1> HIDE DEF d, k
<1>7. Timed(man')
  BY <1>4, <1>6, EntersTimed DEF TimesInv
<1> QED
  BY <1>2, <1>5, <1>7, TimesKept DEF TimesInv, GenKept, Generating

LEMMA CategoryFileTimes == ASSUME IInv, HashInv, TimesInv, CategoryFile PROVE TimesInv'
<1>1. PICK c \in Categories, f \in Files :
        /\ HasData(man, man', <<c>>, man[<<c>>].c.data \cup EntriesOf(tree, <<c>>, AsIs(tree, f)))
        /\ gen'.subtv = Greater(gen.subtv, Newest(tree, AsIs(tree, f)))
  BY CategoryFileEffect
<1>2. gen'.tv = gen.tv /\ GenKept(gen, gen') /\ pc = "category"
      /\ UNCHANGED <<tree, before, clock, runs>>
  BY CategoryFileEffect DEF counts
<1>3. AsIs(tree, f) \in SUBSET Files
  BY DEF AsIs
<1>4. gen'.subtv \in Nat
  BY <1>1, <1>3, NewestNat, GreaterNat DEF TimesInv
<1> DEFINE d == <<c>>
           x == man[d].c.data \cup EntriesOf(tree, d, AsIs(tree, f))
<1>5. HasData(man, man', d, x)
  BY <1>1
<1> HIDE DEF x, d
<1>6. Timed(man')
  BY <1>5, HasDataTimed DEF TimesInv
<1> QED
  BY <1>2, <1>4, <1>6, TimesKept DEF TimesInv, GenKept, Generating, InCategory

LEMMA PackageWriteTimes == ASSUME IInv, HashInv, TimesInv, PackageWrite PROVE TimesInv'
<1>1. PICK p \in Packages : gen'.newtv = Greater(man[p].m, Newest(tree, ListedIn(tree, p)))
  BY PackageWriteEffect
<1>2. /\ gen'.tv = gen.tv /\ gen'.subtv = gen.subtv /\ gen'.began = gen.began /\ pc = "category"
      /\ UNCHANGED <<tree, man, before, clock, runs>>
  BY PackageWriteEffect DEF counts
<1>3. ListedIn(tree, p) \in SUBSET Files /\ p \in Dirs
  BY PackageChild DEF ListedIn, Here, Below
<1>4. gen'.newtv \in Nat
  BY <1>1, <1>3, NewestNat, GreaterNat DEF TimesInv, Timed
<1>5. Timed(man')
  BY <1>2 DEF TimesInv, Timed
<1> QED
  BY <1>2, <1>4, <1>5, TimesKept DEF TimesInv, Generating, InCategory

LEMMA PackageLosesTimes == ASSUME IInv, TimesInv, PackageLoses PROVE TimesInv'
<1>1. Timed(man')
  BY PackageLosesEffect DEF TimesInv, Timed
<1> QED
  BY <1>1, PackageLosesEffect, TimesKept DEF TimesInv, Generating, InCategory

LEMMA PackageRenameTimes == ASSUME IInv, TimesInv, PackageRename PROVE TimesInv'
<1> DEFINE r == [c |-> gen.new, m |-> clock]
<1>1. /\ Has(man, man', gen.dir, r) /\ r.m = clock /\ pc = "package"
      /\ UNCHANGED <<tree, gen, before, clock, runs>>
  BY PackageRenameEffect DEF counts
<1> HIDE DEF r
<1>2. Timed(man')
  BY <1>1, HasTimed DEF TimesInv
<1> QED
  BY <1>1, <1>2, TimesKept DEF TimesInv, Generating, InCategory

LEMMA PackageTimesTimes == ASSUME IInv, HashInv, TimesInv, PackageTimes PROVE TimesInv'
<1>1. PICK r : /\ Enters(man, man', Up(gen.dir), gen.dir, r) /\ r.m = TimeOr(gen.newtv)
               /\ gen'.subtv = Greater(gen.subtv, r.m)
  BY PackageTimesEffect
<1>2. gen'.tv = gen.tv /\ GenKept(gen, gen') /\ pc = "times"
      /\ UNCHANGED <<tree, before, clock, runs>>
  BY PackageTimesEffect DEF counts
<1>3. r.m \in Nat \ {0}
  BY <1>1, TimeOrNat DEF TimesInv
<1>4. gen'.subtv \in Nat
  BY <1>1, <1>3, GreaterNat DEF TimesInv
<1>5. Timed(man')
  BY <1>1, <1>3, EntersTimed DEF TimesInv
<1> QED
  BY <1>2, <1>4, <1>5, TimesKept DEF TimesInv, GenKept, Generating, InCategory

LEMMA PackageFailsTimes == ASSUME IInv, TimesInv, PackageFails PROVE TimesInv'
<1>1. /\ gen'.tv = gen.tv /\ gen'.subtv = gen.subtv /\ gen'.newtv = gen.newtv
      /\ gen'.began = gen.began /\ pc = "package"
      /\ UNCHANGED <<tree, man, clock, runs, before>>
  BY PackageFailsEffect
<1>2. Timed(man')
  BY <1>1 DEF TimesInv, Timed
<1> QED
  BY <1>1, <1>2, TimesKept DEF TimesInv, Generating, InCategory

LEMMA CategoryCloseTimes == ASSUME IInv, HashInv, TimesInv, CategoryClose PROVE TimesInv'
<1>1. PICK c, r :
        /\ c \in Categories
        /\ r.m = TimeOr(CategoryTime)
        /\ \/ /\ Enters(man, man', <<>>, <<c>>, r) /\ gen'.tv = Greater(gen.tv, r.m)
              /\ gen'.subtv = gen.subtv /\ GenKept(gen, gen')
           \/ Has(man, man', <<c>>, r) /\ gen' = NoGen /\ pc' = "idle"
  BY CategoryCloseEffect
<1>2. pc = "category" /\ UNCHANGED <<tree, before, clock, runs>>
  BY CategoryCloseEffect DEF counts
<1>3. r.m \in Nat \ {0}
  <2>1. CategoryTime \in Nat
    BY DEF TimesInv, CategoryTime
  <2> QED
    BY <1>1, <2>1, TimeOrNat
<1> DEFINE d == <<>>
           k == <<c>>
<1>4. CASE /\ Enters(man, man', d, k, r) /\ gen'.tv = Greater(gen.tv, r.m)
           /\ gen'.subtv = gen.subtv /\ GenKept(gen, gen')
  <2> HIDE DEF d, k
  <2>1. gen'.tv \in Nat
    BY <1>3, <1>4, GreaterNat DEF TimesInv
  <2>2. Timed(man')
    BY <1>3, <1>4, EntersTimed DEF TimesInv
  <2> QED
    BY <1>2, <1>4, <2>1, <2>2, TimesKept DEF TimesInv, GenKept, Generating, InCategory
<1>5. CASE Has(man, man', k, r) /\ gen' = NoGen /\ pc' = "idle"
  <2> HIDE DEF d, k
  <2>1. Timed(man')
    BY <1>3, <1>5, HasTimed DEF TimesInv
  <2> QED
    BY <1>2, <1>5, <2>1, TimesEnded
<1> QED
  BY <1>1, <1>4, <1>5

LEMMA RootCloseTimes == ASSUME IInv, TimesInv, RootClose PROVE TimesInv'
<1>1. PICK r : Has(man, man', <<>>, r) /\ r.m = TimeOr(gen.tv)
  BY RootCloseEffect
<1>2. pc = "root" /\ UNCHANGED <<tree, gen, before, clock, runs>>
  BY RootCloseEffect DEF counts
<1>3. r.m \in Nat \ {0}
  BY <1>1, TimeOrNat DEF TimesInv
<1> DEFINE d == <<>>
<1>4. Has(man, man', d, r)
  BY <1>1
<1> HIDE DEF d
<1>5. Timed(man')
  BY <1>3, <1>4, HasTimed DEF TimesInv
<1> QED
  BY <1>2, <1>5, TimesKept DEF TimesInv, Generating

LEMMA TopTimes == ASSUME TimesInv, TopOpen \/ TopWrite PROVE TimesInv'
<1>1. CASE TopOpen
  <2>1. Timed(man') /\ pc = "close" /\ UNCHANGED <<tree, gen, before, clock, runs>>
    BY <1>1 DEF TopOpen, counts, ghosts, TimesInv, Timed
  <2> QED
    BY <2>1, TimesKept DEF TimesInv, Generating, Finished
<1>2. CASE TopWrite
  <2>1. /\ gen' = NoGen /\ pc' = "idle" /\ UNCHANGED <<tree, man, clock, runs>> /\ pc = "top"
    BY <1>2 DEF TopWrite, counts
  <2>2. before' = before \/ (before'.began = gen.began /\ before'.runs = runs)
    BY <1>2 DEF TopWrite
  <2> QED
    BY <2>1, <2>2 DEF TimesInv, Timed, NoGen, Generating, InCategory, Finished
<1> QED
  BY <1>1, <1>2

LEMMA AddDistEffect ==
  ASSUME IInv, NEW p \in Packages, AddDist(p)
  PROVE  /\ \E r : /\ Has(man, man', p, r) /\ r.m = clock + 1
                   /\ r.c.dist = man[p].c.dist \cup {"new"} /\ "new" \notin man[p].c.dist
         /\ clock' = clock + 1 /\ pc = "idle" /\ pc' = "idle"
         /\ UNCHANGED <<tree, top, gen, ver, runs, before>>
<1> DEFINE x == [man[p].c EXCEPT !.dist = @ \cup {"new"}]
           q == [c |-> x, m |-> clock + 1]
<1>1. /\ clock' = clock + 1 /\ pc = "idle" /\ pc' = "idle" /\ "new" \notin man[p].c.dist
      /\ UNCHANGED <<tree, top, gen, ver, runs, before>>
  BY DEF AddDist, ghosts
<1>2. Puts(man, man', p, q)
  BY Zenon DEF AddDist, Puts
<1>3. p \in Dirs
  BY PackagesDeep
<1>4. q.c = x /\ q.m = clock + 1 /\ x.dist = man[p].c.dist \cup {"new"}
  BY <1>3 DEF IInv, Shaped, ManShaped, Record, Content
<1> HIDE DEF q, x
<1>5. Has(man, man', p, q)
  BY <1>2, <1>3, PutAt DEF IInv, Shaped
<1> QED
  BY <1>1, <1>4, <1>5

LEMMA AddDistTimes == ASSUME IInv, TimesInv, NEW p \in Packages, AddDist(p) PROVE TimesInv'
<1>1. PICK r : Has(man, man', p, r) /\ r.m = clock + 1
  BY AddDistEffect
<1>2. clock' = clock + 1 /\ pc' = "idle" /\ UNCHANGED <<tree, gen, runs, before>>
  BY AddDistEffect
<1>3. Timed(man')
  BY <1>1, HasTimed DEF TimesInv
<1> QED
  BY <1>2, <1>3 DEF TimesInv, Timed, Generating, InCategory, Finished

LEMMA EditEffect ==
  ASSUME TimesInv, NEW f \in Files, Edit(f)
  PROVE  /\ tree'[f].m = clock + 1 /\ \A g \in Files : g # f => tree'[g] = tree[g]
         /\ tree' = [g \in Files |-> tree'[g]] /\ clock' = clock + 1
         /\ pc \notin {"verify", "verified"}
         /\ UNCHANGED <<man, top, pc, gen, ver, runs, before>>
<1>1. PICK c : tree' = [tree EXCEPT ![f] = [c |-> c, m |-> clock + 1]]
  BY DEF Edit
<1>2. clock' = clock + 1 /\ pc \notin {"verify", "verified"}
      /\ UNCHANGED <<man, top, pc, gen, ver, runs, before>>
  BY DEF Edit, ghosts
<1>3. tree = [g \in Files |-> tree[g]]
  BY DEF TimesInv
<1>4. tree'[f].m = clock + 1 /\ \A g \in Files : g # f => tree'[g] = tree[g]
  BY <1>1, <1>3
<1>5. tree' = [g \in Files |-> tree'[g]]
  BY <1>1, <1>3
<1> QED
  BY <1>2, <1>4, <1>5

LEMMA EditTimes == ASSUME TimesInv, NEW f \in Files, Edit(f) PROVE TimesInv'
<1>1. /\ tree'[f].m = clock + 1 /\ \A g \in Files : g # f => tree'[g] = tree[g]
      /\ tree' = [g \in Files |-> tree'[g]] /\ clock' = clock + 1
      /\ UNCHANGED <<man, top, pc, gen, ver, runs, before>>
  BY EditEffect
<1>2. \A g \in Files : tree'[g].m \in Nat /\ tree'[g].m # 0 /\ tree'[g].m <= clock'
  BY <1>1 DEF TimesInv
<1>3. Timed(man')
  BY <1>1 DEF TimesInv, Timed
<1> QED
  BY <1>1, <1>2, <1>3 DEF TimesInv, Generating, InCategory, Finished

LEMMA TimesStep == ASSUME VInv, TimesInv, [Next]_vars PROVE TimesInv'
<1>0. IInv /\ HashInv
  BY DEF VInv
<1>1. CASE Generator
  BY <1>0, <1>1, GenerateTimes, RootFileTimes, OpenTimes, SubtreeCloseTimes, CategoryFileTimes,
     PackageWriteTimes, PackageLosesTimes, PackageRenameTimes, PackageTimesTimes,
     PackageFailsTimes, CategoryCloseTimes, RootCloseTimes, TopTimes DEF Generator
<1>2. CASE UNCHANGED <<tree, man, gen, counts, before>> /\ pc' \in {pc, "verify", "verified"}
  BY <1>2 DEF TimesInv, Timed, Generating, InCategory, Finished, counts
<1>3. CASE Verifier
  <2>1. UNCHANGED <<tree, man, gen, counts, before>> /\ pc' \in {pc, "verify", "verified"}
    BY <1>3 DEF Verifier, VerifyRoot, VerifyEnd, Take, Link, Advance, Load, Store, ghosts
  <2> QED
    BY <1>2, <2>1
<1>4. CASE Kill
  <2>1. Timed(man') /\ gen' = NoGen /\ pc' = "idle" /\ UNCHANGED <<tree, before, clock, runs>>
    BY <1>4 DEF Kill, ghosts, TimesInv, Timed
  <2> QED
    BY <2>1, TimesEnded
<1>5. CASE UNCHANGED vars
  BY <1>2, <1>5 DEF vars, counts
<1> QED
  BY <1>0, <1>1, <1>3, <1>4, <1>5, EditTimes, AddDistTimes DEF Next

-----------------------------------------------------------------------------
(* A generation: what it has made is of the tree as it is.                 *)

Failed == InCategory /\ gen.dir[1] \notin gen.todo
Steady == Generating /\ ~Failed
Cat == <<gen.dir[1]>>
\* The names of the category that are still to do.
Left == IF pc = "category" THEN gen.sub ELSE gen.sub \cup {gen.dir[2]}
Redone(d) == d[1] \notin gen.todo \/ (InCategory /\ d \in DirsAt(Cat, Left))

\* A time is cut off where a package failed.
CutInv == Steady => gen.cut = 0

\* No lines of a package were lost.
GenInv ==
  Steady /\ gen.short = {} =>
    /\ Finished => gen.todo = {}
    /\ \A d \in Dirs : d # <<>> /\ Redone(d) /\ Still(tree, d, gen.began) => Ok(tree, man, d)
    /\ Still(tree, <<>>, gen.began) =>
         IF Finished THEN Ok(tree, man, <<>>) ELSE Partly(tree, man, <<>>, gen.todo, gen.tv)
    /\ InCategory /\ Still(tree, Cat, gen.began) => Partly(tree, man, Cat, Left, gen.subtv)
    /\ pc \in {"package", "times"} /\ Still(tree, gen.dir, gen.began) =>
         PackageOk(tree, gen.dir, gen.new, gen.newtv)

\* And what the last one that finished made was of the tree as it was.
PastInv ==
  before.runs > 0 =>
    /\ ManShaped(before.man) /\ Made(tree, before.man, before.began)
    /\ before.runs = runs => top = before.man[<<>>].c

\* A directory of the root, or a package.
LEMMA DirCases ==
  ASSUME NEW d, d \in Dirs, d # <<>>
  PROVE  \/ /\ d \in Packages /\ Up(d) = <<d[1]>> /\ d[1] \in Categories /\ d \notin MetaDirs
            /\ d \notin SubtreeDirs /\ Up(d) # <<>>
         \/ /\ d[1] \in RootDirs /\ d = <<d[1]>> /\ Up(d) = <<>> /\ Name(d) = d[1]
            /\ d \notin Packages
<1>1. CASE d \in Packages
  <2>1. d \notin MetaDirs /\ d \notin SubtreeDirs
    BY <1>1, KindOfDir
  <2>2. <<d[1]>> # <<>>
    OBVIOUS
  <2> QED
    BY <1>1, <2>1, <2>2, PackageChild
<1>2. ASSUME NEW n \in RootDirs, d = <<n>>
      PROVE  d[1] \in RootDirs /\ d = <<d[1]>> /\ Up(d) = <<>> /\ Name(d) = d[1] /\ d \notin Packages
  <2>1. d[1] = n
    BY <1>2
  <2> QED
    BY <1>2, <2>1, RootChild
<1> QED
  BY <1>1, <1>2, DirFacts

LEMMA DirOfRoot ==
  ASSUME NEW d, d \in Dirs, d # <<>>
  PROVE  d[1] \in RootDirs
BY DirCases DEF Categories

LEMMA OkKept ==
  ASSUME NEW tr, NEW m0, NEW m1, NEW d, d \in Dirs, d # <<>>, Ok(tr, m0, d), m1[d] = m0[d],
         \A p \in Packages : Up(p) = d => m1[p] = m0[p]
  PROVE  Ok(tr, m1, d)
<1>1. CASE d \in MetaDirs
  <2>1. MetaOk(tr, m0, d) /\ d \notin SubtreeDirs /\ d \notin Packages
    BY <1>1, KindOfDir DEF Ok
  <2>2. \A k \in DirsAt(d, {}) : k \in Packages /\ Up(k) = d
    BY DirCases DEF DirsAt
  <2>3. \A v : Partly(tr, m0, d, {}, v) => Partly(tr, m1, d, {}, v)
    BY <2>2, PartlyKept
  <2> QED
    BY <2>1, <2>3 DEF Ok, MetaOk
<1>2. CASE d \notin MetaDirs
  BY <1>2 DEF Ok, SubtreeOk
<1> QED
  BY <1>1, <1>2

\* A directory that was redone stays as it is.
LEMMA RedoneKept ==
  ASSUME GenInv, gen.short = {}, Steady, tree' = tree, gen'.began = gen.began, NEW d, d \in Dirs, d # <<>>,
         Redone(d), man'[d] = man[d], \A p \in Packages : Up(p) = d => man'[p] = man[p],
         Still(tree', d, gen'.began)
  PROVE  Ok(tree', man', d)
<1>1. Ok(tree, man, d)
  BY DEF GenInv
<1>2. Ok(tree, man', d)
  BY <1>1, OkKept
<1> QED
  BY <1>2

\* What is listed to be done is all there is.
LEMMA AllListed ==
  ASSUME NEW d, d = <<>> \/ \E c \in RootDirs : d = <<c>>
  PROVE  FilesAt(tree, d, ListDir(d)) = {} /\ DirsAt(d, ListDir(d)) = {}
<1>1. d \in Paths /\ Len(d) \in Nat
  BY EmptyPath, RootName
<1>2. ASSUME NEW f \in Files, Up(f) = d, tree[f].c # Absent PROVE Name(f) \in ListDir(d)
  <2>1. f \in FilesAt(tree, d, {})
    BY <1>2 DEF FilesAt
  <2>2. f \in Below(d) /\ f \in Paths /\ f = d \o <<Name(f)>>
    BY <1>1, <2>1, FileAt
  <2>3. Len(f) = Len(d) + 1
    BY <1>1, <2>2, NameIn
  <2>4. f[Len(d) + 1] = Name(f)
    BY <2>3 DEF Name
  <2> QED
    BY <1>2, <2>2, <2>4 DEF ListDir, Exists
<1>3. ASSUME NEW k \in Dirs, k # <<>>, Up(k) = d PROVE Name(k) \in ListDir(d)
  <2>1. CASE k \in Packages
    <3>1. d = <<k[1]>> /\ Name(k) = k[2] /\ k[1] \in RootDirs
      BY <1>3, <2>1, PackageChild
    <3>2. PICK h \in Files : Len(h) > 2 /\ k = SubSeq(h, 1, 2)
      BY <2>1 DEF Packages
    <3>3. h \in Paths /\ Len(h) \in Nat /\ 2 \in 0 .. Len(h) /\ 1 \in 1 .. 2 /\ 2 \in 1 .. 2
      BY <3>2, FileFacts
    <3>4. k[1] = h[1] /\ k[2] = h[2]
      BY <3>2, <3>3, StartFacts
    <3>5. Prefix(<<k[1]>>, h) /\ Len(<<k[1]>>) = 1
      BY <3>1, <3>2, <3>3, <3>4, FileBelow
    <3>6. Len(d) = 1 /\ Len(h) > Len(d) + 1 /\ h \in Below(d) /\ h[Len(d) + 1] = Name(k)
      BY <3>1, <3>2, <3>3, <3>4, <3>5 DEF Below
    <3> QED
      BY <3>6 DEF ListDir
  <2>2. CASE k \notin Packages
    <3>1. k[1] \in RootDirs /\ Name(k) = k[1] /\ d = <<>>
      BY <1>3, <2>2, DirCases
    <3>2. PICK f \in Files : Len(f) > 1 /\ f[1] = k[1]
      BY <3>1 DEF RootDirs
    <3>3. Len(d) = 0 /\ Len(f) > Len(d) + 1 /\ f \in Below(d) /\ f[Len(d) + 1] = Name(k)
      BY <3>1, <3>2, EmptyPath, RootPrefix DEF Below
    <3> QED
      BY <3>3 DEF ListDir
  <2> QED
    BY <2>1, <2>2
<1>4. FilesAt(tree, d, ListDir(d)) = {}
  BY <1>2 DEF FilesAt
<1>5. DirsAt(d, ListDir(d)) = {}
  BY <1>3 DEF DirsAt
<1> QED
  BY <1>4, <1>5

\* The category that is worked on.
LEMMA CatFacts ==
  ASSUME IInv, HashInv, InCategory
  PROVE  /\ gen.dir[1] \in Categories /\ gen.dir[1] \in RootDirs
         /\ Cat \in Dirs /\ Cat # <<>> /\ Cat[1] = gen.dir[1] /\ Cat \notin Packages
         /\ Cat \in MetaDirs /\ Up(Cat) = <<>> /\ Name(Cat) = gen.dir[1]
         /\ pc = "category" => gen.dir = Cat
         /\ pc \in {"package", "times"} =>
              /\ gen.dir \in Packages /\ gen.dir \in Dirs /\ gen.dir # <<>> /\ Up(gen.dir) = Cat
              /\ Name(gen.dir) = gen.dir[2] /\ gen.dir[2] \notin gen.sub /\ Up(gen.dir) # <<>>
<1>1. CASE pc = "category"
  <2>1. PICK c \in Categories : gen.dir = <<c>> /\ gen.dir[1] = c
    BY <1>1, CategoryAt
  <2>2. c \in RootDirs
    BY DEF Categories
  <2> QED
    BY <1>1, <2>1, <2>2, RootChild DEF Cat, MetaDirs
<1>2. CASE pc \in {"package", "times"}
  <2>1. gen.dir \in Packages /\ gen.dir[2] \notin gen.sub
    BY <1>2 DEF IInv, Placed, HashInv
  <2>2. gen.dir[1] \in Categories /\ gen.dir[1] \in RootDirs /\ Up(gen.dir) = <<gen.dir[1]>>
        /\ Name(gen.dir) = gen.dir[2] /\ gen.dir \in Dirs /\ gen.dir # <<>>
    BY <2>1, PackageChild
  <2> QED
    BY <1>2, <2>1, <2>2, RootChild DEF Cat, MetaDirs
<1> QED
  BY <1>1, <1>2 DEF InCategory

GInv == VInv /\ TimesInv /\ CutInv /\ GenInv

LEMMA GenerateMade == ASSUME GInv, Generate PROVE GenInv'
<1> USE DEF GInv, VInv
<1> DEFINE r == [c |-> Nothing, m |-> clock']
           b == <<>>
<1>1. /\ Has(man, man', b, r) /\ r.c = Nothing
      /\ gen'.todo = ListDir(b) /\ gen'.tv = 0 /\ pc' = "root" /\ tree' = tree
  BY GenerateEffect
<1>2. FilesAt(tree, b, ListDir(b)) = {} /\ DirsAt(b, ListDir(b)) = {}
  BY AllListed
<1>3. \A d \in Dirs : d # <<>> => d[1] \in ListDir(b)
  <2> SUFFICES ASSUME NEW d \in Dirs, d # <<>> PROVE d[1] \in ListDir(b)
    OBVIOUS
  <2> DEFINE k == <<d[1]>>
  <2>1. k \in Dirs /\ k # <<>> /\ Up(k) = <<>> /\ Name(k) = d[1]
    BY DirOfRoot, RootChild
  <2> HIDE DEF k
  <2> QED
    BY <1>2, <2>1 DEF DirsAt
<1> HIDE DEF r, b
<1>4. Partly(tree', man', b, gen'.todo, gen'.tv)
  <2>1. man'[b].c = Nothing
    BY <1>1 DEF Has
  <2> QED
    BY <1>1, <1>2, <2>1, PartlyEmpty
<1>5. ~InCategory' /\ ~Finished'
  BY <1>1 DEF InCategory, Finished
<1>6. \A d \in Dirs : d # <<>> => ~Redone(d)'
  BY <1>1, <1>3, <1>5 DEF Redone
<1> QED
  BY <1>1, <1>4, <1>5, <1>6 DEF GenInv, b

\* At the root.
LEMMA AtRoot ==
  ASSUME pc = "root"
  PROVE  /\ Steady /\ ~InCategory /\ ~Finished
         /\ \A d : Redone(d) <=> d[1] \notin gen.todo
BY DEF Steady, Generating, Failed, InCategory, Finished, Redone

LEMMA ToRoot ==
  ASSUME pc' = "root",
         \A d \in Dirs : d # <<>> /\ d[1] \notin gen'.todo /\ Still(tree', d, gen'.began) =>
                           Ok(tree', man', d),
         Still(tree', <<>>, gen'.began) => Partly(tree', man', <<>>, gen'.todo, gen'.tv)
  PROVE  GenInv'
BY DEF GenInv, Redone, InCategory, Finished

LEMMA RootFileMade == ASSUME GInv, gen.short = {}, RootFile PROVE GenInv'
<1> USE DEF GInv, VInv
<1> DEFINE b == <<>>
<1>1. PICK f \in Files :
        /\ Up(f) = b /\ Name(f) \in gen.todo /\ Name(f) \notin RootDirs
        /\ HasData(man, man', b, man[b].c.data \cup EntriesOf(tree, b, AsIs(tree, f)))
        /\ gen'.todo = But(gen.todo, Name(f))
        /\ gen'.tv = Greater(gen.tv, Newest(tree, AsIs(tree, f)))
  BY RootFileEffect
<1>2. pc = "root" /\ pc' = "root" /\ gen'.began = gen.began /\ tree' = tree
  BY RootFileEffect DEF GenKept
<1>3. b \in Dirs /\ \A p \in Packages : p # b
  BY RootDir, ShallowDirs
<1> HIDE DEF b
<1>4. ASSUME NEW d \in Dirs, d # b, d[1] \notin gen'.todo, Still(tree', d, gen'.began)
      PROVE  Ok(tree', man', d)
  <2>1. d[1] \notin gen.todo
    BY <1>1, <1>4, DirOfRoot DEF But, b
  <2>2. Redone(d) /\ Steady
    BY <1>2, <2>1, AtRoot
  <2>3. man'[d] = man[d] /\ \A p \in Packages : man'[p] = man[p]
    BY <1>1, <1>3, <1>4, PackagesDeep DEF HasData
  <2> QED
    BY <1>2, <1>4, <2>2, <2>3, RedoneKept DEF b
<1>5. ASSUME Still(tree', b, gen'.began) PROVE Partly(tree', man', b, gen'.todo, gen'.tv)
  <2>1. Partly(tree, man, b, gen.todo, gen.tv)
    BY <1>2, <1>5, AtRoot DEF GenInv, b
  <2>2. /\ man'[b].c.data = man[b].c.data \cup EntriesOf(tree, b, AsIs(tree, f))
        /\ man'[b].c.subs = man[b].c.subs /\ man'[b].c.dist = man[b].c.dist
    BY <1>1 DEF HasData
  <2>3. \A k \in DirsAt(b, gen.todo) : man'[k] = man[k]
    BY <1>1 DEF HasData, DirsAt, b
  <2>4. Bounded(tree) /\ Timed(man)
    BY TreeBounded DEF TimesInv
  <2>5. Partly(tree, man', b, But(gen.todo, Name(f)), Greater(gen.tv, Newest(tree, AsIs(tree, f))))
    BY <1>1, <2>1, <2>2, <2>3, <2>4, AddedFile
  <2> QED
    BY <1>1, <1>2, <2>5
<1> QED
  BY <1>2, <1>4, <1>5, ToRoot DEF b

\* A directory is opened.
LEMMA OpenedKept ==
  ASSUME GInv, gen.short = {}, NEW k, NEW r, Has(man, man', k, r), pc = "root", tree' = tree,
         gen'.began = gen.began, gen'.todo = gen.todo, gen'.tv = gen.tv,
         k \in Dirs, k # <<>>, Up(k) = <<>>, Name(k) = k[1], k[1] \in gen.todo, k \notin Packages
  PROVE  /\ \A d \in Dirs : d # <<>> /\ d[1] \notin gen.todo /\ Still(tree', d, gen'.began) =>
                              Ok(tree', man', d)
         /\ Still(tree', <<>>, gen'.began) => Partly(tree', man', <<>>, gen.todo, gen'.tv)
<1> USE DEF GInv, VInv
<1> DEFINE b == <<>>
<1>1. ASSUME NEW d \in Dirs, d # <<>>, d[1] \notin gen.todo, Still(tree', d, gen'.began)
      PROVE  Ok(tree', man', d)
  <2>1. Redone(d) /\ Steady
    BY <1>1, AtRoot
  <2>2. man'[d] = man[d] /\ \A p \in Packages : man'[p] = man[p]
    BY <1>1, PackagesDeep DEF Has
  <2> QED
    BY <1>1, <2>1, <2>2, RedoneKept
<1>2. b \in Dirs /\ k # b
  BY RootDir
<1> HIDE DEF b
<1>3. ASSUME Still(tree', b, gen'.began) PROVE Partly(tree', man', b, gen.todo, gen'.tv)
  <2>1. Partly(tree, man, b, gen.todo, gen.tv)
    BY <1>3, AtRoot DEF GenInv, b
  <2>2. man'[b] = man[b] /\ \A a \in DirsAt(b, gen.todo) : man'[a] = man[a]
    BY <1>2 DEF Has, DirsAt
  <2>3. Partly(tree, man', b, gen.todo, gen.tv)
    BY <2>1, <2>2, PartlyKept
  <2> QED
    BY <2>3
<1> QED
  BY <1>1, <1>3 DEF b

LEMMA SubtreeOpenMade == ASSUME GInv, gen.short = {}, SubtreeOpen PROVE GenInv'
<1> USE DEF GInv, VInv
<1>1. PICK n \in gen.todo \cap Subtrees : Has(man, man', <<n>>, [c |-> Nothing, m |-> clock])
  BY SubtreeOpenEffect
<1>2. /\ pc = "root" /\ pc' = "root" /\ gen'.began = gen.began /\ tree' = tree
      /\ gen'.todo = gen.todo /\ gen'.tv = gen.tv
  BY SubtreeOpenEffect DEF GenKept
<1> DEFINE k == <<n>>
           r == [c |-> Nothing, m |-> clock]
<1>3. Has(man, man', k, r)
  BY <1>1
<1>4. /\ k \in Dirs /\ k # <<>> /\ Up(k) = <<>> /\ Name(k) = k[1] /\ k[1] \in gen.todo
      /\ k \notin Packages
  BY RootChild, TreeAssumption
<1> HIDE DEF k, r
<1>5. /\ \A d \in Dirs : d # <<>> /\ d[1] \notin gen.todo /\ Still(tree', d, gen'.began) =>
                           Ok(tree', man', d)
      /\ Still(tree', <<>>, gen'.began) => Partly(tree', man', <<>>, gen.todo, gen'.tv)
  BY <1>2, <1>3, <1>4, OpenedKept
<1> QED
  BY <1>2, <1>5, ToRoot

LEMMA CategoryOpenMade == ASSUME GInv, gen.short = {}, CategoryOpen PROVE GenInv'
<1> USE DEF GInv, VInv
<1>1. PICK n \in gen.todo \cap Categories :
        /\ Has(man, man', <<n>>, [c |-> Nothing, m |-> clock])
        /\ gen'.dir = <<n>> /\ gen'.sub = ListDir(<<n>>)
  BY CategoryOpenEffect
<1>2. /\ pc = "root" /\ pc' = "category" /\ gen'.began = gen.began /\ tree' = tree
      /\ gen'.todo = gen.todo /\ gen'.tv = gen.tv /\ gen'.subtv = 0
  BY CategoryOpenEffect DEF GenKept
<1> DEFINE k == <<n>>
           r == [c |-> Nothing, m |-> clock]
<1>3. Has(man, man', k, r) /\ r.c = Nothing /\ gen'.dir = k /\ gen'.sub = ListDir(k)
  BY <1>1
<1>4. /\ k \in Dirs /\ k # <<>> /\ Up(k) = <<>> /\ Name(k) = k[1] /\ k[1] \in gen.todo
      /\ k \notin Packages /\ k = <<k[1]>>
  BY RootChild DEF Categories
<1>5. FilesAt(tree, k, ListDir(k)) = {} /\ DirsAt(k, ListDir(k)) = {}
  BY AllListed DEF Categories
<1> HIDE DEF k, r
<1>6. /\ \A d \in Dirs : d # <<>> /\ d[1] \notin gen.todo /\ Still(tree', d, gen'.began) =>
                           Ok(tree', man', d)
      /\ Still(tree', <<>>, gen'.began) => Partly(tree', man', <<>>, gen.todo, gen'.tv)
  BY <1>2, <1>3, <1>4, OpenedKept
<1>7. Cat' = k /\ Left' = ListDir(k) /\ ~Finished' /\ InCategory'
  BY <1>2, <1>3, <1>4 DEF Cat, Left, Finished, InCategory
<1>8. Partly(tree', man', Cat', Left', gen'.subtv)
  <2>1. man'[k].c = Nothing
    BY <1>3 DEF Has
  <2> QED
    BY <1>2, <1>5, <1>7, <2>1, PartlyEmpty
<1>9. \A d : Redone(d)' <=> d[1] \notin gen.todo
  BY <1>2, <1>5, <1>7 DEF Redone
<1> QED
  BY <1>2, <1>6, <1>7, <1>8, <1>9 DEF GenInv

\* The Manifest of a subtree.
LEMMA SubtreeMade ==
  ASSUME TimesInv, NEW mn, NEW k, k \in SubtreeDirs,
         mn[k].c.data = EntriesOf(tree, k, Here(tree, k)), mn[k].c.subs = {}, mn[k].c.dist = {},
         mn[k].c.whole, mn[k].m = TimeOr(Newest(tree, Here(tree, k)))
  PROVE  Ok(tree, mn, k)
<1> DEFINE S == Here(tree, k)
           v == Newest(tree, S)
<1>1. S \in SUBSET Files
  BY DEF Here, Below
<1>2. v \in Nat /\ IsGreatest(v, {0} \cup TimesOf(tree, S))
  BY <1>1, TreeBounded, LatestIs DEF Newest
<1>3. \A y \in TimesOf(tree, S) : y \in Nat /\ y # 0
  BY <1>1 DEF TimesOf, TimesInv
<1>4. mn[k].m = IF v # 0 THEN v ELSE clock
  BY DEF TimeOr
<1> HIDE DEF S, v
<1>5. ASSUME S # {} PROVE IsGreatest(mn[k].m, TimesOf(tree, S))
  <2>1. PICK y : y \in TimesOf(tree, S)
    BY <1>5 DEF TimesOf
  <2>2. v # 0
    BY <1>2, <1>3, <2>1 DEF IsGreatest
  <2>3. v \in TimesOf(tree, S) /\ \A z \in TimesOf(tree, S) : z <= v
    BY <1>2, <2>2 DEF IsGreatest
  <2> QED
    BY <1>4, <2>2, <2>3 DEF IsGreatest
<1>6. SubtreeOk(tree, mn, k)
  BY <1>5 DEF SubtreeOk, S
<1> QED
  BY <1>6, KindOfDir DEF Ok

\* The Manifest of a directory of the root is in place, and entered.
LEMMA EnteredKept ==
  ASSUME GInv, gen.short = {}, NEW k, NEW r, Enters(man, man', <<>>, k, r), Timed(man'), Steady, ~Finished,
         tree' = tree, gen'.began = gen.began, gen'.todo = But(gen.todo, k[1]),
         gen'.tv = Greater(gen.tv, r.m),
         k \in Dirs, k # <<>>, Up(k) = <<>>, Name(k) = k[1], k[1] \in gen.todo, k \notin Packages
  PROVE  /\ \A d \in Dirs : d # <<>> /\ d # k /\ Redone(d) /\ Still(tree', d, gen'.began) =>
                              Ok(tree', man', d)
         /\ Still(tree', <<>>, gen'.began) => Partly(tree', man', <<>>, gen'.todo, gen'.tv)
<1> USE DEF GInv, VInv
<1> DEFINE b == <<>>
<1>0. b \in Dirs /\ k # b /\ \A p \in Packages : p # b /\ p # k /\ p \in Dirs
  BY RootDir, ShallowDirs, PackagesDeep
<1>1. ASSUME NEW d \in Dirs, d # b, d # k, Redone(d), Still(tree', d, gen'.began)
      PROVE  Ok(tree', man', d)
  <2>1. man'[d] = man[d] /\ \A p \in Packages : man'[p] = man[p]
    BY <1>0, <1>1 DEF Enters
  <2> QED
    BY <1>1, <2>1, RedoneKept
<1> HIDE DEF b
<1>2. ASSUME Still(tree', b, gen'.began) PROVE Partly(tree', man', b, gen'.todo, gen'.tv)
  <2>1. Partly(tree, man, b, gen.todo, gen.tv)
    BY <1>2 DEF GenInv, b
  <2>2. /\ man'[k] = r /\ man'[b].c.data = man[b].c.data /\ man'[b].c.dist = man[b].c.dist
        /\ man'[b].c.subs = man[b].c.subs \cup {<<<<Name(k)>>, man'[k].c>>}
    BY DEF Enters, b
  <2>3. \A a \in DirsAt(b, gen.todo) : man'[a] = man[a]
    BY DEF Enters, DirsAt, b
  <2>4. Bounded(tree) /\ Timed(man) /\ Up(k) = b /\ k # <<>> /\ Name(k) \in gen.todo
    BY TreeBounded DEF TimesInv, b
  <2>5. Partly(tree, man', b, But(gen.todo, Name(k)), Greater(gen.tv, man'[k].m))
    BY <2>1, <2>2, <2>3, <2>4, AddedDir
  <2> QED
    BY <2>2, <2>5
<1> QED
  BY <1>1, <1>2 DEF b

LEMMA SubtreeCloseMade == ASSUME GInv, gen.short = {}, SubtreeClose PROVE GenInv'
<1> USE DEF GInv, VInv
<1>1. PICK n, r :
        /\ n \in gen.todo \cap Subtrees
        /\ Enters(man, man', <<>>, <<n>>, r)
        /\ r.c.data = EntriesOf(tree, <<n>>, Here(tree, <<n>>)) /\ r.c.subs = {}
        /\ r.c.dist = {} /\ r.c.whole /\ r.m = TimeOr(Newest(tree, Here(tree, <<n>>)))
        /\ gen'.todo = But(gen.todo, n) /\ gen'.tv = Greater(gen.tv, r.m)
  BY SubtreeCloseEffect
<1>2. pc = "root" /\ pc' = "root" /\ gen'.began = gen.began /\ tree' = tree
  BY SubtreeCloseEffect DEF GenKept
<1> DEFINE k == <<n>>
<1>3. /\ Enters(man, man', <<>>, k, r) /\ r.c.data = EntriesOf(tree, k, Here(tree, k))
      /\ r.c.subs = {} /\ r.c.dist = {} /\ r.c.whole /\ r.m = TimeOr(Newest(tree, Here(tree, k)))
      /\ gen'.todo = But(gen.todo, k[1]) /\ gen'.tv = Greater(gen.tv, r.m)
  BY <1>1
<1>4. /\ k \in Dirs /\ k # <<>> /\ Up(k) = <<>> /\ Name(k) = k[1] /\ k[1] \in gen.todo
      /\ k \notin Packages /\ k[1] \in Subtrees /\ k \in SubtreeDirs
  BY <1>1, RootChild, TreeAssumption DEF SubtreeDirs
<1> HIDE DEF k
<1>5. Timed(man')
  <2>1. TimesInv'
    BY SubtreeCloseTimes
  <2> QED
    BY <2>1 DEF TimesInv
<1>6. /\ \A d \in Dirs : d # <<>> /\ d # k /\ Redone(d) /\ Still(tree', d, gen'.began) =>
                           Ok(tree', man', d)
      /\ Still(tree', <<>>, gen'.began) => Partly(tree', man', <<>>, gen'.todo, gen'.tv)
  BY <1>2, <1>3, <1>4, <1>5, AtRoot, EnteredKept
<1>7. Ok(tree', man', k)
  <2>1. man'[k] = r
    BY <1>3 DEF Enters
  <2> QED
    BY <1>2, <1>3, <1>4, <2>1, SubtreeMade
<1>8. ASSUME NEW d \in Dirs, d # <<>>, d[1] \notin gen'.todo, Still(tree', d, gen'.began)
      PROVE  Ok(tree', man', d)
  <2>1. CASE d = k
    BY <1>7, <2>1
  <2>2. CASE d # k
    <3>1. d[1] # k[1]
      BY <1>4, <1>8, <2>2, DirCases, RootChild DEF Categories, k
    <3>2. d[1] \notin gen.todo
      BY <1>3, <1>8, <3>1 DEF But
    <3> QED
      BY <1>2, <1>6, <1>8, <2>2, <3>2, AtRoot
  <2> QED
    BY <2>1, <2>2
<1> QED
  BY <1>2, <1>6, <1>8, ToRoot

\* Within a category.
LEMMA AtCat ==
  ASSUME InCategory
  PROVE  /\ ~Finished /\ pc # "root" /\ Generating
         /\ Steady <=> gen.dir[1] \in gen.todo
BY DEF Steady, Generating, Failed, InCategory, Finished

LEMMA ToCat ==
  ASSUME InCategory',
         Steady' =>
           /\ \A d \in Dirs : d # <<>> /\ Redone(d)' /\ Still(tree', d, gen'.began) =>
                                Ok(tree', man', d)
           /\ Still(tree', <<>>, gen'.began) => Partly(tree', man', <<>>, gen'.todo, gen'.tv)
           /\ Still(tree', Cat', gen'.began) => Partly(tree', man', Cat', Left', gen'.subtv)
           /\ pc' \in {"package", "times"} /\ Still(tree', gen'.dir, gen'.began) =>
                PackageOk(tree', gen'.dir, gen'.new, gen'.newtv)
  PROVE  GenInv'
BY DEF GenInv, InCategory, Finished

\* What the root's Manifest is of is not touched.
LEMMA RootAside ==
  ASSUME GInv, gen.short = {}, Steady, InCategory, tree' = tree, gen'.began = gen.began, gen'.todo = gen.todo,
         gen'.tv = gen.tv, man'[<<>>] = man[<<>>],
         \A k \in Dirs : k # Cat /\ k \notin Packages => man'[k] = man[k]
  PROVE  Still(tree', <<>>, gen'.began) => Partly(tree', man', <<>>, gen'.todo, gen'.tv)
<1> USE DEF GInv, VInv
<1> DEFINE b == <<>>
<1> SUFFICES ASSUME Still(tree', b, gen'.began) PROVE Partly(tree', man', b, gen'.todo, gen'.tv)
  OBVIOUS
<1>1. Partly(tree, man, b, gen.todo, gen.tv)
  BY AtCat DEF GenInv
<1>2. man'[b] = man[b]
  OBVIOUS
<1>3. ASSUME NEW k \in DirsAt(b, gen.todo) PROVE man'[k] = man[k]
  <2>1. k \in Dirs /\ k # <<>> /\ Up(k) = <<>> /\ Name(k) \notin gen.todo
    BY DEF DirsAt
  <2>2. k \notin Packages /\ k # Cat
    BY <2>1, DirCases, CatFacts, AtCat
  <2> QED
    BY <2>1, <2>2
<1> HIDE DEF b
<1>4. Partly(tree, man', b, gen.todo, gen.tv)
  BY <1>1, <1>2, <1>3, PartlyKept
<1> QED
  BY <1>4

LEMMA CategoryFileMade == ASSUME GInv, gen.short = {}, CategoryFile PROVE GenInv'
<1> USE DEF GInv, VInv
<1> DEFINE b == <<>>
<1>1. PICK c \in Categories, f \in Files :
        /\ gen.dir = <<c>> /\ Up(f) = <<c>> /\ Name(f) \in gen.sub
        /\ HasData(man, man', <<c>>, man[<<c>>].c.data \cup EntriesOf(tree, <<c>>, AsIs(tree, f)))
        /\ gen'.sub = But(gen.sub, Name(f))
        /\ gen'.subtv = Greater(gen.subtv, Newest(tree, AsIs(tree, f)))
  BY CategoryFileEffect
<1>2. /\ pc = "category" /\ pc' = "category" /\ gen'.began = gen.began /\ tree' = tree
      /\ gen'.dir = gen.dir /\ gen'.todo = gen.todo /\ gen'.tv = gen.tv
  BY CategoryFileEffect DEF GenKept
<1>3. InCategory /\ InCategory' /\ Left = gen.sub /\ Left' = But(gen.sub, Name(f)) /\ Cat' = Cat
  BY <1>1, <1>2 DEF InCategory, Left, Cat
<1>4. gen.dir = Cat /\ Cat \in Dirs /\ Cat # <<>> /\ Cat \notin Packages /\ Up(Cat) = <<>>
      /\ Cat[1] = gen.dir[1] /\ Name(Cat) = gen.dir[1]
  BY <1>2, <1>3, CatFacts
<1>5. /\ Up(f) = Cat /\ Name(f) \in Left
      /\ HasData(man, man', Cat, man[Cat].c.data \cup EntriesOf(tree, Cat, AsIs(tree, f)))
  BY <1>1, <1>3, <1>4
<1>6. SUFFICES ASSUME Steady
               PROVE  /\ \A d \in Dirs : d # <<>> /\ Redone(d)' /\ Still(tree', d, gen'.began) =>
                                           Ok(tree', man', d)
                      /\ Still(tree', <<>>, gen'.began) =>
                           Partly(tree', man', <<>>, gen'.todo, gen'.tv)
                      /\ Still(tree', Cat', gen'.began) => Partly(tree', man', Cat', Left', gen'.subtv)
  BY <1>2, <1>3, ToCat DEF Steady, Failed, Generating
<1>7. gen.dir[1] \in gen.todo
  BY <1>3, <1>6, AtCat
<1>8. ASSUME NEW d \in Dirs, d # <<>>, Redone(d)', Still(tree', d, gen'.began)
      PROVE  Ok(tree', man', d)
  <2>1. d[1] \notin gen.todo \/ d \in DirsAt(Cat, Left')
    BY <1>2, <1>3, <1>8 DEF Redone
  <2>2. d \in DirsAt(Cat, Left') => d \in DirsAt(Cat, Left)
    BY <1>3, <1>5, DirNotNamed
  <2>3. Redone(d)
    BY <1>3, <2>1, <2>2 DEF Redone
  <2>4. d # Cat
    <3>1. \A k \in DirsAt(Cat, Left) : Up(k) = Cat
      BY DEF DirsAt
    <3> QED
      BY <1>4, <1>7, <2>1, <2>2, <3>1
  <2>5. man'[d] = man[d] /\ \A p \in Packages : man'[p] = man[p]
    BY <1>4, <1>5, <2>4, PackagesDeep DEF HasData
  <2> QED
    BY <1>2, <1>6, <1>8, <2>3, <2>5, RedoneKept
<1>9. Still(tree', <<>>, gen'.began) => Partly(tree', man', <<>>, gen'.todo, gen'.tv)
  <2>1. \A k \in Dirs : k # Cat => man'[k] = man[k]
    BY <1>5 DEF HasData
  <2>2. man'[b] = man[b]
    BY <1>4, <2>1, RootDir
  <2> QED
    BY <1>2, <1>3, <1>6, <2>1, <2>2, RootAside
<1>10. ASSUME Still(tree', Cat', gen'.began) PROVE Partly(tree', man', Cat', Left', gen'.subtv)
  <2>1. Partly(tree, man, Cat, Left, gen.subtv)
    BY <1>2, <1>3, <1>6, <1>10 DEF GenInv
  <2>2. /\ man'[Cat].c.data = man[Cat].c.data \cup EntriesOf(tree, Cat, AsIs(tree, f))
        /\ man'[Cat].c.subs = man[Cat].c.subs /\ man'[Cat].c.dist = man[Cat].c.dist
    BY <1>5 DEF HasData
  <2>3. \A k \in DirsAt(Cat, Left) : man'[k] = man[k]
    BY <1>4, <1>5 DEF HasData, DirsAt
  <2>4. Bounded(tree) /\ Timed(man)
    BY TreeBounded DEF TimesInv
  <2>5. Partly(tree, man', Cat, But(Left, Name(f)), Greater(gen.subtv, Newest(tree, AsIs(tree, f))))
    BY <1>5, <2>1, <2>2, <2>3, <2>4, AddedFile
  <2> QED
    BY <1>1, <1>2, <1>3, <2>5
<1> QED
  BY <1>8, <1>9, <1>10

LEMMA PackageWriteMade == ASSUME GInv, gen.short = {}, PackageWrite PROVE GenInv'
<1> USE DEF GInv, VInv
<1>1. PICK p \in Packages :
        /\ gen.dir = Up(p) /\ Name(p) \in gen.sub /\ gen'.sub = But(gen.sub, Name(p))
        /\ gen'.dir = p
        /\ gen'.new.data = EntriesOf(tree, p, ListedIn(tree, p)) /\ gen'.new.subs = {}
        /\ gen'.new.whole
        /\ gen'.newtv = Greater(man[p].m, Newest(tree, ListedIn(tree, p)))
  BY PackageWriteEffect
<1>2. /\ pc = "category" /\ pc' = "package" /\ gen'.began = gen.began /\ tree' = tree
      /\ gen'.todo = gen.todo /\ gen'.tv = gen.tv /\ man' = man /\ gen'.subtv = gen.subtv
  BY PackageWriteEffect
<1>3. Up(p) = <<p[1]>> /\ Name(p) = p[2] /\ <<p[1]>>[1] = p[1] /\ p \in Dirs
  BY PackageChild
<1>4. InCategory /\ InCategory' /\ Cat' = Cat /\ gen'.dir[1] = gen.dir[1]
  BY <1>1, <1>2, <1>3 DEF InCategory, Cat
<1>5. Left' = Left
  <2>1. Left = gen.sub /\ Left' = But(gen.sub, p[2]) \cup {p[2]} /\ p[2] \in gen.sub
    BY <1>1, <1>2, <1>3 DEF Left
  <2> QED
    BY <2>1 DEF But
<1>6. SUFFICES ASSUME Steady
               PROVE  /\ \A d \in Dirs : d # <<>> /\ Redone(d)' /\ Still(tree', d, gen'.began) =>
                                           Ok(tree', man', d)
                      /\ Still(tree', <<>>, gen'.began) =>
                           Partly(tree', man', <<>>, gen'.todo, gen'.tv)
                      /\ Still(tree', Cat', gen'.began) => Partly(tree', man', Cat', Left', gen'.subtv)
                      /\ PackageOk(tree', gen'.dir, gen'.new, gen'.newtv)
  BY <1>2, <1>4, ToCat DEF Steady, Failed, Generating
<1>7. \A d : Redone(d)' <=> Redone(d)
  BY <1>2, <1>4, <1>5 DEF Redone
<1>8. PackageOk(tree, p, gen'.new, gen'.newtv)
  <2> DEFINE S == ListedIn(tree, p)
             v == Newest(tree, S)
  <2>1. S \in SUBSET Files
    BY DEF ListedIn, Here, Below
  <2>2. v \in Nat /\ IsGreatest(v, {0} \cup TimesOf(tree, S))
    BY <2>1, TreeBounded, LatestIs DEF Newest
  <2>3. man[p].m \in Nat
    BY <1>3 DEF TimesInv, Timed
  <2>4. \A y \in TimesOf(tree, S) : y \in Nat
    BY <2>1 DEF TimesOf, TimesInv
  <2>5. gen'.newtv = Greater(man[p].m, v)
    BY <1>1
  <2> HIDE DEF v, S
  <2>6. gen'.newtv \in Nat /\ v <= gen'.newtv
    BY <2>2, <2>3, <2>5, GreaterNat
  <2>7. \A y \in TimesOf(tree, S) : y <= gen'.newtv
    BY <2>2, <2>4, <2>6 DEF IsGreatest
  <2> QED
    BY <1>1, <2>7 DEF PackageOk, S
<1> QED
  BY <1>1, <1>2, <1>4, <1>5, <1>6, <1>7, <1>8, AtCat DEF GenInv

LEMMA PackageRenameMade == ASSUME GInv, gen.short = {}, PackageRename PROVE GenInv'
<1> USE DEF GInv, VInv
<1> DEFINE b == <<>>
           r == [c |-> gen.new, m |-> clock]
           p == gen.dir
<1>1. /\ Has(man, man', p, r) /\ pc = "package" /\ pc' = "times" /\ gen' = gen /\ tree' = tree
  BY PackageRenameEffect
<1>2. InCategory /\ InCategory' /\ Cat' = Cat /\ Left' = Left
  BY <1>1 DEF InCategory, Cat, Left
<1>3. /\ Cat \in Dirs /\ Cat # <<>> /\ Cat \notin Packages /\ Cat[1] = p[1]
      /\ p \in Packages /\ p \in Dirs /\ Up(p) = Cat /\ Name(p) \in Left
  <2>1. Name(p) \in Left
    BY <1>1, <1>2, CatFacts DEF Left
  <2> QED
    BY <1>1, <1>2, <2>1, CatFacts
<1> HIDE DEF r
<1>4. SUFFICES ASSUME Steady
               PROVE  /\ \A d \in Dirs : d # <<>> /\ Redone(d)' /\ Still(tree', d, gen'.began) =>
                                           Ok(tree', man', d)
                      /\ Still(tree', <<>>, gen'.began) =>
                           Partly(tree', man', <<>>, gen'.todo, gen'.tv)
                      /\ Still(tree', Cat', gen'.began) => Partly(tree', man', Cat', Left', gen'.subtv)
                      /\ Still(tree', gen'.dir, gen'.began) =>
                           PackageOk(tree', gen'.dir, gen'.new, gen'.newtv)
  BY <1>1, <1>2, ToCat DEF Steady, Failed, Generating
<1>5. p[1] \in gen.todo
  BY <1>2, <1>4, AtCat
<1>6. ASSUME NEW d \in Dirs, d # <<>>, Redone(d)', Still(tree', d, gen'.began)
      PROVE  Ok(tree', man', d)
  <2>1. Redone(d)
    BY <1>1, <1>2, <1>6 DEF Redone
  <2>2. d # p /\ d # Cat
    <3>1. \A k \in DirsAt(Cat, Left) : Up(k) = Cat /\ Name(k) \notin Left
      BY DEF DirsAt
    <3>2. Up(Cat) = <<>>
      BY <1>2, CatFacts
    <3> QED
      BY <1>3, <1>5, <2>1, <3>1, <3>2 DEF Redone
  <2>3. man'[d] = man[d] /\ \A a \in Packages : Up(a) = d => man'[a] = man[a]
    BY <1>1, <1>3, <2>2, PackagesDeep DEF Has
  <2> QED
    BY <1>1, <1>4, <1>6, <2>1, <2>3, RedoneKept
<1>7. Still(tree', <<>>, gen'.began) => Partly(tree', man', <<>>, gen'.todo, gen'.tv)
  <2>1. \A k \in Dirs : k \notin Packages => man'[k] = man[k]
    BY <1>1, <1>3 DEF Has
  <2>2. man'[b] = man[b]
    BY <2>1, RootDir, ShallowDirs
  <2> QED
    BY <1>1, <1>2, <1>4, <2>1, <2>2, RootAside
<1>8. ASSUME Still(tree', Cat', gen'.began) PROVE Partly(tree', man', Cat', Left', gen'.subtv)
  <2>1. Partly(tree, man, Cat, Left, gen.subtv)
    BY <1>1, <1>2, <1>4, <1>8 DEF GenInv
  <2>2. man'[Cat] = man[Cat] /\ \A k \in DirsAt(Cat, Left) : man'[k] = man[k]
    BY <1>1, <1>3 DEF Has, DirsAt
  <2>3. Partly(tree, man', Cat, Left, gen.subtv)
    BY <2>1, <2>2, PartlyKept
  <2> QED
    BY <1>1, <1>2, <2>3
<1>9. Still(tree', gen'.dir, gen'.began) => PackageOk(tree', gen'.dir, gen'.new, gen'.newtv)
  BY <1>1, <1>4 DEF GenInv
<1> QED
  BY <1>6, <1>7, <1>8, <1>9

LEMMA PackageTimesMade == ASSUME GInv, gen.short = {}, PackageTimes PROVE GenInv'
<1> USE DEF GInv, VInv
<1> DEFINE b == <<>>
           p == gen.dir
<1>1. PICK r : /\ r.c = gen.new /\ r.m = TimeOr(gen.newtv)
               /\ Enters(man, man', Up(p), p, r) /\ gen'.subtv = Greater(gen.subtv, r.m)
  BY PackageTimesEffect
<1>2. /\ gen'.dir = Up(p) /\ gen'.dir[1] = p[1] /\ gen'.sub = gen.sub /\ gen'.todo = gen.todo
      /\ gen'.tv = gen.tv /\ gen'.began = gen.began /\ pc = "times" /\ pc' = "category"
      /\ tree' = tree
  BY PackageTimesEffect DEF GenKept
<1>3. InCategory /\ InCategory' /\ Cat' = Cat
  BY <1>2 DEF InCategory, Cat
<1>4. /\ Cat \in Dirs /\ Cat # <<>> /\ Cat \notin Packages /\ Cat[1] = p[1] /\ Up(Cat) = <<>>
      /\ p \in Packages /\ p \in Dirs /\ p # <<>> /\ Up(p) = Cat /\ Name(p) = p[2]
      /\ p[2] \notin gen.sub
  BY <1>2, <1>3, CatFacts
<1>5. Left = gen.sub \cup {p[2]} /\ Left' = gen.sub /\ Name(p) \in Left /\ Left' = But(Left, Name(p))
  BY <1>2, <1>4 DEF Left, But
<1>6. Enters(man, man', Cat, p, r)
  BY <1>1, <1>4
<1>7. SUFFICES ASSUME Steady
               PROVE  /\ \A d \in Dirs : d # <<>> /\ Redone(d)' /\ Still(tree', d, gen'.began) =>
                                           Ok(tree', man', d)
                      /\ Still(tree', <<>>, gen'.began) =>
                           Partly(tree', man', <<>>, gen'.todo, gen'.tv)
                      /\ Still(tree', Cat', gen'.began) => Partly(tree', man', Cat', Left', gen'.subtv)
  BY <1>2, <1>3, ToCat DEF Steady, Failed, Generating
<1>8. p[1] \in gen.todo
  BY <1>3, <1>7, AtCat
<1>9. ASSUME Still(tree', p, gen'.began) PROVE Ok(tree', man', p)
  <2>1. PackageOk(tree, p, gen.new, gen.newtv)
    BY <1>2, <1>7, <1>9 DEF GenInv
  <2>2. man'[p] = r
    BY <1>6 DEF Enters
  <2>3. \A y \in TimesOf(tree, ListedIn(tree, p)) : y \in Nat /\ y # 0
    BY DEF TimesOf, ListedIn, Here, Below, TimesInv
  <2>4. \A y \in TimesOf(tree, ListedIn(tree, p)) : y <= r.m
    BY <1>1, <2>1, <2>3 DEF PackageOk, TimeOr, TimesInv
  <2>5. PackageOk(tree, p, man'[p].c, man'[p].m)
    BY <1>1, <2>1, <2>2, <2>4 DEF PackageOk
  <2> QED
    BY <1>2, <1>4, <2>5, KindOfDir DEF Ok
<1>10. ASSUME NEW d \in Dirs, d # <<>>, Redone(d)', Still(tree', d, gen'.began)
       PROVE  Ok(tree', man', d)
  <2>1. d[1] \notin gen.todo \/ d \in DirsAt(Cat, Left')
    BY <1>2, <1>3, <1>10 DEF Redone
  <2>2. d \in DirsAt(Cat, Left') => d \in DirsAt(Cat, Left) \/ d = p
    BY <1>4, <1>5, DirNamed
  <2>3. CASE d = p
    BY <1>9, <1>10, <2>3
  <2>4. CASE d # p
    <3>1. Redone(d)
      BY <1>3, <2>1, <2>2, <2>4 DEF Redone
    <3>2. d # Cat
      <4>1. \A k \in DirsAt(Cat, Left) : Up(k) = Cat
        BY DEF DirsAt
      <4> QED
        BY <1>4, <1>8, <3>1, <4>1 DEF Redone
    <3>3. man'[d] = man[d] /\ \A a \in Packages : Up(a) = d => man'[a] = man[a]
      BY <1>4, <1>6, <2>4, <3>2, PackagesDeep DEF Enters
    <3> QED
      BY <1>2, <1>7, <1>10, <3>1, <3>3, RedoneKept
  <2> QED
    BY <2>3, <2>4
<1>11. Still(tree', <<>>, gen'.began) => Partly(tree', man', <<>>, gen'.todo, gen'.tv)
  <2>1. \A k \in Dirs : k # Cat /\ k \notin Packages => man'[k] = man[k]
    BY <1>4, <1>6 DEF Enters
  <2>2. man'[b] = man[b]
    BY <1>4, <2>1, RootDir, ShallowDirs
  <2> QED
    BY <1>2, <1>3, <1>7, <2>1, <2>2, RootAside
<1>12. ASSUME Still(tree', Cat', gen'.began) PROVE Partly(tree', man', Cat', Left', gen'.subtv)
  <2>1. Partly(tree, man, Cat, Left, gen.subtv)
    BY <1>2, <1>3, <1>7, <1>12 DEF GenInv
  <2>2. /\ man'[p] = r /\ man'[Cat].c.data = man[Cat].c.data /\ man'[Cat].c.dist = man[Cat].c.dist
        /\ man'[Cat].c.subs = man[Cat].c.subs \cup {<<<<Name(p)>>, man'[p].c>>}
    BY <1>6 DEF Enters
  <2>3. \A k \in DirsAt(Cat, Left) : man'[k] = man[k]
    <3>1. \A k \in DirsAt(Cat, Left) : k \in Dirs /\ Up(k) = Cat /\ Name(k) \notin Left
      BY DEF DirsAt
    <3>2. \A k \in DirsAt(Cat, Left) : k # Cat /\ k # p
      BY <1>4, <1>5, <3>1
    <3> QED
      BY <1>6, <3>1, <3>2 DEF Enters
  <2>4. Bounded(tree) /\ Timed(man) /\ Timed(man')
    <3>1. TimesInv'
      BY PackageTimesTimes
    <3> QED
      BY <3>1, TreeBounded DEF TimesInv
  <2> DEFINE k == p
  <2>5. k \in Dirs /\ k # <<>> /\ Up(k) = Cat /\ Name(k) \in Left
    BY <1>4, <1>5
  <2> HIDE DEF k
  <2>6. Partly(tree, man', Cat, But(Left, Name(k)), Greater(gen.subtv, man'[k].m))
    BY <2>1, <2>2, <2>3, <2>4, <2>5, AddedDir DEF k
  <2> QED
    BY <1>1, <1>2, <1>3, <1>5, <2>2, <2>6 DEF k
<1> QED
  BY <1>10, <1>11, <1>12

\* Outside a generation there is nothing to keep.
LEMMA NotSteady == ASSUME ~Steady' PROVE GenInv'
BY DEF GenInv

LEMMA PackageFailsMade == ASSUME GInv, PackageFails PROVE GenInv'
<1>1. gen'.todo = {} /\ pc' = "category"
  BY PackageFailsEffect DEF GInv, VInv
<1> QED
  BY <1>1, NotSteady DEF Steady, Failed, InCategory

\* The Manifest of a category, of all that is in it.
LEMMA PackageLosesMade == ASSUME GInv, PackageLoses PROVE GenInv'
<1>1. gen'.short # {}
  BY PackageLosesEffect DEF GInv, VInv
<1> QED
  BY <1>1 DEF GenInv

LEMMA MetaMade ==
  ASSUME NEW tr, NEW m0, NEW m1, NEW d, NEW r, NEW v, d \in MetaDirs,
         Partly(tr, m0, d, {}, v), m1[d] = r, r.c.data = m0[d].c.data, r.c.subs = m0[d].c.subs,
         r.c.dist = m0[d].c.dist, r.c.whole, r.m = TimeOr(v),
         \A k \in Dirs : k # <<>> /\ Up(k) = d => m1[k] = m0[k]
  PROVE  Ok(tr, m1, d)
<1>1. Partly(tr, m1, d, {}, v)
  <2>1. \A k \in DirsAt(d, {}) : m1[k] = m0[k]
    BY DEF DirsAt
  <2> QED
    BY <2>1, PartlyMoved
<1>2. MetaOk(tr, m1, d)
  BY <1>1 DEF MetaOk, TimeOr
<1> QED
  BY <1>2, KindOfDir DEF Ok

LEMMA CategoryCloseMade == ASSUME GInv, gen.short = {}, CategoryClose PROVE GenInv'
<1> USE DEF GInv, VInv
<1> DEFINE b == <<>>
<1>1. PICK c, r :
        /\ c \in Categories
        /\ gen.dir = <<c>> /\ r.c.data = man[<<c>>].c.data /\ r.c.subs = man[<<c>>].c.subs
        /\ r.c.dist = man[<<c>>].c.dist /\ r.c.whole /\ r.m = TimeOr(CategoryTime)
        /\ \/ /\ c \in gen.todo /\ Enters(man, man', <<>>, <<c>>, r)
              /\ gen'.todo = But(gen.todo, c) /\ gen'.tv = Greater(gen.tv, r.m)
              /\ GenKept(gen, gen') /\ pc' = "root"
           \/ pc' = "idle"
  BY CategoryCloseEffect
<1>2. pc = "category" /\ gen.sub = {} /\ tree' = tree
  BY CategoryCloseEffect
<1>3. CASE pc' = "idle"
  BY <1>3, NotSteady DEF Steady, Generating, InCategory, Finished
<1>4. InCategory /\ gen.dir = Cat /\ Left = {}
  BY <1>2, CatFacts DEF InCategory, Left
<1>5. /\ Cat \in Dirs /\ Cat # <<>> /\ Cat \notin Packages /\ Cat[1] = gen.dir[1] /\ Up(Cat) = <<>>
      /\ Name(Cat) = Cat[1] /\ Cat \in MetaDirs /\ gen.dir[1] \in Categories
  BY <1>4, CatFacts
<1>6. c = Cat[1]
  BY <1>1, <1>4
<1>7. CASE pc' = "root" /\ pc' # "idle"
  <2>1. /\ c \in gen.todo /\ Enters(man, man', b, Cat, r)
        /\ gen'.todo = But(gen.todo, Cat[1]) /\ gen'.tv = Greater(gen.tv, r.m)
        /\ gen'.began = gen.began
    BY <1>1, <1>4, <1>6, <1>7 DEF GenKept
  <2>2. Steady /\ ~Finished
    BY <1>4, <1>5, <1>6, <2>1, AtCat
  <2>3. Timed(man')
    <3>1. TimesInv'
      BY CategoryCloseTimes
    <3> QED
      BY <3>1 DEF TimesInv
  <2> DEFINE k == Cat
  <2>4. /\ k \in Dirs /\ k # <<>> /\ Up(k) = <<>> /\ Name(k) = k[1] /\ k[1] \in gen.todo
        /\ k \notin Packages
    BY <1>5, <1>6, <2>1
  <2> HIDE DEF k
  <2>5. /\ \A d \in Dirs : d # <<>> /\ d # k /\ Redone(d) /\ Still(tree', d, gen'.began) =>
                             Ok(tree', man', d)
        /\ Still(tree', <<>>, gen'.began) => Partly(tree', man', <<>>, gen'.todo, gen'.tv)
    BY <1>2, <2>1, <2>2, <2>3, <2>4, EnteredKept DEF k
  <2>6. ASSUME Still(tree', k, gen'.began) PROVE Ok(tree', man', k)
    <3>1. Partly(tree, man, k, {}, gen.subtv)
      BY <1>2, <1>4, <2>1, <2>2, <2>6 DEF GenInv, k
    <3>2. man'[k] = r
      BY <2>1 DEF Enters, k
    <3>3. \A a \in Dirs : a # <<>> /\ Up(a) = k => man'[a] = man[a]
      BY <2>1, <2>4 DEF Enters, k
    <3>4. /\ r.c.data = man[k].c.data /\ r.c.subs = man[k].c.subs
          /\ r.c.dist = man[k].c.dist /\ r.c.whole /\ r.m = TimeOr(gen.subtv)
      <4>1. CategoryTime = gen.subtv
        BY <2>2 DEF CategoryTime, CutInv, TimesInv
      <4> QED
        BY <1>1, <1>4, <4>1 DEF k
    <3>5. Ok(tree, man', k)
      BY <1>5, <3>1, <3>2, <3>3, <3>4, MetaMade DEF k
    <3> QED
      BY <1>2, <3>5
  <2>7. ASSUME NEW d \in Dirs, d # <<>>, d[1] \notin gen'.todo, Still(tree', d, gen'.began)
        PROVE  Ok(tree', man', d)
    <3>1. CASE d = k
      BY <2>6, <2>7, <3>1
    <3>2. CASE d # k
      <4>1. CASE d[1] = k[1]
        <5>1. d \in Packages /\ Up(d) = k
          <6>1. k = <<k[1]>>
            BY <2>4, DirCases
          <6> QED
            BY <2>7, <3>2, <4>1, <6>1, DirCases
        <5>2. d \in DirsAt(Cat, Left)
          BY <1>4, <2>7, <5>1 DEF DirsAt, k
        <5> QED
          BY <1>4, <2>5, <2>7, <3>2, <5>2 DEF Redone
      <4>2. CASE d[1] # k[1]
        <5>1. d[1] \notin gen.todo
          BY <2>1, <2>7, <4>2 DEF But, k
        <5> QED
          BY <2>5, <2>7, <3>2, <5>1 DEF Redone
      <4> QED
        BY <4>1, <4>2
    <3> QED
      BY <3>1, <3>2
  <2> QED
    BY <1>7, <2>5, <2>7, ToRoot
<1> QED
  BY <1>1, <1>3, <1>7

LEMMA RootCloseMade == ASSUME GInv, gen.short = {}, RootClose PROVE GenInv'
<1> USE DEF GInv, VInv
<1> DEFINE b == <<>>
<1>1. PICK r : /\ Has(man, man', b, r)
               /\ r.c.data = man[b].c.data /\ r.c.subs = man[b].c.subs
               /\ r.c.dist = man[b].c.dist /\ r.c.whole /\ r.m = TimeOr(gen.tv)
  BY RootCloseEffect
<1>2. pc = "root" /\ pc' = "close" /\ gen.todo = {} /\ gen' = gen /\ tree' = tree
  BY RootCloseEffect
<1>3. b \in Dirs /\ b \in MetaDirs
  BY RootDir DEF MetaDirs
<1> HIDE DEF b
<1>4. \A a \in Dirs : a # b => man'[a] = man[a]
  BY <1>1 DEF Has
<1>5. ASSUME NEW d \in Dirs, d # b, Still(tree', d, gen'.began) PROVE Ok(tree', man', d)
  <2>1. Redone(d) /\ Steady
    BY <1>2, AtRoot
  <2>2. man'[d] = man[d] /\ \A p \in Packages : man'[p] = man[p]
    BY <1>4, <1>5, PackagesDeep, ShallowDirs DEF b
  <2> QED
    BY <1>2, <1>5, <2>1, <2>2, RedoneKept DEF b
<1>6. ASSUME Still(tree', b, gen'.began) PROVE Ok(tree', man', b)
  <2>1. Partly(tree, man, b, {}, gen.tv)
    BY <1>2, <1>6, AtRoot DEF GenInv, b
  <2>2. man'[b] = r /\ \A k \in Dirs : k # <<>> /\ Up(k) = b => man'[k] = man[k]
    BY <1>1, <1>4 DEF Has, b
  <2>3. Ok(tree, man', b)
    BY <1>1, <1>3, <2>1, <2>2, MetaMade
  <2> QED
    BY <1>2, <2>3
<1> QED
  BY <1>2, <1>5, <1>6 DEF GenInv, InCategory, Finished, b

LEMMA TopOpenMade == ASSUME GInv, gen.short = {}, TopOpen PROVE GenInv'
<1>1. pc = "close" /\ pc' = "top" /\ gen' = gen /\ man' = man /\ tree' = tree
  BY DEF TopOpen, ghosts
<1>2. /\ Finished /\ Finished' /\ ~InCategory /\ ~InCategory' /\ Steady
  BY <1>1 DEF Finished, InCategory, Steady, Generating, Failed
<1>3. \A d : Redone(d)' <=> Redone(d)
  BY <1>1, <1>2 DEF Redone
<1> QED
  BY <1>1, <1>2, <1>3 DEF GInv, GenInv

-----------------------------------------------------------------------------
(* A file that is edited.                                                  *)

\* The files in a directory, and all below it.
LEMMA InsideKept ==
  ASSUME NEW t0, NEW t1, NEW d, NEW T, d \in Paths, \A f \in Below(d) : t1[f] = t0[f]
  PROVE  FilesAt(t1, d, T) = FilesAt(t0, d, T) /\ Here(t1, d) = Here(t0, d)
<1>1. \A f \in FilesAt(t1, d, T) : f \in Below(d) /\ t1[f] = t0[f]
  BY FileAt
<1>2. \A f \in FilesAt(t0, d, T) : f \in Below(d) /\ t1[f] = t0[f]
  BY FileAt
<1>3. FilesAt(t1, d, T) = FilesAt(t0, d, T)
  BY <1>1, <1>2 DEF FilesAt
<1> QED
  BY <1>3 DEF Here

LEMMA EntriesKept ==
  ASSUME NEW t0, NEW t1, NEW d, NEW S, \A f \in S : t1[f] = t0[f]
  PROVE  EntriesOf(t1, d, S) = EntriesOf(t0, d, S) /\ TimesOf(t1, S) = TimesOf(t0, S)
BY DEF EntriesOf, TimesOf

LEMMA PartlyStill ==
  ASSUME NEW t0, NEW t1, NEW mn, NEW d, NEW T, NEW v, d \in Paths,
         \A f \in Below(d) : t1[f] = t0[f], Partly(t0, mn, d, T, v)
  PROVE  Partly(t1, mn, d, T, v)
<1>1. FilesAt(t1, d, T) = FilesAt(t0, d, T)
  BY InsideKept
<1>2. \A f \in FilesAt(t0, d, T) : t1[f] = t0[f]
  BY FileAt
<1>3. DataOf(t1, d, T) = DataOf(t0, d, T)
  BY <1>1, <1>2 DEF DataOf
<1>4. TimesOf(t1, FilesAt(t1, d, T)) = TimesOf(t0, FilesAt(t0, d, T))
  BY <1>1, <1>2 DEF TimesOf
<1>5. LatestOf(t1, mn, d, T) = LatestOf(t0, mn, d, T)
  BY <1>4 DEF LatestOf
<1> QED
  BY <1>3, <1>5 DEF Partly

LEMMA PackageStill ==
  ASSUME NEW t0, NEW t1, NEW p, NEW u, NEW v, p \in Paths, \A f \in Below(p) : t1[f] = t0[f],
         PackageOk(t0, p, u, v)
  PROVE  PackageOk(t1, p, u, v)
<1>1. Here(t1, p) = Here(t0, p)
  BY InsideKept
<1>2. ListedIn(t1, p) = ListedIn(t0, p) /\ \A f \in ListedIn(t0, p) : t1[f] = t0[f]
  BY <1>1 DEF ListedIn, Here
<1>3. /\ EntriesOf(t1, p, ListedIn(t1, p)) = EntriesOf(t0, p, ListedIn(t0, p))
      /\ TimesOf(t1, ListedIn(t1, p)) = TimesOf(t0, ListedIn(t0, p))
  BY <1>2, EntriesKept
<1> QED
  BY <1>3 DEF PackageOk

LEMMA OkStill ==
  ASSUME NEW t0, NEW t1, NEW mn, NEW d, d \in Dirs, \A f \in Below(d) : t1[f] = t0[f], Ok(t0, mn, d)
  PROVE  Ok(t1, mn, d)
<1>0. d \in Paths
  BY DirFacts
<1>1. CASE d \in MetaDirs
  <2>1. MetaOk(t0, mn, d) /\ d \notin SubtreeDirs /\ d \notin Packages
    BY <1>1, KindOfDir DEF Ok
  <2>2. \A v : Partly(t0, mn, d, {}, v) => Partly(t1, mn, d, {}, v)
    BY <1>0, PartlyStill
  <2> QED
    BY <2>1, <2>2 DEF Ok, MetaOk
<1>2. CASE d \in SubtreeDirs
  <2>1. SubtreeOk(t0, mn, d) /\ d \notin MetaDirs /\ d \notin Packages
    BY <1>2, KindOfDir DEF Ok
  <2>2. Here(t1, d) = Here(t0, d) /\ \A f \in Here(t0, d) : t1[f] = t0[f]
    BY <1>0, InsideKept DEF Here
  <2>3. /\ EntriesOf(t1, d, Here(t1, d)) = EntriesOf(t0, d, Here(t0, d))
        /\ TimesOf(t1, Here(t1, d)) = TimesOf(t0, Here(t0, d))
    BY <2>2, EntriesKept
  <2> QED
    BY <2>1, <2>2, <2>3 DEF Ok, SubtreeOk
<1>3. CASE d \in Packages
  <2>1. PackageOk(t0, d, mn[d].c, mn[d].m) /\ d \notin MetaDirs /\ d \notin SubtreeDirs
    BY <1>3, KindOfDir DEF Ok
  <2>2. PackageOk(t1, d, mn[d].c, mn[d].m)
    BY <1>0, <2>1, PackageStill
  <2> QED
    BY <2>1, <2>2 DEF Ok
<1> QED
  BY <1>1, <1>2, <1>3, KindOfDir

\* Below a directory that is as it was when something began nothing was edited.
LEMMA EditStill ==
  ASSUME TimesInv, NEW f \in Files, Edit(f), NEW d, NEW b, b \in Nat, b <= clock, Still(tree', d, b)
  PROVE  Still(tree, d, b) /\ \A g \in Below(d) : tree'[g] = tree[g]
<1>1. tree'[f].m = clock + 1 /\ \A g \in Files : g # f => tree'[g] = tree[g]
  BY EditEffect
<1>2. f \notin Below(d)
  <2> SUFFICES ASSUME f \in Below(d) PROVE FALSE
    OBVIOUS
  <2>1. clock + 1 <= b
    BY <1>1 DEF Still
  <2> QED
    BY <2>1 DEF TimesInv
<1>3. \A g \in Below(d) : tree'[g] = tree[g]
  BY <1>1, <1>2 DEF Below
<1> QED
  BY <1>3 DEF Still

LEMMA EditMade == ASSUME GInv, NEW f \in Files, Edit(f) PROVE GenInv'
<1> USE DEF GInv, VInv
<1>1. UNCHANGED <<man, pc, gen>>
  BY EditEffect
<1>2. Steady' <=> Steady
  BY <1>1 DEF Steady, Generating, Failed, InCategory, Finished
<1>3. SUFFICES ASSUME Steady, gen.short = {} PROVE GenInv'
  BY <1>1, <1>2, NotSteady DEF GenInv
<1>4. gen.began \in Nat /\ gen.began <= clock
  BY <1>3 DEF Steady, TimesInv
<1>5. \A d : Still(tree', d, gen.began) =>
        Still(tree, d, gen.began) /\ \A g \in Below(d) : tree'[g] = tree[g]
  BY <1>4, EditStill
<1>6. /\ Finished' <=> Finished
      /\ InCategory' <=> InCategory
      /\ Cat' = Cat /\ Left' = Left /\ \A d : Redone(d)' <=> Redone(d)
  BY <1>1 DEF Finished, InCategory, Cat, Left, Redone
<1>7. ASSUME NEW d \in Dirs, Ok(tree, man, d), Still(tree', d, gen.began) PROVE Ok(tree', man, d)
  BY <1>5, <1>7, OkStill
<1>8. ASSUME Still(tree', <<>>, gen.began)
      PROVE  IF Finished THEN Ok(tree', man, <<>>) ELSE Partly(tree', man, <<>>, gen.todo, gen.tv)
  <2> DEFINE b == <<>>
  <2>1. b \in Dirs /\ b \in Paths /\ Still(tree', b, gen.began)
    BY <1>8, RootDir, EmptyPath
  <2>2. IF Finished THEN Ok(tree, man, b) ELSE Partly(tree, man, b, gen.todo, gen.tv)
    BY <1>3, <1>5, <2>1 DEF GenInv
  <2> HIDE DEF b
  <2>3. IF Finished THEN Ok(tree', man, b) ELSE Partly(tree', man, b, gen.todo, gen.tv)
    BY <1>5, <1>7, <2>1, <2>2, PartlyStill
  <2> QED
    BY <2>3 DEF b
<1>9. ASSUME InCategory, Still(tree', Cat, gen.began) PROVE Partly(tree', man, Cat, Left, gen.subtv)
  <2>1. Cat \in Paths
    BY <1>9, CatFacts, DirFacts
  <2>2. Partly(tree, man, Cat, Left, gen.subtv)
    BY <1>3, <1>5, <1>9 DEF GenInv
  <2>3. \A g \in Below(Cat) : tree'[g] = tree[g]
    BY <1>5, <1>9
  <2> DEFINE d == Cat
  <2> HIDE DEF d
  <2>4. Partly(tree', man, d, Left, gen.subtv)
    BY <2>1, <2>2, <2>3, PartlyStill DEF d
  <2> QED
    BY <2>4 DEF d
<1>10. ASSUME pc \in {"package", "times"}, Still(tree', gen.dir, gen.began)
       PROVE  PackageOk(tree', gen.dir, gen.new, gen.newtv)
  <2>1. gen.dir \in Paths
    BY <1>10, CatFacts, DirFacts DEF InCategory
  <2>2. PackageOk(tree, gen.dir, gen.new, gen.newtv)
    BY <1>3, <1>5, <1>10 DEF GenInv
  <2> QED
    BY <1>5, <1>10, <2>1, <2>2, PackageStill
<1>11. \A d \in Dirs : d # <<>> /\ Redone(d) /\ Still(tree', d, gen.began) => Ok(tree', man, d)
  BY <1>3, <1>5, <1>7 DEF GenInv
<1>12. Finished => gen.todo = {}
  BY <1>3 DEF GenInv
<1> QED
  BY <1>1, <1>6, <1>8, <1>9, <1>10, <1>11, <1>12 DEF GenInv

\* What was lost is lost until the generation ends.
LEMMA ShortStays ==
  ASSUME GInv, Generator, ~Generate, gen.short # {}
  PROVE  GenInv'
<1> USE DEF GInv, VInv
<1> SUFFICES gen'.short # {} \/ ~Steady'
  BY DEF GenInv
<1>1. CASE RootFile \/ SubtreeOpen \/ CategoryOpen
  BY <1>1, RootFileEffect, SubtreeOpenEffect, CategoryOpenEffect DEF GenKept, SpoiltKept
<1>2. CASE SubtreeClose \/ CategoryFile \/ PackageTimes
  BY <1>2, SubtreeCloseEffect, CategoryFileEffect, PackageTimesEffect DEF GenKept, SpoiltKept
<1>3. CASE PackageWrite \/ PackageRename \/ PackageLoses \/ PackageFails
  BY <1>3, PackageWriteEffect, PackageRenameEffect, PackageLosesEffect, PackageFailsEffect
     DEF SpoiltKept
<1>4. CASE CategoryClose
  <2>1. (GenKept(gen, gen') /\ pc' = "root") \/ pc' = "idle"
    BY <1>4, CategoryCloseEffect
  <2> QED
    BY <2>1 DEF GenKept, SpoiltKept, Steady, Generating, InCategory, Finished
<1>5. CASE RootClose \/ TopOpen
  BY <1>5, RootCloseEffect DEF TopOpen
<1>6. CASE TopWrite
  BY <1>6 DEF TopWrite, Steady, Generating, InCategory, Finished
<1> QED
  BY <1>1, <1>2, <1>3, <1>4, <1>5, <1>6 DEF Generator

\* A time is cut off where a category fails, which is the end of the generation.
LEMMA CutStep == ASSUME GInv, [Next]_vars PROVE CutInv'
<1> USE DEF GInv, VInv
<1> SUFFICES ASSUME Steady' PROVE gen'.cut = 0
  BY DEF CutInv
<1>1. ASSUME gen'.cut = gen.cut, Steady PROVE gen'.cut = 0
  BY <1>1 DEF CutInv
<1>2. CASE pc = "root"
  <2>1. Steady
    BY <1>2, AtRoot
  <2>2. CASE Generator
    <3>1. CASE RootFile \/ SubtreeOpen \/ CategoryOpen
      BY <1>1, <2>1, <3>1, RootFileEffect, SubtreeOpenEffect, CategoryOpenEffect DEF GenKept, SpoiltKept
    <3>2. CASE SubtreeClose \/ RootClose
      BY <1>1, <2>1, <3>2, SubtreeCloseEffect, RootCloseEffect DEF GenKept, SpoiltKept
    <3> QED
      BY <1>2, <2>2, <3>1, <3>2 DEF Generator, Generate, CategoryFile, PackageWrite, PackageLoses,
         PackageRename, PackageTimes, PackageFails, CategoryClose, TopOpen, TopWrite
  <2>3. CASE ~Generator /\ gen' = gen
    BY <1>1, <2>1, <2>3
  <2>4. CASE ~Generator /\ gen' # gen
    <3>1. pc' = "idle"
      BY <2>4 DEF Next, Verifier, VerifyRoot, VerifyEnd, Take, Link, Advance, Load, Store, Kill,
         Edit, AddDist, vars
    <3> QED
      BY <3>1 DEF Steady, Generating, InCategory, Finished
  <2> QED
    BY <2>2, <2>3, <2>4
<1>3. CASE InCategory
  <2>1. CASE Generator
    <3>1. CASE CategoryFile
      <4>1. gen'.cut = gen.cut /\ gen'.todo = gen.todo /\ gen'.dir = gen.dir /\ InCategory'
        BY <3>1, CategoryFileEffect DEF GenKept, SpoiltKept, InCategory
      <4> QED
        BY <1>1, <1>3, <4>1 DEF Steady, Failed, Generating
    <3>2. CASE PackageWrite
      <4>1. PICK p \in Packages : gen.dir = Up(p) /\ gen'.dir = p
        BY <3>2, PackageWriteEffect
      <4>2. gen'.cut = gen.cut /\ gen'.todo = gen.todo /\ InCategory'
        BY <3>2, PackageWriteEffect DEF SpoiltKept, InCategory
      <4>3. gen'.dir[1] = gen.dir[1]
        BY <4>1, PackageChild
      <4> QED
        BY <1>1, <1>3, <4>2, <4>3 DEF Steady, Failed, Generating
    <3>3. CASE PackageRename \/ PackageLoses \/ PackageTimes
      <4>1. gen'.cut = gen.cut /\ gen'.todo = gen.todo /\ gen'.dir[1] = gen.dir[1] /\ InCategory'
        BY <3>3, PackageRenameEffect, PackageLosesEffect, PackageTimesEffect
           DEF GenKept, SpoiltKept, InCategory
      <4> QED
        BY <1>1, <1>3, <4>1 DEF Steady, Failed, Generating
    <3>4. CASE PackageFails
      <4>1. gen'.todo = {} /\ pc' = "category"
        BY <3>4, PackageFailsEffect
      <4> QED
        BY <4>1 DEF Steady, Failed, InCategory
    <3>5. CASE CategoryClose
      <4>1. PICK c \in Categories :
              /\ gen.dir = <<c>>
              /\ (c \in gen.todo /\ GenKept(gen, gen')) \/ pc' = "idle"
        BY <3>5, CategoryCloseEffect
      <4>2. pc' = "idle" => ~Steady'
        BY DEF Steady, Generating, InCategory, Finished
      <4>3. Steady /\ GenKept(gen, gen')
        BY <1>3, <4>1, <4>2, AtCat
      <4> QED
        BY <1>1, <4>3 DEF GenKept, SpoiltKept
    <3> QED
      BY <1>3, <2>1, <3>1, <3>2, <3>3, <3>4, <3>5 DEF Generator, InCategory, Generate, RootFile,
         SubtreeOpen, SubtreeClose, CategoryOpen, RootClose, TopOpen, TopWrite
  <2>2. CASE ~Generator /\ gen' = gen /\ pc' = pc
    BY <1>1, <1>3, <2>2 DEF Steady, Failed, Generating, InCategory
  <2>3. CASE ~Generator /\ (gen' # gen \/ pc' # pc)
    <3>1. pc' \in {"idle", "verify", "verified"}
      BY <2>3 DEF Next, Verifier, VerifyRoot, VerifyEnd, Take, Link, Advance, Load, Store, Kill,
         Edit, AddDist, vars
    <3> QED
      BY <3>1 DEF Steady, Generating, InCategory, Finished
  <2> QED
    BY <2>1, <2>2, <2>3
<1>4. CASE Finished
  <2>1. Steady
    BY <1>4 DEF Steady, Generating, Failed, Finished, InCategory
  <2>2. gen' = gen \/ pc' = "idle"
    BY <1>4 DEF Finished, Next, Generator, Generate, RootFile, SubtreeOpen, SubtreeClose,
       CategoryOpen, CategoryFile, PackageWrite, PackageLoses, PackageRename, PackageTimes,
       PackageFails, CategoryClose, RootClose, TopOpen, TopWrite, Verifier, VerifyRoot, VerifyEnd,
       Take, Link, Advance, Load, Store, Kill, Edit, AddDist, vars
  <2> QED
    BY <1>1, <2>1, <2>2 DEF Steady, Generating, InCategory, Finished
<1>5. CASE ~Generating
  <2>1. CASE Generate
    BY <2>1, GenerateEffect
  <2>2. CASE ~Generate
    <3>1. pc' = pc \/ pc' \in {"idle", "verify", "verified"}
      BY <1>5, <2>2 DEF Generating, InCategory, Finished, Next, Generator, RootFile, SubtreeOpen,
         SubtreeClose, CategoryOpen, CategoryFile, PackageWrite, PackageLoses, PackageRename,
         PackageTimes, PackageFails, CategoryClose, RootClose, TopOpen, TopWrite, Verifier,
         VerifyRoot, VerifyEnd, Take, Link, Advance, Load, Store, Kill, Edit, AddDist, vars
    <3> QED
      BY <1>5, <3>1 DEF Steady, Generating, InCategory, Finished
  <2> QED
    BY <2>1, <2>2
<1> QED
  BY <1>2, <1>3, <1>4, <1>5 DEF Generating

LEMMA GenStep == ASSUME GInv, [Next]_vars PROVE GenInv'
<1>0. ASSUME UNCHANGED <<tree, man, pc, gen>> PROVE GenInv'
  BY <1>0 DEF GInv, GenInv, Steady, Generating, Failed, InCategory, Finished, Redone, Cat, Left
<1>1. CASE Generator
  <2>1. CASE TopWrite
    BY <2>1, NotSteady DEF TopWrite, Steady, Generating, InCategory, Finished
  <2>2. CASE gen.short # {} /\ ~Generate
    BY <1>1, <2>2, ShortStays
  <2> QED
    BY <1>1, <2>1, <2>2, PackageLosesMade, GenerateMade, RootFileMade, SubtreeOpenMade, SubtreeCloseMade,
       CategoryOpenMade, CategoryFileMade, PackageWriteMade, PackageRenameMade,
       PackageTimesMade, PackageFailsMade, CategoryCloseMade, RootCloseMade, TopOpenMade
       DEF Generator
<1>2. CASE Verifier
  <2>1. CASE VerifyRoot \/ VerifyEnd
    <3>1. pc' \in {"verify", "verified"}
      BY <2>1 DEF VerifyRoot, VerifyEnd
    <3> QED
      BY <3>1, NotSteady DEF Steady, Generating, InCategory, Finished
  <2>2. ASSUME NEW t \in Threads, Take(t) \/ Link(t) \/ Advance(t) \/ Load(t) \/ Store(t)
        PROVE  GenInv'
    <3>1. UNCHANGED <<tree, man, pc, gen>>
      BY <2>2 DEF Take, Link, Advance, Load, Store
    <3> QED
      BY <1>0, <3>1
  <2> QED
    BY <1>2, <2>1, <2>2 DEF Verifier
<1>3. CASE Kill \/ \E p \in Packages : AddDist(p)
  <2>1. pc' = "idle"
    BY <1>3 DEF Kill, AddDist
  <2> QED
    BY <2>1, NotSteady DEF Steady, Generating, InCategory, Finished
<1>4. CASE UNCHANGED vars
  BY <1>0, <1>4 DEF vars
<1> QED
  BY <1>1, <1>2, <1>3, <1>4, EditMade DEF Next

-----------------------------------------------------------------------------
(* What the last generation that finished has made.                        *)

LEMMA InitGen == Init => CutInv /\ GenInv /\ PastInv
BY DEF Init, CutInv, GenInv, PastInv, Steady, Generating, InCategory, Finished

LEMMA MadeStill ==
  ASSUME NEW t0, NEW t1, NEW mn, NEW b, Made(t0, mn, b),
         \A d : Still(t1, d, b) => Still(t0, d, b) /\ \A g \in Below(d) : t1[g] = t0[g]
  PROVE  Made(t1, mn, b)
<1> SUFFICES ASSUME NEW d, d \in Dirs, Still(t1, d, b) PROVE Ok(t1, mn, d)
  BY DEF Made
<1>1. Ok(t0, mn, d) /\ \A g \in Below(d) : t1[g] = t0[g]
  BY DEF Made
<1> QED
  BY <1>1, OkStill

LEMMA TopWritePast == ASSUME GInv, gen.short = {}, TopWrite PROVE PastInv'
<1> DEFINE b == <<>>
<1>1. /\ pc = "top" /\ tree' = tree /\ top' = man[b].c
      /\ before' = [man |-> man, began |-> gen.began, runs |-> runs]
  BY DEF TopWrite
<1> HIDE DEF b
<1>2. before'.man = man /\ before'.began = gen.began
  BY <1>1
<1>3. Steady /\ Finished
  BY <1>1 DEF Steady, Generating, Failed, InCategory, Finished
<1>4. gen.todo = {} /\ (Still(tree, b, gen.began) => Ok(tree, man, b))
      /\ \A d \in Dirs : d # b /\ Redone(d) /\ Still(tree, d, gen.began) => Ok(tree, man, d)
  BY <1>3 DEF GInv, GenInv, b
<1>5. \A d : Redone(d)
  BY <1>4 DEF Redone
<1>6. Made(tree', before'.man, before'.began)
  BY <1>1, <1>2, <1>4, <1>5 DEF Made
<1>7. ManShaped(before'.man)
  BY <1>2 DEF GInv, VInv, IInv, Shaped
<1> QED
  BY <1>1, <1>2, <1>6, <1>7 DEF PastInv, b

LEMMA EditPast == ASSUME GInv, PastInv, NEW f \in Files, Edit(f) PROVE PastInv'
<1>1. UNCHANGED <<top, runs, before>>
  BY EditEffect DEF GInv
<1>2. before.began \in Nat /\ before.began <= clock /\ TimesInv
  BY DEF GInv, TimesInv
<1>3. \A d : Still(tree', d, before.began) =>
        Still(tree, d, before.began) /\ \A g \in Below(d) : tree'[g] = tree[g]
  BY <1>2, EditStill
<1>4. Made(tree, before.man, before.began) => Made(tree', before.man, before.began)
  BY <1>3, MadeStill
<1> QED
  BY <1>1, <1>4 DEF PastInv

LEMMA PastStep == ASSUME GInv, PastInv, [Next]_vars PROVE PastInv'
<1>1. ASSUME UNCHANGED <<tree, before>>, UNCHANGED <<top, runs>> \/ (before.runs < runs' /\ before.runs \in Nat /\ runs' \in Nat)
      PROVE  PastInv'
  BY <1>1 DEF PastInv
<1>2. CASE Generate
  <2>1. UNCHANGED <<tree, before>> /\ runs' = runs + 1
    BY <1>2 DEF Generate, ghosts
  <2>2. before.runs < runs' /\ before.runs \in Nat /\ runs' \in Nat
    BY <2>1 DEF GInv, TimesInv
  <2> QED
    BY <1>1, <2>1, <2>2
<1>3. CASE TopOpen
  <2>1. UNCHANGED <<tree, before, runs>> /\ pc = "close"
    BY <1>3 DEF TopOpen, ghosts, counts
  <2>2. before.runs < runs' /\ before.runs \in Nat /\ runs' \in Nat
    BY <2>1 DEF GInv, TimesInv, Generating, Finished
  <2> QED
    BY <1>1, <2>1, <2>2
<1>6. CASE TopWrite /\ gen.short # {}
  <2>1. UNCHANGED <<tree, before, runs>> /\ pc = "top"
    BY <1>6 DEF TopWrite, counts
  <2>2. before.runs < runs' /\ before.runs \in Nat /\ runs' \in Nat
    BY <2>1 DEF GInv, TimesInv, Generating, Finished
  <2> QED
    BY <1>1, <2>1, <2>2
<1>4. CASE Generator /\ ~Generate /\ ~TopOpen /\ ~TopWrite
  <2>1. UNCHANGED <<tree, before, top, runs>>
    BY <1>4 DEF Generator, RootFile, SubtreeOpen, SubtreeClose, CategoryOpen, CategoryFile,
       PackageWrite, PackageLoses, PackageRename, PackageTimes, PackageFails, CategoryClose,
       RootClose, ghosts, counts
  <2> QED
    BY <1>1, <2>1
<1>5. CASE Verifier \/ Kill \/ (\E p \in Packages : AddDist(p)) \/ UNCHANGED vars
  <2>1. UNCHANGED <<tree, before, top, runs>>
    BY <1>5 DEF Verifier, VerifyRoot, VerifyEnd, Take, Link, Advance, Load, Store, Kill, AddDist,
       ghosts, counts, vars
  <2> QED
    BY <1>1, <2>1
<1> QED
  BY <1>2, <1>3, <1>4, <1>5, <1>6, TopWritePast, EditPast DEF Next

-----------------------------------------------------------------------------
(* A tree that is as it was is verified.                                   *)

\* What a directory is verified with: its files, if no directory below it has a Manifest,
LeafGood(d, u) ==
  /\ u = Content(u) /\ u.subs = {} /\ u.data = EntriesOf(tree, d, Here(tree, d))
  /\ \A k \in Dirs : ~Prefix(d, k)
\* and otherwise its own Manifest.
Good(d, u) == LeafGood(d, u) \/ (d \in MetaDirs /\ u = man[d].c)

AllOk == Shaped /\ Regular /\ \A d \in Dirs : Ok(tree, man, d)

LEMMA PrefixChain ==
  ASSUME NEW d, NEW b, NEW g, d \in Paths, b \in Paths, g \in Paths, Prefix(d, b), Prefix(b, g)
  PROVE  Prefix(d, g) /\ g[Len(d) + 1] = b[Len(d) + 1]
<1>1. /\ Len(d) \in Nat /\ Len(b) \in Nat /\ Len(g) \in Nat /\ Len(d) < Len(b) /\ Len(b) < Len(g)
      /\ \A i \in 1 .. Len(d) : d[i] = b[i]
      /\ \A i \in 1 .. Len(b) : b[i] = g[i]
  BY PrefixFacts
<1>2. \A i \in 1 .. Len(d) : i \in 1 .. Len(b) /\ d[i] = g[i]
  BY <1>1
<1>3. Len(d) < Len(g) /\ Len(d) + 1 \in 1 .. Len(b)
  BY <1>1
<1>4. Prefix(d, g)
  BY <1>2, <1>3, PrefixFacts
<1> QED
  BY <1>1, <1>3, <1>4

\* The next directory on the way to a file.
LEMMA NextDir ==
  ASSUME NEW d, NEW f, d \in Paths, f \in Files, Prefix(d, f), Len(f) > Len(d) + 1
  PROVE  LET b == SubSeq(f, 1, Len(d) + 1)
         IN /\ b \in Paths /\ Len(b) = Len(d) + 1 /\ Up(b) = d /\ Name(b) = f[Len(d) + 1]
            /\ Prefix(d, b) /\ Prefix(b, f) /\ Len(d) + 1 \in 1 .. Len(f) - 1
            /\ b[Len(d) + 1] = f[Len(d) + 1] /\ b # <<>>
<1> DEFINE k == Len(d) + 1
           b == SubSeq(f, 1, k)
<1>1. f \in Paths /\ Len(d) \in Nat /\ Len(f) \in Nat
  BY FileFacts, PrefixFacts
<1>2. k \in Nat /\ k < Len(f) /\ k \in 1 .. Len(f) - 1 /\ Len(d) < Len(f)
  BY <1>1
<1>3. b \in Paths /\ Len(b) = k /\ Prefix(b, f)
  BY <1>1, <1>2, NextName
<1>4. SubSeq(f, 1, Len(d)) = d
  BY DEF Prefix
<1>5. b[Len(b)] = f[Len(d) + 1] /\ SubSeq(b, 1, Len(b) - 1) = d
  BY <1>1, <1>2, <1>4, NextName
<1> HIDE DEF b
<1>6. b # <<>>
  BY <1>1, <1>3, EmptyPath
<1>7. Up(b) = d /\ Name(b) = f[Len(d) + 1]
  BY <1>5 DEF Up, Name
<1>8. b = d \o <<f[Len(d) + 1]>>
  BY <1>3, <1>6, <1>7, NameOf
<1>9. Prefix(d, b)
  BY <1>3, <1>8, NameIn
<1> QED
  BY <1>2, <1>3, <1>5, <1>6, <1>7, <1>9 DEF b

\* An entry of what is below d.
IsFor(e, d, f) ==
  /\ Prefix(d, f) /\ Exists(f) /\ e[1] = Without(d, f) /\ e[2] = tree[f].c
  /\ e[1][1] = f[Len(d) + 1] /\ Len(e[1]) = Len(f) - Len(d)

LEMMA LeafEntry ==
  ASSUME NEW d, NEW u, NEW e, d \in Paths, LeafGood(d, u), e \in u.data
  PROVE  \E f \in Files : IsFor(e, d, f)
<1>1. PICK f \in Here(tree, d) : e = <<Without(d, f), tree[f].c>>
  BY DEF LeafGood, EntriesOf
<1>2. f \in Files /\ Prefix(d, f) /\ Exists(f)
  BY DEF Here, Below, Exists
<1>3. Without(d, f)[1] = f[Len(d) + 1] /\ Len(Without(d, f)) = Len(f) - Len(d)
  BY <1>2, EntryName
<1> QED
  BY <1>1, <1>2, <1>3 DEF IsFor

LEMMA EntryLeaf ==
  ASSUME NEW d, NEW u, NEW f, LeafGood(d, u), f \in Files, Prefix(d, f), Exists(f)
  PROVE  <<Without(d, f), tree[f].c>> \in u.data
BY DEF LeafGood, EntriesOf, Here, Below, Exists

LEMMA LeafJoined ==
  ASSUME Regular, NEW d, NEW u, d \in Paths, LeafGood(d, u)
  PROVE  Joined(d, u) /\ \A n \in SubDirs(d, u) : Referenced(d, u, n)
<1> DEFINE listed == {e[1][1] : e \in u.data \cup u.subs}
<1>1. u.subs = {}
  BY DEF LeafGood
<1>2. ASSUME NEW f \in Files, Prefix(d, f), Exists(f) PROVE f[Len(d) + 1] \in listed
  <2>1. Without(d, f)[1] = f[Len(d) + 1]
    BY <1>2, EntryName
  <2> DEFINE e == <<Without(d, f), tree[f].c>>
  <2>2. e \in u.data
    BY <1>2, EntryLeaf
  <2>3. e[1][1] = f[Len(d) + 1]
    BY <2>1
  <2> HIDE DEF e
  <2> QED
    BY <2>2, <2>3
<1>3. ListDir(d) \subseteq listed
  <2> SUFFICES ASSUME NEW f \in Below(d), Exists(f) \/ Len(f) > Len(d) + 1
               PROVE  f[Len(d) + 1] \in listed
    BY DEF ListDir
  <2>1. f \in Files /\ Prefix(d, f)
    BY DEF Below
  <2>2. CASE Exists(f)
    BY <1>2, <2>1, <2>2
  <2>3. CASE Len(f) > Len(d) + 1
    <3> DEFINE b == SubSeq(f, 1, Len(d) + 1)
    <3>1. /\ b \in Paths /\ Prefix(d, b) /\ Len(d) + 1 \in 1 .. Len(f) - 1
          /\ b[Len(d) + 1] = f[Len(d) + 1]
      BY <2>1, <2>3, NextDir
    <3>2. b \notin Dirs
      BY <3>1 DEF LeafGood
    <3>3. Under(b) # {}
      BY <2>1, <3>1, <3>2 DEF Regular
    <3> HIDE DEF b
    <3>4. PICK g \in Files : Prefix(b, g) /\ Exists(g)
      BY <3>3 DEF Under, Below
    <3>5. g \in Paths
      BY FileFacts
    <3>6. Prefix(d, g) /\ g[Len(d) + 1] = b[Len(d) + 1]
      BY <3>1, <3>4, <3>5, PrefixChain
    <3> QED
      BY <1>2, <3>1, <3>4, <3>6
  <2> QED
    BY <2>2, <2>3
<1>4. listed \subseteq ListDir(d)
  <2> SUFFICES ASSUME NEW e \in u.data PROVE e[1][1] \in ListDir(d)
    BY <1>1
  <2>1. PICK f \in Files : IsFor(e, d, f)
    BY LeafEntry
  <2> QED
    BY <2>1 DEF IsFor, ListDir, Below
<1>5. ASSUME NEW e \in u.data PROVE VerifyFile(d \o e[1], e[2])
  <2>0. PICK f \in Files : IsFor(e, d, f)
    BY LeafEntry
  <2>1. Prefix(d, f) /\ e[1] = Without(d, f) /\ e[2] = tree[f].c
    BY <2>0 DEF IsFor
  <2>2. f \in Paths
    BY FileFacts
  <2>3. d \o Without(d, f) = f
    BY <2>1, <2>2, RestFacts
  <2>4. tree[f].c # Empty
    BY DEF Regular
  <2> QED
    BY <2>1, <2>3, <2>4 DEF VerifyFile
<1>6. Joined(d, u)
  BY <1>3, <1>4, <1>5 DEF Joined
<1>7. \A n : Referenced(d, u, n)
  BY <1>1 DEF Referenced
<1> QED
  BY <1>6, <1>7

\* What is below a directory is verified with what is listed of it above.
LEMMA LeafGoverned ==
  ASSUME NEW d, NEW u, NEW b, d \in Paths, b \in Paths, b # <<>>, Up(b) = d, LeafGood(d, u)
  PROVE  LeafGood(b, Governing(d, u, Name(b)))
<1> DEFINE n == Name(b)
           w == Within(u, n)
<1>1. Governing(d, u, n) = w
  BY DEF LeafGood, Governing
<1>2. /\ w = Content(w) /\ w.subs = {}
      /\ w.data = {<<Tail(e[1]), e[2]>> : e \in {e \in u.data : Len(e[1]) > 1 /\ e[1][1] = n}}
  BY WithinFacts DEF LeafGood
<1> HIDE DEF w
<1>3. b = d \o <<n>>
  BY NameOf
<1>4. Len(b) = Len(d) + 1 /\ Prefix(d, b) /\ Len(d) \in Nat /\ b[Len(d) + 1] = n
  <2>1. Len(b) = Len(d) + 1 /\ Prefix(d, b)
    BY <1>3, NameIn
  <2> QED
    BY <2>1, PrefixFacts DEF Name
<1> HIDE DEF n
<1>5. ASSUME NEW f \in Files, Prefix(d, f), Len(f) > Len(d) + 1, f[Len(d) + 1] = n
      PROVE  Prefix(b, f) /\ Tail(Without(d, f)) = Without(b, f)
  <2> DEFINE k == SubSeq(f, 1, Len(d) + 1)
  <2>0. f \in Paths
    BY FileFacts
  <2>1. k \in Paths /\ k # <<>> /\ Up(k) = d /\ Name(k) = n
    BY <1>5, NextDir
  <2>2. Prefix(k, f) /\ Tail(Without(d, f)) = Without(k, f)
    BY <1>5, <2>0, TailRest
  <2> HIDE DEF k
  <2>3. k = b
    BY <2>1, OwnName DEF n
  <2> QED
    BY <2>2, <2>3
<1>6. ASSUME NEW f \in Files, Prefix(b, f)
      PROVE  Prefix(d, f) /\ Len(f) > Len(d) + 1 /\ f[Len(d) + 1] = n
  <2>1. f \in Paths
    BY FileFacts
  <2>2. Prefix(d, f) /\ f[Len(d) + 1] = b[Len(d) + 1]
    BY <1>4, <1>6, <2>1, PrefixChain
  <2>3. Len(f) > Len(b)
    BY <1>6, <2>1, PrefixFacts
  <2> QED
    BY <1>4, <2>2, <2>3
<1>7. ASSUME NEW x, x \in w.data PROVE x \in EntriesOf(tree, b, Here(tree, b))
  <2>1. PICK e \in u.data : Len(e[1]) > 1 /\ e[1][1] = n /\ x = <<Tail(e[1]), e[2]>>
    BY <1>2, <1>7
  <2>0. PICK f \in Files : IsFor(e, d, f)
    BY LeafEntry
  <2>2. /\ Prefix(d, f) /\ Exists(f) /\ e[1] = Without(d, f) /\ e[2] = tree[f].c
        /\ e[1][1] = f[Len(d) + 1] /\ Len(e[1]) = Len(f) - Len(d)
    BY <2>0 DEF IsFor
  <2>3. Len(f) > Len(d) + 1
    <3>1. Len(f) \in Nat
      BY FileFacts
    <3> QED
      BY <1>4, <2>1, <2>2, <3>1
  <2>4. Prefix(b, f) /\ x = <<Without(b, f), tree[f].c>>
    BY <1>5, <2>1, <2>2, <2>3
  <2> QED
    BY <2>2, <2>4 DEF EntriesOf, Here, Below, Exists
<1>8. ASSUME NEW x, x \in EntriesOf(tree, b, Here(tree, b)) PROVE x \in w.data
  <2>1. PICK f \in Files : Prefix(b, f) /\ Exists(f) /\ x = <<Without(b, f), tree[f].c>>
    BY <1>8 DEF EntriesOf, Here, Below, Exists
  <2> DEFINE e == <<Without(d, f), tree[f].c>>
  <2>2. Prefix(d, f) /\ Len(f) > Len(d) + 1 /\ f[Len(d) + 1] = n
    BY <1>6, <2>1
  <2>3. e \in u.data
    BY <2>1, <2>2, EntryLeaf
  <2>4. Without(d, f)[1] = n /\ Len(Without(d, f)) > 1
    <3>1. Without(d, f)[1] = f[Len(d) + 1] /\ Len(Without(d, f)) = Len(f) - Len(d)
      BY <2>2, EntryName
    <3>2. Len(f) \in Nat
      BY FileFacts
    <3> QED
      BY <1>4, <2>2, <3>1, <3>2
  <2>5. e[1][1] = n /\ Len(e[1]) > 1 /\ x = <<Tail(e[1]), e[2]>>
    BY <1>5, <2>1, <2>2, <2>4
  <2> HIDE DEF e
  <2> QED
    BY <1>2, <2>3, <2>5
<1>9. \A k \in Dirs : ~Prefix(b, k)
  <2> SUFFICES ASSUME NEW k \in Dirs, Prefix(b, k) PROVE FALSE
    OBVIOUS
  <2>1. k \in Paths
    BY DirFacts
  <2>2. Prefix(d, k)
    BY <1>4, <2>1, PrefixChain
  <2> QED
    BY <2>2 DEF LeafGood
<1>10. w.data = EntriesOf(tree, b, Here(tree, b))
  BY <1>7, <1>8
<1>11. LeafGood(b, w)
  BY <1>2, <1>9, <1>10 DEF LeafGood
<1> QED
  BY <1>1, <1>11 DEF n

LEMMA MetaKinds ==
  ASSUME NEW d, d \in MetaDirs
  PROVE  /\ d \in Dirs /\ d \in Paths
         /\ d = <<>> \/ \E c \in RootDirs : d = <<c>>
         /\ d # <<>> => \E c \in Categories : d = <<c>>
<1>1. d \in Dirs
  BY KindOfDir
<1>2. d \in Paths
  BY <1>1, DirFacts
<1>3. d = <<>> \/ \E c \in Categories : d = <<c>>
  BY DEF MetaDirs
<1>4. d = <<>> \/ \E c \in RootDirs : d = <<c>>
  BY <1>3 DEF Categories
<1> QED
  BY <1>1, <1>2, <1>3, <1>4

\* In the root and in a category each directory has a Manifest.
LEMMA MetaNext ==
  ASSUME NEW d, NEW f, d \in MetaDirs, f \in Files, Prefix(d, f), Len(f) > Len(d) + 1
  PROVE  SubSeq(f, 1, Len(d) + 1) \in Dirs
<1> DEFINE b == SubSeq(f, 1, Len(d) + 1)
<1>1. d \in Paths /\ f \in Paths /\ Len(f) \in Nat
  BY MetaKinds, FileFacts
<1>2. b \in Paths /\ b # <<>> /\ Up(b) = d /\ Name(b) = f[Len(d) + 1]
  BY <1>1, NextDir
<1>3. CASE d = <<>>
  <2>1. Len(d) = 0
    BY <1>3, EmptyPath
  <2>2. f[1] \in RootDirs /\ Name(b) = f[1]
    BY <1>2, <2>1 DEF RootDirs
  <2> HIDE DEF b
  <2> DEFINE k == <<f[1]>>
  <2>3. k \in Dirs /\ k # <<>> /\ Up(k) = <<>> /\ Name(k) = f[1]
    BY <2>2, RootChild
  <2> HIDE DEF k
  <2>4. k \in Paths
    BY <2>3, DirFacts
  <2>5. b = k
    BY <1>2, <1>3, <2>2, <2>3, <2>4, OwnName
  <2> QED
    BY <2>3, <2>5 DEF b
<1>4. CASE d # <<>>
  <2>1. PICK c \in Categories : d = <<c>>
    BY <1>4, MetaKinds
  <2>2. c \in RootDirs /\ Len(d) = 1
    BY <2>1 DEF Categories
  <2>3. Len(f) > 1 /\ f[1] = c
    BY <2>1, <2>2, FileBelow
  <2>4. Len(d) + 1 = 2 /\ Len(f) > 2
    BY <2>2
  <2>5. SubSeq(f, 1, 2) \in Packages
    BY <2>1, <2>3, <2>4 DEF Packages
  <2> QED
    BY <2>4, <2>5, PackagesDeep
<1> QED
  BY <1>3, <1>4

LEMMA MetaFacts ==
  ASSUME AllOk, NEW d, NEW u, d \in MetaDirs, u = man[d].c
  PROVE  /\ u = Content(u) /\ u.whole
         /\ u.data = DataOf(tree, d, {}) /\ u.subs = SubsOf(man, d, {})
<1>1. d \in Dirs
  BY MetaKinds
<1>2. MetaOk(tree, man, d)
  BY <1>1 DEF AllOk, Ok
<1>3. man[d].c = Content(man[d].c)
  BY <1>1, ReadShape DEF AllOk
<1> QED
  BY <1>2, <1>3 DEF MetaOk, Partly

LEMMA MetaJoined ==
  ASSUME AllOk, NEW d, NEW u, d \in MetaDirs, u = man[d].c
  PROVE  Joined(d, u) /\ \A n \in SubDirs(d, u) : Referenced(d, u, n)
<1> DEFINE listed == {e[1][1] : e \in u.data \cup u.subs}
<1>0. d \in Paths /\ Len(d) \in Nat
  BY MetaKinds, PrefixFacts
<1>1. u.data = DataOf(tree, d, {}) /\ u.subs = SubsOf(man, d, {})
  BY MetaFacts
<1>2. FilesAt(tree, d, ListDir(d)) = {} /\ DirsAt(d, ListDir(d)) = {}
  BY MetaKinds, AllListed
<1>3. ASSUME NEW f, f \in FilesAt(tree, d, {}) PROVE Name(f) \in listed
  <2> DEFINE e == <<<<Name(f)>>, tree[f].c>>
  <2>1. e \in u.data
    BY <1>1, <1>3 DEF DataOf
  <2>2. e[1][1] = Name(f)
    OBVIOUS
  <2> HIDE DEF e
  <2> QED
    BY <2>1, <2>2
<1>4. ASSUME NEW k, k \in DirsAt(d, {}) PROVE Name(k) \in listed
  <2> DEFINE e == <<<<Name(k)>>, man[k].c>>
  <2>1. e \in u.subs
    BY <1>1, <1>4 DEF SubsOf
  <2>2. e[1][1] = Name(k)
    OBVIOUS
  <2> HIDE DEF e
  <2> QED
    BY <2>1, <2>2
<1>5. ListDir(d) \subseteq listed
  <2> SUFFICES ASSUME NEW f \in Below(d), Exists(f) \/ Len(f) > Len(d) + 1
               PROVE  f[Len(d) + 1] \in listed
    BY DEF ListDir
  <2>1. f \in Files /\ Prefix(d, f) /\ f \in Paths /\ Len(f) \in Nat /\ Len(d) < Len(f)
    BY <1>0, FileFacts DEF Below, Prefix
  <2>2. CASE Len(f) > Len(d) + 1
    <3> DEFINE b == SubSeq(f, 1, Len(d) + 1)
    <3>1. b \in Dirs /\ b # <<>> /\ Up(b) = d /\ Name(b) = f[Len(d) + 1]
      BY <1>0, <2>1, <2>2, MetaNext, NextDir
    <3> HIDE DEF b
    <3>2. b \in DirsAt(d, {})
      BY <3>1 DEF DirsAt
    <3> QED
      BY <1>4, <3>1, <3>2
  <2>3. CASE ~(Len(f) > Len(d) + 1)
    <3>1. Len(f) = Len(d) + 1 /\ Exists(f) /\ Len(f) - 1 = Len(d)
      BY <1>0, <2>1, <2>3
    <3>2. Up(f) = d /\ Name(f) = f[Len(d) + 1]
      BY <2>1, <3>1 DEF Up, Name, Prefix
    <3>3. f \in FilesAt(tree, d, {})
      BY <2>1, <3>1, <3>2 DEF FilesAt, Exists
    <3> QED
      BY <1>3, <3>2, <3>3
  <2> QED
    BY <2>2, <2>3
<1>6. ASSUME NEW e, e \in u.data
      PROVE  e[1][1] \in ListDir(d) /\ VerifyFile(d \o e[1], e[2])
  <2>1. PICK f \in FilesAt(tree, d, {}) : e = <<<<Name(f)>>, tree[f].c>>
    BY <1>1, <1>6 DEF DataOf
  <2>2. f \in Files /\ f = d \o <<Name(f)>>
    BY <1>0, FileAt
  <2>3. e[1] = <<Name(f)>> /\ e[2] = tree[f].c /\ e[1][1] = Name(f)
    BY <2>1
  <2>4. Name(f) \in ListDir(d)
    BY <1>2 DEF FilesAt
  <2>5. tree[f].c # Empty
    BY <2>2 DEF AllOk, Regular
  <2> QED
    BY <2>2, <2>3, <2>4, <2>5 DEF VerifyFile
<1>7. ASSUME NEW e, e \in u.subs
      PROVE  e[1][1] \in ListDir(d) /\ man[d \o e[1]].c = e[2]
  <2>1. PICK k \in DirsAt(d, {}) : e = <<<<Name(k)>>, man[k].c>>
    BY <1>1, <1>7 DEF SubsOf
  <2>2. k = d \o <<Name(k)>>
    BY <1>0, DirAt
  <2>3. e[1] = <<Name(k)>> /\ e[2] = man[k].c /\ e[1][1] = Name(k)
    BY <2>1
  <2>4. Name(k) \in ListDir(d)
    BY <1>2 DEF DirsAt
  <2> QED
    BY <2>2, <2>3, <2>4
<1>8. listed \subseteq ListDir(d)
  BY <1>6, <1>7
<1>9. Joined(d, u)
  BY <1>5, <1>6, <1>8 DEF Joined
<1>10. \A n : Referenced(d, u, n)
  BY <1>7 DEF Referenced
<1> QED
  BY <1>9, <1>10

\* A directory that has a Manifest is verified with that.
LEMMA OwnGood ==
  ASSUME AllOk, NEW k, k \in Dirs
  PROVE  Good(k, man[k].c)
<1>0. k \in Paths /\ man[k].c = Content(man[k].c) /\ Ok(tree, man, k)
  BY DirFacts, ReadShape DEF AllOk
<1>1. CASE k \in MetaDirs
  BY <1>1 DEF Good
<1>2. CASE k \in SubtreeDirs
  <2>1. PICK n \in Subtrees : k = <<n>>
    BY <1>2 DEF SubtreeDirs
  <2>2. n \in RootDirs
    BY TreeAssumption
  <2>3. ASSUME NEW d \in Dirs, Prefix(k, d) PROVE FALSE
    <3>1. d \in Paths /\ Len(k) = 1 /\ k[1] = n
      BY <2>1, <2>3, DirFacts
    <3>2. Len(k) < Len(d) /\ \A i \in 1 .. Len(k) : k[i] = d[i]
      BY <1>0, <2>3, <3>1, PrefixFacts
    <3>3. d[1] = n /\ Len(d) > 1
      <4>1. 1 \in 1 .. Len(k) /\ Len(d) \in Nat
        BY <1>0, <3>1, PrefixFacts
      <4> QED
        BY <3>1, <3>2, <4>1
    <3>4. d # <<>>
      BY <3>3, EmptyPath
    <3>5. d \in Packages
      <4> SUFFICES ASSUME d = <<d[1]>> PROVE FALSE
        BY <3>4, DirCases
      <4>1. Len(d) = 1
        OBVIOUS
      <4> QED
        BY <3>3, <4>1
    <3>6. n \in Categories
      BY <3>3, <3>5, PackageChild
    <3> QED
      BY <3>6 DEF Categories
  <2>4. SubtreeOk(tree, man, k)
    BY <1>0, <1>2 DEF Ok
  <2> QED
    BY <1>0, <2>3, <2>4 DEF SubtreeOk, Good, LeafGood
<1>3. CASE k \in Packages
  <2>1. PackageOk(tree, k, man[k].c, man[k].m)
    BY <1>0, <1>3 DEF Ok
  <2>2. Here(tree, k) = Under(k) /\ ListedIn(tree, k) = InManifest(k)
    BY DEF ListedIn, Here, Under, InManifest, Exists
  <2>3. ListedIn(tree, k) = Here(tree, k)
    BY <1>3, <2>2 DEF AllOk, Regular
  <2>4. ASSUME NEW d \in Dirs, Prefix(k, d) PROVE FALSE
    <3>1. d \in Paths /\ Len(k) = 2
      BY <1>3, DirFacts, PackageFacts
    <3>2. Len(k) < Len(d) /\ Len(d) \in Nat
      BY <1>0, <2>4, <3>1, PrefixFacts
    <3>4. ~(2 < 0) /\ ~(2 < 1) /\ ~(2 < 2) /\ 2 < Len(d)
      BY <3>1, <3>2
    <3>3. Len(d) = 0 \/ Len(d) = 1 \/ Len(d) = 2
      <4>1. d = <<>> \/ d \in Packages \/ \E n \in RootDirs : d = <<n>>
        BY DirFacts
      <4> QED
        BY <4>1, EmptyPath, PackageFacts
    <3> QED
      BY <3>3, <3>4, Zenon
  <2> QED
    BY <1>0, <2>1, <2>3, <2>4 DEF PackageOk, Good, LeafGood
<1> QED
  BY <1>1, <1>2, <1>3, KindOfDir

LEMMA GoodVerified ==
  ASSUME AllOk, NEW d, NEW u, d \in Paths, Good(d, u)
  PROVE  Joined(d, u) /\ \A n \in SubDirs(d, u) : Referenced(d, u, n)
BY LeafJoined, MetaJoined DEF Good, AllOk

LEMMA GoodGoverned ==
  ASSUME AllOk, NEW d, NEW u, NEW b, d \in Paths, b \in Paths, b # <<>>, Up(b) = d, Good(d, u),
         Name(b) \in SubDirs(d, u)
  PROVE  Good(b, Governing(d, u, Name(b)))
<1>1. CASE LeafGood(d, u)
  BY <1>1, LeafGoverned DEF Good
<1>2. CASE d \in MetaDirs /\ u = man[d].c
  <2>1. u.data = DataOf(tree, d, {}) /\ u.subs = SubsOf(man, d, {})
    BY <1>2, MetaFacts
  <2>2. \A e \in u.data : ~(Len(e[1]) > 1)
    <3> SUFFICES ASSUME NEW f \in FilesAt(tree, d, {}), NEW e, e = <<<<Name(f)>>, tree[f].c>>
                 PROVE  ~(Len(e[1]) > 1)
      BY <2>1 DEF DataOf
    <3>1. Len(e[1]) = 1
      OBVIOUS
    <3> QED
      BY <3>1
  <2>3. PICK e \in u.subs : e[1][1] = Name(b)
    BY <2>2 DEF SubDirs
  <2>4. PICK k \in DirsAt(d, {}) : e = <<<<Name(k)>>, man[k].c>>
    BY <2>1, <2>3 DEF SubsOf
  <2>5. e[1] = <<Name(k)>> /\ Name(k) = Name(b)
    BY <2>3, <2>4
  <2>0. k # <<>> /\ Up(k) = d
    BY DEF DirsAt
  <2>6. k \in Dirs /\ k \in Paths /\ k # <<>> /\ Up(k) = d /\ k = d \o <<Name(k)>>
    BY <2>0, DirAt
  <2>7. k = b
    BY <2>5, <2>6, OwnName
  <2>8. Governing(d, u, Name(b)) = man[b].c
    BY <2>3, <2>5, <2>6, <2>7 DEF Governing
  <2> QED
    BY <2>6, <2>7, <2>8, OwnGood
<1> QED
  BY <1>1, <1>2 DEF Good

\* All that is come to from a directory is verified.
LEMMA VerifiesBelow ==
  ASSUME AllOk, NEW dir, NEW m, dir \in Paths, dir # <<>>, Good(dir, m)
  PROVE  VerifyDir(dir, m)
<1> DEFINE W == Reached(dir, m)
           K == {k \in Nat : \E d \in DirsOf(dir) : Len(d) = k /\ \E u \in W[d] : ~Good(d, u)}
<1>1. W = [d \in DirsOf(dir) |-> With(W, dir, m, d)]
  BY ReachedFacts
<1>2. VerifyDir(dir, m) <=>
        \A d \in DOMAIN W : \A u \in W[d] :
          Joined(d, u) /\ \A n \in SubDirs(d, u) : Referenced(d, u, n)
  BY DEF VerifyDir
<1> HIDE DEF W
<1>3. \A d \in DirsOf(dir) : d \in Paths /\ Len(d) \in Nat
  BY UpFacts
<1>4. ASSUME NEW d \in DirsOf(dir), NEW u \in W[d],
             d # dir => \A x \in W[Up(d)] : Good(Up(d), x)
      PROVE  Good(d, u)
  <2>1. CASE d = dir
    BY <1>1, <1>4, <2>1 DEF With
  <2>2. CASE d # dir
    <3>1. Up(d) \in DirsOf(dir) /\ Up(d) \in Paths /\ d \in Paths /\ Len(Up(d)) = Len(d) - 1
          /\ Len(Up(d)) \in Nat /\ Len(d) \in Nat
      BY <2>2, UpFacts
    <3>2. d # <<>>
      BY <3>1, EmptyPath
    <3>3. W[d] = From(W[Up(d)], d)
      BY <1>1, <2>2 DEF With
    <3>4. PICK x \in W[Up(d)] : d[Len(d)] \in SubDirs(Up(d), x) /\ u = Governing(Up(d), x, d[Len(d)])
      BY <3>3 DEF From
    <3>5. Name(d) \in SubDirs(Up(d), x) /\ u = Governing(Up(d), x, Name(d))
      BY <3>4 DEF Name
    <3>6. Good(Up(d), x)
      BY <1>4, <2>2
    <3> QED
      BY <3>1, <3>2, <3>5, <3>6, GoodGoverned
  <2> QED
    BY <2>1, <2>2
<1>5. K = {}
  <2>1. SUFFICES ASSUME K # {} PROVE FALSE
    OBVIOUS
  <2>2. K \subseteq Nat
    OBVIOUS
  <2>3. \A k \in K : \E d \in DirsOf(dir) : Len(d) = k /\ \E u \in W[d] : ~Good(d, u)
    OBVIOUS
  <2>4. \A d \in DirsOf(dir) : Len(d) \notin K => \A u \in W[d] : Good(d, u)
    BY <1>3
  <2> HIDE DEF K
  <2>5. PICK k \in K : \A j \in K : ~(<<j, k>> \in OpToRel(<, Nat))
    BY <2>1, <2>2, NatLessThanWellFounded, WFMin
  <2>6. \A j \in Nat : j < k => j \notin K
    BY <2>2, <2>5 DEF OpToRel
  <2>7. PICK d \in DirsOf(dir) : Len(d) = k /\ \E u \in W[d] : ~Good(d, u)
    BY <2>3
  <2>8. ASSUME d # dir PROVE \A x \in W[Up(d)] : Good(Up(d), x)
    <3>1. Up(d) \in DirsOf(dir) /\ Len(Up(d)) = Len(d) - 1 /\ Len(Up(d)) \in Nat /\ Len(d) \in Nat
      BY <2>8, UpFacts
    <3>2. Len(Up(d)) < k
      BY <2>7, <3>1
    <3> QED
      BY <2>4, <2>6, <3>1, <3>2
  <2> QED
    BY <1>4, <2>7, <2>8
<1>6. \A d \in DirsOf(dir) : \A u \in W[d] : Good(d, u)
  <2> SUFFICES ASSUME NEW d \in DirsOf(dir), NEW u \in W[d], ~Good(d, u) PROVE FALSE
    OBVIOUS
  <2>1. Len(d) \in K
    BY <1>3
  <2> QED
    BY <1>5, <2>1
<1>7. DOMAIN W = DirsOf(dir)
  BY <1>1
<1> QED
  BY <1>2, <1>3, <1>6, <1>7, GoodVerified

LEMMA RootVerifies ==
  ASSUME AllOk
  PROVE  man[<<>>].c.whole /\ Joined(<<>>, man[<<>>].c)
<1> DEFINE b == <<>>
           m == man[b].c
<1>1. b \in MetaDirs
  BY DEF MetaDirs
<1> HIDE DEF b
<1>2. m.whole /\ Joined(b, m)
  BY <1>1, MetaFacts, MetaJoined
<1> QED
  BY <1>2 DEF b

LEMMA SubVerifies ==
  ASSUME AllOk, NEW n, NEW e, e \in man[<<>>].c.subs, e[1] = <<n>>
  PROVE  VerifySub(man[<<>>].c, n)
<1> DEFINE b == <<>>
           m == man[b].c
<1>1. b \in MetaDirs /\ b \in Paths
  BY EmptyPath DEF MetaDirs
<1>2. <<>> \o <<n>> = <<n>>
  BY Joining
<1>3. e \in m.subs
  OBVIOUS
<1>4. VerifySub(m, n) <=> Referenced(b, m, n) /\ VerifyDir(<<n>>, Governing(b, m, n))
  BY DEF VerifySub
<1>5. b \o <<n>> = <<n>>
  BY <1>2
<1> HIDE DEF b
<1>6. m.subs = SubsOf(man, b, {})
  BY <1>1, MetaFacts
<1>7. PICK k \in DirsAt(b, {}) : e = <<<<Name(k)>>, man[k].c>>
  BY <1>3, <1>6 DEF SubsOf
<1>8. k \in Dirs /\ k \in Paths /\ k = b \o <<Name(k)>>
  BY <1>1, DirAt
<1>9. k # <<>>
  BY DEF DirsAt
<1>10. k = <<n>>
  <2>1. <<Name(k)>> = <<n>>
    BY <1>7
  <2> QED
    BY <1>5, <1>8, <2>1
<1>11. Name(k) \in SubDirs(b, m)
  <2>1. e[1][1] = Name(k)
    BY <1>7
  <2>2. DirsAt(b, ListDir(b)) = {}
    BY <1>1, MetaKinds, AllListed
  <2>3. Name(k) \in ListDir(b)
    BY <2>2 DEF DirsAt
  <2> QED
    BY <1>3, <2>1, <2>3 DEF SubDirs
<1>12. Name(k) = n
  <2>1. <<Name(k)>> = <<n>>
    BY <1>7
  <2> QED
    BY <2>1
<1>13. Referenced(b, m, n)
  BY <1>1, <1>11, <1>12, MetaJoined
<1>14. Governing(b, m, n) = man[k].c
  BY <1>3, <1>5, <1>10 DEF Governing
<1>15. VerifyDir(k, man[k].c)
  BY <1>8, <1>9, OwnGood, VerifiesBelow
<1> QED
  BY <1>4, <1>10, <1>13, <1>14, <1>15 DEF b

-----------------------------------------------------------------------------
(* The steps of a verification of a tree as it was.                        *)

\* Nothing changed since the last generation, which finished, began.
Same ==
  /\ Regular /\ runs > 0 /\ before.runs = runs /\ man = before.man
  /\ \A f \in Files : tree[f].m <= before.began
Idle == \A t \in Threads : ver.th[t].at = "free"
SoundInv == pc \in {"verify", "verified"} /\ Same => ver.ret = 0 /\ Idle

LEMMA SameOk == ASSUME GInv, PastInv, Same PROVE AllOk /\ top = man[<<>>].c
<1>1. before.runs > 0
  BY DEF Same
<1>2. \A d \in Dirs : Still(tree, d, before.began)
  BY DEF Same, Still, Below
<1>3. \A d \in Dirs : Ok(tree, before.man, d)
  BY <1>1, <1>2 DEF PastInv, Made
<1> QED
  BY <1>1, <1>3 DEF Same, AllOk, PastInv, GInv, VInv, IInv

LEMMA VerifyRootSound == ASSUME GInv, PastInv, VerifyRoot PROVE SoundInv'
<1> SUFFICES ASSUME Same' PROVE ver'.ret = 0 /\ Idle'
  BY DEF SoundInv
<1>1. UNCHANGED <<tree, man, top, before, runs>>
  BY DEF VerifyRoot, ghosts, counts
<1>2. Regular' <=> Regular
  BY <1>1 DEF Regular, Under, InManifest, Exists
<1>3. Same
  BY <1>1, <1>2 DEF Same
<1>4. man[<<>>].c.whole /\ Joined(<<>>, man[<<>>].c) /\ top = man[<<>>].c
  BY <1>3, SameOk, RootVerifies
<1>5. \E wk, nx, tl : ver' = [NoVer EXCEPT !.ret = 0, !.work = wk, !.next = nx, !.tail = tl]
  BY <1>4 DEF VerifyRoot
<1>6. NoVer.th = [t \in Threads |-> [at |-> "free", sub |-> "", bad |-> 0, seen |-> 0]]
      /\ NoVer = [ret |-> 0, work |-> {}, next |-> {}, tail |-> "", th |-> NoVer.th]
  BY DEF NoVer
<1> DEFINE th == NoVer.th
<1> HIDE DEF th
<1>7. ver'.ret = 0 /\ ver'.th = th
  BY <1>5, <1>6 DEF th
<1>8. \A t \in Threads : th[t] = [at |-> "free", sub |-> "", bad |-> 0, seen |-> 0]
  BY <1>6 DEF th
<1>9. \A t \in Threads : th[t].at = "free"
  <2> SUFFICES ASSUME NEW t \in Threads PROVE th[t].at = "free"
    OBVIOUS
  <2>1. th[t] = [at |-> "free", sub |-> "", bad |-> 0, seen |-> 0]
    BY <1>8
  <2>2. [at |-> "free", sub |-> "", bad |-> 0, seen |-> 0].at = "free"
    OBVIOUS
  <2> QED
    BY <2>1, <2>2, Zenon
<1> QED
  BY <1>7, <1>9 DEF Idle

LEMMA TakeSound ==
  ASSUME GInv, PastInv, SoundInv, Same, NEW t, t \in Threads, Take(t)
  PROVE  ver'.ret = ver.ret /\ ver'.th = ver.th
<1> DEFINE ok(n) == VerifySub(man[<<>>].c, n)
           q(n) == IF ~Stores(n, ok(n)) THEN ver.th[t]
                   ELSE [at |-> IF ok(n) THEN "load" ELSE "link", sub |-> n,
                         bad |-> IF ok(n) THEN 0 ELSE 1, seen |-> 0]
<1>1. PICK n \in ver.work :
        ver' = [ver EXCEPT !.work = @ \ {n},
                  !.th[t] = IF ~Stores(n, ok(n)) THEN @
                            ELSE [at |-> IF ok(n) THEN "load" ELSE "link", sub |-> n,
                                  bad |-> IF ok(n) THEN 0 ELSE 1, seen |-> 0]]
  BY DEF Take
<1>2. PICK e \in man[<<>>].c.subs : e[1] = <<n>>
  BY DEF Take, GInv, VInv, VerifyInv
<1>3. ok(n)
  BY <1>2, SameOk, SubVerifies
<1>4. ~Stores(n, ok(n))
  BY <1>2, <1>3 DEF Stores
<1> HIDE DEF ok
<1>5. ver' = [ver EXCEPT !.work = @ \ {n}, !.th[t] = @]
  BY <1>1, <1>4
<1>6. ver = [ret |-> ver.ret, work |-> ver.work, next |-> ver.next, tail |-> ver.tail, th |-> ver.th]
      /\ ver.th = [o \in Threads |-> ver.th[o]]
  BY DEF GInv, VInv, VerShaped
<1>7. [ver.th EXCEPT ![t] = @] = ver.th
  BY <1>6
<1> QED
  BY <1>5, <1>6, <1>7

LEMMA SoundStep == ASSUME GInv, PastInv, SoundInv, [Next]_vars PROVE SoundInv'
<1>1. ASSUME UNCHANGED <<tree, man, before, runs>>, Same' PROVE Same
  <2>1. Regular' <=> Regular
    BY <1>1 DEF Regular, Under, InManifest, Exists
  <2> QED
    BY <1>1, <2>1 DEF Same
<1>2. ASSUME NEW t \in Threads, Take(t) PROVE SoundInv'
  <2>1. UNCHANGED <<tree, man, before, runs, pc>>
    BY <1>2 DEF Take, ghosts, counts
  <2> QED
    BY <1>1, <1>2, <2>1, TakeSound DEF SoundInv, Idle
<1>3. ASSUME NEW t \in Threads, Link(t) \/ Advance(t) \/ Load(t) \/ Store(t) PROVE SoundInv'
  <2>1. UNCHANGED <<tree, man, before, runs, pc>> /\ ver.th[t].at # "free"
    BY <1>3 DEF Link, Advance, Load, Store, ghosts, counts
  <2> QED
    BY <1>1, <2>1 DEF SoundInv, Idle
<1>4. CASE VerifyEnd \/ UNCHANGED vars
  <2>1. UNCHANGED <<tree, man, before, runs, ver>> /\ (pc' = pc \/ pc = "verify")
    BY <1>4 DEF VerifyEnd, ghosts, counts, vars
  <2> QED
    BY <1>1, <2>1 DEF SoundInv, Idle
<1>5. ASSUME pc' \notin {"verify", "verified"} PROVE SoundInv'
  BY <1>5 DEF SoundInv
<1>6. CASE Generator
  <2>1. pc' \notin {"verify", "verified"}
    BY <1>6 DEF Generator, Generate, RootFile, SubtreeOpen, SubtreeClose, CategoryOpen,
       CategoryFile, PackageWrite, PackageLoses, PackageRename, PackageTimes, PackageFails,
       CategoryClose, RootClose, TopOpen, TopWrite
  <2> QED
    BY <1>5, <2>1
<1>7. CASE Kill \/ (\E p \in Packages : AddDist(p)) \/ (\E f \in Files : Edit(f))
  <2>1. pc' \notin {"verify", "verified"}
    BY <1>7 DEF Kill, AddDist, Edit
  <2> QED
    BY <1>5, <2>1
<1> QED
  BY <1>2, <1>3, <1>4, <1>6, <1>7, VerifyRootSound DEF Next, Verifier

MInv == GInv /\ PastInv /\ SoundInv

LEMMA InitMInv == Init => MInv
<1>1. Init => pc = "idle"
  BY DEF Init
<1> QED
  BY <1>1, InitVInv, InitTimes, InitGen DEF MInv, GInv, SoundInv

LEMMA MStep == ASSUME MInv, [Next]_vars PROVE MInv'
BY VerifiedStep, TimesStep, GenStep, CutStep, PastStep, SoundStep DEF MInv, GInv

\* qmanifest: a tree of which no file was changed since the generation that finished last
\* began verifies, whatever was edited and killed before that, and the threads never
\* make ret anything but 0.
THEOREM GeneratedTrue == Spec => []GeneratedVerifies
<1>1. MInv => GeneratedVerifies
  BY DEF MInv, SoundInv, Same, GeneratedVerifies
<1>2. MInv /\ [Next]_vars => MInv'
  BY MStep
<1> QED
  BY <1>1, <1>2, InitMInv, PTL DEF Spec

-----------------------------------------------------------------------------
(* What did not change since the last generation is made again as it was.  *)

\* The last generation that finished is the last one, or the one before that runs and has
\* lost nothing yet.
Recent ==
  /\ before.runs > 0
  /\ before.runs = runs \/ (before.runs = runs - 1 /\ Generating /\ gen.short = {})

AsBefore(p) ==
  /\ (pc = "times" /\ gen.dir = p) \/ man[p] = before.man[p]
  /\ pc \in {"package", "times"} /\ gen.dir = p =>
       gen.new = before.man[p].c /\ gen.newtv = before.man[p].m
Untouched(p) == Still(tree, p, before.began) /\ man[p].c.dist = before.man[p].c.dist

\* The Manifest of a package is what it was, unless the same takes its place just now.
SameInv ==
  /\ Timed(before.man)
  /\ Recent => KeptIn(before.man, man) /\ \A p \in Packages : Untouched(p) => AsBefore(p)

LEMMA InitSame == Init => SameInv
<1> SUFFICES ASSUME Init PROVE SameInv
  OBVIOUS
<1>1. before.man = man /\ before.runs = 0
  BY DEF Init
<1>2. Timed(man)
  BY InitTimes DEF TimesInv
<1> QED
  BY <1>1, <1>2 DEF SameInv, KeptIn, Recent

\* No package's Manifest is worked on.
LEMMA SameAside ==
  ASSUME SameInv, UNCHANGED <<tree, before>>, Recent' => Recent,
         \A p \in Packages : man'[p] = man[p], pc # "times", pc' \notin {"package", "times"}
  PROVE  SameInv'
BY DEF SameInv, KeptIn, Untouched, AsBefore, Still

LEMMA KeptFurther ==
  ASSUME NEW m0, NEW m1, NEW m2, KeptIn(m0, m1), KeptIn(m1, m2)
  PROVE  KeptIn(m0, m2)
BY DEF KeptIn

\* A generation ends without a result.
LEMMA SameEnded ==
  ASSUME SameInv, before' = before, ~Recent'
  PROVE  SameInv'
BY DEF SameInv

LEMMA StillRecent ==
  ASSUME TimesInv, before' = before, runs' = runs, Generating,
         Generating' /\ gen'.short = {} => gen.short = {}
  PROVE  Recent' => Recent /\ gen.short = {}
BY DEF Recent, TimesInv

LEMMA GenerateSame == ASSUME GInv, SameInv, Generate PROVE SameInv'
<1> USE DEF GInv, VInv
<1> DEFINE b == <<>>
           r == [c |-> Nothing, m |-> clock']
<1>1. /\ Has(man, man', b, r) /\ pc = "idle" /\ pc' = "root" /\ runs' = runs + 1
      /\ UNCHANGED <<tree, before>>
  BY GenerateEffect
<1> HIDE DEF r
<1>2. b \notin Packages
  BY ShallowDirs
<1> HIDE DEF b
<1>3. \A p \in Packages : man'[p] = man[p]
  BY <1>1, <1>2, PackagesDeep DEF Has
<1>4. Recent' => Recent
  BY <1>1 DEF Recent, TimesInv
<1> QED
  BY <1>1, <1>3, <1>4, SameAside

\* The Manifests of the root, the subtrees and the categories.
LEMMA OthersSame ==
  ASSUME GInv, SameInv, RootFile \/ SubtreeOpen \/ SubtreeClose \/ CategoryOpen \/ CategoryFile
                        \/ CategoryClose \/ RootClose
  PROVE  SameInv'
<1> USE DEF GInv, VInv
<1>1. /\ Generating /\ pc # "times" /\ pc' \notin {"package", "times"}
      /\ UNCHANGED <<tree, before, runs>>
  BY RootFileEffect, SubtreeOpenEffect, SubtreeCloseEffect, CategoryOpenEffect,
     CategoryFileEffect, CategoryCloseEffect, RootCloseEffect DEF Generating, InCategory, counts
<1>0. Generating' => gen'.short = gen.short
  <2>1. CASE CategoryClose
    <3>1. (GenKept(gen, gen') /\ pc' = "root") \/ pc' = "idle"
      BY <2>1, CategoryCloseEffect
    <3> QED
      BY <3>1 DEF GenKept, SpoiltKept, Generating, InCategory, Finished
  <2> QED
    BY <2>1, RootFileEffect, SubtreeOpenEffect, SubtreeCloseEffect, CategoryOpenEffect,
       CategoryFileEffect, RootCloseEffect DEF GenKept, SpoiltKept
<1>2. \A p \in Packages : p \in Dirs /\ p # <<>> /\ \A n : p # <<n>>
  BY PackagesDeep, ShallowDirs
<1>3. \A p \in Packages : man'[p] = man[p]
  <2>1. CASE RootFile
    <3>1. \E x : HasData(man, man', <<>>, x)
      BY <2>1, RootFileEffect
    <3> QED
      BY <1>2, <3>1 DEF HasData
  <2>2. CASE SubtreeOpen \/ CategoryOpen
    <3>1. \E n, r : Has(man, man', <<n>>, r)
      BY <2>2, SubtreeOpenEffect, CategoryOpenEffect
    <3> QED
      BY <1>2, <3>1 DEF Has
  <2>3. CASE SubtreeClose
    <3>1. \E n, r : Enters(man, man', <<>>, <<n>>, r)
      BY <2>3, SubtreeCloseEffect
    <3> QED
      BY <1>2, <3>1 DEF Enters
  <2>4. CASE CategoryFile
    <3>1. \E n, x : HasData(man, man', <<n>>, x)
      BY <2>4, CategoryFileEffect
    <3> QED
      BY <1>2, <3>1 DEF HasData
  <2>5. CASE CategoryClose
    <3>1. \E n, r : Enters(man, man', <<>>, <<n>>, r) \/ Has(man, man', <<n>>, r)
      BY <2>5, CategoryCloseEffect
    <3> QED
      BY <1>2, <3>1 DEF Enters, Has
  <2>6. CASE RootClose
    <3>1. \E r : Has(man, man', <<>>, r)
      BY <2>6, RootCloseEffect
    <3> QED
      BY <1>2, <3>1 DEF Has
  <2> QED
    BY <2>1, <2>2, <2>3, <2>4, <2>5, <2>6
<1> QED
  BY <1>0, <1>1, <1>3, SameAside, StillRecent

LEMMA PackageWriteSame == ASSUME GInv, PastInv, SameInv, PackageWrite PROVE SameInv'
<1> USE DEF GInv, VInv
<1>1. PICK p \in Packages :
        /\ gen'.dir = p
        /\ gen'.new.data = EntriesOf(tree, p, ListedIn(tree, p)) /\ gen'.new.subs = {}
        /\ gen'.new.dist = man[p].c.dist /\ gen'.new.whole
        /\ gen'.newtv = Greater(man[p].m, Newest(tree, ListedIn(tree, p)))
  BY PackageWriteEffect
<1>2. /\ pc = "category" /\ pc' = "package" /\ man' = man
      /\ UNCHANGED <<tree, before, runs>> /\ gen'.short = gen.short
  BY PackageWriteEffect DEF counts, SpoiltKept
<1>3. Recent' => Recent
  BY <1>2, StillRecent DEF Generating, InCategory
<1>4. gen'.new = Content(gen'.new)
  BY <1>2, PackageWriteStep DEF IInv, Copied
<1>5. ASSUME Recent, Untouched(p) PROVE gen'.new = before.man[p].c /\ gen'.newtv = before.man[p].m
  <2>1. p \in Dirs /\ before.runs > 0 /\ man[p] = before.man[p]
    BY <1>2, <1>5, PackagesDeep DEF SameInv, AsBefore, Recent
  <2>2. Ok(tree, before.man, p) /\ ManShaped(before.man)
    BY <1>5, <2>1 DEF PastInv, Made, Untouched
  <2> DEFINE u == before.man[p].c
             t == before.man[p].m
             S == ListedIn(tree, p)
             v == Newest(tree, S)
  <2>3. /\ u.data = EntriesOf(tree, p, S) /\ u.subs = {} /\ u.whole
        /\ \A y \in TimesOf(tree, S) : y <= t
    BY <2>2 DEF Ok, PackageOk
  <2>4. u = Content(u)
    <3>1. Record(before.man[p])
      BY <2>1, <2>2 DEF ManShaped
    <3> QED
      BY <3>1 DEF Record, Content
  <2>5. gen'.new = u
    BY <1>1, <1>4, <2>1, <2>3, <2>4 DEF Content, IInv, Shaped, ManShaped, Record
  <2>6. t \in Nat
    BY <2>1 DEF SameInv, Timed
  <2>7. S \in SUBSET Files
    BY DEF ListedIn, Here, Below
  <2>8. v \in Nat /\ IsGreatest(v, {0} \cup TimesOf(tree, S))
    BY <2>7, TreeBounded, LatestIs DEF Newest
  <2>9. gen'.newtv = Greater(t, v)
    BY <1>1, <2>1
  <2>10. v <= t
    BY <2>3, <2>6, <2>8 DEF IsGreatest
  <2> HIDE DEF u, t, v, S
  <2>11. gen'.newtv = t
    BY <2>6, <2>8, <2>9, <2>10, GreaterNat
  <2> QED
    BY <2>5, <2>11 DEF u, t
<1>6. \A q \in Packages : Untouched(q)' <=> Untouched(q)
  BY <1>2 DEF Untouched, Still
<1>7. ASSUME Recent, NEW q \in Packages, Untouched(q) PROVE AsBefore(q)'
  <2>1. man'[q] = before'.man[q]
    BY <1>2, <1>7 DEF SameInv, AsBefore
  <2> QED
    BY <1>1, <1>2, <1>5, <1>7, <2>1 DEF AsBefore
<1> QED
  BY <1>2, <1>3, <1>6, <1>7 DEF SameInv, KeptIn

LEMMA PackageLosesSame == ASSUME GInv, SameInv, PackageLoses PROVE SameInv'
<1>1. gen'.short # {} /\ pc = "package" /\ UNCHANGED <<before, runs>>
  BY PackageLosesEffect DEF GInv, VInv
<1>2. before.runs < runs /\ before.runs \in Nat /\ runs \in Nat
  BY <1>1 DEF GInv, TimesInv, Generating, InCategory
<1>3. ~Recent'
  BY <1>1, <1>2 DEF Recent
<1> QED
  BY <1>1, <1>3, SameEnded

LEMMA PackageRenameSame == ASSUME GInv, SameInv, PackageRename PROVE SameInv'
<1> USE DEF GInv, VInv
<1> DEFINE d == gen.dir
           r == [c |-> gen.new, m |-> clock]
<1>1. /\ d \in Packages /\ Has(man, man', d, r) /\ pc = "package" /\ pc' = "times"
      /\ UNCHANGED <<tree, gen, before, runs>>
  BY PackageRenameEffect DEF counts
<1>2. Recent' => Recent /\ gen.short = {}
  BY <1>1, StillRecent DEF Generating, InCategory
<1>3. SUFFICES ASSUME Recent, gen.short = {}
               PROVE  /\ KeptIn(before.man, man')
                      /\ \A p \in Packages : Untouched(p)' => AsBefore(p)'
  BY <1>1, <1>2 DEF SameInv
<1>8. KeptIn(before.man, man')
  <2>1. KeptIn(man, man')
    BY <1>3, PackageRenameStep DEF KeptIn, Keeps, Lost
  <2> QED
    BY <1>3, <2>1, KeptFurther DEF SameInv
<1>4. gen.new.dist = man[d].c.dist
  BY <1>1, <1>3 DEF IInv, Copied
<1>5. \A p \in Packages : p \in Dirs
  BY PackagesDeep
<1>6. man'[d].c.dist = man[d].c.dist
  BY <1>1, <1>4 DEF Has
<1> HIDE DEF r
<1>7. ASSUME NEW p \in Packages, Untouched(p)' PROVE AsBefore(p)'
  <2>1. Untouched(p)
    BY <1>1, <1>5, <1>6, <1>7 DEF Untouched, Still, Has
  <2>2. AsBefore(p) /\ man[p] = before.man[p]
    BY <1>1, <1>3, <2>1 DEF SameInv, AsBefore
  <2>3. p # d => man'[p] = man[p]
    BY <1>1, <1>5 DEF Has
  <2> QED
    BY <1>1, <2>2, <2>3 DEF AsBefore
<1> QED
  BY <1>7, <1>8

LEMMA PackageTimesSame == ASSUME GInv, PastInv, SameInv, PackageTimes PROVE SameInv'
<1> USE DEF GInv, VInv
<1> DEFINE d == gen.dir
<1>1. /\ d \in Packages /\ pc = "times" /\ pc' = "category" /\ UNCHANGED <<tree, before, runs>>
      /\ gen'.short = gen.short
      /\ \E r : r.c = gen.new /\ r.m = TimeOr(gen.newtv) /\ Enters(man, man', Up(d), d, r)
  BY PackageTimesEffect DEF counts, GenKept, SpoiltKept
<1>2. PICK r : r.c = gen.new /\ r.m = TimeOr(gen.newtv) /\ Enters(man, man', Up(d), d, r)
  BY <1>1
<1>3. Recent' => Recent
  BY <1>1, StillRecent DEF Generating, InCategory
<1>4. Recent => KeptIn(before.man, man')
  BY PackageTimesStep, KeptFurther DEF SameInv
<1>5. d \in Dirs /\ Up(d) = <<d[1]>>
  BY <1>1, PackageChild
<1>6. \A p \in Packages : p \in Dirs /\ p # Up(d)
  BY <1>5, PackagesDeep, ShallowDirs
<1>7. \A p \in Packages : p # d => man'[p] = man[p]
  BY <1>2, <1>6 DEF Enters
<1>8. man'[d] = r
  BY <1>2 DEF Enters
<1>9. gen.new.dist = man[d].c.dist
  BY <1>1 DEF IInv, Copied
<1>10. \A p \in Packages : man'[p].c.dist = man[p].c.dist
  BY <1>2, <1>7, <1>8, <1>9
<1>11. ManShaped(man')
  BY PackageTimesStep DEF IInv, Shaped
<1>12. ASSUME Recent, NEW p \in Packages, Untouched(p)' PROVE man'[p] = before.man[p]
  <2>1. Untouched(p) /\ AsBefore(p)
    BY <1>1, <1>10, <1>12 DEF Untouched, Still, SameInv
  <2>2. CASE p # d
    BY <1>7, <2>1, <2>2 DEF AsBefore
  <2>3. CASE p = d
    <3>1. gen.new = before.man[d].c /\ gen.newtv = before.man[d].m
      BY <1>1, <2>1, <2>3 DEF AsBefore
    <3>2. before.man[d].m \in Nat \ {0}
      BY <1>5 DEF SameInv, Timed
    <3>3. r.c = before.man[d].c /\ r.m = before.man[d].m
      BY <1>2, <3>1, <3>2 DEF TimeOr
    <3>4. Record(before.man[d]) /\ Record(man'[d])
      BY <1>5, <1>11, <1>12 DEF PastInv, ManShaped, Recent
    <3> QED
      BY <1>8, <2>3, <3>3, <3>4 DEF Record
  <2> QED
    BY <2>2, <2>3
<1> QED
  BY <1>1, <1>3, <1>4, <1>12 DEF SameInv, AsBefore

LEMMA PackageFailsSame == ASSUME GInv, SameInv, PackageFails PROVE SameInv'
<1>1. /\ pc = "package" /\ pc' = "category" /\ man' = man /\ UNCHANGED <<tree, before, runs>>
      /\ gen'.short = gen.short
  BY PackageFailsEffect DEF GInv, VInv
<1>2. Recent' => Recent
  BY <1>1, StillRecent DEF Generating, InCategory, GInv
<1> QED
  BY <1>1, <1>2, SameAside

LEMMA TopSame == ASSUME GInv, SameInv, TopOpen \/ TopWrite PROVE SameInv'
<1>1. CASE TopOpen
  <2>1. pc = "close" /\ pc' = "top" /\ UNCHANGED <<tree, man, gen, before, runs>>
    BY <1>1 DEF TopOpen, ghosts, counts
  <2>2. Recent' => Recent
    BY <2>1, StillRecent DEF Generating, Finished, GInv
  <2> QED
    BY <2>1, <2>2, SameAside
<1>2. CASE TopWrite /\ gen.short = {}
  <2>1. before'.man = man /\ man' = man /\ pc' = "idle"
    BY <1>2 DEF TopWrite
  <2>2. Timed(man)
    BY DEF GInv, TimesInv
  <2> QED
    BY <2>1, <2>2 DEF SameInv, KeptIn, AsBefore
<1>3. CASE TopWrite /\ gen.short # {}
  <2>1. pc = "top" /\ pc' = "idle" /\ UNCHANGED <<before, runs>>
    BY <1>3 DEF TopWrite, counts
  <2>2. before.runs < runs /\ before.runs \in Nat /\ runs \in Nat
    BY <2>1 DEF GInv, TimesInv, Generating, Finished
  <2>3. ~Recent'
    BY <2>1, <2>2 DEF Recent, Generating, InCategory, Finished
  <2> QED
    BY <2>1, <2>3, SameEnded
<1> QED
  BY <1>1, <1>2, <1>3

LEMMA AddDistSame == ASSUME GInv, SameInv, NEW p, p \in Packages, AddDist(p) PROVE SameInv'
<1> USE DEF GInv, VInv
<1>1. /\ pc = "idle" /\ pc' = "idle" /\ UNCHANGED <<tree, runs, before, gen>>
      /\ \E r : /\ Has(man, man', p, r) /\ r.c.dist = man[p].c.dist \cup {"new"}
                /\ "new" \notin man[p].c.dist
  BY AddDistEffect
<1>2. PICK r : /\ Has(man, man', p, r) /\ r.c.dist = man[p].c.dist \cup {"new"}
               /\ "new" \notin man[p].c.dist
  BY <1>1
<1>3. Recent' => Recent
  BY <1>1 DEF Recent, Generating, InCategory, Finished
<1>4. Recent => KeptIn(before.man, man')
  BY AddDistStep, KeptFurther DEF SameInv
<1>5. \A q \in Packages : q # p => man'[q] = man[q]
  BY <1>2, PackagesDeep DEF Has
<1>6. ASSUME Recent PROVE man'[p].c.dist # before.man[p].c.dist
  <2>1. "new" \notin before.man[p].c.dist
    BY <1>2, <1>6 DEF SameInv, KeptIn
  <2>2. "new" \in man'[p].c.dist
    BY <1>2 DEF Has
  <2> QED
    BY <2>1, <2>2
<1>7. ASSUME Recent, NEW q \in Packages, Untouched(q)' PROVE AsBefore(q)'
  <2>1. q # p
    BY <1>1, <1>6, <1>7 DEF Untouched
  <2>2. Untouched(q)
    BY <1>1, <1>5, <1>7, <2>1 DEF Untouched, Still
  <2>3. man[q] = before.man[q]
    BY <1>1, <1>7, <2>2 DEF SameInv, AsBefore
  <2> QED
    BY <1>1, <1>5, <2>1, <2>3 DEF AsBefore
<1> QED
  BY <1>1, <1>3, <1>4, <1>7 DEF SameInv

LEMMA EditSame == ASSUME GInv, SameInv, NEW f, f \in Files, Edit(f) PROVE SameInv'
<1>1. UNCHANGED <<man, pc, gen, runs, before>>
  BY EditEffect DEF GInv
<1>2. before.began \in Nat /\ before.began <= clock /\ TimesInv
  BY DEF GInv, TimesInv
<1>3. \A d : Still(tree', d, before.began) => Still(tree, d, before.began)
  BY <1>2, EditStill
<1>4. Recent' <=> Recent
  BY <1>1 DEF Recent, Generating, InCategory, Finished
<1>5. \A p \in Packages : (Untouched(p)' => Untouched(p)) /\ (AsBefore(p)' <=> AsBefore(p))
  BY <1>1, <1>3 DEF Untouched, AsBefore
<1> QED
  BY <1>1, <1>4, <1>5 DEF SameInv

\* A run generates or verifies, or there is none.
PcInv == pc \in {"idle", "verify", "verified"} \/ Generating

LEMMA PcStep == ASSUME PcInv, [Next]_vars PROVE PcInv'
<1> USE DEF PcInv, Generating, InCategory, Finished
<1>1. CASE Generator
  BY <1>1 DEF Generator, Generate, RootFile, SubtreeOpen, SubtreeClose, CategoryOpen,
     CategoryFile, PackageWrite, PackageLoses, PackageRename, PackageTimes, PackageFails,
     CategoryClose, RootClose, TopOpen, TopWrite
<1>2. CASE Verifier
  BY <1>2 DEF Verifier, VerifyRoot, VerifyEnd, Take, Link, Advance, Load, Store
<1>3. CASE Kill \/ (\E p \in Packages : AddDist(p)) \/ (\E f \in Files : Edit(f))
           \/ UNCHANGED vars
  BY <1>3 DEF Kill, AddDist, Edit, vars
<1> QED
  BY <1>1, <1>2, <1>3 DEF Next

LEMMA SameStep == ASSUME GInv, PastInv, PcInv, SameInv, [Next]_vars PROVE SameInv'
<1>0. TimesInv
  BY DEF GInv
<1>1. CASE Generator
  BY <1>1, GenerateSame, OthersSame, PackageWriteSame, PackageLosesSame, PackageRenameSame,
     PackageTimesSame, PackageFailsSame, TopSame DEF Generator
<1>2. CASE Verifier
  <2>1. CASE VerifyRoot \/ VerifyEnd
    <3>1. /\ pc # "times" /\ pc' \notin {"package", "times", "root", "category", "close", "top"}
          /\ UNCHANGED <<tree, man, before, runs>>
      BY <2>1 DEF VerifyRoot, VerifyEnd, ghosts, counts
    <3>2. Recent' => Recent
      BY <3>1 DEF Recent, Generating, InCategory, Finished
    <3> QED
      BY <3>1, <3>2, SameAside
  <2>2. ASSUME NEW t \in Threads, Take(t) \/ Link(t) \/ Advance(t) \/ Load(t) \/ Store(t)
        PROVE  UNCHANGED <<tree, man, gen, pc, before, runs>>
    BY <2>2 DEF Take, Link, Advance, Load, Store, ghosts, counts
  <2>3. CASE UNCHANGED <<tree, man, gen, pc, before, runs>>
    BY <2>3 DEF SameInv, Recent, Generating, InCategory, Finished, Untouched, Still, AsBefore
  <2> QED
    BY <1>2, <2>1, <2>2, <2>3 DEF Verifier
<1>3. CASE Kill
  <2>1. Generating /\ pc' = "idle" /\ UNCHANGED <<before, runs>>
    BY <1>3 DEF Kill, PcInv, ghosts
  <2>2. before.runs < runs /\ before.runs \in Nat /\ runs \in Nat
    BY <1>0, <2>1 DEF TimesInv
  <2>3. ~Recent'
    BY <2>1, <2>2 DEF Recent, Generating, InCategory, Finished
  <2> QED
    BY <2>1, <2>3, SameEnded
<1>4. CASE UNCHANGED vars
  BY <1>4 DEF vars, SameInv, Recent, Generating, InCategory, Finished, Untouched, Still, AsBefore
<1> QED
  BY <1>1, <1>2, <1>3, <1>4, AddDistSame, EditSame DEF Next

-----------------------------------------------------------------------------
(* The Manifests of what is above packages.                                *)

LEMMA GreatestUnique ==
  ASSUME NEW S, NEW v, NEW w, S \in SUBSET Nat, IsGreatest(v, S), IsGreatest(w, S)
  PROVE  v = w
<1>1. v \in Nat /\ w \in Nat /\ v <= w /\ w <= v
  BY DEF IsGreatest
<1> QED
  BY <1>1

\* A Manifest is equal if its parts are.
LEMMA RecordEqual ==
  ASSUME NEW m0, NEW m1, NEW d, ManShaped(m0), ManShaped(m1), d \in Dirs,
         m1[d].c.data = m0[d].c.data, m1[d].c.subs = m0[d].c.subs, m1[d].c.dist = m0[d].c.dist,
         m1[d].c.whole = m0[d].c.whole, m1[d].m = m0[d].m
  PROVE  m1[d] = m0[d]
<1>1. Record(m0[d]) /\ Record(m1[d])
  BY DEF ManShaped
<1>2. Content(m0[d].c) = Content(m1[d].c)
  BY DEF Content
<1> QED
  BY <1>1, <1>2 DEF Record

\* A directory above a package, or above a file that is there, has a time to take.
LEMMA TimeThere ==
  ASSUME TimesInv, NEW mn, NEW d, Timed(mn), d \in MetaDirs, HasTime(d)
  PROVE  \E y \in LatestOf(tree, mn, d, {}) : y \in Nat /\ y # 0
<1>1. d \in Paths /\ d \notin Packages /\ Len(d) \in Nat
  BY MetaKinds, KindOfDir, PrefixFacts
<1>2. PICK f \in Files : Prefix(d, f) /\ (Exists(f) \/ Len(f) > Len(d) + 1)
  <2>1. CASE Under(d) # {}
    BY <2>1 DEF Under, Below
  <2>2. ASSUME NEW p \in Packages, Prefix(d, p) PROVE \E f \in Files : Prefix(d, f) /\ Len(f) > Len(d) + 1
    <3>1. p \in Paths /\ \E g \in Files : Prefix(p, g)
      BY PackageFacts
    <3>2. PICK g \in Files : Prefix(p, g)
      BY <3>1
    <3>3. g \in Paths
      BY FileFacts
    <3>4. Prefix(d, g)
      BY <1>1, <2>2, <3>1, <3>2, <3>3, PrefixChain
    <3>5. Len(d) < Len(p) /\ Len(p) < Len(g) /\ Len(p) \in Nat /\ Len(g) \in Nat
      BY <1>1, <2>2, <3>1, <3>2, <3>3, PrefixFacts
    <3>6. Len(g) > Len(d) + 1
      BY <1>1, <3>5
    <3> QED
      BY <3>4, <3>6
  <2> QED
    BY <1>1, <2>1, <2>2 DEF HasTime
<1>3. f \in Paths /\ Len(f) \in Nat /\ Len(d) < Len(f)
  BY <1>1, <1>2, FileFacts, PrefixFacts
<1>4. CASE Len(f) > Len(d) + 1
  <2> DEFINE b == SubSeq(f, 1, Len(d) + 1)
  <2>1. b \in Dirs /\ b # <<>> /\ Up(b) = d
    BY <1>1, <1>2, <1>4, MetaNext, NextDir
  <2> HIDE DEF b
  <2>2. b \in DirsAt(d, {})
    BY <2>1 DEF DirsAt
  <2>3. mn[b].m \in Nat \ {0}
    BY <2>1 DEF Timed
  <2> QED
    BY <2>2, <2>3 DEF LatestOf
<1>5. CASE ~(Len(f) > Len(d) + 1)
  <2>1. Len(f) - 1 = Len(d) /\ Exists(f)
    BY <1>1, <1>2, <1>3, <1>5
  <2>2. Up(f) = d
    BY <1>2, <2>1 DEF Up, Prefix
  <2>3. f \in FilesAt(tree, d, {})
    BY <2>1, <2>2 DEF FilesAt, Exists
  <2>4. tree[f].m \in Nat /\ tree[f].m # 0
    BY DEF TimesInv
  <2> QED
    BY <2>3, <2>4 DEF LatestOf, TimesOf
<1> QED
  BY <1>4, <1>5

\* Of the same directories the same is made.
LEMMA MetaAgain ==
  ASSUME TimesInv, NEW m0, NEW m1, NEW d, ManShaped(m0), ManShaped(m1), Timed(m0),
         d \in MetaDirs, HasTime(d), MetaOk(tree, m0, d), MetaOk(tree, m1, d),
         \A k \in DirsAt(d, {}) : m1[k] = m0[k]
  PROVE  m1[d] = m0[d]
<1>1. SubsOf(m1, d, {}) = SubsOf(m0, d, {})
  BY DEF SubsOf
<1>2. LatestOf(tree, m1, d, {}) = LatestOf(tree, m0, d, {})
  BY DEF LatestOf
<1>3. PICK v : Partly(tree, m0, d, {}, v) /\ (v # 0 => m0[d].m = v)
  BY DEF MetaOk
<1>4. PICK w : Partly(tree, m1, d, {}, w) /\ (w # 0 => m1[d].m = w)
  BY DEF MetaOk
<1> DEFINE S == LatestOf(tree, m0, d, {})
<1>5. S \in SUBSET Nat
  BY TreeBounded, LatestTyped
<1>6. IsGreatest(v, S) /\ IsGreatest(w, S)
  BY <1>2, <1>3, <1>4 DEF Partly
<1>7. \E y \in S : y \in Nat /\ y # 0
  BY TimeThere
<1> HIDE DEF S
<1>8. v = w /\ v # 0
  <2>1. v = w
    BY <1>5, <1>6, GreatestUnique
  <2>2. v \in Nat /\ \A y \in S : y <= v
    BY <1>5, <1>6 DEF IsGreatest
  <2>3. v # 0
    BY <1>7, <2>2
  <2> QED
    BY <2>1, <2>3
<1>9. m1[d].m = m0[d].m
  BY <1>3, <1>4, <1>8
<1>10. /\ m1[d].c.data = m0[d].c.data /\ m1[d].c.subs = m0[d].c.subs
       /\ m1[d].c.dist = m0[d].c.dist
  BY <1>1, <1>3, <1>4 DEF Partly
<1>11. d \in Dirs /\ m1[d].c.whole = m0[d].c.whole
  BY MetaKinds DEF MetaOk
<1> QED
  BY <1>9, <1>10, <1>11, RecordEqual

LEMMA SubtreeAgain ==
  ASSUME TimesInv, NEW m0, NEW m1, NEW d, ManShaped(m0), ManShaped(m1), d \in SubtreeDirs,
         HasTime(d), SubtreeOk(tree, m0, d), SubtreeOk(tree, m1, d)
  PROVE  m1[d] = m0[d]
<1>1. d \in Dirs /\ d \in Paths /\ d \notin Packages
  BY KindOfDir, DirFacts
<1>2. PICK n \in Subtrees : d = <<n>>
  BY DEF SubtreeDirs
<1>3. n \in RootDirs /\ Len(d) = 1 /\ d[1] = n
  BY <1>2, TreeAssumption
<1>4. ASSUME NEW p \in Packages, Prefix(d, p) PROVE FALSE
  <2>1. p \in Paths
    BY PackageFacts
  <2>2. \A i \in 1 .. Len(d) : d[i] = p[i]
    BY <1>1, <1>4, <2>1, PrefixFacts
  <2>3. p[1] = n
    <3>1. 1 \in 1 .. Len(d)
      BY <1>3
    <3> QED
      BY <1>3, <2>2, <3>1
  <2>4. p[1] \in Categories
    BY PackageChild
  <2> QED
    BY <2>3, <2>4 DEF Categories
<1>5. Here(tree, d) # {}
  BY <1>1, <1>4 DEF HasTime, Under, Here, Exists
<1> DEFINE S == TimesOf(tree, Here(tree, d))
<1>6. IsGreatest(m0[d].m, S) /\ IsGreatest(m1[d].m, S)
  BY <1>5 DEF SubtreeOk
<1>7. S \in SUBSET Nat
  BY DEF TimesOf, Here, Below, TimesInv
<1> HIDE DEF S
<1>8. m1[d].m = m0[d].m
  BY <1>6, <1>7, GreatestUnique
<1>9. /\ m1[d].c.data = m0[d].c.data /\ m1[d].c.subs = m0[d].c.subs
      /\ m1[d].c.dist = m0[d].c.dist /\ m1[d].c.whole = m0[d].c.whole
  BY DEF SubtreeOk
<1> QED
  BY <1>1, <1>8, <1>9, RecordEqual

-----------------------------------------------------------------------------
(* A generation that finishes.                                             *)

Changeless(d) ==
  /\ Still(tree, d, before.began)
  /\ \A p \in Packages : SubSeq(p, 1, Len(d)) = d => man[p].c.dist = before.man[p].c.dist
  /\ \A b \in Dirs : d = b \/ Prefix(d, b) => HasTime(b)

LEMMA ChangelessBelow ==
  ASSUME NEW d, NEW k, d \in Dirs, k \in Dirs, k # <<>>, Up(k) = d, Changeless(d)
  PROVE  Changeless(k)
<1>1. d \in Paths /\ k \in Paths /\ k = d \o <<Name(k)>>
  BY DirFacts, NameOf
<1>2. Prefix(d, k) /\ Len(k) = Len(d) + 1 /\ Len(d) \in Nat /\ Len(k) \in Nat
  <2>1. Prefix(d, k) /\ Len(k) = Len(d) + 1
    BY <1>1, NameIn
  <2> QED
    BY <1>1, <2>1, PrefixFacts
<1>3. ASSUME NEW f \in Below(k) PROVE f \in Below(d)
  <2>1. f \in Files /\ f \in Paths /\ Prefix(k, f)
    BY FileFacts DEF Below
  <2>2. Prefix(d, f)
    BY <1>1, <1>2, <2>1, PrefixChain
  <2> QED
    BY <2>1, <2>2 DEF Below
<1>4. ASSUME NEW p \in Packages, SubSeq(p, 1, Len(k)) = k PROVE SubSeq(p, 1, Len(d)) = d
  <2>1. p \in Paths /\ Len(p) = 2
    BY PackageFacts
  <2>2. Len(k) <= 2
    <3>1. k \in Packages \/ \E n \in RootDirs : k = <<n>>
      BY DirFacts DEF Dirs
    <3>2. ASSUME NEW n, k = <<n>> PROVE Len(k) = 1
      BY <3>2
    <3>3. Len(k) = 1 \/ Len(k) = 2
      BY <3>1, <3>2, PackageFacts, Zenon
    <3> QED
      BY <1>2, <3>3
  <2> DEFINE j == Len(d)
  <2>3. j \in Nat /\ j < Len(p) /\ Len(k) = j + 1
    BY <1>2, <2>1, <2>2
  <2> HIDE DEF j
  <2>4. LET e == SubSeq(p, 1, j + 1) IN SubSeq(e, 1, Len(e) - 1) = SubSeq(p, 1, j)
    BY <2>1, <2>3, NextName
  <2>5. SubSeq(k, 1, Len(k) - 1) = SubSeq(p, 1, j)
    BY <1>4, <2>3, <2>4
  <2> QED
    BY <2>5 DEF Up, j
<1>5. ASSUME NEW b \in Dirs, k = b \/ Prefix(k, b) PROVE Prefix(d, b)
  <2>1. b \in Paths
    BY DirFacts
  <2> QED
    BY <1>1, <1>2, <1>5, <2>1, PrefixChain
<1>6. Still(tree, k, before.began)
  BY <1>3 DEF Changeless, Still
<1>7. \A p \in Packages : SubSeq(p, 1, Len(k)) = k => man[p].c.dist = before.man[p].c.dist
  BY <1>4 DEF Changeless
<1>8. \A b \in Dirs : k = b \/ Prefix(k, b) => HasTime(b)
  BY <1>5 DEF Changeless
<1> QED
  BY <1>6, <1>7, <1>8 DEF Changeless

\* Where a generation ends, what it made is of the tree, and what the last one made is.
LEMMA BothMade ==
  ASSUME GInv, PastInv, pc = "top", gen.short = {}, before.runs > 0, NEW d, d \in Dirs,
         Still(tree, d, before.began)
  PROVE  Ok(tree, man, d) /\ Ok(tree, before.man, d)
<1>1. Steady /\ Finished
  BY DEF Steady, Generating, Failed, InCategory, Finished
<1>2. gen.todo = {} /\ (Still(tree, <<>>, gen.began) => Ok(tree, man, <<>>))
      /\ \A b \in Dirs : b # <<>> /\ Redone(b) /\ Still(tree, b, gen.began) => Ok(tree, man, b)
  BY <1>1 DEF GInv, GenInv
<1>3. Redone(d)
  BY <1>2 DEF Redone
<1>4. Still(tree, d, gen.began)
  <2>1. before.began \in Nat /\ gen.began \in Nat /\ before.began <= gen.began
    BY <1>1 DEF GInv, TimesInv, Steady
  <2>2. \A f \in Below(d) : tree[f].m \in Nat
    BY DEF GInv, TimesInv, Below
  <2> QED
    BY <2>1, <2>2 DEF Still
<1>5. Ok(tree, before.man, d)
  BY DEF PastInv, Made
<1> QED
  BY <1>2, <1>3, <1>4, <1>5

LEMMA PackageAgain ==
  ASSUME GInv, SameInv, pc = "top", gen.short = {}, before.runs > 0, before.runs = runs - 1,
         NEW p, p \in Packages, Changeless(p)
  PROVE  man[p] = before.man[p]
<1>1. SubSeq(p, 1, Len(p)) = p
  BY PackageFacts, SubSeqFull DEF Paths
<1>2. Untouched(p)
  BY <1>1 DEF Changeless, Untouched
<1>3. Recent
  BY DEF Recent, Generating, Finished
<1> QED
  BY <1>2, <1>3 DEF SameInv, AsBefore

LEMMA ManifestsShaped ==
  ASSUME GInv, PastInv, SameInv, before.runs > 0
  PROVE  TimesInv /\ ManShaped(man) /\ ManShaped(before.man) /\ Timed(before.man)
BY DEF GInv, VInv, IInv, Shaped, PastInv, SameInv

LEMMA BelowRootAgain ==
  ASSUME GInv, PastInv, SameInv, pc = "top", gen.short = {}, before.runs > 0, before.runs = runs - 1,
         NEW d, d \in Dirs, d # <<>>, Changeless(d)
  PROVE  man[d] = before.man[d]
<1>1. TimesInv /\ ManShaped(man) /\ ManShaped(before.man) /\ Timed(before.man)
  BY ManifestsShaped
<1>2. Ok(tree, man, d) /\ Ok(tree, before.man, d) /\ HasTime(d)
  BY BothMade DEF Changeless
<1>3. CASE d \in Packages
  BY <1>3, PackageAgain
<1>4. CASE d \in SubtreeDirs
  BY <1>1, <1>2, <1>4, SubtreeAgain DEF Ok
<1>5. CASE d \in MetaDirs
  <2>1. ASSUME NEW k, k \in DirsAt(d, {}) PROVE man[k] = before.man[k]
    <3>1. k \in Dirs /\ k # <<>> /\ Up(k) = d
      BY <2>1 DEF DirsAt
    <3>2. k \in Packages
      BY <3>1, DirCases
    <3>3. Changeless(k)
      BY <3>1, ChangelessBelow
    <3> QED
      BY <3>2, <3>3, PackageAgain
  <2>2. MetaOk(tree, man, d) /\ MetaOk(tree, before.man, d)
    BY <1>2, <1>5 DEF Ok
  <2> QED
    BY <1>1, <1>2, <1>5, <2>1, <2>2, MetaAgain
<1> QED
  BY <1>3, <1>4, <1>5, KindOfDir

LEMMA MadeAgain ==
  ASSUME GInv, PastInv, SameInv, pc = "top", gen.short = {}, before.runs > 0, before.runs = runs - 1,
         NEW d, d \in Dirs, Changeless(d)
  PROVE  man[d] = before.man[d]
<1>1. CASE d # <<>>
  BY <1>1, BelowRootAgain
<1>2. CASE d = <<>>
  <2>1. TimesInv /\ ManShaped(man) /\ ManShaped(before.man) /\ Timed(before.man)
    BY ManifestsShaped
  <2>2. Ok(tree, man, d) /\ Ok(tree, before.man, d) /\ HasTime(d)
    BY BothMade DEF Changeless
  <2>3. d \in MetaDirs
    BY <1>2 DEF MetaDirs
  <2>4. MetaOk(tree, man, d) /\ MetaOk(tree, before.man, d)
    BY <2>2, <2>3 DEF Ok
  <2>5. ASSUME NEW k, k \in DirsAt(d, {}) PROVE man[k] = before.man[k]
    <3>1. k \in Dirs /\ k # <<>> /\ Up(k) = d
      BY <2>5 DEF DirsAt
    <3>2. Changeless(k)
      BY <3>1, ChangelessBelow
    <3> QED
      BY <3>1, <3>2, BelowRootAgain
  <2> QED
    BY <2>1, <2>2, <2>3, <2>4, <2>5, MetaAgain
<1> QED
  BY <1>1, <1>2

OnlyInv == MInv /\ PcInv /\ SameInv

LEMMA InitOnly == Init => OnlyInv
<1>1. Init => pc = "idle"
  BY DEF Init
<1> QED
  BY <1>1, InitMInv, InitSame DEF OnlyInv, PcInv

LEMMA OnlyStep == ASSUME OnlyInv, [Next]_vars PROVE OnlyInv'
BY MStep, PcStep, SameStep DEF OnlyInv, MInv

\* A generation that finishes and loses nothing leaves the Manifest of a directory as it was,
\* with its time, if no file and no DIST entry below it changed since the last one began and every
\* directory there has a file or a package (qmanifest.c:395-402).
THEOREM UnchangedKept == Spec => OnlyChanged
<1> DEFINE A ==
      (/\ pc = "top" /\ pc' = "idle" /\ runs > 1 /\ before.runs = runs - 1 /\ kills' = kills
       /\ gen.short = {}) =>
        \A d \in Dirs :
          (/\ \A f \in Below(d) : tree[f].m <= before.began
           /\ \A p \in Packages : SubSeq(p, 1, Len(d)) = d => man[p].c.dist = before.man[p].c.dist
           /\ \A b \in Dirs : d = b \/ Prefix(d, b) => HasTime(b)) => man[d] = before.man[d]
<1>1. OnlyInv => A
  <2> SUFFICES ASSUME OnlyInv, pc = "top", gen.short = {}, runs > 1, before.runs = runs - 1,
                      NEW d \in Dirs, Changeless(d)
               PROVE  man[d] = before.man[d]
    BY DEF Changeless, Still
  <2>1. before.runs > 0
    BY DEF OnlyInv, MInv, GInv, TimesInv
  <2> QED
    BY <2>1, MadeAgain DEF OnlyInv, MInv
<1>2. OnlyInv /\ [Next]_vars => OnlyInv'
  BY OnlyStep
<1>3. OnlyInv => [A]_vars
  BY <1>1
<1> QED
  BY <1>2, <1>3, InitOnly, PTL DEF Spec, OnlyChanged
=============================================================================
