------------------------------ MODULE TreeCache ------------------------------
(***************************************************************************)
(* libq/tree.c: a tree of packages (a VDB, an ebuild tree, a directory of  *)
(* binary packages, or one described by a Packages or gtree file) whose    *)
(* categories and packages are cached while they are read.  A request for  *)
(* one category or one name reads only that, so the cache is usually       *)
(* incomplete, and flags say what in it is final.                          *)
(*                                                                         *)
(* A request runs in small steps, because it hands every package to a      *)
(* callback, and the callback may ask the same tree again: qdepends        *)
(* resolves the dependencies of the package it is called with.             *)
(***************************************************************************)
EXTENDS Naturals, Sequences, FiniteSets, SequencesExt

CONSTANTS
  Kinds,         \* the kinds of trees: "ebuild", "vdb", "packages", "gtree"
  Categories,    \* the category directories of the tree
  Disk, Requests, VirtualCats, AcctCats, Absent, None,  \* as in Tree
  Nesting,       \* the <<kind, sorted>> for which callbacks ask again
  MaxRequests    \* the number of requests from outside

ASSUME CacheAssumption ==
  /\ Kinds \subseteq {"ebuild", "vdb", "packages", "gtree"}
  /\ Disk \subseteq [cat : Categories, pn : Nat, ver : Nat]
  /\ Categories \subseteq Nat
  /\ MaxRequests \in Nat

VARIABLES
  kind,       \* tree->type
  cats,       \* tree->cats, an array of tree_cat_ctx (their numbers in ctx)
  complete,   \* tree->cats_complete
  ctx,        \* the tree_cat_ctx, in the order they were allocated
  calls,      \* the requests being answered; the last one was made by a
              \* callback of the first one
  answer,     \* what the last request of either level was answered
  asked,      \* the number of requests from outside so far
  crashed     \* the program was killed by an invalid access

cache == <<cats, complete, ctx>>
vars == <<kind, cats, complete, ctx, calls, answer, asked, crashed>>

-----------------------------------------------------------------------------
(***************************************************************************)
(* libq/array.c: elements and the flag that says they are sorted.  An      *)
(* array that is NULL behaves as an empty one.                             *)
(***************************************************************************)
NewArray == [elems |-> <<>>, sorted |-> FALSE]

Appended(arr, e) == [elems |-> Append(arr.elems, e), sorted |-> FALSE]

\* Elements that compare equal stay in the order they are in: glibc's
\* qsort() is a merge sort.
InOrder(s, Less(_, _)) ==
  LET before == [i \in DOMAIN s |->
                  {j \in DOMAIN s : Less(s[j], s[i]) \/ (j < i /\ ~Less(s[i], s[j]))}]
  IN  [n \in DOMAIN s |-> s[CHOOSE i \in DOMAIN s : Cardinality(before[i]) = n - 1]]

SortedBy(arr, Less(_, _)) ==
  IF arr.sorted THEN arr ELSE [elems |-> InOrder(arr.elems, Less), sorted |-> TRUE]

\* tree_cat_compar()
CatLess(a, b) == ctx[a].name < ctx[b].name

\* tree_pkg_compar() on two packages of a category: the newest comes first
PkgLess(p, q) == p.pn < q.pn \/ (p.pn = q.pn /\ p.ver > q.ver)

SortedCats == SortedBy(cats, CatLess)
SortedPkgs(c) == SortedBy(ctx[c].pkgs, PkgLess)

\* array_binsearch() finds the first of equal elements; 0 stands for NULL.
FindCat(name) ==
  LET at == SelectInSeq(SortedCats.elems, LAMBDA c : ctx[c].name = name)
  IN  IF at = 0 THEN 0 ELSE SortedCats.elems[at]

FindPkg(c, pn) == SelectInSeq(SortedPkgs(c).elems, LAMBDA p : p.pn = pn)

\* tree_pkg_compar() of a package with the atom that was asked for
Fits(query, p) == query.pn \in {Absent, p.pn} /\ query.ver \in {Absent, p.ver}

-----------------------------------------------------------------------------
(***************************************************************************)
(* A request is at "tree" when tree_foreach_pkg is entered, at "catdir"    *)
(* while the tree's directory is read, at "catlist" while the cached       *)
(* categories are visited; at "cat", "pkgdir" and "pkglist" likewise in    *)
(* tree_cat_foreach_pkg, and at "hits" while the packages of one name are  *)
(* visited.  "blocks" reads a Packages or gtree file, and "done" returns.  *)
(***************************************************************************)
Entered(r) ==
  [request |-> r, at |-> "tree", back |-> "done", out |-> <<>>,
   names |-> {}, known |-> FALSE, item |-> 0, cat |-> 0,
   dirs |-> {}, files |-> {}, knownPkgs |-> FALSE, found |-> FALSE, elem |-> 0]

Sorting(r) == r.flags \cap {"sort", "first", "latest"} # {}

Depth == Len(calls)
Call == calls[Depth]
Query == Call.request.query
At(label) == calls # <<>> /\ ~crashed /\ Call.at = label

Continue(c) == calls' = [calls EXCEPT ![Depth] = c]
Goto(label) == Continue([Call EXCEPT !.at = label])
\* A call of tree_cat_foreach_pkg that returns to a label.
VisitCat(c, id, back) == Continue([c EXCEPT !.cat = id, !.at = "cat", !.back = back])
ReturnFromCat == Goto(Call.back)

(***************************************************************************)
(* The callback takes the package, and may ask the tree for the matches of *)
(* an atom of its own (tree_match_atom with TREE_MATCH_DEFAULT).           *)
(***************************************************************************)
DefaultFlags == {"virtual", "acct", "sort"}

Callback_OneArray(c, p) ==
  LET d == [c EXCEPT !.out = Append(@, [cat |-> c.cat, pn |-> p.pn, ver |-> p.ver])]
      inner == [query |-> c.request.inner, flags |-> DefaultFlags, inner |-> None]
  IN  IF Depth = 1 /\ c.request.inner # None
      THEN calls' = <<d, [Entered(inner) EXCEPT !.out = d.out]>>
      ELSE Continue(d)

Callback(c, p) ==
  LET d == [c EXCEPT !.out = Append(@, [cat |-> c.cat, pn |-> p.pn, ver |-> p.ver])]
      inner == c.request.inner
  IN  IF Depth = 1 /\ inner # None
      THEN calls' = <<d, Entered([query |-> inner, flags |-> DefaultFlags, inner |-> None])>>
      ELSE Continue(d)

-----------------------------------------------------------------------------
(***************************************************************************)
(* tree_foreach_pkg()                                                      *)
(***************************************************************************)
Begin(r) ==
  /\ calls = <<>> /\ ~crashed
  /\ asked < MaxRequests
  /\ asked' = asked + 1
  /\ r.inner # None => <<kind, Sorting(r)>> \in Nesting
  /\ calls' = <<Entered(r)>>
  /\ answer' = <<None, None>>
  /\ UNCHANGED <<kind, cache, crashed>>

Filter == Query.cat # Absent

\* A category that is cached answers by itself.
EnterKnown ==
  /\ At("tree")
  /\ Filter
  /\ FindCat(Query.cat) # 0
  /\ cats' = SortedCats
  /\ VisitCat(Call, FindCat(Query.cat), "done")
  /\ UNCHANGED <<kind, complete, ctx, answer, asked, crashed>>

\* One that is not cached is not there if all are.
EnterUnknown ==
  /\ At("tree")
  /\ Filter
  /\ FindCat(Query.cat) = 0
  /\ complete
  /\ cats' = SortedCats
  /\ Goto("done")
  /\ UNCHANGED <<kind, complete, ctx, answer, asked, crashed>>

EnterComplete ==
  /\ At("tree")
  /\ ~Filter
  /\ complete
  /\ cats' = IF Sorting(Call.request) THEN SortedCats ELSE cats
  /\ Continue([Call EXCEPT !.at = "catlist", !.item = 1])
  /\ UNCHANGED <<kind, complete, ctx, answer, asked, crashed>>

NextCategory ==
  /\ At("catlist")
  /\ IF Call.item <= Len(cats.elems)
     THEN VisitCat([Call EXCEPT !.item = @ + 1], cats.elems[Call.item], "catlist")
     ELSE Goto("done")
  /\ UNCHANGED <<kind, cache, answer, asked, crashed>>

NewCat(name) == [name |-> name, pkgs |-> NewArray, complete |-> FALSE]

\* Is there a directory of this name?
ProbeCategory ==
  /\ At("tree")
  /\ kind \in {"ebuild", "vdb"}
  /\ Filter
  /\ FindCat(Query.cat) = 0 /\ ~complete
  /\ IF Query.cat \in Categories
     THEN /\ ctx' = Append(ctx, NewCat(Query.cat))
          /\ cats' = Appended(SortedCats, Len(ctx'))
          /\ VisitCat(Call, Len(ctx'), "done")
     ELSE /\ cats' = SortedCats
          /\ Goto("done")
          /\ UNCHANGED ctx
  /\ UNCHANGED <<kind, complete, answer, asked, crashed>>

OpenTree ==
  /\ At("tree")
  /\ kind \in {"ebuild", "vdb"}
  /\ ~Filter /\ ~complete
  /\ Continue([Call EXCEPT !.at = "catdir", !.names = Categories,
                           !.known = cats.elems # <<>>])
  /\ UNCHANGED <<kind, cache, answer, asked, crashed>>

\* Categories come in the order of the directory.  Whether any can be in the
\* cache was looked up before the first one was read.
ReadCategory ==
  /\ At("catdir")
  /\ \E name \in Call.names :
       LET old == IF Call.known THEN FindCat(name) ELSE 0
           id == IF old = 0 THEN Len(ctx) + 1 ELSE old
           c == [Call EXCEPT !.names = @ \ {name}]
           searched == IF Call.known THEN SortedCats ELSE cats
       IN  /\ cats' = IF old = 0 THEN Appended(searched, id) ELSE searched
           /\ ctx' = IF old = 0 THEN Append(ctx, NewCat(name)) ELSE ctx
           /\ IF Sorting(Call.request) THEN Continue(c) ELSE VisitCat(c, id, "catdir")
  /\ UNCHANGED <<kind, complete, answer, asked, crashed>>

CloseTree_Unfinished ==
  /\ At("catdir")
  /\ Call.names = {}
  /\ Goto(IF Sorting(Call.request) THEN "tree" ELSE "done")
  /\ UNCHANGED <<kind, cats, complete, ctx, answer, asked, crashed>>

CloseTree ==
  /\ At("catdir")
  /\ Call.names = {}
  /\ complete' = TRUE
  /\ Goto(IF Sorting(Call.request) THEN "tree" ELSE "done")
  /\ UNCHANGED <<kind, cats, ctx, answer, asked, crashed>>

-----------------------------------------------------------------------------
(***************************************************************************)
(* A Packages or gtree file is read as a whole before anything is answered.*)
(***************************************************************************)
OpenFile ==
  /\ At("tree")
  /\ kind \in {"packages", "gtree"}
  /\ ~complete
  /\ Continue([Call EXCEPT !.at = "blocks", !.files = Disk, !.cat = 0])
  /\ UNCHANGED <<kind, cache, answer, asked, crashed>>

Earlier(p, q) == p.cat < q.cat \/ (p.cat = q.cat /\ PkgLess(p, q))

\* Packages lists the blocks in any order, a gtree is written by a sorted
\* traversal: there a category is new when it differs from the one before.
CatOfBlock(p) ==
  CASE kind = "packages" -> FindCat(p.cat)
    [] kind = "gtree" /\ Call.cat # 0 /\ ctx[Call.cat].name = p.cat -> Call.cat
    [] OTHER -> 0

ReadBlock ==
  /\ At("blocks")
  /\ \E p \in Call.files :
       LET old == CatOfBlock(p)
           id == IF old = 0 THEN Len(ctx) + 1 ELSE old
           searched == IF kind = "packages" THEN SortedCats ELSE cats
           created == IF old = 0 THEN Append(ctx, NewCat(p.cat)) ELSE ctx
       IN  /\ kind = "gtree" => ~\E q \in Call.files : Earlier(q, p)
           /\ cats' = IF old = 0 THEN Appended(searched, id) ELSE searched
           /\ ctx' = [created EXCEPT ![id].pkgs = Appended(@, [pn |-> p.pn, ver |-> p.ver])]
           /\ Continue([Call EXCEPT !.files = @ \ {p}, !.cat = id])
  /\ UNCHANGED <<kind, complete, answer, asked, crashed>>

CloseFile ==
  /\ At("blocks")
  /\ Call.files = {}
  /\ ctx' = [c \in DOMAIN ctx |-> [ctx[c] EXCEPT !.complete = TRUE]]
  /\ complete' = TRUE
  /\ Goto("tree")
  /\ UNCHANGED <<kind, cats, answer, asked, crashed>>

-----------------------------------------------------------------------------
(***************************************************************************)
(* tree_cat_foreach_pkg()                                                  *)
(***************************************************************************)
Cat == ctx[Call.cat]
FilterName == Query.pn # Absent
Hit == IF FilterName THEN FindPkg(Call.cat, Query.pn) ELSE 0
\* The search leaves the packages sorted, whether it finds one or not.
Searched == IF FilterName THEN SortedPkgs(Call.cat) ELSE Cat.pkgs

EnterHits ==
  /\ At("cat")
  /\ Hit # 0
  /\ ctx' = [ctx EXCEPT ![Call.cat].pkgs = Searched]
  /\ Continue([Call EXCEPT !.at = "hits", !.elem = Hit])
  /\ UNCHANGED <<kind, cats, complete, answer, asked, crashed>>

\* The array is looked at again for each package: the callback may have
\* changed it.
NextHit ==
  /\ At("hits")
  /\ IF Call.elem <= Len(Cat.pkgs.elems) /\ Cat.pkgs.elems[Call.elem].pn = Query.pn
     THEN LET p == Cat.pkgs.elems[Call.elem]
              c == [Call EXCEPT !.elem = @ + 1]
          IN  IF Fits(Query, p) THEN Callback(c, p) ELSE Continue(c)
     ELSE ReturnFromCat
  /\ UNCHANGED <<kind, cache, answer, asked, crashed>>

\* A name that is not there, in a category that was read.
EnterAbsent ==
  /\ At("cat")
  /\ FilterName /\ Hit = 0
  /\ Cat.complete
  /\ ctx' = [ctx EXCEPT ![Call.cat].pkgs = Searched]
  /\ ReturnFromCat
  /\ UNCHANGED <<kind, cats, complete, answer, asked, crashed>>

EnterCached ==
  /\ At("cat")
  /\ ~FilterName
  /\ Cat.complete
  /\ ctx' = [ctx EXCEPT ![Call.cat].pkgs =
               IF Sorting(Call.request) THEN SortedPkgs(Call.cat) ELSE @]
  /\ Continue([Call EXCEPT !.at = "pkglist", !.elem = 1])
  /\ UNCHANGED <<kind, cats, complete, answer, asked, crashed>>

NextCached ==
  /\ At("pkglist")
  /\ IF Call.elem <= Len(Cat.pkgs.elems)
     THEN Callback([Call EXCEPT !.elem = @ + 1], Cat.pkgs.elems[Call.elem])
     ELSE ReturnFromCat
  /\ UNCHANGED <<kind, cache, answer, asked, crashed>>

InDir(c) == {p \in Disk : p.cat = c.name}
NamedDir(c, pn) == {p \in InDir(c) : p.pn = pn}

\* An ebuild tree has a directory per name, so that one name can be read by
\* itself; the other kinds are always read whole.
OpenCategory ==
  /\ At("cat")
  /\ Hit = 0 /\ ~Cat.complete
  /\ ctx' = [ctx EXCEPT ![Call.cat].pkgs = Searched]
  /\ Continue([Call EXCEPT !.at = "pkgdir", !.found = FALSE,
       !.knownPkgs = Cat.pkgs.elems # <<>>,
       !.dirs = IF kind = "ebuild" /\ ~FilterName THEN {p.pn : p \in InDir(Cat)} ELSE {},
       !.files = {p \in InDir(Cat) : kind = "ebuild" => FilterName /\ p.pn = Query.pn}])
  /\ UNCHANGED <<kind, cats, complete, answer, asked, crashed>>

\* The package to look the name up with has no category.  When the name is
\* found, the comparison makes an atom of it and reads cat->name of NULL.
ReadName ==
  /\ At("pkgdir")
  /\ Call.files = {}
  /\ \E pn \in Call.dirs :
       /\ Continue([Call EXCEPT !.dirs = @ \ {pn}, !.files = NamedDir(Cat, pn)])
       /\ crashed' = (Call.knownPkgs /\ FindPkg(Call.cat, pn) # 0)
       /\ ctx' = [ctx EXCEPT ![Call.cat].pkgs =
                    IF Call.knownPkgs THEN SortedPkgs(Call.cat) ELSE @]
  /\ UNCHANGED <<kind, cats, complete, answer, asked>>

ReadPackage ==
  /\ At("pkgdir")
  /\ \E f \in Call.files :
       LET p == [pn |-> f.pn, ver |-> f.ver]
           c == [Call EXCEPT !.files = @ \ {f}, !.found = TRUE]
       IN  /\ ctx' = [ctx EXCEPT ![Call.cat].pkgs = Appended(@, p)]
           /\ IF ~Sorting(Call.request) /\ (FilterName => Fits(Query, p))
              THEN Callback(c, p)
              ELSE Continue(c)
  /\ UNCHANGED <<kind, cats, complete, answer, asked, crashed>>

\* Is the category known for good?
ReadWhole == kind # "ebuild" \/ ~FilterName

\* "recurse, now use the built cache": sorted requests are answered only now.
Restarts == Sorting(Call.request) /\ (kind = "ebuild" => Call.found)

CloseCategory_Final ==
  /\ At("pkgdir")
  /\ Call.files = {} /\ Call.dirs = {}
  /\ ctx' = [ctx EXCEPT ![Call.cat].complete = TRUE]
  /\ IF Restarts THEN Goto("cat") ELSE ReturnFromCat
  /\ UNCHANGED <<kind, cats, complete, answer, asked, crashed>>

CloseCategory ==
  /\ At("pkgdir")
  /\ Call.files = {} /\ Call.dirs = {}
  /\ ctx' = [ctx EXCEPT ![Call.cat].complete = @ \/ ReadWhole]
  /\ IF Restarts THEN Goto("cat") ELSE ReturnFromCat
  /\ UNCHANGED <<kind, cats, complete, answer, asked, crashed>>

-----------------------------------------------------------------------------
(***************************************************************************)
(* tree_match_atom(): what was called back is reduced to what the flags    *)
(* ask for.  A traversal by tree_foreach_pkg has all packages, and neither *)
(* of the flags "first" and "latest".                                      *)
(***************************************************************************)
Keeps(flags, id) ==
  /\ ctx[id].name \in VirtualCats => "virtual" \in flags
  /\ ctx[id].name \in AcctCats => "acct" \in flags

\* Of neighbours of one category and name, the first is the latest.
Successive(s, i) == i > 1 /\ s[i - 1].cat = s[i].cat /\ s[i - 1].pn = s[i].pn

\* What s has at the positions I, in their order.
Picked(s, I) ==
  [n \in 1..Cardinality(I) |-> s[CHOOSE i \in I : Cardinality({j \in I : j <= i}) = n]]

Kept(flags, s) == Picked(s, {i \in DOMAIN s : Keeps(flags, s[i].cat)})
FirstOf(s) == Picked(s, {1} \cap DOMAIN s)
LatestOf(s) == Picked(s, {i \in DOMAIN s : ~Successive(s, i)})

Reduced_FirstEarly(flags, out) ==
  LET kept == Kept(flags, IF "first" \in flags THEN FirstOf(out) ELSE out)
  IN  IF "latest" \in flags THEN LatestOf(kept) ELSE kept

Reduced(flags, out) ==
  LET kept == Kept(flags, out)
      firsts == IF "first" \in flags THEN FirstOf(kept) ELSE kept
  IN  IF "latest" \in flags THEN LatestOf(firsts) ELSE firsts

Named(s) == [i \in DOMAIN s |-> [cat |-> ctx[s[i].cat].name, pn |-> s[i].pn, ver |-> s[i].ver]]

Finish ==
  /\ At("done")
  /\ LET s == Named(Reduced(Call.request.flags, Call.out))
     IN  answer' = IF Depth = 1 THEN <<s, None>> ELSE <<None, s>>
  /\ calls' = SubSeq(calls, 1, Depth - 1)
  /\ UNCHANGED <<kind, cache, asked, crashed>>

-----------------------------------------------------------------------------
Init ==
  /\ kind \in Kinds
  /\ cats = NewArray /\ complete = FALSE /\ ctx = <<>>
  /\ calls = <<>> /\ answer = <<None, None>> /\ asked = 0 /\ crashed = FALSE

Step ==
  \/ EnterKnown \/ EnterUnknown \/ EnterComplete \/ NextCategory
  \/ ProbeCategory \/ OpenTree \/ ReadCategory \/ CloseTree
  \/ OpenFile \/ ReadBlock \/ CloseFile
  \/ EnterHits \/ NextHit \/ EnterAbsent \/ EnterCached \/ NextCached
  \/ OpenCategory \/ ReadName \/ ReadPackage \/ CloseCategory
  \/ Finish

Next == Step \/ \E r \in Requests : Begin(r)

Spec == Init /\ [][Next]_vars /\ WF_vars(Step)
-----------------------------------------------------------------------------
(***************************************************************************)
(* Properties.  Tree is what callers may rely on; nested requests have no  *)
(* part in it, and are looked at by themselves.                            *)
(***************************************************************************)
T == INSTANCE Tree WITH
       request <- IF calls = <<>> THEN None ELSE calls[1].request,
       answer <- answer[1]

Ids == 1..Len(ctx)

\* tree.c:41-57, tree.h: a request is answered with all packages that match,
\* each once and in order if asked to, whatever was asked before: the cache
\* cannot be told from the tree.
ImplementsTree == T!Spec

\* A callback that asks the same tree, as qdepends does when it resolves
\* dependencies, is answered like any other caller.
NestedAnswered ==
  answer[2] # None =>
    T!Answers([query |-> calls[1].request.inner, flags |-> DefaultFlags, inner |-> None],
              answer[2])

\* What the properties and theorems assume of callers.  A callback that asks again
\* is one of a sorted traversal, and for some theorems not of an ebuild tree.
SortedOnly == \A n \in Nesting : n[2]
SettledOnly == \A n \in Nesting : n[1] # "ebuild" /\ n[2]

\* atom.c: what has a version has a name, too.
AtomLike(query) == query.ver # Absent => query.pn # Absent
RequestsUsual ==
  /\ None \notin Requests
  /\ \A r \in Requests : AtomLike(r.query) /\ (r.inner # None => AtomLike(r.inner))

Listed(arr, S) == ToSet(arr.elems) = S /\ Len(arr.elems) = Cardinality(S)
Plain(S) == {[pn |-> p.pn, ver |-> p.ver] : p \in S}

\* The flag in array.c that spares a sort is never set on an array that is
\* not in order: what was appended since was noticed, in every interleaving
\* of the requests of a callback with the traversal that called it.
FlagsTrue ==
  /\ cats.sorted => \A i, j \in DOMAIN cats.elems :
       i < j => ctx[cats.elems[i]].name <= ctx[cats.elems[j]].name
  /\ \A c \in Ids : LET s == ctx[c].pkgs.elems IN
       ctx[c].pkgs.sorted => \A i, j \in DOMAIN s : i < j => ~PkgLess(s[j], s[i])

\* Between requests the cache has the packages of the tree, each once: all of
\* a category flagged complete (tree_cat_ctx.pkgs_complete), and all or none
\* of a name otherwise; a tree flagged complete has every category once.
\* During a request too, FlagsTrue holds.
CacheTrue ==
  /\ FlagsTrue
  /\ calls = <<>> =>
    /\ (complete /\ kind \in {"ebuild", "vdb"}) =>
         (/\ Len(cats.elems) = Cardinality(Categories)
          /\ {ctx[c].name : c \in ToSet(cats.elems)} = Categories)
    /\ \A c \in Ids :
         /\ c \in ToSet(cats.elems)
         /\ \A d \in Ids : ctx[c].name = ctx[d].name => c = d
         /\ ctx[c].complete => Listed(ctx[c].pkgs, Plain(InDir(ctx[c])))
         /\ \E S \in SUBSET {p.pn : p \in InDir(ctx[c])} :
              Listed(ctx[c].pkgs, Plain({p \in InDir(ctx[c]) : p.pn \in S}))

\* A traversal that starts over to use the cache it built ("recurse, now use
\* the built cache") finds it built, and comes to an end.
CallsReturn == calls # <<>> ~> (calls = <<>> \/ crashed)

=============================================================================
