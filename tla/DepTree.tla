------------------------------ MODULE DepTree ------------------------------
(***************************************************************************)
(* Dependency strings: how libq/dep.c grows a tree of one, prints it,      *)
(* prunes its USE-conditionals, flattens and resolves it, and how qdepends *)
(* answers its queries from it.                                            *)
(*                                                                         *)
(* A word is the sequence of its characters, a token a record of its type  *)
(* and word, a tree the sequence of its nodes in the order they are made,  *)
(* the top first, each with the indices of its members.  The string is     *)
(* made up while it is parsed: Type gives the parser its next token when   *)
(* it looks at it.  Words are names that atom_explode() takes apart and    *)
(* atom_to_string() puts together unchanged (a category, a name, USE       *)
(* dependencies); what parsing and comparing versions does is in Atom.     *)
(***************************************************************************)
EXTENDS Integers, SequencesExt

CONSTANTS
  Words,      \* the words of the strings
  MaxTokens   \* BOUND: tokens of a string

ASSUME WordsAssumption == \A w \in Words : w \in Seq(STRING) /\ w # <<>>
ASSUME MaxTokensAssumption == MaxTokens \in Nat

VARIABLES
  toks,    \* tokens, as far as they are known
  eof,     \* whether that is all of them
  n,       \* the token the parser is at
  nodes,   \* the tree
  res,     \* the open groups, the innermost last (level = Len(res) - 1)
  nots,    \* the !s before the word to come
  pc,      \* "parse", "failed", "grown", "printed", "answered"
  first,   \* the tree that was printed, to be parsed again; << >> before
  text,    \* what dep_print_tree() wrote
  answer   \* what qdepends made of the tree

vars == <<toks, eof, n, nodes, res, nots, pc, first, text, answer>>

-----------------------------------------------------------------------------
(* Tokens.                                                                 *)

Special == "(" :> "POPEN" @@ ")" :> "PCLOSE" @@ "?" :> "HUH" @@ "!" :> "NOT"

Tok(type) == [type |-> type, word |-> <<>>]
WordTok(w) == [type |-> "WORD", word |-> w]
Token == {Tok(type) : type \in {"POPEN", "PCLOSE", "HUH", "NOT", "ANY"}}
         \cup {WordTok(w) : w \in Words}

PushWord(s) == IF s.word = <<>> THEN s.out ELSE Append(s.out, WordTok(s.word))

\* One character of the string.  `level` is 0 outside USE dependencies and
\* counts the open brackets inside; `bar` is set after the first of ||.
Scan(s, c) ==
  CASE s.level > 0 ->
         [s EXCEPT !.word = Append(@, c),
                   !.level = @ + (IF c = "[" THEN 1 ELSE IF c = "]" THEN -1 ELSE 0)]
    [] s.bar /\ c # "|" -> [s EXCEPT !.ok = FALSE]
    [] s.bar -> [s EXCEPT !.out = Append(@, Tok("ANY")), !.bar = FALSE]
    [] c = "|" -> [s EXCEPT !.out = PushWord(s), !.word = <<>>, !.bar = TRUE]
    [] c = " " -> [s EXCEPT !.out = PushWord(s), !.word = <<>>]
    [] c \in DOMAIN Special ->
         [s EXCEPT !.out = Append(PushWord(s), Tok(Special[c])), !.word = <<>>]
    [] c = "[" -> [s EXCEPT !.word = Append(@, c), !.level = 1]
    [] OTHER -> [s EXCEPT !.word = Append(@, c)]

\* All of a string; a single | is an error, which is a token of its own here.
Tokenised(str) ==
  LET s == FoldLeft(Scan, [out |-> <<>>, word |-> <<>>, level |-> 0,
                           bar |-> FALSE, ok |-> TRUE], str)
  IN IF s.ok /\ ~ s.bar THEN PushWord(s) ELSE <<Tok("BAD")>>

-----------------------------------------------------------------------------
(* Trees.                                                                  *)

Node(type, w, neg) == [type |-> type, word |-> w, nots |-> neg, members |-> <<>>]
Sprout == <<Node("ALL", <<>>, 0)>>

Kids(tree, i) == {tree[i].members[k] : k \in DOMAIN tree[i].members}

\* Mutant of Heading: an inverted conditional is printed as a plain one.
Heading_Plain(node) ==
  CASE node.type = "ANY" -> <<"|", "|", " ">>
    [] node.type = "USE" -> node.word \o <<"?", " ">>
    [] node.type = "ATOM" -> [k \in 1..node.nots |-> "!"] \o node.word
    [] OTHER -> <<>>

\* dep_print_tree(), the layout left out: words and signs with the blanks
\* that separate them.
Heading(node) ==
  CASE node.type = "ANY" -> <<"|", "|", " ">>
    [] node.type = "USE" ->
         (IF node.nots = 1 THEN <<"!">> ELSE <<>>) \o node.word \o <<"?", " ">>
    [] node.type = "ATOM" -> [k \in 1..node.nots |-> "!"] \o node.word
    [] OTHER -> <<>>

NodeText(tree) ==
  LET written[i \in DOMAIN tree] ==
        LET inner == [k \in DOMAIN tree[i].members |->
                        <<" ">> \o written[tree[i].members[k]]]
        IN Heading(tree[i])
           \o IF tree[i].type \in {"ANY", "USE", "ALL"}
              THEN <<"(">> \o FlattenSeq(inner) \o <<" ", ")">>
              ELSE <<>>
  IN written

Printed(tree) ==
  FlattenSeq([k \in DOMAIN tree[1].members |->
                <<" ">> \o NodeText(tree)[tree[1].members[k]]])

\* The same string with no more blanks than it needs: between two words.
Squeezed(str) ==
  LET Sign == DOMAIN Special \cup {"|"}
      Next(s, c) ==
        IF c = " " THEN [s EXCEPT !.gap = TRUE]
        ELSE [out |-> IF /\ s.gap /\ s.out # <<>> /\ c \notin Sign
                         /\ Last(s.out) \notin Sign
                      THEN s.out \o <<" ", c>> ELSE Append(s.out, c),
              gap |-> FALSE]
  IN FoldLeft(Next, [out |-> <<>>, gap |-> FALSE], str).out

\* Mutant of Inactive: inverted conditionals are taken for plain ones.
Inactive_Plain(node, use) == node.type = "USE" /\ node.word \notin use

\* dep_prune_use(): an inactive conditional becomes NULL and its members are
\* left as they are, an active one becomes an all-of group.
Inactive(node, use) ==
  node.type = "USE" /\ (node.word \notin use) # (node.nots = 1)

Pruned(tree, use) ==
  LET seen[i \in DOMAIN tree] ==
        i = 1 \/ \E p \in 1..(i - 1) :
                   i \in Kids(tree, p) /\ seen[p] /\ ~ Inactive(tree[p], use)
  IN [i \in DOMAIN tree |->
        IF tree[i].type # "USE" \/ ~ seen[i] THEN tree[i]
        ELSE [tree[i] EXCEPT !.type = IF Inactive(tree[i], use) THEN "NULL" ELSE "ALL"]]

\* dep_flatten_tree(): the atoms that are left, as nodes.
Flattened(tree) ==
  LET flat[i \in DOMAIN tree] ==
        CASE tree[i].type = "NULL" -> <<>>
          [] tree[i].type = "ATOM" -> <<i>>
          [] OTHER -> FlattenSeq([k \in DOMAIN tree[i].members |->
                                    flat[tree[i].members[k]]])
  IN flat[1]

\* Mutant of Resolved: a group goes on after a member that fails.
Resolved_Last(tree, use, avail, had) ==
  LET Empty(ok) == [ok |-> ok, pkgs |-> {}]
      fate[i \in DOMAIN tree] ==
        LET node == tree[i]
            All(s, k) ==
              [ok |-> fate[k].ok, pkgs |-> s.pkgs \cup fate[k].pkgs]
            Either(s, k) == [ok |-> s.ok \/ fate[k].ok, pkgs |-> s.pkgs \cup fate[k].pkgs]
        IN CASE node.type = "NULL" \/ Inactive(node, use) -> Empty(TRUE)
             [] node.type = "ATOM" ->
                  IF node.nots > 0 \/ i \in had THEN Empty(TRUE)
                  ELSE IF node.word \in avail THEN [ok |-> TRUE, pkgs |-> {i}]
                  ELSE Empty(FALSE)
             [] node.type = "ANY" -> FoldLeft(Either, Empty(FALSE), node.members)
             [] OTHER -> FoldLeft(All, Empty(TRUE), node.members)
  IN fate[1]

\* dep_resolve_tree() with no blockers, as qdepends calls it: whether the tree
\* `avail` has what is asked for, and the nodes that get a package; those of
\* `had` have one already.
Resolved(tree, use, avail, had) ==
  LET Empty(ok) == [ok |-> ok, pkgs |-> {}]
      fate[i \in DOMAIN tree] ==
        LET node == tree[i]
            All(s, k) ==
              IF ~ s.ok THEN s
              ELSE [ok |-> fate[k].ok, pkgs |-> s.pkgs \cup fate[k].pkgs]
            Either(s, k) == [ok |-> s.ok \/ fate[k].ok, pkgs |-> s.pkgs \cup fate[k].pkgs]
        IN CASE node.type = "NULL" \/ Inactive(node, use) -> Empty(TRUE)
             [] node.type = "ATOM" ->
                  IF node.nots > 0 \/ i \in had THEN Empty(TRUE)
                  ELSE IF node.word \in avail THEN [ok |-> TRUE, pkgs |-> {i}]
                  ELSE Empty(FALSE)
             [] node.type = "ANY" -> FoldLeft(Either, Empty(FALSE), node.members)
             [] OTHER -> FoldLeft(All, Empty(TRUE), node.members)
  IN fate[1]

-----------------------------------------------------------------------------
(* The parser: one action per case of the switch in dep_grow_tree().       *)

\* The type of the token at k, "END" when there is none.
Ahead(k) == IF k <= Len(toks) THEN toks[k].type ELSE "END"

NoAnswer == [op |-> "none"]

Init ==
  /\ toks = <<>> /\ eof = FALSE /\ n = 1
  /\ nodes = Sprout /\ res = <<1>> /\ nots = 0
  /\ pc = "parse" /\ first = <<>> /\ text = <<>> /\ answer = NoAnswer

\* The parser looks at a token that is not known yet.
Wanting ==
  /\ ~ eof
  /\ \/ Ahead(n) = "END"
     \/ Ahead(n) \in {"ANY", "NOT", "WORD"} /\ Ahead(n + 1) = "END"
     \/ Ahead(n) = "NOT" /\ Ahead(n + 1) = "NOT" /\ Ahead(n + 2) = "END"
     \/ Ahead(n) = "WORD" /\ Ahead(n + 1) = "HUH" /\ Ahead(n + 2) = "END"

Type ==
  /\ pc = "parse" /\ Wanting
  /\ \/ /\ Len(toks) < MaxTokens
        /\ \E t \in Token : toks' = Append(toks, t)
        /\ UNCHANGED eof
     \/ eof' = TRUE /\ UNCHANGED toks
  /\ UNCHANGED <<n, nodes, res, nots, pc, first, text, answer>>

At(type) == pc = "parse" /\ ~ Wanting /\ Ahead(n) = type

\* Returns NULL: what was grown is of no use any more.
Fail == pc' = "failed" /\ UNCHANGED <<n, nodes, res, nots>>

\* A node is added to the innermost group.
Attach(node) ==
  nodes' = Append([nodes EXCEPT ![Last(res)].members = Append(@, Len(nodes) + 1)],
                  node)

Group(node, used) ==
  /\ Attach(node)
  /\ res' = Append(res, Len(nodes) + 1)
  /\ n' = n + used
  /\ UNCHANGED pc

POpen ==
  /\ At("POPEN")
  /\ Group(Node("ALL", <<>>, 0), 1)
  /\ UNCHANGED <<nots, toks, eof, first, text, answer>>

PClose ==
  /\ At("PCLOSE")
  /\ IF Len(res) > 1
     THEN res' = Front(res) /\ n' = n + 1 /\ UNCHANGED <<pc, nodes, nots>>
     ELSE Fail
  /\ UNCHANGED <<toks, eof, first, text, answer>>

AnyGroup ==
  /\ At("ANY")
  /\ IF Ahead(n + 1) = "POPEN"
     THEN Group(Node("ANY", <<>>, 0), 2) /\ UNCHANGED nots
     ELSE Fail
  /\ UNCHANGED <<toks, eof, first, text, answer>>

\* !! is a hard blocker; a word has to follow.
Not ==
  /\ At("NOT")
  /\ LET many == IF Ahead(n + 1) = "NOT" THEN 2 ELSE 1
     IN IF Ahead(n + many) = "WORD"
        THEN nots' = many /\ n' = n + many /\ UNCHANGED <<pc, nodes, res>>
        ELSE Fail
  /\ UNCHANGED <<toks, eof, first, text, answer>>

\* Mutant of Word: the !s of a conditional stay set for the word after it.
Word_Sticky ==
  /\ At("WORD")
  /\ IF Ahead(n + 1) = "HUH"
     THEN IF nots > 1 \/ Ahead(n + 2) # "POPEN" THEN Fail
          ELSE Group(Node("USE", toks[n].word, nots), 3) /\ UNCHANGED nots
     ELSE /\ Attach(Node("ATOM", toks[n].word, nots))
          /\ n' = n + 1 /\ nots' = 0 /\ UNCHANGED <<pc, res>>
  /\ UNCHANGED <<toks, eof, first, text, answer>>

Word ==
  /\ At("WORD")
  /\ IF Ahead(n + 1) = "HUH"
     THEN IF nots > 1 \/ Ahead(n + 2) # "POPEN" THEN Fail
          ELSE Group(Node("USE", toks[n].word, nots), 3) /\ nots' = 0
     ELSE /\ Attach(Node("ATOM", toks[n].word, nots))
          /\ n' = n + 1 /\ nots' = 0 /\ UNCHANGED <<pc, res>>
  /\ UNCHANGED <<toks, eof, first, text, answer>>

\* A ? that follows no word is passed over.
Huh ==
  /\ At("HUH")
  /\ n' = n + 1
  /\ UNCHANGED <<nodes, res, nots, pc, toks, eof, first, text, answer>>

\* The end of the string closes all groups; a tree of nothing is NULL.
Grown ==
  /\ At("END")
  /\ pc' = "grown"
  /\ nodes' = [nodes EXCEPT ![1].type =
                   IF nodes[1].members = <<>> THEN "NULL" ELSE "ALL"]
  /\ UNCHANGED <<toks, eof, n, res, nots, first, text, answer>>

-----------------------------------------------------------------------------
(* What is done with a tree.                                               *)

\* qdepends -S: the tree is printed; what it wrote is a string for an ebuild.
Write ==
  /\ pc = "grown" /\ first = <<>>
  /\ pc' = "printed" /\ first' = nodes /\ text' = Printed(nodes)
  /\ UNCHANGED <<toks, eof, n, nodes, res, nots, answer>>

\* That string is read, as it is or with no more blanks than needed.
Reread ==
  /\ pc = "printed"
  /\ \E str \in {text, Squeezed(text)} : toks' = Tokenised(str)
  /\ pc' = (IF toks' = <<Tok("BAD")>> THEN "failed" ELSE "parse")
  /\ eof' = TRUE /\ n' = 1 /\ nodes' = Sprout /\ res' = <<1>> /\ nots' = 0
  /\ UNCHANGED <<first, text, answer>>

\* The words qdepends lists, each with its !s.
Text(tree, i) == <<tree[i].word, tree[i].nots>>
Texts(tree, seq) == {Text(tree, seq[k]) : k \in DOMAIN seq}
Kept(filter, use) == IF filter THEN Pruned(nodes, use) ELSE nodes

Answered(a) ==
  /\ pc = "grown" /\ first = <<>>
  /\ pc' = "answered" /\ answer' = a
  /\ UNCHANGED <<toks, eof, n, nodes, res, nots, first, text>>

Flag == {w \in Words : \E i \in DOMAIN nodes : nodes[i].type = "USE" /\ nodes[i].word = w}
AtomWord == {w \in Words : \E i \in DOMAIN nodes : nodes[i].type = "ATOM" /\ nodes[i].word = w}

\* Forward: the unique set of atoms of the package that was asked for.
Forward ==
  \E filter \in BOOLEAN, use \in SUBSET Flag :
    LET tree == Kept(filter, use)
    IN Answered([op |-> "forward", filter |-> filter, use |-> use,
                 listed |-> Texts(tree, Flattened(tree))])

\* -Q: whether the package is listed as one that depends on q.  When there are
\* no atoms the pointer the loop of the verbose case leaves behind is NULL, as
\* it is after a match.
Matches(tree, q, verbose) ==
  \/ \E t \in Texts(tree, Flattened(tree)) : t[1] = q
  \/ verbose /\ Flattened(tree) = <<>>

Backward ==
  \E filter, verbose \in BOOLEAN, use \in SUBSET Flag, q \in Words :
    LET tree == Kept(filter, use)
    IN Answered([op |-> "reverse", filter |-> filter, use |-> use, q |-> q,
                 verbose |-> verbose, reported |-> Matches(tree, q, verbose)])

\* -R: atoms are resolved to packages of the tree that has `avail`.
Resolve ==
  \E filter \in BOOLEAN, use \in SUBSET Flag, avail \in SUBSET AtomWord :
    LET fate == Resolved(Kept(filter, use), use, avail, {})
    IN Answered([op |-> "resolve", use |-> use, inst |-> {}, avail |-> avail,
                 ok |-> fate.ok, pkgs |-> fate.pkgs])

\* -vtR: first with the USE flags of the installed package, then with the
\* profile's; the first leaves its packages in the tree.
ResolveInstalled ==
  \E inst, use \in SUBSET Flag, avail \in SUBSET AtomWord :
    LET had == Resolved(nodes, inst, avail, {}).pkgs
        fate == Resolved(nodes, use, avail, had)
    IN Answered([op |-> "resolve", use |-> use, inst |-> inst, avail |-> avail,
                 ok |-> fate.ok, pkgs |-> had \cup fate.pkgs])

Next ==
  \/ Type \/ POpen \/ PClose \/ AnyGroup \/ Not \/ Word \/ Huh \/ Grown
  \/ Write \/ Reread \/ Forward \/ Backward \/ Resolve \/ ResolveInstalled

Spec == Init /\ [][Next]_vars

-----------------------------------------------------------------------------
(* What a string means, told from its brackets and never from the tree.    *)

Tokens(type, a, b) == {k \in a..b : k \in DOMAIN toks /\ toks[k].type = type}
\* The groups that are open at j, by the place of their bracket.
Around(j) ==
  {k \in Tokens("POPEN", 1, j - 1) :
     \A c \in k..(j - 1) :
       Cardinality(Tokens("POPEN", k, c)) > Cardinality(Tokens("PCLOSE", k, c))}
Before(k) == IF k > 1 THEN Ahead(k - 1) ELSE "END"
IsAtom(k) == Ahead(k) = "WORD" /\ Ahead(k + 1) # "HUH"
GroupAt(k) ==
  CASE Before(k) = "ANY" -> Node("ANY", <<>>, 0)
    [] k > 2 /\ Before(k) = "HUH" /\ Ahead(k - 2) = "WORD" ->
         Node("USE", toks[k - 2].word, IF k > 3 /\ Ahead(k - 3) = "NOT" THEN 1 ELSE 0)
    [] OTHER -> Node("ALL", <<>>, 0)
AtomAt(k) ==
  Node("ATOM", toks[k].word,
       CASE Before(k) # "NOT" -> 0 [] k > 2 /\ Ahead(k - 2) = "NOT" -> 2 [] OTHER -> 1)
Makers == {k \in DOMAIN toks : Ahead(k) = "POPEN" \/ IsAtom(k)}
Rank(k) == Cardinality({m \in Makers : m <= k}) + 1
On(group, use) == group.type = "USE" => (group.nots = 0 <=> group.word \in use)
Active(j, use) == \A k \in Around(j) : On(GroupAt(k), use)
Atoms(filter, use) ==
  {<<toks[k].word, AtomAt(k).nots>> :
     k \in {k \in Makers : IsAtom(k) /\ (filter => Active(k, use))}}

Malformed ==
  \/ \E k \in DOMAIN toks :
       Cardinality(Tokens("PCLOSE", 1, k)) > Cardinality(Tokens("POPEN", 1, k))
  \/ \E k \in DOMAIN toks :
       \/ Ahead(k) = "ANY" /\ Ahead(k + 1) # "POPEN"
       \/ Ahead(k) = "NOT" /\ Ahead(k + 1) \notin {"NOT", "WORD"}
       \/ Ahead(k) = "WORD" /\ Ahead(k + 1) = "HUH" /\ Ahead(k + 2) # "POPEN"
       \/ \A m \in 0..2 : Ahead(k + m) = "NOT"
       \/ /\ Ahead(k) = "NOT" /\ Ahead(k + 1) = "NOT"
          /\ Ahead(k + 2) = "WORD" /\ Ahead(k + 3) = "HUH"

\* A string that is taken makes one node for each atom and each bracket in it,
\* of the kind the words before the bracket say and under the group it stands
\* in; one is refused only for a fault it has (dep_grow_tree).
GrownTrue ==
  /\ pc = "failed" => Malformed
  /\ pc = "grown" =>
       /\ ~ Malformed
       /\ Len(nodes) = Cardinality(Makers) + 1
       /\ \A k \in Makers :
            LET node == nodes[Rank(k)]
                up == IF Around(k) = {} THEN 1 ELSE Rank(Max(Around(k)))
            IN /\ [node EXCEPT !.members = <<>>] = (IF IsAtom(k) THEN AtomAt(k)
                                                   ELSE GroupAt(k))
               /\ Rank(k) \in Kids(nodes, up)
       /\ \A i \in DOMAIN nodes : \A a, b \in DOMAIN nodes[i].members :
            a < b => nodes[i].members[a] < nodes[i].members[b]

\* What qdepends -S prints is read back as the tree it was printed from, also
\* when the blanks it has no need of are taken out ("we try to parse very
\* liberal, because there's no real ambiguity", dep.c:97-99).
ReadBack == first # <<>> => pc # "failed" /\ (pc = "grown" => nodes = first)

\* The atoms qdepends lists, and those it compares in a quiet reverse query,
\* are those of the string whose conditionals all hold when it filters by USE
\* flags, and all of them otherwise (dep_prune_use and dep_flatten_tree).
ListedTrue ==
  /\ answer.op = "forward" => answer.listed = Atoms(answer.filter, answer.use)
  /\ answer.op = "reverse" /\ ~ answer.verbose =>
       (answer.reported <=>
          \E t \in Atoms(answer.filter, answer.use) : t[1] = answer.q)

\* Resolving succeeds exactly when some part of the tree holds together: the
\* top, with every member of an all-of group and of an active conditional, one
\* member of an any-of group, and atoms that are blockers or in the tree.
\* Packages are given to such atoms only, and on success to all of them that
\* are asked for unconditionally; whether the tree was pruned first or resolved
\* for an installed package's USE flags before makes no difference.
ResolvedTrue ==
  answer.op = "resolve" =>
    LET use == answer.use
        Able(i) == nodes[i].nots > 0 \/ nodes[i].word \in answer.avail
        Holds(part, i) ==
          CASE nodes[i].type = "ATOM" -> Able(i)
            [] nodes[i].type = "ANY" -> Kids(nodes, i) \cap part # {}
            [] OTHER -> On(nodes[i], use) => Kids(nodes, i) \subseteq part
        Needed == {k \in Makers : /\ IsAtom(k) /\ Active(k, use)
                                  /\ \A g \in Around(k) : GroupAt(g).type # "ANY"
                                  /\ AtomAt(k).nots = 0}
        Wanted == {k \in Makers : /\ IsAtom(k) /\ AtomAt(k).nots = 0
                                  /\ toks[k].word \in answer.avail
                                  /\ Active(k, use) \/ Active(k, answer.inst)}
    IN /\ answer.ok <=> \E part \in SUBSET DOMAIN nodes :
                          1 \in part /\ \A i \in part : Holds(part, i)
       /\ answer.pkgs \subseteq {Rank(k) : k \in Wanted}
       /\ answer.ok => {Rank(k) : k \in Needed} \subseteq answer.pkgs
=============================================================================
