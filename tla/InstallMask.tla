----------------------------- MODULE InstallMask -----------------------------
(***************************************************************************)
(* qmerge.c: what INSTALL_MASK (and FEATURES noinfo, noman, nodoc) removes *)
(* from a package's image before it is merged: install_mask_pwd() turns    *)
(* the masks into arrays of components, install_mask_check_dir() walks the *)
(* image one directory per call.                                           *)
(***************************************************************************)
EXTENDS Integers, Sequences

CONSTANTS
  Entry,      \* the image: paths as sequences of names
  Kind,       \* [Entry -> {"dir", "file", "sym"}]
  Foreign,    \* entries on another device than the image's top directory
  UsrShare,   \* the path of /usr/share in the image
  Matches,    \* the pairs <<pattern, name>> fnmatch(FNM_PERIOD) accepts
  Rule,       \* the masks a user may write: [inc, abs, parts, slash]
  MaxRules

Parent(e) == SubSeq(e, 1, Len(e) - 1)
Name(e) == e[Len(e)]
Entries(d) == {e \in Entry : Parent(e) = d}
IsPrefix(s, t) == Len(s) <= Len(t) /\ SubSeq(t, 1, Len(s)) = s
Under(d) == {e \in Entry : IsPrefix(d, e)}

Names == UNION {{e[k] : k \in DOMAIN e} : e \in Entry}
Patterns == UNION {{r.parts[k] : k \in DOMAIN r.parts} : r \in Rule}

\* Everything above an entry is a directory of the image.
ASSUME ImageAssumption ==
  /\ Entry \subseteq Seq(Names)
  /\ \A e \in Entry : Len(e) > 0 /\ Kind[e] \in {"dir", "file", "sym"}
  /\ \A e \in Entry : \A k \in 1 .. Len(e) - 1 :
       SubSeq(e, 1, k) \in Entry /\ Kind[SubSeq(e, 1, k)] = "dir"
  /\ Foreign \subseteq Entry
ASSUME RuleAssumption ==
  /\ \A r \in Rule : /\ {r.inc, r.abs, r.slash} \subseteq BOOLEAN
                    /\ r.parts \in Seq(Patterns) /\ Len(r.parts) > 0
  /\ MaxRules \in Nat

VARIABLES
  rules,    \* INSTALL_MASK as written
  present,  \* what is left of the image
  todo,     \* directories entered, with the mode they were entered in
  pc

vars == <<rules, present, todo, pc>>

-----------------------------------------------------------------------------
(* install_mask_pwd: the array of a mask, with its count and include bit.  *)

\* A slash at the end has the last component written twice: it was stored at the
\* slash, and is again as the final component.
Parts(r) == IF r.slash THEN Append(r.parts, r.parts[Len(r.parts)]) ELSE r.parts

\* Negative for a relative mask.
Count(r) == (IF r.abs THEN 1 ELSE -1) * Len(Parts(r))

Init ==
  /\ rules \in UNION {[1 .. n -> Rule] : n \in 0 .. MaxRules}
  /\ present = Entry
  /\ todo = {[dir |-> <<>>, mode |-> "INCLUDE"]}
  /\ pc = "walk"

-----------------------------------------------------------------------------
(* install_mask_check_dir.                                                 *)

\* A relative mask of one component is tried on every name; an absolute one has
\* its component of this level tried, whatever the levels above were.
Hit(r, e) ==
  \/ Count(r) = -1 /\ <<Parts(r)[1], Name(e)>> \in Matches
  \/ Count(r) >= Len(e) /\ <<Parts(r)[Len(e)], Name(e)>> \in Matches

Full(r, e) == Hit(r, e) /\ Count(r) \in {-1, Len(e)}

\* Mutant of PartialInclude: the include bit is not looked at.
PartialInclude_Any(r, e) == Hit(r, e) /\ Count(r) > Len(e)
PartialInclude(r, e) == Hit(r, e) /\ Count(r) > Len(e) /\ r.inc

Last(s) == CHOOSE i \in s : \A j \in s : j <= i

ModeOf(r) == IF r.inc THEN "INCLUDE" ELSE "EXCLUDE"

\* Mutant of ChildMode: the entry's own mode is handed down.
ChildMode_Own(e, parent) ==
  LET s == {i \in DOMAIN rules : Full(rules[i], e) \/ PartialInclude(rules[i], e)}
  IN IF s = {} THEN parent ELSE ModeOf(rules[Last(s)])

\* What the entries of directory e start from: the last full match.
ChildMode(e, parent) ==
  LET s == {i \in DOMAIN rules : Full(rules[i], e)}
  IN IF s = {} THEN parent ELSE ModeOf(rules[Last(s)])

\* What happens to e itself: it also stays for an include mask that may match
\* deeper, when nothing later is a full match.
Mode(e, parent) ==
  LET s == {i \in DOMAIN rules : Full(rules[i], e) \/ PartialInclude(rules[i], e)}
  IN IF s = {} THEN parent ELSE ModeOf(rules[Last(s)])

\* crossmount_rm: rm_rf_at() opens with O_NOFOLLOW, so a symlink stays.
Removed(e) == IF e \in Foreign \/ Kind[e] = "sym" THEN {} ELSE Under(e)

CheckDir ==
  /\ pc = "walk"
  /\ \E t \in todo :
       LET out == {e \in Entries(t.dir) : Mode(e, t.mode) = "EXCLUDE"}
           sub == {e \in Entries(t.dir) \ out : Kind[e] = "dir"}
       IN /\ present' = present \ UNION {Removed(e) : e \in out}
          /\ todo' = (todo \ {t})
                     \cup {[dir |-> e, mode |-> ChildMode(e, t.mode)] : e \in sub}
  /\ UNCHANGED <<rules, pc>>

\* Back in pkg_merge: the directory /usr/share goes when nothing is left in it.
Finish ==
  /\ pc = "walk" /\ todo = {}
  /\ present' = IF Under(UsrShare) \cap present = {UsrShare} /\ Kind[UsrShare] = "dir"
                THEN present \ {UsrShare} ELSE present
  /\ pc' = "done"
  /\ UNCHANGED <<rules, todo>>

Next == CheckDir \/ Finish

Spec == Init /\ [][Next]_vars

-----------------------------------------------------------------------------
(* Properties.                                                             *)

\* A mask as its user means it: an absolute one is for a path and what is below
\* it, a relative one for every file of that name and what is below it.
Means(r, e) ==
  IF r.abs
  THEN /\ Len(r.parts) <= Len(e)
       /\ \A k \in DOMAIN r.parts : <<r.parts[k], e[k]>> \in Matches
  ELSE \E k \in DOMAIN e : <<r.parts[1], e[k]>> \in Matches

\* qmerge.c:510-513: "what thing matches last (inclusion or exclusion) for *every*
\* file".
Masked(e) ==
  LET s == {i \in DOMAIN rules : Means(rules[i], e)}
  IN s # {} /\ ~rules[Last(s)].inc

Files == {e \in Entry : Kind[e] = "file"}

\* No mask ends in a slash or is relative with several components.
Plain == \A i \in DOMAIN rules : ~rules[i].slash /\ (rules[i].abs \/ Len(rules[i].parts) = 1)

\* Only absolute masks include: nothing is looked up below a directory that is removed.
PathIncludes == \A i \in DOMAIN rules : rules[i].inc => rules[i].abs

\* No directory above e, nor e, is on another device.
OnDevice(e) == \A f \in Foreign : ~IsPrefix(f, e)

\* The masks are written from the shallow to the deep: no mask of fewer components
\* comes after one that is for an entry it is tried on, and relative ones come last.
DeepLast ==
  \A i, j \in DOMAIN rules : i < j =>
    \/ ~rules[j].abs
    \/ rules[i].abs /\ Len(rules[i].parts) <= Len(rules[j].parts)
    \/ \A e \in Entry : Means(rules[i], e) => ~Means(rules[j], e) /\ ~Hit(rules[j], e)

\* No component of an absolute mask is also a name on its level elsewhere.
Unambiguous ==
  \A i \in DOMAIN rules, e \in Entry :
    rules[i].abs /\ Hit(rules[i], e)
    => \A k \in DOMAIN e : <<rules[i].parts[k], e[k]>> \in Matches

\* No absolute mask goes on where the image has a file.
NoneBelowFiles ==
  \A i \in DOMAIN rules, e \in Files :
    rules[i].abs /\ Hit(rules[i], e) => Len(rules[i].parts) <= Len(e)

\* For such masks exactly the files go for which the last match is an exclusion.
MaskedGo ==
  pc = "done" /\ Plain /\ PathIncludes /\ DeepLast /\ Unambiguous /\ NoneBelowFiles
    => \A e \in Files : OnDevice(e) => (e \in present <=> ~Masked(e))

\* A file goes only for an excluding mask of which the last component is the name
\* of the file or of a directory it is in.
OnlyMasked ==
  \A e \in Files \ present : \E i \in DOMAIN rules, k \in DOMAIN e :
    /\ ~rules[i].inc
    /\ <<rules[i].parts[Len(rules[i].parts)], e[k]>> \in Matches
=============================================================================
