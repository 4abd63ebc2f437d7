------------------------------ MODULE EmergeLog ------------------------------
(***************************************************************************)
(* qlop: emerge processes append to emerge.log, and qlop reads it, perhaps *)
(* while they still do.  do_emerge_log() reads the file up to twice: once  *)
(* for the names of the packages to report, once to pair what started with *)
(* what completed.                                                         *)
(***************************************************************************)
EXTENDS Integers, SequencesExt

CONSTANTS
  Emerges,      \* the emerge processes
  Script,       \* per process the lines it writes, [k, pkg, id, of] each; of is
                \* the place in the script of the start of what the line is about
  Commands,     \* the ways qlop is called: [flags, atoms, from, to, verbose]
  Probes,       \* what /proc may show: a set of packages that run, or NoProc
  Gaps,         \* how long nothing may be written
  MaxTime, MaxLines,
  MaxStarted,   \* how many of the processes start
  MaxGrowth,    \* how many lines are written while qlop reads
  Tolerance,    \* 4: seconds between "exiting" and "terminating"
  Stale         \* 10 days: older starts are not running any more

Unset == -1

\* The first date that is given is the one to start from.
ASSUME EmergeLogAssumption ==
  /\ Gaps \subseteq Int /\ {MaxTime, MaxLines, MaxStarted, MaxGrowth, Tolerance, Stale} \subseteq Nat
  /\ \A c \in Commands : c.from \in Int /\ c.to \in Int /\ (c.to # Unset => c.from # Unset)

Begins(l) == l.k \in {"start", "unmerge", "autoclean"}
Ends(l) == l.k \in {"completed", "success"}

\* What Portage writes: first that an emerge starts; an end follows its start, tells
\* of the same and is the only one, and nothing ends once the process says that it
\* exits.  What is of one id is about one package.
ASSUME ScriptAssumption ==
  /\ \A e \in Emerges :
       /\ Len(Script[e]) \in Nat /\ DOMAIN Script[e] = 1..Len(Script[e])
       /\ Script[e] # <<>> => Script[e][1].k = "emerge"
       /\ \A i \in DOMAIN Script[e] :
            /\ Script[e][i].of \in 0..i /\ (Begins(Script[e][i]) => Script[e][i].of = i)
            /\ Ends(Script[e][i]) =>
                 /\ Script[e][i].of \in 1..i - 1
                 /\ Begins(Script[e][Script[e][i].of])
                 /\ Script[e][Script[e][i].of].id = Script[e][i].id
                 /\ Script[e][i].k = "completed" <=> Script[e][Script[e][i].of].k = "start"
                 /\ \A j \in DOMAIN Script[e] :
                      /\ Ends(Script[e][j]) /\ Script[e][j].of = Script[e][i].of => j = i
                      /\ Script[e][j].k = "exiting" => i < j
  /\ \A e, f \in Emerges : \A i \in DOMAIN Script[e], j \in DOMAIN Script[f] :
       Begins(Script[e][i]) /\ Begins(Script[f][j]) /\ Script[e][i].id = Script[f][j].id
         => Script[e][i].pkg = Script[f][j].pkg

VARIABLES
  clock, log,   \* the time, and the lines [t, k, pkg, id, by, of]
  at,           \* how many lines each process has got to
  cmd, atoms,   \* the options as qlop_main settles them; the atoms to look for
  pc,           \* where qlop is
  r             \* the locals of do_emerge_log()
vars == <<clock, log, at, cmd, atoms, pc, r>>
writers == <<clock, log, at>>

Forever == MaxTime + 1   \* LONG_MAX
None == [pn |-> 0, ver |-> 0]
NoProc == {None}         \* not readable, or not looked at
-----------------------------------------------------------------------------
(***************************************************************************)
(* The writers: Portage, as the comment before do_emerge_log has its log.  *)
(* Nothing makes a process write its next line: it may be killed at any.   *)
(***************************************************************************)
\* What is written while qlop reads is written between its two passes: a line is
\* as good as written before the pass that comes upon it.
Write(e) ==
  /\ at[e] < Len(Script[e])
  /\ Len(log) < MaxLines /\ (at[e] > 0 \/ Cardinality({f \in Emerges : at[f] > 0}) < MaxStarted)
  /\ pc = "idle" \/ (pc = "read" /\ Len(log) < r.opened + MaxGrowth)
  /\ at' = [at EXCEPT ![e] = @ + 1]
  /\ log' = Append(log, [t |-> clock, by |-> e, k |-> Script[e][at'[e]].k,
                         pkg |-> Script[e][at'[e]].pkg, id |-> Script[e][at'[e]].id,
                         of |-> Script[e][at'[e]].of])
  /\ UNCHANGED <<clock, cmd, atoms, pc, r>>

\* A build fails: the process says that it exits, and leaves out the rest.
GiveUp(e) ==
  LET last == SelectLastInSeq(Script[e], LAMBDA l : l.k = "exiting") IN
  /\ pc = "idle" /\ at[e] > 0 /\ at[e] < last - 1
  /\ at' = [at EXCEPT ![e] = last - 1]
  /\ UNCHANGED <<clock, log, cmd, atoms, pc, r>>

Pass ==
  /\ pc = "idle"
  /\ \E g \in Gaps : clock + g \in 1..MaxTime /\ clock' = clock + g
  /\ UNCHANGED <<log, at, cmd, atoms, pc, r>>
-----------------------------------------------------------------------------
(***************************************************************************)
(* qlop_main: the options.                                                 *)
(***************************************************************************)
Reports == {"merge", "unmerge", "autoclean", "sync"}
Actions == Reports \cup {"time", "running", "average", "predict", "summary"}

\* The options in the order in which qlop_main settles their conflicts.
Settled(c) ==
  LET When(cond, f, g) == IF cond THEN g ELSE f
      f0 == When("emerge" \in c.flags, c.flags,
                 c.flags \cup {"merge", "unmerge", "autoclean", "lastmerge"})
      f1 == When(f0 \cap Actions = {}, f0,
                 f0 \cup {"merge", "unmerge", "time"}
                    \cup (IF c.atoms = {} THEN {"sync"} ELSE {})
                    \cup (IF c.atoms = {} /\ c.from = Unset THEN {"lastmerge"} ELSE {}))
      f2 == When("summary" \in f1, f1, f1 \cup {"average"})
      f3 == When({"average", "predict"} \subseteq f2, f2, f2 \ {"average"})
      f4 == When({"average", "predict"} \cap f3 # {}, f3, f3 \ {"time"})
      f5 == When("running" \in f4, f4, f4 \ {"average", "predict"})
      f6 == When(c.atoms # {}, f5, f5 \ {"sync"})
      f7 == When(c.from # Unset, f6, f6 \ {"lastmerge"})
  IN When(f7 \cap {"average", "predict", "time", "running"} # {} /\ f7 \cap Reports = {},
          f7, f7 \cup {"merge", "unmerge"} \cup (IF c.atoms = {} THEN {"sync"} ELSE {}))

Has(f) == f \in cmd.flags
Averaging == Has("average") \/ Has("predict") \/ Has("running")

\* An atom without a version is for all of them.
Fits(pkg, a) == pkg.pn = a.pn /\ (a.ver = 0 \/ pkg.ver = a.ver)

\* probe_proc: the atoms that were asked for and run, and what else runs.  The list
\* it makes may tell of one twice, and keeps what it did not look at: it is only
\* asked whether an atom is on it.
ProbeProc(asked, running) ==
  LET found == {a \in asked : \E p \in running : Fits(p, a)}
      rest == {p \in running : ~\E a \in found : Fits(p, a)}
  IN found \cup {[pn |-> p.pn, ver |-> 0] : p \in rest}

Locals(from, to) ==
  [opened |-> Len(log), pos |-> 0, tstart |-> Forever, emergeAt |-> 0, lastMerge |-> 0,
   names |-> <<>>, begin |-> from, end |-> to, tlast |-> from,
   lastExit |-> 0, parallel |-> 0, sync |-> 0, syncs |-> <<>>,
   merges |-> <<>>, unmerges |-> <<>>, avg |-> <<>>, upgrade |-> None,
   pairs |-> <<>>, running |-> {}, predicted |-> {}, scanned |-> 0, bad |-> FALSE]

\* qlop_main, up to and including the opening of the log.
Start ==
  /\ pc = "idle"
  /\ \E c \in Commands, probe \in Probes :
       LET flags == Settled(c)
           from == IF c.from = Unset THEN 0 ELSE c.from
           probed == "running" \in flags /\ probe # NoProc
       IN /\ "predict" \in flags => c.atoms # {}
          /\ "running" \in flags \/ probe = NoProc
          /\ cmd' = [flags |-> flags, verbose |-> c.verbose,
                     all |-> (IF probed THEN ProbeProc(c.atoms, probe) ELSE c.atoms) = {}]
          /\ atoms' = IF probed THEN ProbeProc(c.atoms, probe) ELSE c.atoms
          /\ r' = Locals(from, IF c.to = Unset THEN Forever ELSE c.to)
          /\ pc' = IF probed /\ atoms' = {} THEN "done"
                   ELSE IF cmd'.all \/ "lastmerge" \in flags THEN "scan" ELSE "read"
  /\ UNCHANGED writers
-----------------------------------------------------------------------------
(***************************************************************************)
(* The first pass: the names, those of the last emerge with -l.            *)
(***************************************************************************)
\* hash_add(): the value is replaced where the key is there already, and the
\* caller is handed the old one.  TRUE stands for a value that is freed memory,
\* as qlop takes what it added for the one to free.
HashAdd(h, key) ==
  [k \in DOMAIN h \cup {key} |-> IF k = key THEN key \in DOMAIN h ELSE h[k]]

\* Only an emerge that did something counts as the last.
Emptied(s) ==
  [s EXCEPT !.bad = @ \/ \E n \in DOMAIN s.names : s.names[n],
            !.names = <<>>, !.lastMerge = s.emergeAt]

ScanLine(s, l) ==
  LET next == [s EXCEPT !.tstart = l.t,
                        !.emergeAt = IF l.k = "emerge" /\ Has("lastmerge") THEN l.t ELSE @]
      kept == IF next.lastMerge # next.emergeAt THEN Emptied(next) ELSE next
  IN IF l.t < s.begin \/ l.t > s.end THEN [s EXCEPT !.tstart = l.t]
     ELSE IF cmd.all /\ Begins(l) THEN [kept EXCEPT !.names = HashAdd(@, l.pkg.pn)]
     ELSE next

\* Mutant of Narrowed: the time of the last emerge that did something is not used.
Narrowed_End(s) == [s EXCEPT !.end = s.tstart]
Narrowed(s) == [s EXCEPT !.begin = s.lastMerge, !.end = s.tstart]

\* Up to the end of the file as it is now; -l narrows the time to the last emerge's.
Scan ==
  LET s == [FoldLeft(ScanLine, r, log) EXCEPT !.scanned = Len(log)] IN
  /\ pc = "scan"
  /\ pc' = IF s.bad THEN "killed" ELSE "read"
  /\ r' = IF Has("lastmerge") THEN Narrowed(s) ELSE s
  /\ UNCHANGED <<writers, cmd, atoms>>
-----------------------------------------------------------------------------
(***************************************************************************)
(* The second pass.                                                        *)
(***************************************************************************)
\* Mutant of Parallel: an emerge is over when it terminates.
Parallel_Terminating(s, l) ==
  CASE l.k = "emerge" -> s.parallel + 1
    [] l.k = "terminating" /\ s.parallel > 0 -> s.parallel - 1
    [] OTHER -> s.parallel
\* How many emerges run after the line.
Parallel(s, l) ==
  CASE l.k = "emerge" -> s.parallel + 1
    [] l.k = "exiting" /\ s.parallel > 0 -> s.parallel - 1
    [] l.k = "terminating" /\ s.parallel > 0 /\ l.t - Tolerance <= s.lastExit -> s.parallel - 1
    [] OTHER -> s.parallel

\* Keeping track of parallel emerges, before the dates apply: with none left,
\* what is unfinished was terminated.
Counted(s, l) ==
  LET n == Parallel(s, l)
      x == IF l.k = "exiting" /\ s.parallel > 0 THEN l.t ELSE s.lastExit
  IN CASE ~Has("running") \/ l.k \notin {"emerge", "exiting", "terminating"} -> s
       [] Has("running") /\ l.k \in {"emerge", "exiting", "terminating"} /\ n > 0 ->
            [s EXCEPT !.parallel = n, !.lastExit = x]
       [] OTHER -> [s EXCEPT !.parallel = 0, !.lastExit = x, !.sync = 0,
                             !.merges = <<>>, !.unmerges = <<>>]

\* Mutant of Dated: of the lines of one second the first is read.
Dated_OnePerSecond(s, l) == l.t > s.tlast /\ l.t >= s.begin /\ l.t <= s.end
\* Is the line of interest by its date?  s is after Counted.
Dated(s, l) == l.t >= s.tlast /\ l.t >= s.begin /\ l.t <= s.end

\* For a prediction every version up to the one asked for counts.
Matches(pkg, a) == Fits(pkg, a) \/ (Has("predict") /\ pkg.pn = a.pn /\ pkg.ver < a.ver)

\* Where there is a set of names it is the set that is asked: with -l and atoms it
\* is there and empty, as the first pass is after the last emerge only.
Wanted(s, pkg) ==
  IF cmd.all \/ Has("lastmerge") THEN pkg.pn \in DOMAIN s.names
  ELSE \E a \in atoms : Matches(pkg, a)

Started(l) == [id |-> l.id, pkg |-> l.pkg, t |-> l.t, by |-> <<l.by, l.of>>]

\* A sync that starts or stops; a stop without a start is excluded.
Sync(s, l) ==
  IF l.k = "sync" THEN [s EXCEPT !.sync = l.t]
  ELSE IF s.sync = 0 THEN s
  ELSE [s EXCEPT !.sync = 0, !.syncs = Append(@, l.t - s.sync)]

\* The averages go by name, by version with -p or -v.
Key(pkg, field) ==
  <<field, IF Has("predict") \/ (cmd.verbose /\ ~Has("running")) THEN pkg ELSE pkg.pn>>

Entry(n, time, max, pkg, freed) == [cnt |-> n, time |-> time, max |-> max, pkg |-> pkg, freed |-> freed]

\* Mutant of StartOf: the first one, which may have been cut off.
StartOf_First(open, id) == SelectInSeq(open, LAMBDA m : m.id = id)
\* The last start of the same id.
StartOf(open, id) == SelectLastInSeq(open, LAMBDA m : m.id = id)

\* A completed action is paired with its start, and goes
\* into the report or the averages.  A second time for one key is added to the
\* old entry, which hash_add() just took out, and the new one is freed.
Completed(s, l, field) ==
  LET i == StartOf(s[field], l.id)
      m == s[field][i]
      key == Key(m.pkg, field)
      elapsed == l.t - m.t
      known == key \in DOMAIN s.avg
      paired == [s EXCEPT ![field] = RemoveAt(@, i),
                          !.pairs = Append(@, [from |-> m.by, to |-> <<l.by, l.of>>,
                                               pkg |-> m.pkg])]
  IN IF i = 0 THEN s
     ELSE IF ~Averaging THEN paired
     ELSE [paired EXCEPT !.bad = known /\ s.avg[key].freed,
             !.avg = [k \in DOMAIN @ \cup {key} |->
                        IF k # key THEN @[k] ELSE Entry(1, elapsed, elapsed, m.pkg, known)]]

\* >>> emerge, and ::: completed emerge.
Merge(s, l) ==
  IF l.k = "completed" THEN Completed(s, l, "merges")
  ELSE IF Wanted(s, l.pkg) THEN [s EXCEPT !.merges = Append(@, Started(l))]
  ELSE s

\* === Unmerging..., and >>> unmerge success.  With -E the version that a merge
\* replaces is kept for the merge, and is not an unmerge of its own.
Unmerge(s, l) ==
  CASE l.k = "success" -> Completed(s, l, "unmerges")
    [] l.k = "autoclean" /\ Has("emerge") -> [s EXCEPT !.upgrade = l.pkg]
    [] OTHER -> IF Wanted(s, l.pkg) THEN [s EXCEPT !.unmerges = Append(@, Started(l))] ELSE s

\* With -r -E -v the end of an emerge is a line of its own, and ends no sync.
IsSync(l) ==
  /\ Has("sync") /\ l.k \in {"sync", "synced", "terminating"}
  /\ l.k = "terminating" => ~(Has("running") /\ Has("emerge") /\ cmd.verbose)
IsMerge(l) == Has("merge") /\ l.k \in {"start", "completed"}
IsUnmerge(l) ==
  \/ Has("unmerge") /\ l.k \in {"unmerge", "success"}
  \/ Has("autoclean") /\ l.k \in {"autoclean", "success"}

ReadLine(s0, l) ==
  LET s == Counted(s0, l)
      d == [s EXCEPT !.tlast = l.t]
  IN IF s0.bad THEN s0
     ELSE CASE l.t < s.tlast -> s
            [] l.t >= s.tlast /\ ~Dated(s, l) -> d
            [] Dated(s, l) /\ IsSync(l) -> Sync(d, l)
            [] Dated(s, l) /\ ~IsSync(l) /\ IsMerge(l) -> Merge(d, l)
            [] Dated(s, l) /\ ~IsSync(l) /\ ~IsMerge(l) /\ IsUnmerge(l) -> Unmerge(d, l)
            [] OTHER -> d

Read ==
  LET s == [FoldLeft(ReadLine, r, log) EXCEPT !.pos = Len(log)] IN
  /\ pc = "read"
  /\ pc' = IF s.bad THEN "killed" ELSE "over"
  /\ r' = s
  /\ UNCHANGED <<writers, cmd, atoms>>
-----------------------------------------------------------------------------
(***************************************************************************)
(* The end of the log.                                                     *)
(***************************************************************************)
\* What was started and not completed and is not too old; of a name one start.
Running(open, newest) ==
  LET cutoff == (IF r.begin > 0 THEN r.begin ELSE clock) - Stale
      fresh == {i \in DOMAIN open : open[i].t >= cutoff}
      Same(i) == {j \in fresh : open[j].pkg.pn = open[i].pkg.pn}
  IN {open[i].by : i \in {i \in fresh : \A j \in Same(i) : IF newest THEN j <= i ELSE i <= j}}

Average(pkg) == r.avg[<<"merges", pkg>>].time \div r.avg[<<"merges", pkg>>].cnt

\* The average of the version itself, or what the last two versions before it
\* extrapolate to.
Predicted(a) ==
  LET known == {v \in {k[2] : k \in {k \in DOMAIN r.avg : k[1] = "merges"}} :
                  v.pn = a.pn /\ (a.ver = 0 \/ v.ver <= a.ver)}
      Newest(S) == CHOOSE v \in S : \A w \in S : w.ver <= v.ver
      last == Newest(known)
  IN CASE a \in known -> {Average(a)}
       [] a \notin known /\ Cardinality(known) > 1 ->
            {2 * Average(last) - Average(Newest(known \ {last}))}
       [] OTHER -> {}

\* The list of what runs, the averages or the predictions: all read the averages.
\* Then what is left in the hashes is freed.
Report ==
  /\ pc = "over"
  /\ r' = IF \/ \E k \in DOMAIN r.avg : r.avg[k].freed
             \/ \E n \in DOMAIN r.names : r.names[n]
          THEN [r EXCEPT !.bad = TRUE]
          ELSE IF Has("running")
          THEN [r EXCEPT !.running = Running(r.merges, TRUE) \cup Running(r.unmerges, FALSE)]
          ELSE IF Has("predict")
          THEN [r EXCEPT !.predicted = UNION {Predicted(a) : a \in atoms}]
          ELSE r
  /\ pc' = IF r'.bad THEN "killed" ELSE "done"
  /\ UNCHANGED <<writers, cmd, atoms>>
-----------------------------------------------------------------------------
Init ==
  /\ clock = 1 /\ log = <<>> /\ at = [e \in Emerges |-> 0]
  /\ cmd = [flags |-> {}, verbose |-> FALSE, all |-> TRUE] /\ atoms = {}
  /\ pc = "idle" /\ r = Locals(0, Forever)

Qlop == Start \/ Scan \/ Read \/ Report

Next == Qlop \/ Pass \/ \E e \in Emerges : Write(e) \/ GiveUp(e)

Spec == Init /\ [][Next]_vars
-----------------------------------------------------------------------------
(***************************************************************************)
(* What the log says, told with the knowledge of who wrote each line.      *)
(***************************************************************************)
Who(l) == <<l.by, l.of>>
Lines == 1..r.pos
Ended == pc = "done"

Ordered == \A i \in 2..Len(log) : log[i - 1].t <= log[i].t

\* Two processes did the same at the same time, or an emerge started before
\* another one was over.
Clash ==
  \E i, j, k \in DOMAIN log :
    /\ i < j /\ j < k /\ Who(log[i]) = Who(log[k]) /\ Begins(log[i]) /\ Ends(log[k])
    /\ Begins(log[j]) /\ log[j].id = log[i].id /\ Who(log[j]) # Who(log[i])
OneByOne == \A i, j, k \in DOMAIN log :
  i < j /\ j < k /\ log[i].by = log[k].by => log[j].by = log[i].by
Finished(e) == \E k \in DOMAIN log : log[k].by = e /\ log[k].k = "terminating"

\* qlop.c:385-390: merges that were cut off are in the log for ever.  What is
\* reported as one action started and completed by one process: the start is not
\* that of an earlier attempt.
PairsOwn ==
  (Ordered /\ ~Clash /\ ~Has("emerge") /\ ("unmerge" \in cmd.flags <=> "autoclean" \in cmd.flags)) =>
    \A i \in DOMAIN r.pairs : r.pairs[i].from = r.pairs[i].to

\* Does line i start what qlop was asked for?  Without atoms that is all that was in
\* the log when it was opened; with -l what came after the last emerge began.
Sought(i) ==
  IF cmd.all
  THEN /\ i <= r.scanned
       /\ Has("lastmerge") =>
            \A n \in i + 1..r.scanned : log[n].k = "emerge" => log[n].t # r.begin
  ELSE \E a \in atoms : Matches(log[i].pkg, a)

\* qlop.c:481-482: -l with atoms gathers no name, and then finds nothing.
FindsNothing == Has("lastmerge") /\ ~cmd.all

\* Every action in the dates that was asked for and has completed is reported, once,
\* whatever emerges did at the same time, was cut off before, or is written while
\* the log is read.
AllReported ==
  (Ended /\ Ordered /\ ~Clash /\ ~Has("running") /\ ~Has("emerge") /\ ~FindsNothing) =>
    \A i, j \in Lines :
      (/\ Begins(log[i]) /\ Ends(log[j]) /\ Who(log[i]) = Who(log[j])
       /\ IF log[j].k = "completed" THEN Has("merge") ELSE IsUnmerge(log[i])
       /\ log[i].t >= r.begin /\ log[j].t <= r.end /\ Sought(i)) =>
         Cardinality({n \in DOMAIN r.pairs : r.pairs[n].to = Who(log[j])}) = 1

\* No two emerges wrote in the same second: they are told apart by their times.
Apart == \A i, j \in DOMAIN log : log[i].by # log[j].by => log[i].t # log[j].t

\* qlop -l, "Limit selection to last Portage emerge action": where emerges did not
\* overlap, all that is reported was done by the last one that did anything when
\* the log was opened, even if the log has grown since.
LastOnly ==
  (Has("lastmerge") /\ cmd.all /\ Ended /\ Ordered /\ OneByOne /\ Apart) =>
    \A n \in DOMAIN r.pairs :
      \A i \in 1..r.scanned : Begins(log[i]) =>
        \E j \in 1..r.scanned : log[j].by = r.pairs[n].to[1] /\ j >= i

\* qlop.c:392-395: "if, and only if, there are no parallel merges, and portage never
\* got interrupted in a way where it could not write its interruption to the log",
\* the log says what is being merged.
RunningExact ==
  (/\ Ended /\ Has("running") /\ cmd.all /\ Ordered /\ OneByOne /\ r.begin = 0
   /\ \A i \in Lines : log[i].by # Last(log).by => Finished(log[i].by)
   /\ \A i \in Lines : log[i].k = "terminating" =>
        \E j \in Lines : log[j].k = "exiting" /\ log[j].by = log[i].by) =>
    \A i \in {i \in 1..r.scanned : log[i].k \in {"start", "unmerge"} /\ log[i].t >= clock - Stale} :
      Who(log[i]) \in r.running <=>
        (~\E j \in Lines : \/ Ends(log[j]) /\ Who(log[j]) = Who(log[i])
                           \/ log[j].k = "exiting" /\ log[j].by = log[i].by)

\* set.c:390-391: "return existing value when key already exists": what hash_add()
\* returns may be used, and what it was given may be freed.
NoUseAfterFree == pc # "killed"
=============================================================================
