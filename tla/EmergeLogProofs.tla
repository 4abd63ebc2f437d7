---------------------------- MODULE EmergeLogProofs ----------------------------
(***************************************************************************)
(* What TLAPS proves about EmergeLog, for any scripts, commands and any    *)
(* interleaving of the emerges: that qlop reports as one action only what  *)
(* one process started and completed, and that it reports every action     *)
(* that it was asked for, once.                                            *)
(***************************************************************************)
EXTENDS EmergeLog, SequenceTheorems, FiniteSetTheorems, WellFoundedInduction, TLAPS

-----------------------------------------------------------------------------
(* Natural numbers and sequences.                                          *)

LEMMA LeastIn ==
  ASSUME NEW B \in SUBSET Nat, B # {}
  PROVE  \E m \in B : \A j \in B : m <= j
  <1>1. PICK m \in B : \A j \in B : ~ (<<j, m>> \in OpToRel(<, Nat))
    BY WFMin, NatLessThanWellFounded
  <1>2. \A i, j \in Nat : ~ (<<j, i>> \in OpToRel(<, Nat)) => i <= j
    BY DEF OpToRel
  <1> QED
    BY <1>1, <1>2

\* A set of numbers that has 0, and with each number below n the next one.
LEMMA UpTo ==
  ASSUME NEW n \in Nat, NEW S \in SUBSET Nat, 0 \in S,
         \A k \in S : k < n => k + 1 \in S
  PROVE  \A k \in 0 .. n : k \in S
  <1> DEFINE B == {k \in 0 .. n : k \notin S}
  <1> SUFFICES ASSUME B # {} PROVE FALSE
    OBVIOUS
  <1>0. B \in SUBSET Nat /\ \A j \in B : j <= n /\ j \notin S
    OBVIOUS
  <1>a. \A j \in 0 .. n : j \notin S => j \in B
    OBVIOUS
  <1> HIDE DEF B
  <1>1. PICK m \in B : \A j \in B : m <= j
    BY <1>0, LeastIn
  <1>2. m \in Nat /\ m # 0 /\ m <= n
    BY <1>0
  <1>3. m - 1 \in 0 .. n /\ m - 1 < m /\ m - 1 < n /\ (m - 1) + 1 = m
    BY <1>2
  <1>4. m - 1 \in S
    BY <1>1, <1>2, <1>3, <1>a
  <1> QED
    BY <1>0, <1>3, <1>4

LEMMA GreatestUpTo ==
  ASSUME NEW n \in Nat, NEW t \in SUBSET (1 .. n), n \in t
  PROVE  Max(t) = n
  <1>1. \A y \in t : n >= y
    OBVIOUS
  <1>2. \A x \in t : (\A y \in t : x >= y) => x = n
    OBVIOUS
  <1> QED
    BY <1>1, <1>2 DEF Max

LEMMA GreatestIn ==
  ASSUME NEW n \in Nat, NEW t \in SUBSET (1 .. n), t # {}
  PROVE  Max(t) \in t /\ \A x \in t : x <= Max(t)
  <1> DEFINE B == {n - x : x \in t}
  <1>0. \A x \in t : n - x \in Nat
    OBVIOUS
  <1>1. B \in SUBSET Nat /\ B # {}
    <2>1. \A b \in B : b \in Nat
      BY <1>0
    <2> QED
      BY <2>1
  <1>2. PICK m \in B : \A j \in B : m <= j
    BY <1>1, LeastIn
  <1>3. PICK y \in t : m = n - y
    BY <1>2
  <1>4. ASSUME NEW x \in t PROVE y >= x
    <2>1. n - x \in B
      OBVIOUS
    <2>2. n - y <= n - x
      BY <1>2, <1>3, <2>1
    <2> QED
      BY <2>2
  <1>5. \E x \in t : \A z \in t : x >= z
    BY <1>3, <1>4
  <1>6. Max(t) \in t /\ \A z \in t : Max(t) >= z
    BY <1>5 DEF Max
  <1> QED
    BY <1>6

LEMMA Appended ==
  ASSUME NEW S, NEW s \in Seq(S), NEW e \in S
  PROVE  /\ Append(s, e) \in Seq(S) /\ Len(Append(s, e)) = Len(s) + 1 /\ Len(s) \in Nat
         /\ Append(s, e)[Len(s) + 1] = e
         /\ \A n \in 1 .. Len(s) : Append(s, e)[n] = s[n]
  BY AppendProperties, LenProperties

LEMMA Removed ==
  ASSUME NEW S, NEW s \in Seq(S), NEW i \in 1 .. Len(s)
  PROVE  /\ RemoveAt(s, i) \in Seq(S) /\ Len(RemoveAt(s, i)) = Len(s) - 1 /\ Len(s) \in Nat
         /\ \A n \in 1 .. Len(s) - 1 :
              RemoveAt(s, i)[n] = IF n < i THEN s[n] ELSE s[n + 1]
  <1> DEFINE a == SubSeq(s, 1, i - 1)
             b == SubSeq(s, i + 1, Len(s))
  <1>1. Len(s) \in Nat /\ i \in Nat /\ 1 <= i /\ i <= Len(s) /\ \A n \in 1 .. Len(s) : s[n] \in S
    BY LenProperties, ElementOfSeq
  <1>2. a \in Seq(S) /\ Len(a) = i - 1 /\ \A n \in 1 .. i - 1 : a[n] = s[n]
    <2>1. i - 1 \in 1 - 1 .. Len(s)
      BY <1>1
    <2>2. IF 1 <= i - 1 THEN Len(a) = (i - 1) - 1 + 1 ELSE Len(a) = 0
      BY <1>1
    <2> QED
      BY <1>1, <2>1, <2>2
  <1>3. b \in Seq(S) /\ Len(b) = Len(s) - i /\ \A n \in 1 .. Len(s) - i : b[n] = s[i + n]
    BY <1>1
  <1> HIDE DEF a, b
  <1>4. /\ a \o b \in Seq(S) /\ Len(a \o b) = Len(a) + Len(b)
        /\ \A n \in 1 .. Len(a) + Len(b) : (a \o b)[n] = IF n <= Len(a) THEN a[n] ELSE b[n - Len(a)]
    BY <1>2, <1>3, ConcatProperties
  <1>5. RemoveAt(s, i) = a \o b
    BY DEF RemoveAt, a, b
  <1>6. ASSUME NEW n \in 1 .. Len(s) - 1
        PROVE  RemoveAt(s, i)[n] = IF n < i THEN s[n] ELSE s[n + 1]
    <2>1. (a \o b)[n] = IF n <= i - 1 THEN a[n] ELSE b[n - (i - 1)]
      BY <1>1, <1>2, <1>3, <1>4, SMTT(30)
    <2>2. CASE n < i
      BY <1>1, <1>2, <1>5, <2>1, <2>2
    <2>3. CASE ~ (n < i)
      <3>1. n - (i - 1) \in 1 .. Len(s) - i /\ i + (n - (i - 1)) = n + 1
        BY <1>1, <2>3
      <3>2. b[n - (i - 1)] = s[n + 1]
        BY <1>3, <3>1
      <3>3. ~ (n <= i - 1)
        BY <1>1, <2>3
      <3> QED
        BY <1>5, <2>1, <2>3, <3>2, <3>3
    <2> QED
      BY <2>2, <2>3
  <1>7. Len(a \o b) = Len(s) - 1
    BY <1>1, <1>2, <1>3, <1>4
  <1> QED
    BY <1>1, <1>4, <1>5, <1>6, <1>7

\* The last start of the same id: none is there, or it is there and all others
\* come before it.
LEMMA LastStart ==
  ASSUME NEW S, NEW open \in Seq(S), NEW id
  PROVE  /\ StartOf(open, id) \in 0 .. Len(open)
         /\ StartOf(open, id) = 0 => \A n \in 1 .. Len(open) : open[n].id # id
         /\ StartOf(open, id) # 0 =>
              /\ open[StartOf(open, id)].id = id
              /\ \A n \in 1 .. Len(open) : open[n].id = id => n <= StartOf(open, id)
  <1> DEFINE I == {n \in 1 .. Len(open) : open[n].id = id}
  <1>1. StartOf(open, id) = IF I # {} THEN Max(I) ELSE 0
    BY DEF StartOf, SelectLastInSeq
  <1>2. Len(open) \in Nat
    BY LenProperties
  <1>3. I # {} => Max(I) \in I /\ \A x \in I : x <= Max(I)
    BY <1>2, GreatestIn
  <1> QED
    BY <1>1, <1>2, <1>3

-----------------------------------------------------------------------------
(* The log: whose line is what.                                            *)

LineSet == {[t |-> t, by |-> e, k |-> Script[e][n].k, pkg |-> Script[e][n].pkg,
             id |-> Script[e][n].id, of |-> Script[e][n].of] : t \in Int, e \in Emerges, n \in Nat}

Copy(l, n) ==
  /\ l.k = Script[l.by][n].k /\ l.pkg = Script[l.by][n].pkg
  /\ l.id = Script[l.by][n].id /\ l.of = Script[l.by][n].of
CopyUpTo(l, n) == \E m \in 1 .. n : Copy(l, m)

Same(i, j) == Who(log[i]) = Who(log[j])
Size == Len(log)

\* Line i is the start of what line j ends.
Opens(i, j) ==
  /\ Begins(log[i]) /\ Ends(log[j]) /\ Same(i, j) /\ log[i].id = log[j].id
  /\ log[j].k = "completed" <=> log[i].k = "start"

EndsBy(e, n) == \A m \in DOMAIN Script[e] : Ends(Script[e][m]) => m <= n

LinesInv ==
  /\ clock \in Nat /\ 1 <= clock /\ log \in Seq(LineSet)
  /\ at \in [Emerges -> Nat] /\ \A e \in Emerges : at[e] <= Len(Script[e])
  /\ \A i \in 1 .. Size : log[i].by \in Emerges /\ log[i].t \in Nat /\ 1 <= log[i].t
  /\ \A i \in 1 .. Size : CopyUpTo(log[i], at[log[i].by])
StartOnce == \A i, j \in 1 .. Size : Begins(log[i]) /\ Begins(log[j]) /\ Same(i, j) => i = j
EndOnce == \A i, j \in 1 .. Size : Ends(log[i]) /\ Ends(log[j]) /\ Same(i, j) => i = j
Began == \A j \in 1 .. Size : Ends(log[j]) => \E i \in 1 .. Size : i < j /\ Opens(i, j)

\* A start that a process has passed is in the log, or nothing it still writes
\* is an end.
Covered ==
  \A e \in Emerges : \A n \in 1 .. at[e] : Begins(Script[e][n]) =>
    \/ \E i \in 1 .. Size : log[i].by = e /\ Copy(log[i], n)
    \/ EndsBy(e, at[e])

LogInv == LinesInv /\ StartOnce /\ EndOnce /\ Began /\ Covered

LEMMA ScriptFacts ==
  ASSUME NEW e \in Emerges
  PROVE  /\ Len(Script[e]) \in Nat /\ DOMAIN Script[e] = 1 .. Len(Script[e])
         /\ \A i \in 1 .. Len(Script[e]) :
              /\ Begins(Script[e][i]) => Script[e][i].of = i
              /\ Ends(Script[e][i]) =>
                   /\ Script[e][i].of \in 1 .. i - 1
                   /\ Begins(Script[e][Script[e][i].of])
                   /\ Script[e][Script[e][i].of].of = Script[e][i].of
                   /\ Script[e][Script[e][i].of].id = Script[e][i].id
                   /\ Script[e][i].k = "completed" <=> Script[e][Script[e][i].of].k = "start"
                   /\ \A j \in 1 .. Len(Script[e]) :
                        /\ Ends(Script[e][j]) /\ Script[e][j].of = Script[e][i].of => j = i
                        /\ Script[e][j].k = "exiting" => i < j
  <1>1. /\ Len(Script[e]) \in Nat /\ DOMAIN Script[e] = 1 .. Len(Script[e])
        /\ \A i \in DOMAIN Script[e] :
             /\ Script[e][i].of \in 0 .. i /\ (Begins(Script[e][i]) => Script[e][i].of = i)
             /\ Ends(Script[e][i]) =>
                  /\ Script[e][i].of \in 1 .. i - 1
                  /\ Begins(Script[e][Script[e][i].of])
                  /\ Script[e][Script[e][i].of].id = Script[e][i].id
                  /\ Script[e][i].k = "completed" <=> Script[e][Script[e][i].of].k = "start"
                  /\ \A j \in DOMAIN Script[e] :
                       /\ Ends(Script[e][j]) /\ Script[e][j].of = Script[e][i].of => j = i
                       /\ Script[e][j].k = "exiting" => i < j
    BY ScriptAssumption
  <1>2. ASSUME NEW i \in 1 .. Len(Script[e]), Ends(Script[e][i])
        PROVE  Script[e][Script[e][i].of].of = Script[e][i].of
    <2>1. Script[e][i].of \in 1 .. i - 1 /\ Begins(Script[e][Script[e][i].of])
      BY <1>1, <1>2
    <2>2. Script[e][i].of \in 1 .. Len(Script[e])
      BY <1>1, <2>1
    <2> QED
      BY <1>1, <2>1, <2>2
  <1> QED
    BY <1>1, <1>2

\* What tells the lines of a process apart.
LEMMA CopyFacts ==
  ASSUME NEW l \in LineSet, l.by \in Emerges, NEW n \in Nat, n <= Len(Script[l.by]), CopyUpTo(l, n)
  PROVE  /\ Begins(l) => l.of \in 1 .. n /\ Copy(l, l.of) /\ Begins(Script[l.by][l.of])
         /\ Ends(l) => \E m \in 1 .. n : Copy(l, m) /\ Ends(Script[l.by][m]) /\ l.of < m /\ l.of \in 1 .. n
  <1>1. PICK m \in 1 .. n : Copy(l, m)
    BY DEF CopyUpTo
  <1>2. m \in 1 .. Len(Script[l.by])
    BY ScriptFacts
  <1>3. Begins(l) <=> Begins(Script[l.by][m])
    BY <1>1 DEF Begins, Copy
  <1>4. Ends(l) <=> Ends(Script[l.by][m])
    BY <1>1 DEF Ends, Copy
  <1>5. Begins(l) => l.of = m
    BY <1>1, <1>2, <1>3, ScriptFacts DEF Copy
  <1>6. Ends(l) => l.of \in 1 .. m - 1
    BY <1>1, <1>2, <1>4, ScriptFacts DEF Copy
  <1>7. Ends(l) => l.of < m /\ l.of \in 1 .. n
    BY <1>6
  <1> QED
    BY <1>1, <1>3, <1>4, <1>5, <1>7

LEMMA LineFacts ==
  ASSUME LinesInv, NEW i \in 1 .. Size
  PROVE  /\ Size \in Nat /\ log[i] \in LineSet /\ log[i].by \in Emerges
         /\ log[i].t \in Nat /\ 1 <= log[i].t
         /\ at[log[i].by] \in Nat /\ at[log[i].by] <= Len(Script[log[i].by])
         /\ CopyUpTo(log[i], at[log[i].by])
  BY LenProperties, ElementOfSeq, SMTT(30) DEF LinesInv, Size

\* What is of one id is about one package.
LEMMA SamePackage ==
  ASSUME LinesInv, NEW i \in 1 .. Size, NEW j \in 1 .. Size,
         Begins(log[i]), Begins(log[j]), log[i].id = log[j].id
  PROVE  log[i].pkg = log[j].pkg
  <1> DEFINE e == log[i].by
             f == log[j].by
             n == log[i].of
             m == log[j].of
  <1>1. e \in Emerges /\ n \in 1 .. at[e] /\ Copy(log[i], n) /\ Begins(Script[e][n])
    BY LineFacts, CopyFacts
  <1>2. f \in Emerges /\ m \in 1 .. at[f] /\ Copy(log[j], m) /\ Begins(Script[f][m])
    BY LineFacts, CopyFacts
  <1>3. n \in DOMAIN Script[e]
    BY <1>1, LineFacts, ScriptFacts
  <1>4. m \in DOMAIN Script[f]
    BY <1>2, LineFacts, ScriptFacts, SMTT(30)
  <1>5. Script[e][n].id = Script[f][m].id
    BY <1>1, <1>2 DEF Copy
  <1>6. \A x, y \in Emerges : \A p \in DOMAIN Script[x], q \in DOMAIN Script[y] :
          Begins(Script[x][p]) /\ Begins(Script[y][q]) /\ Script[x][p].id = Script[y][q].id
            => Script[x][p].pkg = Script[y][q].pkg
    BY ScriptAssumption
  <1>7. Script[e][n].pkg = Script[f][m].pkg
    BY <1>1, <1>2, <1>3, <1>4, <1>5, <1>6, SMTT(30)
  <1> QED
    BY <1>1, <1>2, <1>7 DEF Copy

\* The line that is written.
LEMMA NewLine ==
  ASSUME LogInv, NEW e \in Emerges, Write(e)
  PROVE  \E l \in LineSet :
           /\ log' = Append(log, l) /\ l.t = clock /\ l.by = e /\ Copy(l, at[e] + 1)
           /\ at' = [at EXCEPT ![e] = at[e] + 1] /\ at[e] + 1 \in 1 .. Len(Script[e])
           /\ log' \in Seq(LineSet) /\ Size' = Size + 1 /\ Size \in Nat
           /\ log'[Size + 1] = l /\ \A i \in 1 .. Size : log'[i] = log[i]
  <1> DEFINE n == at[e] + 1
             l == [t |-> clock, by |-> e, k |-> Script[e][n].k, pkg |-> Script[e][n].pkg,
                   id |-> Script[e][n].id, of |-> Script[e][n].of]
  <1>1. at \in [Emerges -> Nat] /\ clock \in Int /\ log \in Seq(LineSet)
    BY DEF LogInv, LinesInv
  <1>2. n \in Nat /\ n \in 1 .. Len(Script[e])
    BY <1>1, ScriptFacts DEF Write
  <1>3. at' = [at EXCEPT ![e] = n] /\ at'[e] = n
    BY <1>1 DEF Write
  <1>4. log' = Append(log, l)
    BY <1>3 DEF Write
  <1>5. l \in LineSet
    BY <1>1, <1>2 DEF LineSet
  <1>6. l.t = clock /\ l.by = e /\ Copy(l, n)
    BY DEF Copy
  <1>7. /\ log' \in Seq(LineSet) /\ Size' = Size + 1 /\ Size \in Nat
        /\ log'[Size + 1] = l /\ \A i \in 1 .. Size : log'[i] = log[i]
    <2> HIDE DEF l
    <2> QED
      BY <1>1, <1>4, <1>5, Appended DEF Size
  <1> QED
    BY <1>2, <1>3, <1>4, <1>5, <1>6, <1>7

LEMMA WriteLog ==
  ASSUME LogInv, NEW e \in Emerges, Write(e)
  PROVE  LogInv'
  <1>1. PICK l \in LineSet :
          /\ log' = Append(log, l) /\ l.t = clock /\ l.by = e /\ Copy(l, at[e] + 1)
          /\ at' = [at EXCEPT ![e] = at[e] + 1] /\ at[e] + 1 \in 1 .. Len(Script[e])
          /\ log' \in Seq(LineSet) /\ Size' = Size + 1 /\ Size \in Nat
          /\ log'[Size + 1] = l /\ \A i \in 1 .. Size : log'[i] = log[i]
    BY NewLine
  <1> DEFINE n == at[e] + 1
             z == Size + 1
  <1>2. /\ clock' = clock /\ clock \in Nat /\ 1 <= clock /\ at \in [Emerges -> Nat]
        /\ \A f \in Emerges : at[f] <= Len(Script[f])
    BY DEF LogInv, LinesInv, Write, writers
  <1>3. n \in Nat /\ z \in Nat /\ at[e] \in Nat
    BY <1>1, <1>2
  <1>4. at' \in [Emerges -> Nat] /\ at'[e] = n /\ \A f \in Emerges : f # e => at'[f] = at[f]
    BY <1>1, <1>2, <1>3
  <1>5. \A f \in Emerges : at[f] \in Nat /\ at'[f] \in Nat /\ at[f] <= at'[f] /\ at'[f] <= Len(Script[f])
    BY <1>1, <1>2, <1>3, <1>4
  <1>6. \A i \in 1 .. z : i \in 1 .. Size \/ i = z
    BY <1>1
  <1>7. \A i \in 1 .. Size : log'[i] = log[i] /\ i < z /\ i \in 1 .. z
    <2>1. \A i \in 1 .. Size : i < z /\ i \in 1 .. z
      BY <1>1
    <2> QED
      BY <1>1, <2>1
  <1>8. log'[z] = l /\ Size' = z /\ z \in 1 .. z
    BY <1>1
  <1>9. CopyUpTo(l, n)
    BY <1>1, <1>3, SMTT(30) DEF CopyUpTo
  <1> HIDE DEF n, z
  <1>10. LinesInv'
    <2>1. ASSUME NEW i \in 1 .. z
          PROVE  /\ log'[i].by \in Emerges /\ log'[i].t \in Nat /\ 1 <= log'[i].t
                 /\ CopyUpTo(log'[i], at'[log'[i].by])
      <3>1. CASE i = z
        BY <1>1, <1>2, <1>4, <1>8, <1>9, <3>1
      <3>2. CASE i # z
        <4>1. i \in 1 .. Size /\ log'[i] = log[i]
          BY <1>6, <1>7, <3>2
        <4>2. /\ log[i].by \in Emerges /\ log[i].t \in Nat /\ 1 <= log[i].t
              /\ CopyUpTo(log[i], at[log[i].by])
          BY <4>1, LineFacts DEF LogInv
        <4>3. CopyUpTo(log[i], at'[log[i].by])
          BY <1>5, <4>2 DEF CopyUpTo
        <4> QED
          BY <4>1, <4>2, <4>3
      <3> QED
        BY <3>1, <3>2
    <2> QED
      BY <1>1, <1>2, <1>4, <1>5, <1>8, <2>1 DEF LinesInv, CopyUpTo, Copy
  <1>11. StartOnce'
    <2>1. ASSUME NEW i \in 1 .. Size, Begins(l), Begins(log[i]) PROVE Who(l) # Who(log[i])
      <3>1. l.by = log[i].by => log[i].of \in 1 .. at[e]
        BY <1>1, <2>1, LineFacts, CopyFacts DEF LogInv
      <3>2. l.of = n
        <4>1. Begins(Script[e][n])
          BY <1>1, <2>1 DEF Begins, Copy, n
        <4> QED
          BY <1>1, <4>1, ScriptFacts DEF Copy, n
      <3>3. ~ (n \in 1 .. at[e])
        BY <1>3 DEF n
      <3> QED
        BY <3>1, <3>2, <3>3 DEF Who
    <2>2. ASSUME NEW i \in 1 .. z, NEW j \in 1 .. z, Begins(log'[i]), Begins(log'[j]),
                 Who(log'[i]) = Who(log'[j])
          PROVE  i = j
      BY <1>6, <1>7, <1>8, <2>1, <2>2 DEF LogInv, StartOnce, Same
    <2> QED
      BY <1>8, <2>2 DEF StartOnce, Same
  <1>12. EndOnce'
    <2>1. ASSUME NEW i \in 1 .. Size, Ends(l), Ends(log[i]) PROVE Who(l) # Who(log[i])
      <3> SUFFICES ASSUME Who(l) = Who(log[i]) PROVE FALSE
        OBVIOUS
      <3>1. log[i].by = e /\ log[i].of = l.of
        BY <1>1 DEF Who
      <3>2. PICK m \in 1 .. at[e] : Copy(log[i], m) /\ Ends(Script[e][m])
        BY <1>1, <2>1, <3>1, LineFacts, CopyFacts DEF LogInv
      <3>3. m \in 1 .. Len(Script[e]) /\ n \in 1 .. Len(Script[e])
        BY <1>1, <1>2, <1>3, <3>2, ScriptFacts DEF n
      <3>4. Ends(Script[e][n]) /\ Script[e][n].of = l.of
        BY <1>1, <2>1 DEF Ends, Copy, n
      <3>5. Script[e][m].of = l.of
        BY <3>1, <3>2 DEF Copy
      <3>6. m = n
        BY <3>2, <3>3, <3>4, <3>5, ScriptFacts
      <3> QED
        BY <1>3, <3>2, <3>6 DEF n
    <2>2. ASSUME NEW i \in 1 .. z, NEW j \in 1 .. z, Ends(log'[i]), Ends(log'[j]),
                 Who(log'[i]) = Who(log'[j])
          PROVE  i = j
      BY <1>6, <1>7, <1>8, <2>1, <2>2 DEF LogInv, EndOnce, Same
    <2> QED
      BY <1>8, <2>2 DEF EndOnce, Same
  <1>13. Began'
    <2>1. ASSUME Ends(l)
          PROVE  \E i \in 1 .. Size : /\ Begins(log[i]) /\ Who(log[i]) = Who(l) /\ log[i].id = l.id
                                      /\ l.k = "completed" <=> log[i].k = "start"
      <3>1. Ends(Script[e][n]) /\ Script[e][n].of = l.of /\ Script[e][n].id = l.id /\ Script[e][n].k = l.k
        BY <1>1, <2>1 DEF Ends, Copy, n
      <3> DEFINE m == l.of
      <3>2. n \in 1 .. Len(Script[e])
        BY <1>1 DEF n
      <3>3. /\ m \in 1 .. n - 1 /\ Begins(Script[e][m]) /\ Script[e][m].id = l.id
            /\ l.k = "completed" <=> Script[e][m].k = "start"
        BY <3>1, <3>2, ScriptFacts
      <3>4. m \in 1 .. at[e]
        BY <1>3, <3>3 DEF n
      <3>5. ~ EndsBy(e, at[e])
        BY <1>3, <3>1, <3>2, ScriptFacts DEF EndsBy, n
      <3>6. PICK i \in 1 .. Size : log[i].by = e /\ Copy(log[i], m)
        BY <3>3, <3>4, <3>5 DEF LogInv, Covered
      <3>7. m \in 1 .. Len(Script[e])
        BY <1>2, <1>3, <3>4, ScriptFacts
      <3>8. Script[e][m].of = m
        BY <3>3, <3>7, ScriptFacts
      <3>9. Begins(log[i]) /\ log[i].of = m /\ log[i].id = l.id /\ log[i].k = Script[e][m].k
        BY <3>3, <3>6, <3>8 DEF Begins, Copy
      <3> QED
        BY <1>1, <3>3, <3>6, <3>9 DEF Who
    <2>2. ASSUME NEW j \in 1 .. z, Ends(log'[j])
          PROVE  \E i \in 1 .. z : /\ i < j /\ Begins(log'[i]) /\ Who(log'[i]) = Who(log'[j])
                                   /\ log'[i].id = log'[j].id
                                   /\ log'[j].k = "completed" <=> log'[i].k = "start"
      <3>1. CASE j = z
        <4>1. PICK i \in 1 .. Size : /\ Begins(log[i]) /\ Who(log[i]) = Who(l) /\ log[i].id = l.id
                                     /\ l.k = "completed" <=> log[i].k = "start"
          BY <1>8, <2>1, <2>2, <3>1
        <4> QED
          BY <1>7, <1>8, <3>1, <4>1
      <3>2. CASE j # z
        <4>1. j \in 1 .. Size /\ log'[j] = log[j]
          BY <1>6, <1>7, <3>2
        <4>2. PICK i \in 1 .. Size : i < j /\ Opens(i, j)
          BY <2>2, <4>1 DEF LogInv, Began
        <4> QED
          BY <1>7, <4>1, <4>2 DEF Opens, Same
      <3> QED
        BY <3>1, <3>2
    <2> QED
      BY <1>8, <2>2 DEF Began, Opens, Same
  <1>14. Covered'
    <2>1. ASSUME NEW f \in Emerges, NEW m \in 1 .. at'[f], Begins(Script[f][m])
          PROVE  \/ \E i \in 1 .. z : log'[i].by = f /\ Copy(log'[i], m)
                 \/ EndsBy(f, at'[f])
      <3>1. CASE m \in 1 .. at[f]
        <4>1. CASE \E i \in 1 .. Size : log[i].by = f /\ Copy(log[i], m)
          BY <1>7, <4>1
        <4>2. CASE EndsBy(f, at[f])
          BY <1>5, <4>2, ScriptFacts DEF EndsBy
        <4> QED
          BY <2>1, <3>1, <4>1, <4>2 DEF LogInv, Covered
      <3>2. CASE ~ (m \in 1 .. at[f])
        <4>1. f = e /\ m = n
          BY <1>3, <1>4, <3>2 DEF n
        <4> QED
          BY <1>1, <1>8, <4>1 DEF n
      <3> QED
        BY <3>1, <3>2
    <2> QED
      BY <1>8, <2>1 DEF Covered, Copy, EndsBy, Ends, Begins
  <1> QED
    BY <1>10, <1>11, <1>12, <1>13, <1>14 DEF LogInv

LEMMA GiveUpLog ==
  ASSUME LogInv, NEW e \in Emerges, GiveUp(e)
  PROVE  LogInv'
  <1> DEFINE I == {i \in 1 .. Len(Script[e]) : Script[e][i].k = "exiting"}
             last == SelectLastInSeq(Script[e], LAMBDA l : l.k = "exiting")
  <1>1. last = IF I # {} THEN Max(I) ELSE 0
    BY DEF SelectLastInSeq
  <1>2. Len(Script[e]) \in Nat /\ (I # {} => Max(I) \in I)
    BY ScriptFacts, GreatestIn
  <1>3. at[e] < last - 1 /\ at' = [at EXCEPT ![e] = last - 1] /\ clock' = clock /\ log' = log
    BY DEF GiveUp
  <1> HIDE DEF last
  <1>4. /\ at \in [Emerges -> Nat] /\ \A f \in Emerges : at[f] \in Nat /\ at[f] <= Len(Script[f])
    BY DEF LogInv, LinesInv
  <1>5. last \in I /\ last \in Nat /\ last - 1 \in Nat /\ last - 1 < last /\ last - 1 <= Len(Script[e])
    BY <1>1, <1>2, <1>3, <1>4
  <1>6. Script[e][last].k = "exiting" /\ last \in 1 .. Len(Script[e])
    BY <1>5
  <1>7. EndsBy(e, last - 1)
    <2>1. ASSUME NEW m \in 1 .. Len(Script[e]), Ends(Script[e][m]) PROVE m <= last - 1
      <3>1. m < last
        BY <1>6, <2>1, ScriptFacts
      <3> QED
        BY <1>5, <3>1
    <2> QED
      BY <2>1, ScriptFacts DEF EndsBy
  <1>8. at' \in [Emerges -> Nat] /\ at'[e] = last - 1 /\ \A f \in Emerges : f # e => at'[f] = at[f]
    BY <1>3, <1>4, <1>5
  <1>9. \A f \in Emerges : at[f] \in Nat /\ at'[f] \in Nat /\ at[f] <= at'[f] /\ at'[f] <= Len(Script[f])
    BY <1>3, <1>4, <1>5, <1>8
  <1>10. LinesInv'
    <2>1. \A i \in 1 .. Size : CopyUpTo(log[i], at[log[i].by]) => CopyUpTo(log[i], at'[log[i].by])
      BY <1>9 DEF CopyUpTo, LogInv, LinesInv
    <2>2. \A i \in 1 .. Size : /\ log[i].by \in Emerges /\ log[i].t \in Nat /\ 1 <= log[i].t
                               /\ CopyUpTo(log[i], at'[log[i].by])
      BY <2>1 DEF LogInv, LinesInv
    <2>3. clock \in Nat /\ 1 <= clock /\ log \in Seq(LineSet)
      BY DEF LogInv, LinesInv
    <2>4. (\A f \in Emerges : at[f] <= Len(Script[f]))'
      BY <1>9
    <2>5. (clock \in Nat /\ 1 <= clock /\ log \in Seq(LineSet))'
      BY <1>3, <2>3
    <2>6. Size' = Size
      BY <1>3 DEF Size
    <2>7. (\A i \in 1 .. Size : log[i].by \in Emerges /\ log[i].t \in Nat /\ 1 <= log[i].t)'
      BY <1>3, <2>2, <2>6
    <2>8. (\A i \in 1 .. Size : CopyUpTo(log[i], at[log[i].by]))'
      BY <1>3, <2>2, <2>6 DEF CopyUpTo, Copy
    <2> QED
      BY <1>8, <2>4, <2>5, <2>7, <2>8 DEF LinesInv
  <1>11. Covered'
    <2>1. ASSUME NEW f \in Emerges, NEW m \in 1 .. at'[f], Begins(Script[f][m])
          PROVE  \/ \E i \in 1 .. Size : log[i].by = f /\ Copy(log[i], m)
                 \/ EndsBy(f, at'[f])
      <3>1. CASE f = e
        BY <1>7, <1>8, <3>1
      <3>2. CASE f # e
        BY <1>8, <2>1, <3>2 DEF LogInv, Covered
      <3> QED
        BY <3>1, <3>2
    <2> QED
      BY <1>3, <2>1, SMTT(30) DEF Covered, Copy, EndsBy, Ends, Begins, Size
  <1> QED
    BY <1>3, <1>10, <1>11 DEF LogInv, StartOnce, EndOnce, Began, Opens, Same, Size

LEMMA InitLog ==
  ASSUME Init
  PROVE  LogInv
  <1>1. clock = 1 /\ log = <<>> /\ at = [e \in Emerges |-> 0]
    BY DEF Init
  <1>2. Size = 0 /\ log \in Seq(LineSet)
    BY <1>1 DEF Size
  <1>3. \A e \in Emerges : at[e] = 0 /\ Len(Script[e]) \in Nat
    BY <1>1, ScriptFacts
  <1>4. LinesInv
    BY <1>1, <1>2, <1>3 DEF LinesInv
  <1> QED
    BY <1>2, <1>3, <1>4 DEF LogInv, StartOnce, EndOnce, Began, Covered

LEMMA NextLog ==
  ASSUME LogInv, [Next]_vars
  PROVE  LogInv'
  <1>1. CASE writers' = writers
    BY <1>1 DEF writers, LogInv, LinesInv, CopyUpTo, Copy, StartOnce, EndOnce, Began, Covered,
                Opens, Same, Size, EndsBy
  <1>2. CASE Pass
    <2>1. clock' \in Nat /\ 1 <= clock' /\ log' = log /\ at' = at
      BY <1>2, EmergeLogAssumption DEF Pass
    <2> QED
      BY <2>1 DEF LogInv, LinesInv, CopyUpTo, Copy, StartOnce, EndOnce, Began, Covered,
                  Opens, Same, Size, EndsBy
  <1>3. CASE \E e \in Emerges : Write(e)
    BY <1>3, WriteLog
  <1>4. CASE \E e \in Emerges : GiveUp(e)
    BY <1>4, GiveUpLog
  <1>5. Start \/ Scan \/ Read \/ Report => writers' = writers
    BY DEF Start, Scan, Read, Report, writers
  <1>6. vars' = vars => writers' = writers
    BY DEF vars, writers
  <1> QED
    BY <1>1, <1>2, <1>3, <1>4, <1>5, <1>6 DEF Next, Qlop

-----------------------------------------------------------------------------
(* What one line does to what qlop has read so far.                        *)

Fields == {"merges", "unmerges"}
Known == {"begin", "end", "scanned", "names", "tlast", "merges", "unmerges", "pairs", "bad", "pos"}

\* What no line changes.
Frame(s, d) ==
  /\ Known \subseteq DOMAIN d /\ d.begin = s.begin /\ d.end = s.end
  /\ d.scanned = s.scanned /\ d.names = s.names

OpenField(l) == IF l.k = "completed" THEN "merges" ELSE "unmerges"

\* The lines that qlop was asked to look at.
Of(l, f) ==
  \/ f = "merges" /\ l.k = "start" /\ Has("merge")
  \/ f = "unmerges" /\ l.k = "unmerge" /\ Has("unmerge")
  \/ f = "unmerges" /\ l.k = "autoclean" /\ Has("autoclean")
EndOf(l) ==
  IF l.k = "completed" THEN Has("merge") ELSE Has("unmerge") \/ Has("autoclean")

LEMMA CountedEffect ==
  ASSUME NEW s, NEW l, Known \subseteq DOMAIN s
  PROVE  /\ Frame(s, Counted(s, l)) /\ Counted(s, l).pairs = s.pairs /\ Counted(s, l).bad = s.bad
         /\ Counted(s, l).tlast = s.tlast
         /\ \/ Counted(s, l).merges = s.merges /\ Counted(s, l).unmerges = s.unmerges
            \/ Has("running") /\ Counted(s, l).merges = <<>> /\ Counted(s, l).unmerges = <<>>
         /\ l.k \notin {"emerge", "exiting", "terminating"} => Counted(s, l) = s
  <1> DEFINE n == Parallel(s, l)
             x == IF l.k = "exiting" /\ s.parallel > 0 THEN l.t ELSE s.lastExit
             a == [s EXCEPT !.parallel = n, !.lastExit = x]
             b == [s EXCEPT !.parallel = 0, !.lastExit = x, !.sync = 0, !.merges = <<>>, !.unmerges = <<>>]
             c == ~Has("running") \/ l.k \notin {"emerge", "exiting", "terminating"}
  <1>1. Counted(s, l) = CASE c -> s [] Has("running") /\ l.k \in {"emerge", "exiting", "terminating"} /\ n > 0 -> a
                          [] OTHER -> b
    BY DEF Counted
  <1>2. CASE c
    <2>1. Counted(s, l) = s
      BY <1>1, <1>2
    <2> QED
      BY <2>1 DEF Frame
  <1>3. CASE ~c /\ n > 0
    <2>1. Counted(s, l) = a
      BY <1>1, <1>3
    <2>2. /\ Frame(s, a) /\ a.pairs = s.pairs /\ a.bad = s.bad /\ a.tlast = s.tlast
          /\ a.merges = s.merges /\ a.unmerges = s.unmerges
      BY DEF Frame, Known
    <2> QED
      BY <1>3, <2>1, <2>2
  <1>4. CASE ~c /\ ~ (n > 0)
    <2>1. Counted(s, l) = b
      BY <1>1, <1>4
    <2>2. /\ Frame(s, b) /\ b.pairs = s.pairs /\ b.bad = s.bad /\ b.tlast = s.tlast
          /\ b.merges = <<>> /\ b.unmerges = <<>>
      BY DEF Frame, Known
    <2> QED
      BY <1>4, <2>1, <2>2
  <1> QED
    BY <1>2, <1>3, <1>4

\* A line that neither starts nor ends anything.
LEMMA QuietLine ==
  ASSUME NEW s, NEW l, Known \subseteq DOMAIN s, ~ Begins(l), ~ Ends(l)
  PROVE  /\ Frame(s, ReadLine(s, l)) /\ ReadLine(s, l).pairs = s.pairs
         /\ ReadLine(s, l).bad = s.bad /\ ReadLine(s, l).tlast \in {s.tlast, l.t}
         /\ \/ ReadLine(s, l).merges = s.merges /\ ReadLine(s, l).unmerges = s.unmerges
            \/ Has("running") /\ ReadLine(s, l).merges = <<>> /\ ReadLine(s, l).unmerges = <<>>
  <1> DEFINE c == Counted(s, l)
             d == [c EXCEPT !.tlast = l.t]
             y == Sync(d, l)
  <1>1. /\ Frame(s, c) /\ c.pairs = s.pairs /\ c.bad = s.bad /\ c.tlast = s.tlast
        /\ \/ c.merges = s.merges /\ c.unmerges = s.unmerges
           \/ Has("running") /\ c.merges = <<>> /\ c.unmerges = <<>>
    BY CountedEffect
  <1> HIDE DEF c
  <1>2. /\ Frame(s, d) /\ d.pairs = s.pairs /\ d.bad = s.bad /\ d.tlast = l.t
        /\ d.merges = c.merges /\ d.unmerges = c.unmerges
    BY <1>1 DEF Frame, Known
  <1> HIDE DEF d
  <1>3. /\ Frame(s, y) /\ y.pairs = s.pairs /\ y.bad = s.bad /\ y.tlast = l.t
        /\ y.merges = c.merges /\ y.unmerges = c.unmerges
    BY <1>2 DEF Frame, Known, Sync
  <1> HIDE DEF y
  <1>4. ~ IsMerge(l) /\ ~ IsUnmerge(l)
    BY DEF IsMerge, IsUnmerge, Begins, Ends
  <1>5. ReadLine(s, l) =
          IF s.bad THEN s
          ELSE CASE l.t < c.tlast -> c [] l.t >= c.tlast /\ ~ Dated(c, l) -> d
                 [] Dated(c, l) /\ IsSync(l) -> y
                 [] Dated(c, l) /\ ~IsSync(l) /\ IsMerge(l) -> Merge(d, l)
                 [] Dated(c, l) /\ ~IsSync(l) /\ ~IsMerge(l) /\ IsUnmerge(l) -> Unmerge(d, l)
                 [] OTHER -> d
    BY DEF ReadLine, c, d, y
  <1>6. ReadLine(s, l) \in {s, c, d, y}
    BY <1>4, <1>5
  <1>7. Frame(s, s)
    BY DEF Frame
  <1> QED
    BY <1>1, <1>2, <1>3, <1>6, <1>7

\* A line that starts an action, where -E does not keep what a merge replaces.
LEMMA StartLine ==
  ASSUME NEW s, NEW l, Known \subseteq DOMAIN s, Begins(l), ~ s.bad, ~ Has("emerge")
  PROVE  /\ Frame(s, ReadLine(s, l)) /\ ReadLine(s, l).pairs = s.pairs
         /\ ReadLine(s, l).bad = s.bad /\ ReadLine(s, l).tlast \in {s.tlast, l.t}
         /\ \A f \in Fields :
              ReadLine(s, l)[f] = IF Dated(s, l) /\ Of(l, f) /\ Wanted(s, l.pkg)
                                  THEN Append(s[f], Started(l)) ELSE s[f]
  <1> DEFINE d == [s EXCEPT !.tlast = l.t]
             m == [d EXCEPT !.merges = Append(d.merges, Started(l))]
             u == [d EXCEPT !.unmerges = Append(d.unmerges, Started(l))]
  <1>1. Counted(s, l) = s
    BY CountedEffect DEF Begins
  <1>2. /\ Frame(s, d) /\ d.pairs = s.pairs /\ d.bad = s.bad /\ d.tlast = l.t
        /\ d.merges = s.merges /\ d.unmerges = s.unmerges
    BY DEF Frame, Known
  <1>3. Wanted(d, l.pkg) = Wanted(s, l.pkg)
    BY <1>2 DEF Frame, Wanted
  <1> HIDE DEF d
  <1>4. /\ Frame(s, m) /\ m.pairs = s.pairs /\ m.bad = s.bad /\ m.tlast = l.t
        /\ m.merges = Append(s.merges, Started(l)) /\ m.unmerges = s.unmerges
    BY <1>2 DEF Frame, Known
  <1>5. /\ Frame(s, u) /\ u.pairs = s.pairs /\ u.bad = s.bad /\ u.tlast = l.t
        /\ u.unmerges = Append(s.unmerges, Started(l)) /\ u.merges = s.merges
    BY <1>2 DEF Frame, Known
  <1>6. /\ ~ IsSync(l) /\ (IsMerge(l) <=> Of(l, "merges")) /\ (IsUnmerge(l) <=> Of(l, "unmerges"))
        /\ ~ (Of(l, "merges") /\ Of(l, "unmerges"))
    BY DEF IsSync, IsMerge, IsUnmerge, Of, Begins
  <1>7. Of(l, "merges") => Merge(d, l) = IF Wanted(s, l.pkg) THEN m ELSE d
    BY <1>3 DEF Merge, Of, m
  <1>8. Of(l, "unmerges") => Unmerge(d, l) = IF Wanted(s, l.pkg) THEN u ELSE d
    BY <1>3 DEF Unmerge, Of, u
  <1>9. ReadLine(s, l) = CASE l.t < s.tlast -> s [] l.t >= s.tlast /\ ~ Dated(s, l) -> d
                           [] Dated(s, l) /\ IsSync(l) -> Sync(d, l)
                           [] Dated(s, l) /\ ~IsSync(l) /\ IsMerge(l) -> Merge(d, l)
                           [] Dated(s, l) /\ ~IsSync(l) /\ ~IsMerge(l) /\ IsUnmerge(l) -> Unmerge(d, l)
                           [] OTHER -> d
    BY <1>1 DEF ReadLine, d
  <1>10. Frame(s, s)
    BY DEF Frame
  <1> HIDE DEF m, u
  <1>11. CASE Dated(s, l) /\ Of(l, "merges") /\ Wanted(s, l.pkg)
    <2>1. ReadLine(s, l) = m
      BY <1>6, <1>7, <1>9, <1>11 DEF Dated
    <2> QED
      BY <1>4, <1>6, <1>11, <2>1 DEF Fields
  <1>12. CASE Dated(s, l) /\ Of(l, "unmerges") /\ Wanted(s, l.pkg)
    <2>1. ReadLine(s, l) = u
      BY <1>6, <1>8, <1>9, <1>12 DEF Dated
    <2> QED
      BY <1>5, <1>6, <1>12, <2>1 DEF Fields
  <1>13. CASE ~ (Dated(s, l) /\ (Of(l, "merges") \/ Of(l, "unmerges")) /\ Wanted(s, l.pkg))
    <2>1. ReadLine(s, l) \in {s, d}
      BY <1>6, <1>7, <1>8, <1>9, <1>13
    <2> QED
      BY <1>2, <1>10, <1>13, <2>1 DEF Fields
  <1> QED
    BY <1>11, <1>12, <1>13

Reported(s, l, f) ==
  LET m == s[f][StartOf(s[f], l.id)] IN [from |-> m.by, to |-> Who(l), pkg |-> m.pkg]

LEMMA CompletedEffect ==
  ASSUME NEW s, NEW l, NEW f \in Fields, Known \subseteq DOMAIN s
  PROVE  LET i == StartOf(s[f], l.id)
             d == Completed(s, l, f)
         IN /\ i = 0 => d = s
            /\ i # 0 => /\ Frame(s, d) /\ d.tlast = s.tlast
                        /\ d.pairs = Append(s.pairs, Reported(s, l, f))
                        /\ \A g \in Fields : d[g] = IF g = f THEN RemoveAt(s[f], i) ELSE s[g]
  <1> DEFINE i == StartOf(s[f], l.id)
             m == s[f][i]
             key == Key(m.pkg, f)
             known == key \in DOMAIN s.avg
             p == [s EXCEPT ![f] = RemoveAt(s[f], i), !.pairs = Append(s.pairs, Reported(s, l, f))]
             av == [k \in DOMAIN s.avg \cup {key} |->
                      IF k # key THEN s.avg[k] ELSE Entry(1, l.t - m.t, l.t - m.t, m.pkg, known)]
             q == [p EXCEPT !.bad = known /\ s.avg[key].freed,
                     !.avg = [k \in DOMAIN p.avg \cup {key} |->
                      IF k # key THEN p.avg[k] ELSE Entry(1, l.t - m.t, l.t - m.t, m.pkg, known)]]
  <1>1. Completed(s, l, f) = IF i = 0 THEN s ELSE IF ~ Averaging THEN p ELSE q
    BY DEF Completed, Reported, Who, Fields
  <1>2. /\ Frame(s, p) /\ p.tlast = s.tlast /\ p.pairs = Append(s.pairs, Reported(s, l, f))
        /\ \A g \in Fields : p[g] = IF g = f THEN RemoveAt(s[f], i) ELSE s[g]
    BY DEF Frame, Known, Fields
  <1> HIDE DEF p
  <1>3. /\ Frame(p, q) /\ q.tlast = p.tlast /\ q.pairs = p.pairs
        /\ \A g \in Fields : q[g] = p[g]
    BY <1>2 DEF Frame, Known, Fields
  <1> HIDE DEF q
  <1>4. Frame(s, q)
    BY <1>2, <1>3 DEF Frame
  <1> QED
    BY <1>1, <1>2, <1>3, <1>4

\* A line that ends an action.
LEMMA EndLine ==
  ASSUME NEW s, NEW l, Known \subseteq DOMAIN s, Ends(l), ~ s.bad
  PROVE  LET f == OpenField(l)
             i == StartOf(s[f], l.id)
             d == ReadLine(s, l)
         IN /\ Frame(s, d) /\ d.tlast \in {s.tlast, l.t}
            /\ ~ (Dated(s, l) /\ EndOf(l)) \/ i = 0 =>
                 /\ d.pairs = s.pairs /\ d.bad = s.bad /\ \A g \in Fields : d[g] = s[g]
            /\ Dated(s, l) /\ EndOf(l) /\ i # 0 =>
                 /\ d.pairs = Append(s.pairs, Reported(s, l, f))
                 /\ \A g \in Fields : d[g] = IF g = f THEN RemoveAt(s[f], i) ELSE s[g]
  <1> DEFINE f == OpenField(l)
             i == StartOf(s[f], l.id)
             d == [s EXCEPT !.tlast = l.t]
             c == Completed(d, l, f)
  <1>1. Counted(s, l) = s
    BY CountedEffect DEF Ends
  <1>2. /\ Frame(s, d) /\ d.pairs = s.pairs /\ d.bad = s.bad /\ d.tlast = l.t
        /\ \A g \in Fields : d[g] = s[g]
    BY DEF Frame, Known, Fields
  <1>3. f \in Fields
    BY DEF OpenField, Fields
  <1>4. ReadLine(s, l) = CASE l.t < s.tlast -> s [] l.t >= s.tlast /\ ~ Dated(s, l) -> d
                           [] Dated(s, l) /\ IsSync(l) -> Sync(d, l)
                           [] Dated(s, l) /\ ~IsSync(l) /\ IsMerge(l) -> Merge(d, l)
                           [] Dated(s, l) /\ ~IsSync(l) /\ ~IsMerge(l) /\ IsUnmerge(l) -> Unmerge(d, l)
                           [] OTHER -> d
    BY <1>1 DEF ReadLine
  <1>5. ~ IsSync(l) /\ (EndOf(l) <=> IsMerge(l) \/ IsUnmerge(l))
    BY DEF IsSync, IsMerge, IsUnmerge, EndOf, Ends
  <1>6. IsMerge(l) => Merge(d, l) = c
    BY DEF Merge, IsMerge, Ends, OpenField
  <1>7. IsUnmerge(l) /\ ~ IsMerge(l) => Unmerge(d, l) = c
    BY DEF Unmerge, IsMerge, IsUnmerge, Ends, OpenField
  <1> HIDE DEF f, d
  <1>8. Reported(d, l, f) = Reported(s, l, f) /\ d[f] = s[f] /\ StartOf(d[f], l.id) = i
    BY <1>2, <1>3 DEF Reported
  <1>9. /\ i = 0 => c = d
        /\ i # 0 => /\ Frame(d, c) /\ c.tlast = d.tlast /\ c.pairs = Append(s.pairs, Reported(s, l, f))
                    /\ \A g \in Fields : c[g] = IF g = f THEN RemoveAt(s[f], i) ELSE s[g]
    <2>1. Known \subseteq DOMAIN d
      BY <1>2 DEF Frame
    <2>2. /\ StartOf(d[f], l.id) = 0 => c = d
          /\ StartOf(d[f], l.id) # 0 =>
               /\ Frame(d, c) /\ c.tlast = d.tlast
               /\ c.pairs = Append(d.pairs, Reported(d, l, f))
               /\ \A g \in Fields : c[g] = IF g = f THEN RemoveAt(d[f], StartOf(d[f], l.id)) ELSE d[g]
      BY <1>3, <2>1, CompletedEffect
    <2> HIDE DEF c, i
    <2> QED
      BY <1>2, <1>8, <2>2
  <1>10. Frame(s, s)
    BY DEF Frame
  <1> HIDE DEF c, i
  <1>11. CASE Dated(s, l) /\ EndOf(l)
    <2>1. ReadLine(s, l) = c
      BY <1>4, <1>5, <1>6, <1>7, <1>11 DEF Dated
    <2>2. Frame(s, c)
      BY <1>2, <1>9 DEF Frame
    <2> QED
      BY <1>2, <1>9, <1>11, <2>1, <2>2 DEF f, i
  <1>12. CASE ~ (Dated(s, l) /\ EndOf(l))
    <2>1. ReadLine(s, l) \in {s, d}
      BY <1>4, <1>5, <1>12
    <2> QED
      BY <1>2, <1>10, <1>12, <2>1 DEF f, i
  <1> QED
    BY <1>11, <1>12

-----------------------------------------------------------------------------
(* The second pass: what holds after the first k lines of the log.         *)

Begun == {Started(l) : l \in LineSet}
Told == {[from |-> a.by, to |-> Who(l), pkg |-> a.pkg] : a \in Begun, l \in LineSet}

\* The line that a start on a list stands for.
StartAt(m) == CHOOSE i \in 1 .. Size : Begins(log[i]) /\ Who(log[i]) = m.by

Taken(i, f) == Of(log[i], f) /\ r.begin <= log[i].t /\ log[i].t <= r.end /\ Wanted(r, log[i].pkg)
Later(i, k) == \E j \in 1 .. Size : k < j /\ Ends(log[j]) /\ Same(i, j)
Listed(i, list) == \E n \in 1 .. Len(list) : list[n] = Started(log[i])
Behind(i, list) == \A n \in 1 .. Len(list) : i < StartAt(list[n])

TlastSet(k, s) ==
  s.tlast \in Int /\ \A i \in 1 .. Size : k < i /\ r.begin <= log[i].t => s.tlast <= log[i].t
\* What is on a list was taken, and is there in the order of the log.
ListTaken(k, f, list) ==
  /\ list \in Seq(Begun)
  /\ \A n \in 1 .. Len(list) : \E i \in 1 .. Size : i <= k /\ Taken(i, f) /\ list[n] = Started(log[i])
  /\ \A n, m \in 1 .. Len(list) : n < m => StartAt(list[n]) < StartAt(list[m])
\* A start that still ends is on the list, or was dropped with all before it.
ListKept(k, f, list) ==
  \A i \in 1 .. Size : i <= k /\ Taken(i, f) /\ Later(i, k) =>
    Listed(i, list) \/ (Has("running") /\ Behind(i, list))

Alike == "unmerge" \in cmd.flags <=> "autoclean" \in cmd.flags
OwnPairs(list) == list \in Seq(Told) /\ (Alike => \A n \in 1 .. Len(list) : list[n].from = list[n].to)
OneEach(k, list) ==
  /\ \A n \in 1 .. Len(list) : \E j \in 1 .. Size : j <= k /\ Ends(log[j]) /\ list[n].to = Who(log[j])
  /\ \A n, m \in 1 .. Len(list) : list[n].to = list[m].to => n = m

\* Line i starts and line j ends an action that was asked for.
Asked(i, j) ==
  /\ Begins(log[i]) /\ Ends(log[j]) /\ Same(i, j)
  /\ IF log[j].k = "completed" THEN Has("merge") ELSE IsUnmerge(log[i])
  /\ log[i].t >= r.begin /\ log[j].t <= r.end /\ Wanted(r, log[i].pkg)
TellsOf(j, list) == \E n \in 1 .. Len(list) : list[n].to = Who(log[j])
AllTold(k, list) == \A i, j \in 1 .. Size : j <= k /\ Asked(i, j) => TellsOf(j, list)

ReadInv(k, s) ==
  /\ Frame(r, s) /\ TlastSet(k, s)
  /\ \A f \in Fields : ListTaken(k, f, s[f]) /\ (~ s.bad => ListKept(k, f, s[f]))
  /\ OwnPairs(s.pairs) /\ OneEach(k, s.pairs)
  /\ ~ s.bad /\ ~ Has("running") => AllTold(k, s.pairs)

Calm == LogInv /\ Ordered /\ ~ Clash /\ ~ Has("emerge") /\ r.begin \in Int /\ r.end \in Int

LEMMA InOrder ==
  ASSUME LinesInv, Ordered, NEW i \in 1 .. Size, NEW j \in 1 .. Size, i <= j
  PROVE  log[i].t <= log[j].t
  <1> DEFINE S == {k \in Nat : i + k <= Size => log[i].t <= log[i + k].t}
  <1>1. Size \in Nat /\ i \in Nat /\ j \in Nat /\ \A k \in 1 .. Size : log[k].t \in Nat
    BY LineFacts
  <1>2. 0 \in S
    BY <1>1
  <1>3. ASSUME NEW k \in S, k < j - i PROVE k + 1 \in S
    <2>1. k \in Nat /\ i + k \in 1 .. Size /\ i + (k + 1) \in 2 .. Size /\ (i + (k + 1)) - 1 = i + k
      BY <1>1, <1>3
    <2>2. log[i].t <= log[i + k].t
      BY <1>1, <2>1
    <2>3. log[i + k].t <= log[i + (k + 1)].t
      BY <2>1 DEF Ordered, Size
    <2>4. i + (k + 1) \in 1 .. Size /\ k + 1 \in Nat
      BY <2>1
    <2>5. log[i].t <= log[i + (k + 1)].t
      BY <1>1, <2>1, <2>2, <2>3, <2>4
    <2> QED
      BY <2>4, <2>5
  <1>4. j - i \in S
    <2> HIDE DEF S
    <2>1. S \subseteq Nat
      BY DEF S
    <2>2. j - i \in Nat
      BY <1>1
    <2>3. \A k \in 0 .. j - i : k \in S
      BY <1>2, <1>3, <2>1, <2>2, UpTo
    <2> QED
      BY <2>2, <2>3
  <1>5. i + (j - i) = j
    BY <1>1
  <1> QED
    BY <1>1, <1>4, <1>5

LEMMA StartAtIs ==
  ASSUME StartOnce, NEW i \in 1 .. Size, Begins(log[i])
  PROVE  StartAt(Started(log[i])) = i
  <1>1. Started(log[i]).by = Who(log[i])
    BY DEF Started, Who
  <1>2. \A j \in 1 .. Size : Begins(log[j]) /\ Who(log[j]) = Who(log[i]) => j = i
    BY DEF StartOnce, Same
  <1> QED
    BY <1>1, <1>2 DEF StartAt

LEMMA TakenBegins ==
  ASSUME NEW i, NEW f, Of(log[i], f)
  PROVE  Begins(log[i])
  BY DEF Of, Begins

\* What is known of a start on a list.
LEMMA OnList ==
  ASSUME LogInv, NEW k, NEW f, NEW list, ListTaken(k, f, list), NEW n \in 1 .. Len(list)
  PROVE  \E i \in 1 .. Size :
           /\ i <= k /\ Taken(i, f) /\ Begins(log[i]) /\ list[n] = Started(log[i]) /\ StartAt(list[n]) = i
           /\ list[n].id = log[i].id /\ list[n].by = Who(log[i])
  <1>1. PICK i \in 1 .. Size : i <= k /\ Taken(i, f) /\ list[n] = Started(log[i])
    BY DEF ListTaken
  <1>2. Begins(log[i])
    BY <1>1, TakenBegins DEF Taken
  <1>3. StartAt(list[n]) = i
    BY <1>1, <1>2, StartAtIs DEF LogInv
  <1>4. list[n].id = log[i].id /\ list[n].by = Who(log[i])
    BY <1>1 DEF Started, Who
  <1> QED
    BY <1>1, <1>2, <1>3, <1>4

\* The start of an end, and that no end is for two of them.
LEMMA OwnStart ==
  ASSUME LogInv, NEW j \in 1 .. Size, Ends(log[j])
  PROVE  \E i \in 1 .. Size : i < j /\ Opens(i, j)
                              /\ \A m \in 1 .. Size : Begins(log[m]) /\ Same(m, j) => m = i
  <1>1. PICK i \in 1 .. Size : i < j /\ Opens(i, j)
    BY DEF LogInv, Began
  <1>2. \A m \in 1 .. Size : Begins(log[m]) /\ Same(m, j) => m = i
    BY <1>1 DEF LogInv, StartOnce, Opens, Same
  <1> QED
    BY <1>1, <1>2

\* Between the start and the end of an action nothing of its id starts.
LEMMA NoneBetween ==
  ASSUME LogInv, ~ Clash, NEW i \in 1 .. Size, NEW m \in 1 .. Size, NEW j \in 1 .. Size,
         Begins(log[i]), Ends(log[j]), Same(i, j), Begins(log[m]), log[m].id = log[i].id,
         i < m, m < j
  PROVE  FALSE
  <1>1. Who(log[m]) # Who(log[i])
    BY DEF LogInv, StartOnce, Same, LinesInv, Size
  <1>2. log \in Seq(LineSet)
    BY DEF LogInv, LinesInv
  <1>3. DOMAIN log = 1 .. Size
    BY <1>2, LenProperties DEF Size
  <1> QED
    BY <1>1, <1>3 DEF Clash, Same

LEMMA TlastStep ==
  ASSUME Calm, NEW k \in Nat, k < Size, NEW s, TlastSet(k, s), NEW d, d.tlast \in {s.tlast, log[k + 1].t}
  PROVE  TlastSet(k + 1, d)
  <1>1. Size \in Nat /\ k + 1 \in 1 .. Size /\ log[k + 1].t \in Int
    BY LenProperties, LineFacts DEF Calm, LogInv, LinesInv, Size
  <1>2. ASSUME NEW i \in 1 .. Size, k + 1 < i, r.begin <= log[i].t PROVE d.tlast <= log[i].t
    <2>1. s.tlast <= log[i].t
      BY <1>1, <1>2 DEF TlastSet
    <2>2. log[k + 1].t <= log[i].t
      BY <1>1, <1>2, InOrder DEF Calm, LogInv
    <2> QED
      BY <2>1, <2>2
  <1> QED
    BY <1>1, <1>2 DEF TlastSet

\* The next line is one of interest by its dates, not by those of the lines before.
LEMMA NextDated ==
  ASSUME Calm, NEW k \in Nat, k < Size, NEW s, Frame(r, s), TlastSet(k, s)
  PROVE  /\ Dated(s, log[k + 1]) <=> r.begin <= log[k + 1].t /\ log[k + 1].t <= r.end
         /\ \A p : Wanted(s, p) = Wanted(r, p)
  <1>1. Size \in Nat /\ k + 1 \in 1 .. Size /\ log[k + 1].t \in Int /\ k < k + 1
    BY LenProperties, LineFacts DEF Calm, LogInv, LinesInv, Size
  <1>2. \A p : Wanted(s, p) = Wanted(r, p)
    BY DEF Frame, Wanted
  <1>3. r.begin <= log[k + 1].t => s.tlast <= log[k + 1].t
    BY <1>1 DEF TlastSet
  <1>4. s.begin = r.begin /\ s.end = r.end /\ s.tlast \in Int /\ r.begin \in Int /\ r.end \in Int
    BY DEF Frame, TlastSet, Calm
  <1>5. Dated(s, log[k + 1]) <=> r.begin <= log[k + 1].t /\ log[k + 1].t <= r.end
    BY <1>1, <1>3, <1>4 DEF Dated
  <1> QED
    BY <1>2, <1>5

\* What stays as it is with the next line.
LEMMA ListStays ==
  ASSUME LogInv, NEW k \in Nat, k < Size, NEW f, NEW list, ListTaken(k, f, list)
  PROVE  /\ ListTaken(k + 1, f, list)
         /\ ~ Taken(k + 1, f) /\ ListKept(k, f, list) => ListKept(k + 1, f, list)
  <1>1. Size \in Nat /\ \A i \in 1 .. Size : (i <= k => i <= k + 1) /\ (i <= k + 1 => i <= k \/ i = k + 1)
                                             /\ (k + 1 < i => k < i)
    BY LenProperties DEF LogInv, LinesInv, Size
  <1>2. ListTaken(k + 1, f, list)
    BY <1>1 DEF ListTaken
  <1>3. \A i \in 1 .. Size : Later(i, k + 1) => Later(i, k)
    BY <1>1 DEF Later
  <1>4. ~ Taken(k + 1, f) /\ ListKept(k, f, list) => ListKept(k + 1, f, list)
    BY <1>1, <1>3 DEF ListKept
  <1> QED
    BY <1>2, <1>4

LEMMA PairsStay ==
  ASSUME LogInv, NEW k \in Nat, k < Size, NEW list
  PROVE  /\ OneEach(k, list) => OneEach(k + 1, list)
         /\ AllTold(k, list) /\ (\A i \in 1 .. Size : ~ Asked(i, k + 1)) => AllTold(k + 1, list)
  <1>1. Size \in Nat /\ \A i \in 1 .. Size : (i <= k => i <= k + 1) /\ (i <= k + 1 => i <= k \/ i = k + 1)
    BY LenProperties DEF LogInv, LinesInv, Size
  <1>2. OneEach(k, list) => OneEach(k + 1, list)
    BY <1>1 DEF OneEach
  <1>3. AllTold(k, list) /\ (\A i \in 1 .. Size : ~ Asked(i, k + 1)) => AllTold(k + 1, list)
    BY <1>1 DEF AllTold
  <1> QED
    BY <1>2, <1>3

LEMMA EmptyList ==
  ASSUME NEW k, NEW f
  PROVE  ListTaken(k, f, <<>>) /\ \A i : Behind(i, <<>>)
  BY DEF ListTaken, Behind

LEMMA AfterBad ==
  ASSUME Calm, NEW k \in Nat, k < Size, NEW s, ReadInv(k, s), s.bad
  PROVE  ReadInv(k + 1, ReadLine(s, log[k + 1]))
  <1>1. ReadLine(s, log[k + 1]) = s
    BY DEF ReadLine
  <1>2. TlastSet(k + 1, s)
    BY TlastStep DEF ReadInv
  <1>3. \A f \in Fields : ListTaken(k + 1, f, s[f])
    BY ListStays DEF ReadInv, Calm
  <1>4. OneEach(k + 1, s.pairs)
    BY PairsStay DEF ReadInv, Calm
  <1> QED
    BY <1>1, <1>2, <1>3, <1>4 DEF ReadInv

LEMMA QuietStep ==
  ASSUME Calm, NEW k \in Nat, k < Size, NEW s, ReadInv(k, s), ~ s.bad,
         ~ Begins(log[k + 1]), ~ Ends(log[k + 1])
  PROVE  ReadInv(k + 1, ReadLine(s, log[k + 1]))
  <1> DEFINE d == ReadLine(s, log[k + 1])
  <1>1. Known \subseteq DOMAIN s /\ Frame(r, s)
    BY DEF ReadInv, Frame
  <1>2. /\ Frame(s, d) /\ d.pairs = s.pairs /\ d.bad = s.bad /\ d.tlast \in {s.tlast, log[k + 1].t}
        /\ \/ d.merges = s.merges /\ d.unmerges = s.unmerges
           \/ Has("running") /\ d.merges = <<>> /\ d.unmerges = <<>>
    BY <1>1, QuietLine
  <1> HIDE DEF d
  <1>3. Frame(r, d)
    BY <1>1, <1>2 DEF Frame
  <1>4. TlastSet(k + 1, d)
    BY <1>2, TlastStep DEF ReadInv
  <1>5. ASSUME NEW f \in Fields
        PROVE  ListTaken(k + 1, f, d[f]) /\ (~ d.bad => ListKept(k + 1, f, d[f]))
    <2>1. ~ Taken(k + 1, f)
      BY TakenBegins DEF Taken
    <2>2. CASE d[f] = s[f]
      BY <1>2, <2>1, <2>2, ListStays DEF ReadInv, Calm
    <2>3. CASE Has("running") /\ d[f] = <<>>
      BY <2>3, EmptyList DEF ListKept
    <2> QED
      BY <1>2, <2>2, <2>3 DEF Fields
  <1>6. OwnPairs(d.pairs) /\ OneEach(k + 1, d.pairs)
    BY <1>2, PairsStay DEF ReadInv, Calm
  <1>7. \A i \in 1 .. Size : ~ Asked(i, k + 1)
    BY DEF Asked
  <1>8. ~ d.bad /\ ~ Has("running") => AllTold(k + 1, d.pairs)
    BY <1>2, <1>7, PairsStay DEF ReadInv, Calm
  <1> QED
    BY <1>3, <1>4, <1>5, <1>6, <1>8 DEF ReadInv, d

LEMMA StartStep ==
  ASSUME Calm, NEW k \in Nat, k < Size, NEW s, ReadInv(k, s), ~ s.bad, Begins(log[k + 1])
  PROVE  ReadInv(k + 1, ReadLine(s, log[k + 1]))
  <1> DEFINE l == log[k + 1]
             d == ReadLine(s, l)
  <1>1. Known \subseteq DOMAIN s /\ Frame(r, s) /\ TlastSet(k, s)
    BY DEF ReadInv, Frame
  <1>2. /\ Frame(s, d) /\ d.pairs = s.pairs /\ d.bad = s.bad /\ d.tlast \in {s.tlast, l.t}
        /\ \A f \in Fields :
             d[f] = IF Dated(s, l) /\ Of(l, f) /\ Wanted(s, l.pkg) THEN Append(s[f], Started(l)) ELSE s[f]
    BY <1>1, StartLine DEF Calm
  <1> HIDE DEF d
  <1>3. Frame(r, d)
    BY <1>1, <1>2 DEF Frame
  <1>4. TlastSet(k + 1, d)
    BY <1>2, TlastStep DEF ReadInv
  <1>5. Size \in Nat /\ k + 1 \in 1 .. Size /\ l \in LineSet
    BY LenProperties, LineFacts DEF Calm, LogInv, LinesInv, Size
  <1>6. ASSUME NEW f \in Fields
        PROVE  ListTaken(k + 1, f, d[f]) /\ (~ d.bad => ListKept(k + 1, f, d[f]))
    <2>1. d[f] = IF Taken(k + 1, f) THEN Append(s[f], Started(l)) ELSE s[f]
      BY <1>1, <1>2, NextDated DEF Taken
    <2>2. ListTaken(k, f, s[f]) /\ ListKept(k, f, s[f])
      BY DEF ReadInv
    <2>3. CASE ~ Taken(k + 1, f)
      BY <2>1, <2>2, <2>3, ListStays DEF Calm
    <2>4. CASE Taken(k + 1, f)
      <3> DEFINE old == s[f]
                 new == d[f]
                 z == Len(old) + 1
      <3>1. Started(l) \in Begun
        BY <1>5 DEF Begun
      <3>2. old \in Seq(Begun)
        BY <2>2 DEF ListTaken
      <3>3. /\ new \in Seq(Begun) /\ Len(new) = z /\ z \in Nat /\ z \in 1 .. z /\ new[z] = Started(l)
            /\ \A n \in 1 .. Len(old) : new[n] = old[n] /\ n < z /\ n \in 1 .. z
        <4>1. /\ new \in Seq(Begun) /\ Len(new) = z /\ Len(old) \in Nat /\ new[z] = Started(l)
              /\ \A n \in 1 .. Len(old) : new[n] = old[n]
          BY <2>1, <2>4, <3>1, <3>2, Appended
        <4>2. \A n \in 1 .. Len(old) : n < z /\ n \in 1 .. z
          BY <4>1
        <4> QED
          BY <4>1, <4>2
      <3>4. \A n \in 1 .. z : n \in 1 .. Len(old) \/ n = z
        BY <3>3
      <3>5. StartAt(new[z]) = k + 1
        BY <1>5, <3>3, StartAtIs DEF Calm, LogInv
      <3>6. \A n \in 1 .. Len(old) : \E i \in 1 .. Size : i <= k /\ Taken(i, f) /\ old[n] = Started(log[i]) /\ StartAt(old[n]) = i
        BY <2>2, OnList DEF Calm
      <3>7. ASSUME NEW n \in 1 .. z
            PROVE  \E i \in 1 .. Size : i <= k + 1 /\ Taken(i, f) /\ new[n] = Started(log[i])
        <4>1. CASE n = z
          BY <1>5, <2>4, <3>3, <4>1
        <4>2. CASE n \in 1 .. Len(old)
          <5>1. PICK i \in 1 .. Size : i <= k /\ Taken(i, f) /\ old[n] = Started(log[i])
            BY <3>6, <4>2
          <5> QED
            BY <3>3, <4>2, <5>1
        <4> QED
          BY <3>4, <4>1, <4>2
      <3>8. \A n \in 1 .. Len(old) : StartAt(old[n]) < k + 1 /\ StartAt(old[n]) \in Nat
        BY <3>6
      <3> HIDE DEF old, new, z
      <3>9. ASSUME NEW n \in 1 .. z, NEW m \in 1 .. z, n < m PROVE StartAt(new[n]) < StartAt(new[m])
        <4>1. n \in 1 .. Len(old)
          BY <3>3, <3>4, <3>9
        <4>2. CASE m = z
          BY <3>3, <3>5, <3>8, <4>1, <4>2
        <4>3. CASE m \in 1 .. Len(old)
          BY <2>2, <3>3, <3>9, <4>1, <4>3 DEF ListTaken, old
        <4> QED
          BY <3>4, <4>2, <4>3
      <3>10. ListTaken(k + 1, f, new)
        BY <3>3, <3>7, <3>9 DEF ListTaken
      <3>11. ASSUME NEW i \in 1 .. Size, i <= k + 1, Taken(i, f), Later(i, k + 1)
             PROVE  Listed(i, new) \/ (Has("running") /\ Behind(i, new))
        <4>1. CASE i = k + 1
          <5>1. z \in 1 .. Len(new) /\ new[z] = Started(log[i])
            BY <3>3, <4>1 DEF z
          <5> QED
            BY <5>1 DEF Listed
        <4>2. CASE i # k + 1
          <5>1. i <= k
            BY <1>5, <3>11, <4>2
          <5>2. Later(i, k)
            BY <3>11 DEF Later
          <5>3. CASE Listed(i, old)
            <6>1. PICK n \in 1 .. Len(old) : old[n] = Started(log[i])
              BY <5>3 DEF Listed
            <6>2. n \in 1 .. Len(new) /\ new[n] = Started(log[i])
              BY <3>3, <6>1
            <6> QED
              BY <6>2 DEF Listed
          <5>4. CASE Has("running") /\ Behind(i, old)
            <6>1. \A n \in 1 .. z : i < StartAt(new[n])
              <7>1. i < k + 1
                BY <1>5, <5>1
              <7>2. \A n \in 1 .. Len(old) : i < StartAt(old[n])
                BY <5>4 DEF Behind
              <7> QED
                BY <3>3, <3>4, <3>5, <7>1, <7>2
            <6> QED
              BY <3>3, <5>4, <6>1 DEF Behind
          <5> QED
            BY <2>2, <3>11, <5>1, <5>2, <5>3, <5>4 DEF ListKept, old
        <4> QED
          BY <4>1, <4>2
      <3> QED
        BY <3>10, <3>11 DEF ListKept, new
    <2> QED
      BY <2>3, <2>4
  <1>7. OwnPairs(d.pairs) /\ OneEach(k + 1, d.pairs)
    BY <1>2, PairsStay DEF ReadInv, Calm
  <1>8. \A i \in 1 .. Size : ~ Asked(i, k + 1)
    BY DEF Asked, Begins, Ends
  <1>9. ~ d.bad /\ ~ Has("running") => AllTold(k + 1, d.pairs)
    BY <1>2, <1>8, PairsStay DEF ReadInv, Calm
  <1> QED
    BY <1>3, <1>4, <1>6, <1>7, <1>9 DEF ReadInv, d

\* A list without its last start of an id.
LEMMA ListWithout ==
  ASSUME LogInv, NEW k, NEW f, NEW list, ListTaken(k, f, list), NEW x \in 1 .. Len(list)
  PROVE  LET new == RemoveAt(list, x) IN
         /\ ListTaken(k, f, new)
         /\ \A i : Behind(i, list) => Behind(i, new)
         /\ \A i \in 1 .. Size : Begins(log[i]) /\ Listed(i, list) => Listed(i, new) \/ i = StartAt(list[x])
  <1> DEFINE new == RemoveAt(list, x)
             Src(n) == IF n < x THEN n ELSE n + 1
  <1>1. /\ new \in Seq(Begun) /\ Len(new) = Len(list) - 1 /\ Len(list) \in Nat
        /\ \A n \in 1 .. Len(list) - 1 : new[n] = IF n < x THEN list[n] ELSE list[n + 1]
    BY Removed DEF ListTaken
  <1> HIDE DEF new
  <1>2. \A n \in 1 .. Len(new) : Src(n) \in 1 .. Len(list) /\ new[n] = list[Src(n)]
    BY <1>1
  <1>3. \A n, m \in 1 .. Len(new) : n < m => Src(n) < Src(m)
    BY <1>1
  <1>4. ASSUME NEW m \in 1 .. Len(list), m # x PROVE \E n \in 1 .. Len(new) : Src(n) = m
    <2>1. CASE m < x
      BY <1>1, <2>1
    <2>2. CASE x < m
      <3>1. m - 1 \in 1 .. Len(new) /\ ~ (m - 1 < x) /\ (m - 1) + 1 = m
        BY <1>1, <2>2
      <3> QED
        BY <3>1
    <2> QED
      BY <1>4, <2>1, <2>2
  <1> HIDE DEF Src
  <1>5. ListTaken(k, f, new)
    BY <1>1, <1>2, <1>3 DEF ListTaken
  <1>6. \A i : Behind(i, list) => Behind(i, new)
    BY <1>2 DEF Behind
  <1>7. ASSUME NEW i \in 1 .. Size, Begins(log[i]), Listed(i, list), i # StartAt(list[x]) PROVE Listed(i, new)
    <2>1. PICK m \in 1 .. Len(list) : list[m] = Started(log[i])
      BY <1>7 DEF Listed
    <2>2. m # x
      BY <1>7, <2>1, StartAtIs DEF LogInv
    <2>3. PICK n \in 1 .. Len(new) : Src(n) = m
      BY <1>4, <2>2
    <2> QED
      BY <1>2, <2>1, <2>3 DEF Listed
  <1> QED
    BY <1>5, <1>6, <1>7 DEF new

\* What an end is paired with is its own start, or one before it; and that one
\* was cut off.
LEMMA Matched ==
  ASSUME Calm, NEW j \in 1 .. Size, Ends(log[j]), NEW i \in 1 .. Size, i < j, Opens(i, j),
         NEW m \in 1 .. Size, m < j, Begins(log[m]), log[m].id = log[j].id
  PROVE  m <= i /\ (Later(m, j) => FALSE)
  <1>1. Size \in Nat /\ i \in Nat /\ m \in Nat /\ j \in Nat
    BY LineFacts DEF Calm, LogInv
  <1>2. Begins(log[i]) /\ Same(i, j) /\ log[m].id = log[i].id
    BY DEF Opens
  <1>3. ~ (i < m)
    BY <1>2, NoneBetween DEF Calm
  <1>4. ASSUME Later(m, j) PROVE FALSE
    <2>1. PICK e \in 1 .. Size : j < e /\ Ends(log[e]) /\ Same(m, e)
      BY <1>4 DEF Later
    <2>2. m # i
      <3>1. m = i => Same(j, e)
        BY <1>2, <2>1 DEF Same
      <3> QED
        BY <1>1, <2>1, <3>1 DEF Calm, LogInv, EndOnce
    <2>3. m < i /\ i < e
      BY <1>1, <1>3, <2>1, <2>2
    <2> QED
      BY <1>2, <2>1, <2>3, NoneBetween DEF Calm
  <1> QED
    BY <1>1, <1>3, <1>4

\* The end is of interest: so was its start, if that is in the dates.
LEMMA EndTaken ==
  ASSUME Calm, NEW j \in 1 .. Size, NEW i \in 1 .. Size, i < j, Opens(i, j),
         log[j].t <= r.end, r.begin <= log[i].t, Wanted(r, log[i].pkg)
  PROVE  /\ EndOf(log[j]) /\ Alike => Taken(i, OpenField(log[j]))
         /\ (IF log[j].k = "completed" THEN Has("merge") ELSE IsUnmerge(log[i])) =>
              EndOf(log[j]) /\ Taken(i, OpenField(log[j])) /\ r.begin <= log[j].t
  <1>1. /\ log[i].t <= log[j].t /\ log[i].t \in Int /\ log[j].t \in Int
        /\ i \in Nat /\ j \in Nat /\ r.begin \in Int /\ r.end \in Int
    BY InOrder, LineFacts DEF Calm, LogInv
  <1>2. log[i].t <= r.end /\ r.begin <= log[j].t
    BY <1>1
  <1>3. /\ Begins(log[i]) /\ Ends(log[j])
        /\ log[j].k = "completed" <=> log[i].k = "start"
    BY DEF Opens
  <1>4. EndOf(log[j]) /\ Alike => Of(log[i], OpenField(log[j]))
    BY <1>3 DEF EndOf, Alike, Of, OpenField, Begins, Ends, Has
  <1>5. (IF log[j].k = "completed" THEN Has("merge") ELSE IsUnmerge(log[i])) =>
          EndOf(log[j]) /\ Of(log[i], OpenField(log[j]))
    BY <1>3 DEF EndOf, Of, OpenField, Begins, Ends, IsUnmerge
  <1> QED
    BY <1>2, <1>4, <1>5 DEF Taken

LEMMA EndStep ==
  ASSUME Calm, NEW k \in Nat, k < Size, NEW s, ReadInv(k, s), ~ s.bad, Ends(log[k + 1])
  PROVE  ReadInv(k + 1, ReadLine(s, log[k + 1]))
  <1> DEFINE j == k + 1
             l == log[j]
             d == ReadLine(s, l)
             f == OpenField(l)
             x == StartOf(s[f], l.id)
             reads == Dated(s, l) /\ EndOf(l)
  <1>1. Known \subseteq DOMAIN s /\ Frame(r, s) /\ TlastSet(k, s)
    BY DEF ReadInv, Frame
  <1>2. /\ Frame(s, d) /\ d.tlast \in {s.tlast, l.t}
        /\ ~ reads \/ x = 0 => d.pairs = s.pairs /\ d.bad = s.bad /\ \A g \in Fields : d[g] = s[g]
        /\ reads /\ x # 0 =>
             /\ d.pairs = Append(s.pairs, Reported(s, l, f))
             /\ \A g \in Fields : d[g] = IF g = f THEN RemoveAt(s[f], x) ELSE s[g]
    BY <1>1, EndLine
  <1> HIDE DEF d
  <1>3. /\ Size \in Nat /\ j \in 1 .. Size /\ l \in LineSet /\ k < j
        /\ \A i \in 1 .. Size : (i <= k => i < j) /\ (i < j => i <= k) /\ (i <= j => i <= k \/ i = j)
                                /\ (j < i => k < i)
    BY LenProperties, LineFacts DEF Calm, LogInv, LinesInv, Size
  <1>4. PICK i \in 1 .. Size : i < j /\ Opens(i, j) /\ \A m \in 1 .. Size : Begins(log[m]) /\ Same(m, j) => m = i
    BY <1>3, OwnStart DEF Calm
  <1>5. /\ reads <=> r.begin <= l.t /\ l.t <= r.end /\ EndOf(l)
        /\ f \in Fields
    BY <1>1, <1>3, NextDated DEF OpenField, Fields
  <1>6. /\ x \in 0 .. Len(s[f])
        /\ x = 0 => \A n \in 1 .. Len(s[f]) : s[f][n].id # l.id
        /\ x # 0 => s[f][x].id = l.id /\ \A n \in 1 .. Len(s[f]) : s[f][n].id = l.id => n <= x
    <2>1. s[f] \in Seq(Begun)
      BY <1>5 DEF ReadInv, ListTaken
    <2> QED
      BY <2>1, LastStart
  <1>7. Frame(r, d)
    BY <1>1, <1>2 DEF Frame
  <1>8. TlastSet(j, d)
    BY <1>2, TlastStep DEF ReadInv
  <1>9. \A g \in Fields : ListTaken(k, g, s[g]) /\ ListKept(k, g, s[g]) /\ ~ Taken(j, g)
    <2>1. ~ Begins(l)
      BY DEF Begins, Ends
    <2> QED
      BY <2>1, TakenBegins DEF ReadInv, Taken
  <1>10. OwnPairs(s.pairs) /\ OneEach(k, s.pairs) /\ (~ Has("running") => AllTold(k, s.pairs))
    BY DEF ReadInv
  <1>11. Opens(i, j) /\ Begins(log[i]) /\ log[i].id = l.id /\ Later(i, k) /\ Same(i, j)
    BY <1>3, <1>4 DEF Opens, Later
  <1>12. \A m \in 1 .. Size : Asked(m, j) =>
            m = i /\ reads /\ Taken(i, f)
    <2>1. ASSUME NEW m \in 1 .. Size, Asked(m, j) PROVE m = i /\ reads /\ Taken(i, f)
      <3>1. m = i
        BY <1>4, <2>1 DEF Asked
      <3>2. l.t <= r.end /\ r.begin <= log[i].t /\ Wanted(r, log[i].pkg)
            /\ (IF l.k = "completed" THEN Has("merge") ELSE IsUnmerge(log[i]))
        <4>1. log[i].t \in Int /\ r.begin \in Int
          BY LineFacts DEF Calm, LogInv
        <4> QED
          BY <2>1, <3>1, <4>1 DEF Asked
      <3>3. EndOf(l) /\ Taken(i, f) /\ r.begin <= l.t
        BY <1>3, <1>4, <3>2, EndTaken
      <3> QED
        BY <1>5, <3>1, <3>2, <3>3
    <2> QED
      BY <2>1
  <1> HIDE DEF reads, f, x
  <1>13. CASE ~ reads \/ x = 0
    <2>1. d.pairs = s.pairs /\ d.bad = s.bad /\ \A g \in Fields : d[g] = s[g]
      BY <1>2, <1>13
    <2>2. \A g \in Fields : ListTaken(j, g, d[g]) /\ ListKept(j, g, d[g])
      BY <1>9, <2>1, ListStays DEF Calm
    <2>3. OneEach(j, d.pairs)
      BY <1>10, <2>1, PairsStay DEF Calm
    <2>4. ASSUME ~ Has("running") PROVE AllTold(j, d.pairs)
      <3>1. ASSUME NEW m \in 1 .. Size, Asked(m, j) PROVE FALSE
        <4>1. m = i /\ reads /\ Taken(i, f)
          BY <1>12, <3>1
        <4>2. Listed(i, s[f])
          BY <1>3, <1>4, <1>5, <1>9, <1>11, <2>4, <4>1 DEF ListKept
        <4>3. PICK n \in 1 .. Len(s[f]) : s[f][n] = Started(log[i])
          BY <4>2 DEF Listed
        <4>4. s[f][n].id = l.id
          BY <1>11, <4>3 DEF Started
        <4> QED
          BY <1>6, <1>13, <4>1, <4>4
      <3> QED
        BY <1>10, <2>1, <2>4, <3>1, PairsStay DEF Calm
    <2> QED
      BY <1>7, <1>8, <1>10, <2>1, <2>2, <2>3, <2>4 DEF ReadInv, d
  <1>14. CASE reads /\ x # 0
    <2>1. x \in 1 .. Len(s[f]) /\ s[f][x].id = l.id
      BY <1>6, <1>14
    <2>2. /\ d.pairs = Append(s.pairs, Reported(s, l, f))
          /\ \A g \in Fields : d[g] = IF g = f THEN RemoveAt(s[f], x) ELSE s[g]
      BY <1>2, <1>14
    <2>3. PICK m \in 1 .. Size :
            /\ m <= k /\ Taken(m, f) /\ Begins(log[m]) /\ s[f][x] = Started(log[m])
            /\ StartAt(s[f][x]) = m /\ s[f][x].id = log[m].id /\ s[f][x].by = Who(log[m])
      BY <1>5, <1>9, <2>1, OnList DEF Calm
    <2>4. m <= i /\ ~ Later(m, j)
      BY <1>3, <1>4, <2>1, <2>3, Matched
    <2>5. ASSUME NEW g \in Fields
          PROVE  ListTaken(j, g, d[g]) /\ ListKept(j, g, d[g])
      <3>1. CASE g # f
        <4>1. d[g] = s[g]
          BY <2>2, <3>1
        <4> QED
          BY <1>9, <4>1, ListStays DEF Calm
      <3>2. CASE g = f
        <4> DEFINE new == RemoveAt(s[f], x)
        <4>1. d[g] = new
          BY <1>5, <2>2, <3>2
        <4>2. /\ ListTaken(k, f, new)
              /\ \A p : Behind(p, s[f]) => Behind(p, new)
              /\ \A p \in 1 .. Size : Begins(log[p]) /\ Listed(p, s[f]) => Listed(p, new) \/ p = m
          BY <1>5, <1>9, <2>1, <2>3, ListWithout DEF Calm
        <4> HIDE DEF new
        <4>3. ListTaken(j, f, new)
          BY <4>2, ListStays DEF Calm
        <4>4. ASSUME NEW p \in 1 .. Size, p <= j, Taken(p, f), Later(p, j)
              PROVE  Listed(p, new) \/ (Has("running") /\ Behind(p, new))
          <5>1. p <= k /\ Begins(log[p]) /\ p # m
            BY <1>3, <1>5, <1>9, <2>4, <4>4, TakenBegins DEF Taken
          <5>2. Later(p, k)
            BY <1>3, <4>4 DEF Later
          <5>3. Listed(p, s[f]) \/ (Has("running") /\ Behind(p, s[f]))
            BY <1>5, <1>9, <4>4, <5>1, <5>2 DEF ListKept
          <5> QED
            BY <4>2, <5>1, <5>3
        <4> QED
          BY <3>2, <4>1, <4>3, <4>4 DEF ListKept
      <3> QED
        BY <3>1, <3>2
    <2> DEFINE e == Reported(s, l, f)
               old == s.pairs
               new == d.pairs
               z == Len(old) + 1
    <2>6. e.from = Who(log[m]) /\ e.to = Who(l) /\ e \in Told
      <3>1. e = [from |-> s[f][x].by, to |-> Who(l), pkg |-> s[f][x].pkg]
        BY DEF Reported, x
      <3>2. s[f][x] \in Begun
        BY <1>5, <1>9, <2>1, ElementOfSeq DEF ListTaken
      <3> QED
        BY <1>3, <2>3, <3>1, <3>2 DEF Told
    <2> HIDE DEF e
    <2>7. /\ new \in Seq(Told) /\ Len(new) = z /\ z \in Nat /\ z \in 1 .. z /\ new[z] = e
          /\ \A n \in 1 .. Len(old) : new[n] = old[n] /\ n \in 1 .. z
          /\ \A n \in 1 .. z : n \in 1 .. Len(old) \/ n = z
      <3>1. old \in Seq(Told)
        BY <1>10 DEF OwnPairs
      <3>2. /\ new \in Seq(Told) /\ Len(new) = z /\ Len(old) \in Nat /\ new[z] = e
            /\ \A n \in 1 .. Len(old) : new[n] = old[n]
        BY <2>2, <2>6, <3>1, Appended DEF e
      <3>3. z \in Nat /\ z \in 1 .. z /\ (\A n \in 1 .. Len(old) : n \in 1 .. z)
            /\ \A n \in 1 .. z : n \in 1 .. Len(old) \/ n = z
        BY <3>2
      <3> QED
        BY <3>2, <3>3
    <2> HIDE DEF old, new, z
    <2>8. ASSUME Alike PROVE m = i
      <3>1. r.begin <= log[i].t /\ l.t <= r.end
        <4>1. log[m].t <= log[i].t /\ log[m].t \in Int /\ log[i].t \in Int /\ r.begin \in Int
          BY <2>4, InOrder, LineFacts DEF Calm, LogInv
        <4>2. r.begin <= log[m].t
          BY <2>3 DEF Taken
        <4> QED
          BY <1>5, <1>14, <4>1, <4>2
      <3>2. Wanted(r, log[i].pkg)
        <4>1. log[i].pkg = log[m].pkg
          BY <1>11, <2>1, <2>3, SamePackage DEF Calm, LogInv
        <4> QED
          BY <2>3, <4>1 DEF Taken
      <3>3. Taken(i, f)
        BY <1>3, <1>4, <1>5, <1>14, <2>8, <3>1, <3>2, EndTaken DEF f
      <3>4. i <= k
        BY <1>3, <1>4
      <3>5. Listed(i, s[f]) \/ Behind(i, s[f])
        BY <1>5, <1>9, <1>11, <3>3, <3>4 DEF ListKept
      <3>6. CASE Listed(i, s[f])
        <4>1. PICK n \in 1 .. Len(s[f]) : s[f][n] = Started(log[i])
          BY <3>6 DEF Listed
        <4>2. s[f][n].id = l.id
          BY <1>11, <4>1 DEF Started
        <4>3. n <= x
          BY <1>6, <1>14, <4>2
        <4>4. StartAt(s[f][n]) = i
          BY <1>11, <4>1, StartAtIs DEF Calm, LogInv
        <4>5. n < x => i < m
          BY <1>5, <1>9, <2>1, <2>3, <4>4 DEF ListTaken
        <4>6. n = x => i = m
          BY <2>3, <4>4
        <4> QED
          BY <2>1, <2>4, <4>3, <4>5, <4>6
      <3>7. CASE Behind(i, s[f])
        <4>1. i < m
          BY <2>1, <2>3, <3>7 DEF Behind
        <4> QED
          BY <2>4, <4>1
      <3> QED
        BY <3>5, <3>6, <3>7
    <2>9. OwnPairs(new)
      <3>1. ASSUME Alike, NEW n \in 1 .. z PROVE new[n].from = new[n].to
        <4>1. CASE n = z
          <5>1. Who(log[m]) = Who(l)
            BY <1>11, <2>8, <3>1 DEF Same
          <5> QED
            BY <2>6, <2>7, <4>1, <5>1
        <4>2. CASE n \in 1 .. Len(old)
          BY <1>10, <2>7, <3>1, <4>2 DEF OwnPairs, old
        <4> QED
          BY <2>7, <4>1, <4>2
      <3> QED
        BY <2>7, <3>1 DEF OwnPairs
    <2>10. \A n \in 1 .. Len(old) : old[n].to # Who(l)
      <3>1. \A q \in 1 .. Size : q <= k /\ Ends(log[q]) => Who(log[q]) # Who(l)
        BY <1>3 DEF Calm, LogInv, EndOnce, Same
      <3> QED
        BY <1>10, <3>1 DEF OneEach, old
    <2>11. OneEach(j, new)
      <3>1. ASSUME NEW n \in 1 .. z
            PROVE  \E q \in 1 .. Size : q <= j /\ Ends(log[q]) /\ new[n].to = Who(log[q])
        <4>1. CASE n = z
          BY <1>3, <2>6, <2>7, <4>1
        <4>2. CASE n \in 1 .. Len(old)
          <5>1. PICK q \in 1 .. Size : q <= k /\ Ends(log[q]) /\ old[n].to = Who(log[q])
            BY <1>10, <4>2 DEF OneEach, old
          <5> QED
            BY <1>3, <2>7, <4>2, <5>1
        <4> QED
          BY <2>7, <4>1, <4>2
      <3>2. \A n, p \in 1 .. z : new[n].to = new[p].to => n = p
        <4>1. \A n, p \in 1 .. Len(old) : old[n].to = old[p].to => n = p
          BY <1>10 DEF OneEach, old
        <4> QED
          BY <2>6, <2>7, <2>10, <4>1
      <3> QED
        BY <2>7, <3>1, <3>2 DEF OneEach
    <2>12. ASSUME ~ Has("running") PROVE AllTold(j, new)
      <3>1. ASSUME NEW p \in 1 .. Size, NEW q \in 1 .. Size, q <= j, Asked(p, q) PROVE TellsOf(q, new)
        <4>1. CASE q = j
          BY <2>6, <2>7, <4>1 DEF TellsOf
        <4>2. CASE q <= k
          <5>1. TellsOf(q, old)
            BY <1>10, <2>12, <3>1, <4>2 DEF AllTold, old
          <5> QED
            BY <2>7, <5>1 DEF TellsOf
        <4> QED
          BY <1>3, <3>1, <4>1, <4>2
      <3> QED
        BY <3>1 DEF AllTold
    <2> QED
      BY <1>7, <1>8, <2>5, <2>9, <2>11, <2>12 DEF ReadInv, d, new
  <1> QED
    BY <1>13, <1>14

LEMMA ReadStep ==
  ASSUME Calm, NEW k \in Nat, k < Size, NEW s, ReadInv(k, s)
  PROVE  ReadInv(k + 1, ReadLine(s, log[k + 1]))
  <1>1. CASE s.bad
    BY <1>1, AfterBad
  <1>2. CASE ~ s.bad
    BY <1>2, QuietStep, StartStep, EndStep
  <1> QED
    BY <1>1, <1>2

-----------------------------------------------------------------------------
(* The folds over the log: what they have for each set of the lines 1 to n. *)

Pass1 == "scan"
Pass2 == "read"
LineStep(pass, s, l) == IF pass = Pass1 THEN ScanLine(s, l) ELSE ReadLine(s, l)

Folds(pass, n, g) ==
  /\ DOMAIN g = SUBSET (1 .. n)
  /\ \A t \in SUBSET (1 .. n) :
       g[t] = IF t = {} THEN r ELSE LineStep(pass, g[t \ {Max(t)}], log[Max(t)])

LEMMA FoldTable ==
  ASSUME NEW pass, NEW n \in Nat
  PROVE  \E g : Folds(pass, n, g)
  <1> DEFINE T(k, g) == Folds(pass, k, g)
             S == {k \in Nat : \E g : T(k, g)}
  <1>1. 0 \in S
    <2> DEFINE g == [t \in SUBSET (1 .. 0) |-> r]
    <2>1. \A t \in SUBSET (1 .. 0) : t = {}
      OBVIOUS
    <2>2. T(0, g)
      BY <2>1 DEF Folds
    <2> QED
      BY <2>2
  <1>2. ASSUME NEW k \in S, k < n PROVE k + 1 \in S
    <2>1. PICK g : T(k, g)
      BY <1>2
    <2> DEFINE m == k + 1
               h == [t \in SUBSET (1 .. m) |->
                       IF m \in t THEN LineStep(pass, g[t \ {m}], log[m]) ELSE g[t]]
    <2>2. k \in Nat /\ m \in Nat
      BY <1>2
    <2>3. ASSUME NEW t \in SUBSET (1 .. m)
          PROVE  h[t] = IF t = {} THEN r ELSE LineStep(pass, h[t \ {Max(t)}], log[Max(t)])
      <3>1. h[t] = IF m \in t THEN LineStep(pass, g[t \ {m}], log[m]) ELSE g[t]
        OBVIOUS
      <3>2. CASE m \in t
        <4>1. Max(t) = m
          BY <2>2, <3>2, GreatestUpTo
        <4>2. t \ {m} \in SUBSET (1 .. m) /\ m \notin t \ {m}
          OBVIOUS
        <4>3. h[t \ {m}] = g[t \ {m}]
          BY <4>2
        <4> HIDE DEF h
        <4> QED
          BY <3>1, <3>2, <4>1, <4>3
      <3>3. CASE m \notin t
        <4>1. t \in SUBSET (1 .. k)
          BY <2>2, <3>3
        <4>2. g[t] = IF t = {} THEN r ELSE LineStep(pass, g[t \ {Max(t)}], log[Max(t)])
          BY <2>1, <4>1 DEF Folds
        <4>3. t \ {Max(t)} \in SUBSET (1 .. m) /\ m \notin t \ {Max(t)}
          BY <3>3
        <4>4. h[t \ {Max(t)}] = g[t \ {Max(t)}]
          BY <4>3
        <4> HIDE DEF h
        <4> QED
          BY <3>1, <3>3, <4>2, <4>4
      <3> QED
        BY <3>2, <3>3
    <2>4. DOMAIN h = SUBSET (1 .. m)
      OBVIOUS
    <2> HIDE DEF h
    <2>5. T(m, h)
      BY <2>3, <2>4 DEF Folds
    <2> QED
      BY <2>2, <2>5
  <1>3. n \in S
    <2> HIDE DEF S
    <2>1. S \subseteq Nat
      BY DEF S
    <2>2. \A k \in 0 .. n : k \in S
      BY <1>1, <1>2, <2>1, UpTo
    <2> QED
      BY <2>2
  <1> QED
    BY <1>3

LEMMA ReadDef ==
  ASSUME log \in Seq(LineSet)
  PROVE  \E a : /\ a[0] = r /\ FoldLeft(ReadLine, r, log) = a[Size]
                /\ \A i \in 1 .. Size : a[i] = ReadLine(a[i - 1], log[i])
  <1> DEFINE n == Size
             F(g) == [t \in SUBSET DOMAIN log |->
                        IF t = {} THEN r ELSE ReadLine(g[t \ {Max(t)}], log[Max(t)])]
             iter == CHOOSE g : g = F(g)
  <1>1. n \in Nat /\ DOMAIN log = 1 .. n
    BY LenProperties DEF Size
  <1>2. \E g : g = F(g)
    <2>1. PICK g : Folds(Pass2, n, g)
      BY <1>1, FoldTable
    <2> DEFINE u == [t \in SUBSET (1 .. n) |-> g[t]]
    <2>2. \A t \in SUBSET (1 .. n) : u[t] = g[t] /\ u[t \ {Max(t)}] = g[t \ {Max(t)}]
      OBVIOUS
    <2>3. \A s, l : LineStep(Pass2, s, l) = ReadLine(s, l)
      BY DEF LineStep, Pass1, Pass2
    <2>4. u = F(u)
      BY <1>1, <2>1, <2>2, <2>3 DEF Folds
    <2> QED
      BY <2>4
  <1>3. iter = F(iter)
    BY <1>2
  <1>4. FoldLeft(ReadLine, r, log) = iter[DOMAIN log]
    BY DEF FoldLeft, MapThenFoldSet
  <1> HIDE DEF iter
  <1>5. \A t \in SUBSET (1 .. n) :
          iter[t] = IF t = {} THEN r ELSE ReadLine(iter[t \ {Max(t)}], log[Max(t)])
    BY <1>1, <1>3
  <1> DEFINE a == [i \in 0 .. n |-> iter[1 .. i]]
  <1>6. \A i \in 0 .. n : a[i] = iter[1 .. i] /\ 1 .. i \in SUBSET (1 .. n)
    BY <1>1
  <1> HIDE DEF a
  <1>7. a[0] = r
    <2>1. 1 .. 0 = {} /\ 0 \in 0 .. n
      BY <1>1
    <2> QED
      BY <1>5, <1>6, <2>1
  <1>8. ASSUME NEW i \in 1 .. n PROVE a[i] = ReadLine(a[i - 1], log[i])
    <2>1. i \in 0 .. n /\ i - 1 \in 0 .. n /\ i \in Nat /\ i \in 1 .. i
      BY <1>1
    <2>2. Max(1 .. i) = i
      BY <2>1, GreatestUpTo
    <2>3. (1 .. i) \ {i} = 1 .. i - 1
      BY <2>1
    <2>4. 1 .. i # {}
      BY <2>1
    <2> QED
      BY <1>5, <1>6, <2>1, <2>2, <2>3, <2>4
  <1>9. FoldLeft(ReadLine, r, log) = a[n]
    BY <1>1, <1>4, <1>6
  <1> QED
    BY <1>7, <1>8, <1>9

LEMMA ScanDef ==
  ASSUME log \in Seq(LineSet)
  PROVE  \E a : /\ a[0] = r /\ FoldLeft(ScanLine, r, log) = a[Size]
                /\ \A i \in 1 .. Size : a[i] = ScanLine(a[i - 1], log[i])
  <1> DEFINE n == Size
             F(g) == [t \in SUBSET DOMAIN log |->
                        IF t = {} THEN r ELSE ScanLine(g[t \ {Max(t)}], log[Max(t)])]
             iter == CHOOSE g : g = F(g)
  <1>1. n \in Nat /\ DOMAIN log = 1 .. n
    BY LenProperties DEF Size
  <1>2. \E g : g = F(g)
    <2>1. PICK g : Folds(Pass1, n, g)
      BY <1>1, FoldTable
    <2> DEFINE u == [t \in SUBSET (1 .. n) |-> g[t]]
    <2>2. \A t \in SUBSET (1 .. n) : u[t] = g[t] /\ u[t \ {Max(t)}] = g[t \ {Max(t)}]
      OBVIOUS
    <2>3. \A s, l : LineStep(Pass1, s, l) = ScanLine(s, l)
      BY DEF LineStep, Pass1, Pass2
    <2>4. u = F(u)
      BY <1>1, <2>1, <2>2, <2>3 DEF Folds
    <2> QED
      BY <2>4
  <1>3. iter = F(iter)
    BY <1>2
  <1>4. FoldLeft(ScanLine, r, log) = iter[DOMAIN log]
    BY DEF FoldLeft, MapThenFoldSet
  <1> HIDE DEF iter
  <1>5. \A t \in SUBSET (1 .. n) :
          iter[t] = IF t = {} THEN r ELSE ScanLine(iter[t \ {Max(t)}], log[Max(t)])
    BY <1>1, <1>3
  <1> DEFINE a == [i \in 0 .. n |-> iter[1 .. i]]
  <1>6. \A i \in 0 .. n : a[i] = iter[1 .. i] /\ 1 .. i \in SUBSET (1 .. n)
    BY <1>1
  <1> HIDE DEF a
  <1>7. a[0] = r
    <2>1. 1 .. 0 = {} /\ 0 \in 0 .. n
      BY <1>1
    <2> QED
      BY <1>5, <1>6, <2>1
  <1>8. ASSUME NEW i \in 1 .. n PROVE a[i] = ScanLine(a[i - 1], log[i])
    <2>1. i \in 0 .. n /\ i - 1 \in 0 .. n /\ i \in Nat /\ i \in 1 .. i
      BY <1>1
    <2>2. Max(1 .. i) = i
      BY <2>1, GreatestUpTo
    <2>3. (1 .. i) \ {i} = 1 .. i - 1
      BY <2>1
    <2>4. 1 .. i # {}
      BY <2>1
    <2> QED
      BY <1>5, <1>6, <2>1, <2>2, <2>3, <2>4
  <1>9. FoldLeft(ScanLine, r, log) = a[n]
    BY <1>1, <1>4, <1>6
  <1> QED
    BY <1>7, <1>8, <1>9

-----------------------------------------------------------------------------
(* Before the second pass.                                                 *)

Ready(s) ==
  /\ Known \subseteq DOMAIN s /\ s.pairs = <<>> /\ s.merges = <<>> /\ s.unmerges = <<>>
  /\ s.begin \in Int /\ s.end \in Int /\ s.tlast \in Int
  /\ s.tlast <= 0 \/ s.tlast = s.begin

Timed(s) ==
  /\ {"emergeAt", "lastMerge", "tstart"} \subseteq DOMAIN s
  /\ s.emergeAt \in Int /\ s.lastMerge \in Int /\ s.tstart \in Int

Fresh ==
  /\ pc \in {"idle", "scan", "read"} => Ready(r)
  /\ pc = "scan" => Timed(r) /\ (Has("lastmerge") => r.tlast <= 0)

\* What the first pass leaves alone.
Scanned(s) == Ready(s) /\ Timed(s) /\ s.tlast = r.tlast

LEMMA ScanStep ==
  ASSUME NEW s, Scanned(s), NEW l, l.t \in Int
  PROVE  Scanned(ScanLine(s, l))
  <1> DEFINE at0 == IF l.k = "emerge" /\ Has("lastmerge") THEN l.t ELSE s.emergeAt
             next == [s EXCEPT !.tstart = l.t, !.emergeAt = at0]
             kept == IF next.lastMerge # next.emergeAt THEN Emptied(next) ELSE next
             named == [kept EXCEPT !.names = HashAdd(kept.names, l.pkg.pn)]
             early == [s EXCEPT !.tstart = l.t]
  <1>1. ScanLine(s, l) \in {early, named, next}
    BY DEF ScanLine
  <1>2. Scanned(early)
    BY DEF Scanned, Ready, Timed, Known
  <1>3. at0 \in Int
    BY DEF Scanned, Timed
  <1> HIDE DEF at0
  <1>4. Scanned(next)
    BY <1>3 DEF Scanned, Ready, Timed, Known
  <1> HIDE DEF next, early
  <1>5. Scanned(Emptied(next))
    BY <1>4 DEF Scanned, Ready, Timed, Known, Emptied
  <1>6. Scanned(kept)
    BY <1>4, <1>5
  <1> HIDE DEF kept
  <1>7. Scanned(named)
    BY <1>6 DEF Scanned, Ready, Timed, Known
  <1> QED
    BY <1>1, <1>2, <1>4, <1>7

LEMMA ScanAll ==
  ASSUME LogInv, Ready(r), Timed(r)
  PROVE  Scanned(FoldLeft(ScanLine, r, log))
  <1>1. log \in Seq(LineSet) /\ Size \in Nat
    BY LenProperties DEF LogInv, LinesInv, Size
  <1>2. PICK a : /\ a[0] = r /\ FoldLeft(ScanLine, r, log) = a[Size]
                 /\ \A i \in 1 .. Size : a[i] = ScanLine(a[i - 1], log[i])
    BY <1>1, ScanDef
  <1> DEFINE S == {k \in Nat : k <= Size => Scanned(a[k])}
  <1>3. 0 \in S
    BY <1>2 DEF Scanned
  <1>4. ASSUME NEW k \in S, k < Size PROVE k + 1 \in S
    <2>1. k \in Nat /\ k + 1 \in 1 .. Size /\ (k + 1) - 1 = k /\ k <= Size
      BY <1>1, <1>4
    <2>2. Scanned(a[k]) /\ log[k + 1].t \in Int
      BY <2>1, LineFacts DEF LogInv
    <2>3. a[k + 1] = ScanLine(a[k], log[k + 1])
      BY <1>2, <2>1
    <2>4. Scanned(a[k + 1])
      BY <2>2, <2>3, ScanStep
    <2> QED
      BY <2>1, <2>4
  <1>5. Size \in S
    <2> HIDE DEF S
    <2>1. S \subseteq Nat
      BY DEF S
    <2>2. \A k \in 0 .. Size : k \in S
      BY <1>1, <1>3, <1>4, <2>1, UpTo
    <2> QED
      BY <1>1, <2>2
  <1> QED
    BY <1>1, <1>2, <1>5

LEMMA ReadAll ==
  ASSUME Calm, Ready(r)
  PROVE  ReadInv(Size, FoldLeft(ReadLine, r, log))
  <1>1. log \in Seq(LineSet) /\ Size \in Nat
    BY LenProperties DEF Calm, LogInv, LinesInv, Size
  <1>2. PICK a : /\ a[0] = r /\ FoldLeft(ReadLine, r, log) = a[Size]
                 /\ \A i \in 1 .. Size : a[i] = ReadLine(a[i - 1], log[i])
    BY <1>1, ReadDef
  <1> DEFINE S == {k \in Nat : k <= Size => ReadInv(k, a[k])}
  <1>3. 0 \in S
    <2>1. Frame(r, r)
      BY DEF Frame, Ready
    <2>2. TlastSet(0, r)
      <3>1. ASSUME NEW i \in 1 .. Size, r.begin <= log[i].t PROVE r.tlast <= log[i].t
        <4>1. log[i].t \in Int /\ 1 <= log[i].t
          BY LineFacts DEF Calm, LogInv
        <4> QED
          BY <3>1, <4>1 DEF Ready
      <3> QED
        BY <3>1 DEF TlastSet, Ready
    <2>3. \A i \in 1 .. Size : ~ (i <= 0)
      BY <1>1
    <2>4. \A f \in Fields : r[f] = <<>>
      BY DEF Ready, Fields
    <2>5. \A f \in Fields : ListTaken(0, f, r[f]) /\ ListKept(0, f, r[f])
      BY <2>3, <2>4, EmptyList DEF ListKept
    <2>6. OwnPairs(r.pairs) /\ OneEach(0, r.pairs)
      BY DEF Ready, OwnPairs, OneEach
    <2>7. AllTold(0, r.pairs)
      BY <2>3 DEF AllTold
    <2>8. ReadInv(0, r)
      BY <2>1, <2>2, <2>5, <2>6, <2>7 DEF ReadInv
    <2> QED
      BY <1>2, <2>8
  <1>4. ASSUME NEW k \in S, k < Size PROVE k + 1 \in S
    <2>1. k \in Nat /\ k + 1 \in 1 .. Size /\ (k + 1) - 1 = k /\ k <= Size
      BY <1>1, <1>4
    <2>2. a[k + 1] = ReadLine(a[k], log[k + 1])
      BY <1>2, <2>1
    <2>3. ReadInv(k + 1, a[k + 1])
      BY <1>4, <2>1, <2>2, ReadStep
    <2> QED
      BY <2>1, <2>3
  <1>5. Size \in S
    <2> HIDE DEF S
    <2>1. S \subseteq Nat
      BY DEF S
    <2>2. \A k \in 0 .. Size : k \in S
      BY <1>1, <1>3, <1>4, <2>1, UpTo, SMTT(60)
    <2> QED
      BY <1>1, <2>2
  <1> QED
    BY <1>1, <1>2, <1>5

-----------------------------------------------------------------------------
(* The whole run.                                                          *)

\* Every action that the second pass looks for is reported once.
AllOnce ==
  (Ordered /\ ~ Clash /\ ~ Has("running") /\ ~ Has("emerge")) =>
    \A i, j \in Lines :
      Asked(i, j) => Cardinality({n \in DOMAIN r.pairs : r.pairs[n].to = Who(log[j])}) = 1

EmergeInv ==
  /\ pc \in {"idle", "scan", "read", "over", "done", "killed"}
  /\ LogInv /\ Fresh /\ PairsOwn /\ (pc \in {"over", "done"} => AllOnce)

\* -l is not for a log from a given date.
LEMMA LastIsUndated ==
  ASSUME NEW c, "lastmerge" \in Settled(c)
  PROVE  c.from = Unset
  BY ZenonT(30) DEF Settled

LEMMA NoPairs ==
  ASSUME r.pairs = <<>>
  PROVE  PairsOwn
  BY DEF PairsOwn

LEMMA LocalsReady ==
  ASSUME NEW from \in Int, NEW to \in Int
  PROVE  Ready(Locals(from, to)) /\ Timed(Locals(from, to)) /\ Locals(from, to).tlast = from
         /\ Locals(from, to).pos = 0
  BY EmergeLogAssumption DEF Locals, Ready, Timed, Known, Forever

LEMMA InitEmerge ==
  ASSUME Init
  PROVE  EmergeInv
  <1>1. pc = "idle" /\ r = Locals(0, Forever)
    BY DEF Init
  <1>2. Forever \in Int
    BY EmergeLogAssumption DEF Forever
  <1>3. Ready(r)
    BY <1>1, <1>2, LocalsReady
  <1>4. PairsOwn
    BY <1>3, NoPairs DEF Ready
  <1> QED
    BY <1>1, <1>3, <1>4, InitLog DEF EmergeInv, Fresh

LEMMA StartEmerge ==
  ASSUME EmergeInv, Start
  PROVE  Fresh' /\ PairsOwn' /\ (pc' \in {"over", "done"} => AllOnce')
         /\ pc' \in {"scan", "read", "done"}
  <1>1. PICK c \in Commands, probe \in Probes :
          LET flags == Settled(c)
              from == IF c.from = Unset THEN 0 ELSE c.from
              probed == "running" \in flags /\ probe # NoProc
          IN /\ cmd' = [flags |-> flags, verbose |-> c.verbose,
                        all |-> (IF probed THEN ProbeProc(c.atoms, probe) ELSE c.atoms) = {}]
             /\ r' = Locals(from, IF c.to = Unset THEN Forever ELSE c.to)
             /\ pc' \in {"scan", "read", "done"}
    BY DEF Start
  <1> DEFINE from == IF c.from = Unset THEN 0 ELSE c.from
             to == IF c.to = Unset THEN Forever ELSE c.to
  <1>2. from \in Int /\ to \in Int /\ (c.from = Unset => from = 0)
    BY EmergeLogAssumption DEF Forever
  <1>3. cmd'.flags = Settled(c) /\ r' = Locals(from, to) /\ pc' \in {"scan", "read", "done"}
    BY <1>1
  <1> HIDE DEF from, to
  <1>4. Ready(r') /\ Timed(r') /\ r'.tlast = from /\ r'.pos = 0
    BY <1>2, <1>3, LocalsReady
  <1>5. "lastmerge" \in cmd'.flags => r'.tlast <= 0
    BY <1>2, <1>3, <1>4, LastIsUndated
  <1>6. Fresh'
    BY <1>4, <1>5 DEF Fresh, Ready, Timed, Has
  <1>7. PairsOwn'
    BY <1>4 DEF PairsOwn, Ready
  <1>8. AllOnce'
    <2>1. Lines' = {}
      BY <1>4 DEF Lines
    <2> QED
      BY <2>1 DEF AllOnce
  <1> QED
    BY <1>3, <1>6, <1>7, <1>8

LEMMA ScanEmerge ==
  ASSUME EmergeInv, Scan
  PROVE  Fresh' /\ PairsOwn' /\ pc' \in {"read", "killed"}
  <1> DEFINE s0 == FoldLeft(ScanLine, r, log)
             s == [s0 EXCEPT !.scanned = Len(log)]
             b == s.lastMerge
             e == s.tstart
             d == [s EXCEPT !.begin = b, !.end = e]
  <1>1. pc = "scan" /\ pc' \in {"read", "killed"} /\ r' = IF Has("lastmerge") THEN d ELSE s
    BY DEF Scan, Narrowed
  <1>2. Ready(r) /\ Timed(r) /\ (Has("lastmerge") => r.tlast <= 0)
    BY <1>1 DEF EmergeInv, Fresh
  <1>3. Scanned(s0)
    BY <1>2, ScanAll DEF EmergeInv
  <1> HIDE DEF s0
  <1>4. Scanned(s)
    BY <1>3 DEF Scanned, Ready, Timed, Known
  <1>5. b \in Int /\ e \in Int
    BY <1>4 DEF Scanned, Timed
  <1> HIDE DEF s, b, e
  <1>6. Has("lastmerge") => Ready(d)
    BY <1>2, <1>4, <1>5 DEF Scanned, Ready, Known
  <1>7. Ready(r')
    BY <1>1, <1>4, <1>6 DEF Scanned
  <1>8. Fresh'
    BY <1>1, <1>7 DEF Fresh, Ready
  <1>9. PairsOwn'
    BY <1>7 DEF PairsOwn, Ready
  <1> QED
    BY <1>1, <1>8, <1>9

LEMMA ReadEmerge ==
  ASSUME EmergeInv, Read
  PROVE  Fresh' /\ PairsOwn' /\ (pc' \in {"over", "done"} => AllOnce') /\ pc' \in {"over", "killed"}
  <1> DEFINE s == FoldLeft(ReadLine, r, log)
             d == [s EXCEPT !.pos = Len(log)]
  <1>1. /\ pc = "read" /\ r' = d /\ log' = log /\ cmd' = cmd /\ atoms' = atoms
        /\ pc' = IF d.bad THEN "killed" ELSE "over"
    BY DEF Read, writers
  <1>2. Ready(r) /\ LogInv
    BY <1>1 DEF EmergeInv, Fresh
  <1> SUFFICES PairsOwn' /\ (pc' = "over" => AllOnce')
    BY <1>1 DEF Fresh
  <1>3. CASE ~ (Ordered /\ ~ Clash /\ ~ Has("emerge"))
    BY <1>1, <1>3 DEF PairsOwn, AllOnce, Ordered, Clash, Has, Who, Begins, Ends
  <1>4. CASE Ordered /\ ~ Clash /\ ~ Has("emerge")
    <2>1. Calm
      BY <1>2, <1>4 DEF Calm, Ready
    <2>2. ReadInv(Size, s)
      BY <1>2, <2>1, ReadAll
    <2> HIDE DEF s
    <2>3. Frame(r, s) /\ OwnPairs(s.pairs) /\ OneEach(Size, s.pairs)
          /\ (~ s.bad /\ ~ Has("running") => AllTold(Size, s.pairs))
      BY <2>2 DEF ReadInv
    <2>4. /\ d.pairs = s.pairs /\ d.bad = s.bad /\ d.pos = Size
          /\ d.begin = r.begin /\ d.end = r.end /\ d.names = r.names
      BY <2>3 DEF Frame, Known, Size
    <2> HIDE DEF d
    <2> DEFINE list == s.pairs
    <2>5. DOMAIN list = 1 .. Len(list)
      BY <2>3, LenProperties DEF OwnPairs
    <2>6. PairsOwn'
      BY <1>1, <2>3, <2>4, <2>5 DEF PairsOwn, OwnPairs, Alike
    <2>7. ASSUME pc' = "over", ~ Has("running"), NEW i \in 1 .. Size, NEW j \in 1 .. Size, Asked(i, j)
          PROVE  Cardinality({n \in DOMAIN list : list[n].to = Who(log[j])}) = 1
      <3>1. ~ s.bad
        BY <1>1, <2>4, <2>7
      <3>2. j <= Size
        OBVIOUS
      <3>3. PICK n \in 1 .. Len(list) : list[n].to = Who(log[j])
        BY <2>3, <2>7, <3>1, <3>2 DEF AllTold, TellsOf
      <3>4. \A m \in 1 .. Len(list) : list[m].to = Who(log[j]) => m = n
        BY <2>3, <3>3 DEF OneEach
      <3> HIDE DEF list
      <3>5. {m \in DOMAIN list : list[m].to = Who(log[j])} = {n}
        BY <2>5, <3>3, <3>4
      <3> QED
        BY <3>5, FS_Singleton
    <2>8. ASSUME pc' = "over" PROVE AllOnce'
      <3>1. \A p : Wanted(d, p) = Wanted(r, p)
        BY <2>4 DEF Wanted
      <3>2. \A i, j : Asked(i, j)' <=> Asked(i, j)
        BY <1>1, <2>4, <3>1 DEF Asked, Same, Wanted, Matches, Has, IsUnmerge, Who, Begins, Ends, Fits
      <3>3. Lines' = 1 .. Size
        BY <1>1, <2>4 DEF Lines
      <3>4. ASSUME ~ Has("running"), NEW i \in Lines', NEW j \in Lines', Asked(i, j)'
            PROVE  Cardinality({n \in DOMAIN r'.pairs : r'.pairs[n].to = Who(log'[j])}) = 1
        <4>1. r'.pairs = list /\ log' = log
          BY <1>1, <2>4
        <4>2. Cardinality({n \in DOMAIN list : list[n].to = Who(log[j])}) = 1
          BY <2>7, <2>8, <3>2, <3>3, <3>4
        <4> HIDE DEF list
        <4> QED
          BY <4>1, <4>2
      <3>5. Has("running")' <=> Has("running")
        BY <1>1 DEF Has
      <3> HIDE DEF list
      <3> QED
        BY <3>4, <3>5 DEF AllOnce, Who
    <2> QED
      BY <2>6, <2>8
  <1> QED
    BY <1>3, <1>4

\* What Report, and the steps of the writers, leave of what was read.
LEMMA ReportEmerge ==
  ASSUME EmergeInv, Report
  PROVE  Fresh' /\ PairsOwn' /\ (pc' \in {"over", "done"} => AllOnce') /\ pc' \in {"done", "killed"}
  <1>1. pc = "over" /\ pc' \in {"done", "killed"} /\ log' = log /\ cmd' = cmd /\ atoms' = atoms
    BY DEF Report, writers
  <1>2. /\ r'.pairs = r.pairs /\ r'.pos = r.pos /\ r'.begin = r.begin /\ r'.end = r.end
        /\ r'.names = r.names
    BY DEF Report
  <1>3. Fresh'
    BY <1>1 DEF Fresh
  <1>4. PairsOwn'
    BY <1>1, <1>2 DEF EmergeInv, PairsOwn, Ordered, Clash, Has, Who, Begins, Ends
  <1>5. AllOnce'
    <2>1. \A p : Wanted(r', p) = Wanted(r, p)
      BY <1>2 DEF Wanted
    <2>2. \A i, j : Asked(i, j)' <=> Asked(i, j)
      BY <1>1, <1>2, <2>1 DEF Asked, Same, Wanted, Matches, Has, IsUnmerge, Who, Begins, Ends, Fits
    <2>3. Lines' = Lines
      BY <1>2 DEF Lines
    <2>4. AllOnce
      BY <1>1 DEF EmergeInv
    <2>5. (Ordered /\ ~ Clash /\ ~ Has("running") /\ ~ Has("emerge"))'
            <=> (Ordered /\ ~ Clash /\ ~ Has("running") /\ ~ Has("emerge"))
      BY <1>1 DEF Ordered, Clash, Has, Who, Begins, Ends
    <2>6. AllOnce => AllOnce'
      BY <1>1, <1>2, <2>2, <2>3, <2>5, ZenonT(60) DEF AllOnce, Who
    <2> QED
      BY <2>4, <2>6
  <1> QED
    BY <1>1, <1>3, <1>4, <1>5

LEMMA WritersEmerge ==
  ASSUME EmergeInv, cmd' = cmd, pc' = pc, r' = r, atoms' = atoms,
         pc \in {"idle", "read"} \/ log' = log
  PROVE  Fresh' /\ PairsOwn' /\ (pc' \in {"over", "done"} => AllOnce')
  <1>1. Fresh'
    BY DEF EmergeInv, Fresh, Ready, Timed, Has
  <1>2. CASE pc \in {"idle", "read"}
    <2>1. r'.pairs = <<>>
      BY <1>2 DEF EmergeInv, Fresh, Ready
    <2>2. PairsOwn'
      BY <2>1 DEF PairsOwn
    <2> QED
      BY <1>1, <1>2, <2>2
  <1>3. CASE log' = log
    <2>1. PairsOwn'
      BY <1>3 DEF EmergeInv, PairsOwn, Ordered, Clash, Has, Who, Begins, Ends
    <2>2. \A i, j : Asked(i, j)' <=> Asked(i, j)
      BY <1>3 DEF Asked, Same, Wanted, Matches, Has, IsUnmerge, Who, Begins, Ends, Fits
    <2>3. Lines' = Lines
      BY DEF Lines
    <2>4. (Ordered /\ ~ Clash /\ ~ Has("running") /\ ~ Has("emerge"))'
            <=> (Ordered /\ ~ Clash /\ ~ Has("running") /\ ~ Has("emerge"))
      BY <1>3 DEF Ordered, Clash, Has, Who, Begins, Ends
    <2>5. AllOnce => AllOnce'
      BY <1>3, <2>2, <2>3, <2>4, ZenonT(60) DEF AllOnce, Who
    <2> QED
      BY <1>1, <2>1, <2>5 DEF EmergeInv
  <1> QED
    BY <1>2, <1>3

LEMMA NextEmerge ==
  ASSUME EmergeInv, [Next]_vars
  PROVE  EmergeInv'
  <1>1. LogInv'
    BY NextLog DEF EmergeInv
  <1>2. CASE Start
    BY <1>1, <1>2, StartEmerge DEF EmergeInv
  <1>3. CASE Scan
    BY <1>1, <1>3, ScanEmerge DEF EmergeInv
  <1>4. CASE Read
    BY <1>1, <1>4, ReadEmerge DEF EmergeInv
  <1>5. CASE Report
    BY <1>1, <1>5, ReportEmerge DEF EmergeInv
  <1>6. CASE \E e \in Emerges : Write(e)
    <2>1. cmd' = cmd /\ pc' = pc /\ r' = r /\ atoms' = atoms /\ pc \in {"idle", "read"}
      BY <1>6 DEF Write
    <2> QED
      BY <1>1, <2>1, WritersEmerge DEF EmergeInv
  <1>7. CASE (\E e \in Emerges : GiveUp(e)) \/ Pass \/ vars' = vars
    <2>1. cmd' = cmd /\ pc' = pc /\ r' = r /\ atoms' = atoms /\ log' = log
      BY <1>7 DEF GiveUp, Pass, vars
    <2> QED
      BY <1>1, <2>1, WritersEmerge DEF EmergeInv
  <1> QED
    BY <1>2, <1>3, <1>4, <1>5, <1>6, <1>7 DEF Next, Qlop

\* Whatever is written and whoever reads it, the log stays one of copies of the
\* scripts, and what was read of it stays what it says.
THEOREM EmergeInvariant == Spec => []EmergeInv
<1>1. Init => EmergeInv
  BY InitEmerge
<1>2. EmergeInv /\ [Next]_vars => EmergeInv'
  BY NextEmerge
<1> QED
  BY <1>1, <1>2, PTL DEF Spec

\* What qlop reports as one action, one process started and completed: no start
\* is that of an earlier attempt that was cut off.
THEOREM PairsAreOwn == Spec => []PairsOwn
<1>1. EmergeInv => PairsOwn
  BY DEF EmergeInv
<1> QED
  BY <1>1, EmergeInvariant, PTL

-----------------------------------------------------------------------------
(* The last emerge.                                                        *)

\* What an emerge writes first is that it starts.
HeadOf(e, h) ==
  log[h].by = e /\ log[h].k = "emerge" /\ \A i \in 1 .. Size : log[i].by = e => h <= i
Headed == \A e \in Emerges : at[e] > 0 => \E h \in 1 .. Size : HeadOf(e, h)
Timely == clock <= Forever /\ \A i \in 1 .. Size : log[i].t <= Forever
HeadInv == Headed /\ Timely

LEMMA WriteHead ==
  ASSUME LogInv, HeadInv, NEW e \in Emerges, Write(e)
  PROVE  HeadInv'
  <1>1. PICK l \in LineSet :
          /\ log' = Append(log, l) /\ l.t = clock /\ l.by = e /\ Copy(l, at[e] + 1)
          /\ at' = [at EXCEPT ![e] = at[e] + 1] /\ at[e] + 1 \in 1 .. Len(Script[e])
          /\ log' \in Seq(LineSet) /\ Size' = Size + 1 /\ Size \in Nat
          /\ log'[Size + 1] = l /\ \A i \in 1 .. Size : log'[i] = log[i]
    BY NewLine
  <1> DEFINE z == Size + 1
  <1>2. /\ clock' = clock /\ at \in [Emerges -> Nat] /\ at[e] \in Nat
    BY DEF LogInv, LinesInv, Write
  <1>3. \A f \in Emerges : f # e => at'[f] = at[f]
    BY <1>1, <1>2
  <1>4. \A i \in 1 .. z : i \in 1 .. Size \/ i = z
    BY <1>1
  <1>5. \A i \in 1 .. Size : log'[i] = log[i] /\ i < z /\ i <= z /\ i \in 1 .. z
    <2>1. \A i \in 1 .. Size : i < z /\ i <= z /\ i \in 1 .. z
      BY <1>1
    <2> QED
      BY <1>1, <2>1
  <1>6. log'[z] = l /\ Size' = z /\ z \in 1 .. z /\ z <= z
    BY <1>1
  <1> HIDE DEF z
  <1>7. ASSUME NEW f \in Emerges, NEW h \in 1 .. Size, HeadOf(f, h) PROVE HeadOf(f, h)'
    BY <1>4, <1>5, <1>6, <1>7 DEF HeadOf
  <1>8. ASSUME NEW f \in Emerges, at'[f] > 0 PROVE \E h \in 1 .. z : HeadOf(f, h)'
    <2>1. CASE at[f] > 0
      <3>1. PICK h \in 1 .. Size : HeadOf(f, h)
        BY <2>1 DEF HeadInv, Headed
      <3> QED
        BY <1>5, <1>7, <3>1
    <2>2. CASE ~ (at[f] > 0)
      <3>1. f = e /\ at[e] = 0 /\ at[e] + 1 = 1
        BY <1>2, <1>3, <1>8, <2>2
      <3>2. ASSUME NEW i \in 1 .. Size PROVE log[i].by # e
        BY <3>1, LineFacts DEF LogInv, CopyUpTo
      <3>3. Script[e] # <<>>
        BY <1>1
      <3>4. l.k = "emerge"
        BY <1>1, <3>1, <3>3, ScriptAssumption DEF Copy
      <3>5. \A i \in 1 .. z : log'[i].by = e => z <= i
        BY <1>4, <1>5, <1>6, <3>2
      <3> QED
        BY <1>1, <1>6, <3>1, <3>4, <3>5 DEF HeadOf
    <2> QED
      BY <2>1, <2>2
  <1>9. Headed'
    BY <1>6, <1>8 DEF Headed
  <1>10. Timely'
    BY <1>1, <1>2, <1>4, <1>5, <1>6 DEF HeadInv, Timely, Forever
  <1> QED
    BY <1>9, <1>10 DEF HeadInv

LEMMA InitHead ==
  ASSUME Init
  PROVE  HeadInv
  <1>1. Size = 0 /\ clock = 1 /\ \A e \in Emerges : at[e] = 0
    BY DEF Init, Size
  <1>2. 1 <= Forever
    BY EmergeLogAssumption DEF Forever
  <1> QED
    BY <1>1, <1>2 DEF HeadInv, Headed, Timely

LEMMA NextHead ==
  ASSUME LogInv, HeadInv, [Next]_vars
  PROVE  HeadInv'
  <1>1. CASE writers' = writers
    BY <1>1 DEF writers, HeadInv, Headed, HeadOf, Timely, Size
  <1>2. CASE Pass
    <2>1. clock' <= Forever /\ log' = log /\ at' = at
      BY <1>2, EmergeLogAssumption DEF Pass, Forever
    <2> QED
      BY <2>1 DEF HeadInv, Headed, HeadOf, Timely, Size
  <1>3. CASE \E e \in Emerges : Write(e)
    BY <1>3, WriteHead
  <1>4. ASSUME NEW e \in Emerges, GiveUp(e) PROVE HeadInv'
    <2>1. clock' = clock /\ log' = log /\ at[e] > 0 /\ at \in [Emerges -> Nat]
      BY <1>4 DEF GiveUp, LogInv, LinesInv
    <2>2. \A f \in Emerges : f # e => at'[f] = at[f]
      BY <1>4, <2>1 DEF GiveUp
    <2>3. \A f \in Emerges : at'[f] > 0 => at[f] > 0
      BY <2>1, <2>2
    <2> QED
      BY <2>1, <2>3 DEF HeadInv, Headed, HeadOf, Timely, Size
  <1>5. Start \/ Scan \/ Read \/ Report => writers' = writers
    BY DEF Start, Scan, Read, Report, writers
  <1>6. vars' = vars => writers' = writers
    BY DEF vars, writers
  <1> QED
    BY <1>1, <1>2, <1>3, <1>4, <1>5, <1>6 DEF Next, Qlop

\* Line h is the last up to line k with which an emerge starts; line b is the last
\* up to line k that starts an action.
LastHead(h, k) ==
  /\ h \in 1 .. Size /\ h <= k /\ log[h].k = "emerge"
  /\ \A i \in 1 .. Size : i <= k /\ log[i].k = "emerge" => i <= h
LastBegun(b, k) ==
  /\ b \in 1 .. Size /\ b <= k /\ Begins(log[b])
  /\ \A i \in 1 .. Size : i <= k /\ Begins(log[i]) => i <= b

Undated(s) == s.begin = 0 /\ s.end = Forever

\* What the first pass knows after k lines.
Tracked(k, s) ==
  /\ Scanned(s) /\ Undated(s)
  /\ k > 0 => s.tstart = log[k].t
  /\ \A h : LastHead(h, k) => s.emergeAt = log[h].t
  /\ \A b, h : LastBegun(b, k) /\ LastHead(h, b) => s.lastMerge = log[h].t

\* The time that is reported on is that of the last emerge that did something.
Marked ==
  Has("lastmerge") /\ cmd.all =>
    /\ r.scanned \in Nat /\ r.scanned <= Size
    /\ r.scanned > 0 => r.end = log[r.scanned].t
    /\ \A b, h : LastBegun(b, r.scanned) /\ LastHead(h, b) => r.begin = log[h].t

PairIn(p, s) == \E j \in 1 .. Size : p.to = Who(log[j]) /\ s.begin <= log[j].t /\ log[j].t <= s.end
PairsIn(s) == \A n \in DOMAIN s.pairs : PairIn(s.pairs[n], s)

LastInv ==
  /\ EmergeInv /\ HeadInv /\ PairsIn(r)
  /\ pc = "scan" /\ Has("lastmerge") => Undated(r)
  /\ pc \in {"read", "over", "done"} => Marked

LEMMA ScanEffect ==
  ASSUME Has("lastmerge"), cmd.all, NEW s, Scanned(s), Undated(s),
         NEW l, l.t \in Int, 1 <= l.t, l.t <= Forever
  PROVE  LET d == ScanLine(s, l)
         IN /\ Undated(d) /\ d.tstart = l.t
            /\ d.emergeAt = IF l.k = "emerge" THEN l.t ELSE s.emergeAt
            /\ d.lastMerge = IF Begins(l) THEN d.emergeAt ELSE s.lastMerge
  <1> DEFINE at0 == IF l.k = "emerge" /\ Has("lastmerge") THEN l.t ELSE s.emergeAt
             next == [s EXCEPT !.tstart = l.t, !.emergeAt = at0]
             kept == IF next.lastMerge # next.emergeAt THEN Emptied(next) ELSE next
             named == [kept EXCEPT !.names = HashAdd(kept.names, l.pkg.pn)]
  <1>0. ~ (l.t < s.begin \/ l.t > s.end)
    BY EmergeLogAssumption DEF Undated, Forever
  <1>1. ScanLine(s, l) = IF Begins(l) THEN named ELSE next
    BY <1>0, Zenon DEF ScanLine
  <1>2. at0 = IF l.k = "emerge" THEN l.t ELSE s.emergeAt
    OBVIOUS
  <1> HIDE DEF at0
  <1>3. /\ Undated(next) /\ next.tstart = l.t /\ next.emergeAt = at0 /\ next.lastMerge = s.lastMerge
        /\ Known \cup {"emergeAt", "lastMerge", "tstart"} \subseteq DOMAIN next
    BY DEF Scanned, Ready, Timed, Known, Undated
  <1> HIDE DEF next
  <1>4. /\ Undated(Emptied(next)) /\ Emptied(next).tstart = l.t /\ Emptied(next).emergeAt = at0
        /\ Emptied(next).lastMerge = at0
        /\ Known \cup {"emergeAt", "lastMerge", "tstart"} \subseteq DOMAIN Emptied(next)
    BY <1>3 DEF Emptied, Known, Undated
  <1>5. /\ Undated(kept) /\ kept.tstart = l.t /\ kept.emergeAt = at0 /\ kept.lastMerge = at0
        /\ Known \cup {"emergeAt", "lastMerge", "tstart"} \subseteq DOMAIN kept
    BY <1>3, <1>4
  <1> HIDE DEF kept
  <1>6. /\ Undated(named) /\ named.tstart = l.t /\ named.emergeAt = at0 /\ named.lastMerge = at0
    BY <1>5 DEF Known, Undated
  <1> HIDE DEF named
  <1> QED
    BY <1>1, <1>2, <1>3, <1>6

LEMMA TrackedStep ==
  ASSUME LogInv, HeadInv, Has("lastmerge"), cmd.all, NEW k \in Nat, k < Size, NEW s, Tracked(k, s)
  PROVE  Tracked(k + 1, ScanLine(s, log[k + 1]))
  <1> DEFINE l == log[k + 1]
             d == ScanLine(s, l)
             j == k + 1
  <1>1. /\ Size \in Nat /\ j \in 1 .. Size /\ j > 0 /\ l.t \in Int /\ 1 <= l.t /\ l.t <= Forever
        /\ \A i \in 1 .. Size : (i <= k => i <= j) /\ (i <= j <=> i <= k \/ i = j)
    <2>1. Size \in Nat /\ j \in 1 .. Size
      BY LenProperties DEF LogInv, LinesInv, Size
    <2> QED
      BY <2>1, LineFacts DEF LogInv, HeadInv, Timely
  <1>2. /\ Undated(d) /\ d.tstart = l.t
        /\ d.emergeAt = IF l.k = "emerge" THEN l.t ELSE s.emergeAt
        /\ d.lastMerge = IF Begins(l) THEN d.emergeAt ELSE s.lastMerge
    BY <1>1, ScanEffect DEF Tracked
  <1>3. Scanned(d)
    BY <1>1, ScanStep DEF Tracked
  <1> HIDE DEF d
  <1>4. ASSUME NEW h, LastHead(h, j) PROVE d.emergeAt = log[h].t
    <2>1. CASE l.k = "emerge"
      <3>1. h = j
        BY <1>1, <1>4, <2>1 DEF LastHead
      <3> QED
        BY <1>2, <2>1, <3>1
    <2>2. CASE l.k # "emerge"
      <3>1. h # j
        BY <1>4, <2>2 DEF LastHead
      <3> HIDE DEF j
      <3>2. LastHead(h, k)
        BY <1>1, <1>4, <3>1 DEF LastHead
      <3> QED
        BY <1>2, <2>2, <3>2 DEF Tracked
    <2> QED
      BY <2>1, <2>2
  <1>5. ASSUME NEW b, NEW h, LastBegun(b, j), LastHead(h, b) PROVE d.lastMerge = log[h].t
    <2>1. CASE Begins(l)
      <3>1. b = j
        BY <1>1, <1>5, <2>1 DEF LastBegun
      <3> QED
        BY <1>2, <1>4, <1>5, <2>1, <3>1
    <2>2. CASE ~ Begins(l)
      <3>1. b # j
        BY <1>5, <2>2 DEF LastBegun
      <3> HIDE DEF j
      <3>2. LastBegun(b, k)
        BY <1>1, <1>5, <3>1 DEF LastBegun
      <3> QED
        BY <1>2, <1>5, <2>2, <3>2 DEF Tracked
    <2> QED
      BY <2>1, <2>2
  <1> QED
    BY <1>2, <1>3, <1>4, <1>5 DEF Tracked, d

LEMMA TrackedAll ==
  ASSUME LogInv, HeadInv, Has("lastmerge"), cmd.all, Ready(r), Timed(r), Undated(r)
  PROVE  Tracked(Size, FoldLeft(ScanLine, r, log))
  <1>1. log \in Seq(LineSet) /\ Size \in Nat
    BY LenProperties DEF LogInv, LinesInv, Size
  <1>2. PICK a : /\ a[0] = r /\ FoldLeft(ScanLine, r, log) = a[Size]
                 /\ \A i \in 1 .. Size : a[i] = ScanLine(a[i - 1], log[i])
    BY <1>1, ScanDef
  <1> DEFINE S == {k \in Nat : k <= Size => Tracked(k, a[k])}
  <1>3. 0 \in S
    <2>1. \A h : ~ LastHead(h, 0) /\ ~ LastBegun(h, 0)
      BY <1>1 DEF LastHead, LastBegun
    <2> QED
      BY <1>2, <2>1 DEF Tracked, Scanned
  <1>4. ASSUME NEW k \in S, k < Size PROVE k + 1 \in S
    <2>1. k \in Nat /\ k + 1 \in 1 .. Size /\ (k + 1) - 1 = k /\ k <= Size
      BY <1>1, <1>4
    <2>2. a[k + 1] = ScanLine(a[k], log[k + 1])
      BY <1>2, <2>1
    <2>3. Tracked(k + 1, a[k + 1])
      BY <1>4, <2>1, <2>2, TrackedStep
    <2> QED
      BY <2>1, <2>3
  <1>5. Size \in S
    <2> HIDE DEF S
    <2>1. S \subseteq Nat
      BY DEF S
    <2>2. \A k \in 0 .. Size : k \in S
      BY <1>1, <1>3, <1>4, <2>1, UpTo
    <2> QED
      BY <1>1, <2>2
  <1> QED
    BY <1>1, <1>2, <1>5

\* What any line does to the pairs, whatever the log and the options are like.
LEMMA PairsOfLine ==
  ASSUME NEW s, NEW l, Known \subseteq DOMAIN s
  PROVE  LET d == ReadLine(s, l)
         IN /\ Frame(s, d)
            /\ \/ d.pairs = s.pairs
               \/ /\ s.begin <= l.t /\ l.t <= s.end
                  /\ \E p : d.pairs = Append(s.pairs, p) /\ p.to = Who(l)
  <1>1. CASE s.bad
    BY <1>1 DEF ReadLine, Frame
  <1>2. CASE ~ s.bad /\ Begins(l)
    <2> DEFINE d == [s EXCEPT !.tlast = l.t]
               m == [d EXCEPT !.merges = Append(d.merges, Started(l))]
               u == [d EXCEPT !.unmerges = Append(d.unmerges, Started(l))]
               x == [d EXCEPT !.upgrade = l.pkg]
    <2>1. Counted(s, l) = s
      BY <1>2, CountedEffect DEF Begins
    <2>2. Frame(s, d) /\ d.pairs = s.pairs
      BY DEF Frame, Known
    <2> HIDE DEF d
    <2>3. /\ Frame(s, m) /\ m.pairs = s.pairs /\ Frame(s, u) /\ u.pairs = s.pairs
          /\ Frame(s, x) /\ x.pairs = s.pairs
      BY <2>2 DEF Frame, Known
    <2>4. ~ IsSync(l)
      BY <1>2 DEF IsSync, Begins
    <2>5. IsMerge(l) => Merge(d, l) \in {d, m}
      BY <1>2 DEF IsMerge, Merge, Begins
    <2>6. IsUnmerge(l) => Unmerge(d, l) \in {d, u, x}
      BY <1>2 DEF IsUnmerge, Unmerge, Begins
    <2> HIDE DEF m, u, x
    <2>7. ReadLine(s, l) = CASE l.t < s.tlast -> s [] l.t >= s.tlast /\ ~ Dated(s, l) -> d
                             [] Dated(s, l) /\ IsSync(l) -> Sync(d, l)
                             [] Dated(s, l) /\ ~IsSync(l) /\ IsMerge(l) -> Merge(d, l)
                             [] Dated(s, l) /\ ~IsSync(l) /\ ~IsMerge(l) /\ IsUnmerge(l) -> Unmerge(d, l)
                             [] OTHER -> d
      BY <1>2, <2>1 DEF ReadLine, d
    <2>8. ReadLine(s, l) \in {s, d, m, u, x}
      BY <2>4, <2>5, <2>6, <2>7
    <2>9. Frame(s, s)
      BY DEF Frame
    <2> QED
      BY <2>2, <2>3, <2>8, <2>9
  <1>3. CASE ~ s.bad /\ Ends(l)
    <2> DEFINE f == OpenField(l)
               i == StartOf(s[f], l.id)
               d == ReadLine(s, l)
    <2>1. /\ Frame(s, d)
          /\ ~ (Dated(s, l) /\ EndOf(l)) \/ i = 0 => d.pairs = s.pairs
          /\ Dated(s, l) /\ EndOf(l) /\ i # 0 => d.pairs = Append(s.pairs, Reported(s, l, f))
      BY <1>3, EndLine
    <2>2. Reported(s, l, f).to = Who(l)
      BY DEF Reported
    <2>3. Dated(s, l) => s.begin <= l.t /\ l.t <= s.end
      <3>1. Dated(s, l) => l.t >= s.begin /\ l.t <= s.end
        BY DEF Dated
      <3> QED
        BY <3>1
    <2> HIDE DEF d, i, f
    <2> QED
      BY <2>1, <2>2, <2>3 DEF d
  <1>4. CASE ~ s.bad /\ ~ Begins(l) /\ ~ Ends(l)
    BY <1>4, QuietLine
  <1> QED
    BY <1>1, <1>2, <1>3, <1>4

PairsRead(s) == (\E X : s.pairs \in Seq(X)) /\ PairsIn(s)

LEMMA PairsReadStep ==
  ASSUME LogInv, NEW k \in 1 .. Size, NEW s, Frame(r, s), PairsRead(s)
  PROVE  Frame(r, ReadLine(s, log[k])) /\ PairsRead(ReadLine(s, log[k]))
  <1> DEFINE l == log[k]
             d == ReadLine(s, l)
  <1>1. /\ Frame(s, d)
        /\ \/ d.pairs = s.pairs
           \/ /\ s.begin <= l.t /\ l.t <= s.end
              /\ \E p : d.pairs = Append(s.pairs, p) /\ p.to = Who(l)
    BY PairsOfLine DEF Frame
  <1> HIDE DEF d
  <1>2. Frame(r, d) /\ d.begin = s.begin /\ d.end = s.end
    BY <1>1 DEF Frame
  <1>3. \A p : PairIn(p, s) => PairIn(p, d)
    BY <1>2 DEF PairIn
  <1>4. CASE d.pairs = s.pairs
    BY <1>2, <1>3, <1>4 DEF PairsRead, PairsIn, d
  <1>5. ASSUME NEW p, d.pairs = Append(s.pairs, p), p.to = Who(l), s.begin <= l.t, l.t <= s.end
        PROVE  PairsRead(d)
    <2>1. PICK X : s.pairs \in Seq(X)
      BY DEF PairsRead
    <2>2. s.pairs \in Seq(X \cup {p}) /\ p \in X \cup {p}
      <3>1. Len(s.pairs) \in Nat /\ s.pairs \in [1 .. Len(s.pairs) -> X]
        BY <2>1, LenProperties
      <3>2. s.pairs \in [1 .. Len(s.pairs) -> X \cup {p}]
        BY <3>1
      <3> QED
        BY <3>1, <3>2, SeqDef
    <2>3. /\ d.pairs \in Seq(X \cup {p}) /\ Len(d.pairs) = Len(s.pairs) + 1 /\ Len(s.pairs) \in Nat
          /\ d.pairs[Len(s.pairs) + 1] = p
          /\ \A n \in 1 .. Len(s.pairs) : d.pairs[n] = s.pairs[n]
      BY <1>5, <2>2, Appended
    <2>4. DOMAIN d.pairs = 1 .. Len(s.pairs) + 1 /\ DOMAIN s.pairs = 1 .. Len(s.pairs)
      BY <2>2, <2>3, LenProperties
    <2>5. PairIn(p, d)
      BY <1>2, <1>5 DEF PairIn
    <2>6. ASSUME NEW n \in DOMAIN d.pairs PROVE PairIn(d.pairs[n], d)
      <3>1. n = Len(s.pairs) + 1 \/ n \in 1 .. Len(s.pairs)
        BY <2>3, <2>4
      <3> QED
        BY <1>3, <2>3, <2>4, <2>5, <3>1 DEF PairsRead, PairsIn
    <2> QED
      BY <2>3, <2>6 DEF PairsRead, PairsIn
  <1> QED
    BY <1>1, <1>2, <1>4, <1>5 DEF d

LEMMA PairsReadAll ==
  ASSUME LogInv, Ready(r)
  PROVE  Frame(r, FoldLeft(ReadLine, r, log)) /\ PairsIn(FoldLeft(ReadLine, r, log))
  <1>1. log \in Seq(LineSet) /\ Size \in Nat
    BY LenProperties DEF LogInv, LinesInv, Size
  <1>2. PICK a : /\ a[0] = r /\ FoldLeft(ReadLine, r, log) = a[Size]
                 /\ \A i \in 1 .. Size : a[i] = ReadLine(a[i - 1], log[i])
    BY <1>1, ReadDef
  <1> DEFINE S == {k \in Nat : k <= Size => Frame(r, a[k]) /\ PairsRead(a[k])}
  <1>3. 0 \in S
    <2>1. Frame(r, r) /\ PairsRead(r)
      BY DEF Frame, Ready, PairsRead, PairsIn
    <2> QED
      BY <1>2, <2>1
  <1>4. ASSUME NEW k \in S, k < Size PROVE k + 1 \in S
    <2>1. k \in Nat /\ k + 1 \in 1 .. Size /\ (k + 1) - 1 = k /\ k <= Size
      BY <1>1, <1>4
    <2>2. a[k + 1] = ReadLine(a[k], log[k + 1])
      BY <1>2, <2>1
    <2>3. Frame(r, a[k + 1]) /\ PairsRead(a[k + 1])
      BY <1>4, <2>1, <2>2, PairsReadStep
    <2> QED
      BY <2>1, <2>3
  <1>5. Size \in S
    <2> HIDE DEF S
    <2>1. S \subseteq Nat
      BY DEF S
    <2>2. \A k \in 0 .. Size : k \in S
      BY <1>1, <1>3, <1>4, <2>1, UpTo
    <2> QED
      BY <1>1, <2>2
  <1> QED
    BY <1>1, <1>2, <1>5 DEF PairsRead

LEMMA InitLast ==
  ASSUME Init
  PROVE  LastInv
  <1>1. EmergeInv /\ HeadInv
    BY InitEmerge, InitHead
  <1>2. pc = "idle" /\ PairsIn(r)
    BY <1>1 DEF Init, EmergeInv, Fresh, Ready, PairsIn
  <1> QED
    BY <1>1, <1>2 DEF LastInv

\* What the first pass is for the log of all dates with.
LEMMA StartLast ==
  ASSUME EmergeInv, Start
  PROVE  PairsIn(r)' /\ (Has("lastmerge")' => Undated(r)') /\ Marked'
  <1>1. PICK c \in Commands, probe \in Probes :
          LET flags == Settled(c)
              from == IF c.from = Unset THEN 0 ELSE c.from
              probed == "running" \in flags /\ probe # NoProc
          IN /\ cmd' = [flags |-> flags, verbose |-> c.verbose,
                        all |-> (IF probed THEN ProbeProc(c.atoms, probe) ELSE c.atoms) = {}]
             /\ r' = Locals(from, IF c.to = Unset THEN Forever ELSE c.to)
    BY DEF Start
  <1> DEFINE from == IF c.from = Unset THEN 0 ELSE c.from
             to == IF c.to = Unset THEN Forever ELSE c.to
  <1>2. cmd'.flags = Settled(c) /\ r' = Locals(from, to)
    BY <1>1
  <1>3. r'.begin = from /\ r'.end = to /\ r'.scanned = 0 /\ r'.pairs = <<>>
    <2> HIDE DEF from, to
    <2> QED
      BY <1>2 DEF Locals
  <1>4. "lastmerge" \in cmd'.flags => from = 0 /\ to = Forever
    BY <1>2, LastIsUndated, EmergeLogAssumption
  <1> HIDE DEF from, to
  <1>5. Has("lastmerge")' => Undated(r)'
    BY <1>3, <1>4 DEF Has, Undated, Forever
  <1>6. log' = log /\ Size' = Size /\ Size \in Nat
    BY LenProperties DEF Start, writers, Size, EmergeInv, LogInv, LinesInv
  <1>7. \A b : ~ LastBegun(b, 0)'
    BY <1>6 DEF LastBegun
  <1>8. Marked'
    BY <1>3, <1>6, <1>7 DEF Marked
  <1>9. PairsIn(r)'
    BY <1>3 DEF PairsIn
  <1> QED
    BY <1>5, <1>8, <1>9

LEMMA ScanLast ==
  ASSUME LastInv, Scan
  PROVE  Marked' /\ PairsIn(r)'
  <1> DEFINE s0 == FoldLeft(ScanLine, r, log)
             s == [s0 EXCEPT !.scanned = Len(log)]
             d == [s EXCEPT !.begin = s.lastMerge, !.end = s.tstart]
  <1>1. /\ pc = "scan" /\ log' = log /\ cmd' = cmd
        /\ r' = IF Has("lastmerge") THEN d ELSE s
    BY DEF Scan, Narrowed, writers
  <1>2. Ready(r) /\ Timed(r) /\ LogInv /\ HeadInv /\ (Has("lastmerge") => Undated(r))
    BY <1>1 DEF LastInv, EmergeInv, Fresh
  <1>3. Ready(s0) /\ Timed(s0)
    BY <1>2, ScanAll DEF Scanned
  <1>4. Has("lastmerge") /\ cmd.all => Tracked(Size, s0)
    BY <1>2, TrackedAll
  <1> HIDE DEF s0
  <1>5. /\ d.scanned = Size /\ d.begin = s0.lastMerge /\ d.end = s0.tstart
        /\ d.pairs = <<>> /\ s.pairs = <<>>
    BY <1>3 DEF Ready, Timed, Known, Size
  <1> HIDE DEF s, d
  <1>6. PairsIn(r)'
    BY <1>1, <1>5 DEF PairsIn
  <1>7. Size' = Size /\ Size \in Nat
    BY <1>1, <1>2, LenProperties DEF Size, LogInv, LinesInv
  <1>8. ASSUME Has("lastmerge"), cmd.all PROVE Marked'
    <2>1. r' = d /\ Tracked(Size, s0)
      BY <1>1, <1>4, <1>8
    <2>2. Size > 0 => d.end = log[Size].t
      BY <1>5, <2>1 DEF Tracked
    <2>3. \A b, h : LastBegun(b, Size) /\ LastHead(h, b) => d.begin = log[h].t
      BY <1>5, <2>1 DEF Tracked
    <2>4. \A b, h : (LastBegun(b, Size)' <=> LastBegun(b, Size)) /\ (LastHead(h, b)' <=> LastHead(h, b))
      BY <1>1, <1>7 DEF LastBegun, LastHead, Begins
    <2> QED
      BY <1>1, <1>5, <1>7, <2>1, <2>2, <2>3, <2>4 DEF Marked
  <1>9. Has("lastmerge")' /\ cmd'.all => Has("lastmerge") /\ cmd.all
    BY <1>1 DEF Has
  <1> QED
    BY <1>6, <1>8, <1>9 DEF Marked

LEMMA SameLog ==
  ASSUME log' = log, cmd' = cmd, r'.scanned = r.scanned, r'.begin = r.begin, r'.end = r.end
  PROVE  /\ Marked => Marked'
         /\ \A p : PairIn(p, r') <=> PairIn(p, r)
         /\ \A p : PairIn(p, r)' <=> PairIn(p, r)
  <1>1. \A b, k : (LastBegun(b, k)' <=> LastBegun(b, k)) /\ (LastHead(b, k)' <=> LastHead(b, k))
    BY DEF LastBegun, LastHead, Begins, Size
  <1>2. Marked => Marked'
    BY <1>1 DEF Marked, Has, Size
  <1>3. \A p : PairIn(p, r') <=> PairIn(p, r)
    BY DEF PairIn
  <1>4. \A p : PairIn(p, r)' <=> PairIn(p, r)
    BY DEF PairIn, Who, Size
  <1> QED
    BY <1>2, <1>3, <1>4

LEMMA ReadLast ==
  ASSUME LastInv, Read
  PROVE  Marked' /\ PairsIn(r)'
  <1> DEFINE s == FoldLeft(ReadLine, r, log)
             d == [s EXCEPT !.pos = Len(log)]
  <1>1. pc = "read" /\ r' = d /\ log' = log /\ cmd' = cmd
    BY DEF Read, writers
  <1>2. Ready(r) /\ LogInv /\ Marked
    BY <1>1 DEF LastInv, EmergeInv, Fresh
  <1>3. Frame(r, s) /\ PairsIn(s)
    BY <1>2, PairsReadAll
  <1> HIDE DEF s
  <1>4. /\ d.pairs = s.pairs /\ d.begin = r.begin /\ d.end = r.end /\ d.scanned = r.scanned
        /\ s.begin = r.begin /\ s.end = r.end
    BY <1>3 DEF Frame, Known
  <1> HIDE DEF d
  <1>5. Marked'
    BY <1>1, <1>2, <1>4, SameLog
  <1>6. \A p : PairIn(p, s) => PairIn(p, r)
    BY <1>4 DEF PairIn
  <1>7. \A n \in DOMAIN r'.pairs : PairIn(r'.pairs[n], r)
    BY <1>1, <1>3, <1>4, <1>6 DEF PairsIn
  <1>8. PairsIn(r)'
    BY <1>1, <1>4, <1>7 DEF PairsIn, PairIn, Who, Size
  <1> QED
    BY <1>5, <1>8

LEMMA ReportLast ==
  ASSUME LastInv, Report
  PROVE  Marked' /\ PairsIn(r)'
  <1>1. pc = "over" /\ log' = log /\ cmd' = cmd
    BY DEF Report, writers
  <1>2. r'.pairs = r.pairs /\ r'.scanned = r.scanned /\ r'.begin = r.begin /\ r'.end = r.end
    BY DEF Report
  <1>3. Marked /\ PairsIn(r)
    BY <1>1 DEF LastInv
  <1>4. Marked'
    BY <1>1, <1>2, <1>3, SameLog
  <1>5. PairsIn(r)'
    BY <1>1, <1>2, <1>3 DEF PairsIn, PairIn, Who, Size
  <1> QED
    BY <1>4, <1>5

LEMMA WriteLast ==
  ASSUME LastInv, NEW e \in Emerges, Write(e)
  PROVE  PairsIn(r)' /\ (pc \in {"read", "over", "done"} => Marked')
  <1>1. /\ pc \in {"idle", "read"} /\ cmd' = cmd /\ r' = r
    BY DEF Write
  <1>2. Ready(r) /\ LogInv /\ (pc = "read" => Marked)
    BY <1>1 DEF LastInv, EmergeInv, Fresh
  <1>3. Size' = Size + 1 /\ Size \in Nat /\ \A i \in 1 .. Size : log'[i] = log[i]
    BY <1>2, NewLine
  <1>4. PairsIn(r)'
    BY <1>1, <1>2 DEF PairsIn, Ready
  <1>5. ASSUME pc = "read", Has("lastmerge"), cmd.all PROVE Marked'
    <2>1. r.scanned \in Nat /\ r.scanned <= Size
      BY <1>2, <1>5 DEF Marked
    <2>2. \A i \in 1 .. Size + 1 : i <= r.scanned => i \in 1 .. Size
      BY <1>3, <2>1
    <2>3. \A i \in 1 .. Size : i \in 1 .. Size + 1
      BY <1>3
    <2>4. \A b : LastBegun(b, r.scanned)' => LastBegun(b, r.scanned)
      BY <1>1, <1>3, <2>2, <2>3 DEF LastBegun, Begins
    <2>5. ASSUME NEW b \in 1 .. Size, b <= r.scanned, NEW h, LastHead(h, b)' PROVE LastHead(h, b)
      <3>1. \A i \in 1 .. Size + 1 : i <= b => i \in 1 .. Size
        BY <1>3, <2>5
      <3> QED
        BY <1>3, <2>3, <2>5, <3>1 DEF LastHead
    <2>6. \A h, b : LastHead(h, b) => h \in 1 .. Size
      BY DEF LastHead
    <2>7. \A b : LastBegun(b, r.scanned) => b \in 1 .. Size /\ b <= r.scanned
      BY DEF LastBegun
    <2>8. \A b, h : LastBegun(b, r.scanned)' /\ LastHead(h, b)' => r.begin = log'[h].t
      <3>1. ASSUME NEW b, NEW h, LastBegun(b, r.scanned)', LastHead(h, b)'
            PROVE  r.begin = log'[h].t
        <4>1. LastBegun(b, r.scanned) /\ LastHead(h, b)
          BY <2>4, <2>5, <2>7, <3>1
        <4> QED
          BY <1>2, <1>3, <1>5, <2>6, <4>1 DEF Marked
      <3> QED
        BY <3>1
    <2>9. r.scanned > 0 => r.end = log'[r.scanned].t
      BY <1>2, <1>3, <1>5, <2>1 DEF Marked
    <2>10. r.scanned <= Size + 1
      BY <1>3, <2>1
    <2> QED
      BY <1>1, <1>3, <2>1, <2>8, <2>9, <2>10 DEF Marked
  <1> QED
    BY <1>1, <1>4, <1>5 DEF Marked, Has

LEMMA NextLast ==
  ASSUME LastInv, [Next]_vars
  PROVE  LastInv'
  <1>1. EmergeInv' /\ HeadInv'
    BY NextEmerge, NextHead DEF LastInv, EmergeInv
  <1>2. CASE Start
    BY <1>1, <1>2, StartLast DEF LastInv
  <1>3. CASE Scan
    BY <1>1, <1>3, ScanLast, ScanEmerge DEF LastInv
  <1>4. CASE Read
    BY <1>1, <1>4, ReadLast, ReadEmerge DEF LastInv
  <1>5. CASE Report
    BY <1>1, <1>5, ReportLast, ReportEmerge DEF LastInv
  <1>6. ASSUME NEW e \in Emerges, Write(e) PROVE LastInv'
    <2>1. pc \in {"idle", "read"} /\ pc' = pc
      BY <1>6 DEF Write
    <2> QED
      BY <1>1, <1>6, <2>1, WriteLast DEF LastInv
  <1>7. CASE (\E e \in Emerges : GiveUp(e)) \/ Pass \/ vars' = vars
    <2>1. cmd' = cmd /\ pc' = pc /\ r' = r /\ log' = log
      BY <1>7 DEF GiveUp, Pass, vars
    <2>2. pc \in {"read", "over", "done"} => Marked'
      BY <2>1, SameLog DEF LastInv
    <2>3. PairsIn(r)'
      BY <2>1 DEF LastInv, PairsIn, PairIn, Who, Size
    <2>4. (pc = "scan" /\ Has("lastmerge") => Undated(r))'
      BY <2>1 DEF LastInv, Has, Undated, Forever
    <2> QED
      BY <1>1, <2>1, <2>2, <2>3, <2>4 DEF LastInv
  <1> QED
    BY <1>2, <1>3, <1>4, <1>5, <1>6, <1>7 DEF Next, Qlop

LEMMA LastBy ==
  ASSUME LogInv, NEW k \in Nat, k <= Size, NEW i \in 1 .. Size, i <= k, Begins(log[i])
  PROVE  \E b : LastBegun(b, k)
  <1> DEFINE t == {x \in 1 .. Size : x <= k /\ Begins(log[x])}
  <1>1. Size \in Nat /\ t # {}
    BY LenProperties DEF LogInv, LinesInv, Size
  <1>2. Max(t) \in t /\ \A x \in t : x <= Max(t)
    BY <1>1, GreatestIn
  <1> QED
    BY <1>2 DEF LastBegun

LEMMA HeadBy ==
  ASSUME LogInv, NEW k \in Nat, k <= Size, NEW i \in 1 .. Size, i <= k, log[i].k = "emerge"
  PROVE  \E h : LastHead(h, k)
  <1> DEFINE t == {x \in 1 .. Size : x <= k /\ log[x].k = "emerge"}
  <1>1. Size \in Nat /\ t # {}
    BY LenProperties DEF LogInv, LinesInv, Size
  <1>2. Max(t) \in t /\ \A x \in t : x <= Max(t)
    BY <1>1, GreatestIn
  <1> QED
    BY <1>2 DEF LastHead

LEMMA LastShown ==
  ASSUME LastInv
  PROVE  LastOnly
  <1> SUFFICES ASSUME Has("lastmerge"), cmd.all, Ended, Ordered, OneByOne, Apart,
                      NEW n \in DOMAIN r.pairs, NEW i \in 1 .. r.scanned, Begins(log[i])
               PROVE  \E j \in 1 .. r.scanned : log[j].by = r.pairs[n].to[1] /\ j >= i
    BY DEF LastOnly
  <1> DEFINE z == r.scanned
  <1>1. LogInv /\ LinesInv /\ HeadInv /\ Marked /\ PairsIn(r)
    BY DEF LastInv, Ended, EmergeInv, LogInv
  <1>2. /\ z \in Nat /\ z <= Size /\ (z > 0 => r.end = log[z].t)
        /\ \A b, h : LastBegun(b, z) /\ LastHead(h, b) => r.begin = log[h].t
    BY <1>1 DEF Marked
  <1>3. Size \in Nat /\ DOMAIN log = 1 .. Size
    BY <1>1, LenProperties DEF LinesInv, Size
  <1>4. i \in 1 .. Size /\ i <= z /\ z \in 1 .. Size /\ z > 0 /\ i \in Nat
    BY <1>2, <1>3
  <1>5. PICK b : LastBegun(b, z)
    BY <1>1, <1>2, <1>4, LastBy
  <1>6. b \in 1 .. Size /\ b <= z /\ i <= b /\ b \in Nat
    BY <1>3, <1>4, <1>5 DEF LastBegun
  <1> DEFINE e == log[b].by
  <1>7. PICK g \in 1 .. Size : HeadOf(e, g)
    <2>1. e \in Emerges /\ at[e] \in Nat /\ CopyUpTo(log[b], at[e])
      BY <1>1, <1>6, LineFacts
    <2>2. at[e] > 0
      BY <2>1 DEF CopyUpTo
    <2> QED
      BY <1>1, <2>1, <2>2 DEF HeadInv, Headed
  <1>8. g <= b /\ log[g].k = "emerge" /\ log[g].by = e
    BY <1>6, <1>7 DEF HeadOf
  <1>9. PICK h : LastHead(h, b)
    BY <1>1, <1>2, <1>3, <1>6, <1>8, HeadBy
  <1>10. h \in 1 .. Size /\ h <= b /\ g <= h
    BY <1>8, <1>9 DEF LastHead
  <1>11. log[h].by = e
    <2>1. h = g \/ h = b \/ (g < h /\ h < b)
      BY <1>3, <1>6, <1>10
    <2>2. g < h /\ h < b => log[h].by = log[g].by
      BY <1>3, <1>6, <1>8, <1>10 DEF OneByOne
    <2> QED
      BY <1>8, <2>1, <2>2
  <1>12. PICK j \in 1 .. Size : /\ r.pairs[n].to = Who(log[j])
                                /\ r.begin <= log[j].t /\ log[j].t <= r.end
    BY <1>1 DEF PairsIn, PairIn
  <1>13. r.pairs[n].to[1] = log[j].by
    BY <1>12 DEF Who
  <1>14. log[h].t <= log[j].t /\ log[j].t <= log[z].t
    BY <1>2, <1>4, <1>5, <1>9, <1>12
  <1>15. log[h].t \in Nat /\ log[j].t \in Nat /\ log[z].t \in Nat
    BY <1>1, <1>4, <1>10, LineFacts
  <1> SUFFICES \E k \in 1 .. z : log[k].by = log[j].by /\ k >= i
    BY <1>13
  <1>16. CASE log[j].by = e
    <2>1. b \in 1 .. z /\ b >= i
      BY <1>2, <1>4, <1>6
    <2> QED
      BY <1>16, <2>1
  <1>17. CASE log[j].by # e
    <2>1. log[h].t # log[j].t
      BY <1>3, <1>10, <1>11, <1>17 DEF Apart
    <2>2. ~ (j <= h)
      <3>1. j <= h => log[j].t <= log[h].t
        BY <1>1, <1>10, InOrder
      <3> QED
        BY <1>14, <1>15, <2>1, <3>1
    <2>3. ~ (h < j /\ j < b)
      <3>1. h < j /\ j < b => log[j].by = log[h].by
        BY <1>3, <1>6, <1>10, <1>11 DEF OneByOne
      <3> QED
        BY <1>11, <1>17, <3>1
    <2>4. b < j
      <3>1. j # b
        BY <1>17
      <3> QED
        BY <1>3, <1>6, <1>10, <2>2, <2>3, <3>1
    <2>5. CASE j <= z
      <3>1. j \in 1 .. z /\ j >= i
        BY <1>2, <1>4, <1>6, <2>4, <2>5
      <3> QED
        BY <3>1
    <2>6. CASE ~ (j <= z)
      <3>1. z <= j
        BY <1>2, <2>6
      <3>2. log[z].t <= log[j].t
        BY <1>1, <1>4, <3>1, InOrder
      <3>3. log[z].t = log[j].t
        BY <1>14, <1>15, <3>2
      <3>4. log[z].by = log[j].by
        BY <1>3, <1>4, <3>3 DEF Apart
      <3>5. z \in 1 .. z /\ z >= i
        BY <1>2, <1>4
      <3> QED
        BY <3>4, <3>5
    <2> QED
      BY <2>5, <2>6
  <1> QED
    BY <1>16, <1>17

\* With -l, where emerges did not overlap, all that is reported was done by the last
\* one that did anything when the log was opened, even if the log has grown since.
THEOREM LastIsShown == Spec => []LastOnly
<1>1. Init => LastInv
  BY InitLast
<1>2. LastInv /\ [Next]_vars => LastInv'
  BY NextLast
<1>3. LastInv => LastOnly
  BY LastShown
<1> QED
  BY <1>1, <1>2, <1>3, PTL DEF Spec

-----------------------------------------------------------------------------
(* What was asked for is what is looked for.                               *)

\* With -l, an emerge that started after line i, up to line k, did so at t.
After(i, k, t) ==
  Has("lastmerge") /\ \E n \in 1 .. Size : i < n /\ n <= k /\ log[n].k = "emerge" /\ log[n].t = t

\* The name of what line i starts is there, or was dropped for a later emerge.
NamedOr(i, k, s) ==
  /\ log[i].pkg.pn \in DOMAIN s.names \/ After(i, k, s.lastMerge)
  /\ s.emergeAt = s.lastMerge \/ After(i, k, s.emergeAt)
Gathered(k, s) ==
  /\ Scanned(s) /\ s.begin = r.begin /\ s.end = r.end
  /\ ~ Has("lastmerge") => s.emergeAt = s.lastMerge
  /\ \A i \in 1 .. Size :
       i <= k /\ Begins(log[i]) /\ r.begin <= log[i].t /\ log[i].t <= r.end => NamedOr(i, k, s)

\* AllReported asks for no more than what is looked for.
Found ==
  cmd.all => \A i \in 1 .. Size :
    Begins(log[i]) /\ r.begin <= log[i].t /\ log[i].t <= r.end /\ Sought(i) =>
      log[i].pkg.pn \in DOMAIN r.names
PosInv == r.pos \in Nat /\ r.pos <= Size /\ r.begin \in Int /\ r.end \in Int
FoundInv ==
  /\ pc \in {"over", "done"} => PosInv
  /\ pc = "scan" => r.emergeAt = r.lastMerge
  /\ pc \in {"read", "over", "done"} => r.scanned \in Nat /\ r.scanned <= Size /\ Found

LEMMA GatherEffect ==
  ASSUME cmd.all, NEW s, Scanned(s), NEW l, l.t \in Int,
         ~ Has("lastmerge") => s.emergeAt = s.lastMerge
  PROVE  LET d == ScanLine(s, l)
         IN /\ d.begin = s.begin /\ d.end = s.end
            /\ \/ /\ l.t < s.begin \/ l.t > s.end
                  /\ d.emergeAt = s.emergeAt /\ d.lastMerge = s.lastMerge /\ d.names = s.names
               \/ /\ ~ Begins(l) /\ d.lastMerge = s.lastMerge /\ d.names = s.names
                  /\ d.emergeAt = IF l.k = "emerge" /\ Has("lastmerge") THEN l.t ELSE s.emergeAt
               \/ /\ Begins(l) /\ d.emergeAt = s.emergeAt /\ d.lastMerge = s.emergeAt
                  /\ l.pkg.pn \in DOMAIN d.names
                  /\ s.lastMerge = s.emergeAt => DOMAIN s.names \subseteq DOMAIN d.names
  <1> DEFINE at0 == IF l.k = "emerge" /\ Has("lastmerge") THEN l.t ELSE s.emergeAt
             next == [s EXCEPT !.tstart = l.t, !.emergeAt = at0]
             kept == IF next.lastMerge # next.emergeAt THEN Emptied(next) ELSE next
             named == [kept EXCEPT !.names = HashAdd(kept.names, l.pkg.pn)]
             early == [s EXCEPT !.tstart = l.t]
  <1>1. ScanLine(s, l) = IF l.t < s.begin \/ l.t > s.end THEN early
                         ELSE IF Begins(l) THEN named ELSE next
    BY Zenon DEF ScanLine
  <1>2. Begins(l) => at0 = s.emergeAt
    BY DEF Begins
  <1>3. /\ early.begin = s.begin /\ early.end = s.end /\ early.names = s.names
        /\ early.emergeAt = s.emergeAt /\ early.lastMerge = s.lastMerge
    BY DEF Scanned, Ready, Timed, Known
  <1> HIDE DEF early
  <1>4. CASE l.t < s.begin \/ l.t > s.end
    BY <1>1, <1>3, <1>4
  <1>5. CASE ~ (l.t < s.begin \/ l.t > s.end) /\ ~ Begins(l)
    <2>1. /\ next.begin = s.begin /\ next.end = s.end /\ next.names = s.names
          /\ next.emergeAt = at0 /\ next.lastMerge = s.lastMerge
      BY DEF Scanned, Ready, Timed, Known
    <2> HIDE DEF next
    <2> QED
      BY <1>1, <1>5, <2>1
  <1>6. CASE ~ (l.t < s.begin \/ l.t > s.end) /\ Begins(l)
    <2> HIDE DEF at0
    <2>1. /\ next.begin = s.begin /\ next.end = s.end /\ next.names = s.names
          /\ next.emergeAt = s.emergeAt /\ next.lastMerge = s.lastMerge
          /\ {"begin", "end", "names", "emergeAt", "lastMerge", "bad"} \subseteq DOMAIN next
      BY <1>2, <1>6 DEF Scanned, Ready, Timed, Known
    <2> HIDE DEF next
    <2>2. /\ Emptied(next).begin = s.begin /\ Emptied(next).end = s.end
          /\ Emptied(next).emergeAt = s.emergeAt /\ Emptied(next).lastMerge = s.emergeAt
          /\ {"begin", "end", "names", "emergeAt", "lastMerge", "bad"} \subseteq DOMAIN Emptied(next)
      BY <2>1 DEF Emptied
    <2>3. /\ kept.begin = s.begin /\ kept.end = s.end
          /\ kept.emergeAt = s.emergeAt /\ kept.lastMerge = s.emergeAt
          /\ {"begin", "end", "names", "emergeAt", "lastMerge", "bad"} \subseteq DOMAIN kept
          /\ s.lastMerge = s.emergeAt => kept.names = s.names
      BY <2>1, <2>2
    <2> HIDE DEF kept
    <2>4. DOMAIN HashAdd(kept.names, l.pkg.pn) = DOMAIN kept.names \cup {l.pkg.pn}
      BY DEF HashAdd
    <2>5. /\ named.begin = s.begin /\ named.end = s.end
          /\ named.emergeAt = s.emergeAt /\ named.lastMerge = s.emergeAt
          /\ named.names = HashAdd(kept.names, l.pkg.pn)
      BY <2>3
    <2> HIDE DEF named
    <2> QED
      BY <1>1, <1>6, <2>3, <2>4, <2>5
  <1> QED
    BY <1>4, <1>5, <1>6

LEMMA GatherStep ==
  ASSUME LogInv, cmd.all, NEW k \in Nat, k < Size, NEW s, Gathered(k, s),
         r.begin \in Int, r.end \in Int
  PROVE  Gathered(k + 1, ScanLine(s, log[k + 1]))
  <1> DEFINE l == log[k + 1]
             d == ScanLine(s, l)
             j == k + 1
  <1>1. /\ Size \in Nat /\ j \in 1 .. Size /\ l.t \in Int
        /\ \A i \in 1 .. Size : (i <= k => i <= j /\ i < j) /\ (i <= j <=> i <= k \/ i = j)
    <2>1. Size \in Nat /\ j \in 1 .. Size
      BY LenProperties DEF LogInv, LinesInv, Size
    <2> QED
      BY <2>1, LineFacts DEF LogInv
  <1>2. Scanned(d)
    BY <1>1, ScanStep DEF Gathered
  <1>3. /\ Scanned(s) /\ s.begin = r.begin /\ s.end = r.end
        /\ ~ Has("lastmerge") => s.emergeAt = s.lastMerge
    BY DEF Gathered
  <1>4. /\ d.begin = s.begin /\ d.end = s.end
        /\ \/ /\ l.t < s.begin \/ l.t > s.end
              /\ d.emergeAt = s.emergeAt /\ d.lastMerge = s.lastMerge /\ d.names = s.names
           \/ /\ ~ Begins(l) /\ d.lastMerge = s.lastMerge /\ d.names = s.names
              /\ d.emergeAt = IF l.k = "emerge" /\ Has("lastmerge") THEN l.t ELSE s.emergeAt
           \/ /\ Begins(l) /\ d.emergeAt = s.emergeAt /\ d.lastMerge = s.emergeAt
              /\ l.pkg.pn \in DOMAIN d.names
              /\ s.lastMerge = s.emergeAt => DOMAIN s.names \subseteq DOMAIN d.names
    BY <1>1, <1>3, GatherEffect
  <1> HIDE DEF d
  <1>5. ~ Has("lastmerge") => d.emergeAt = d.lastMerge
    BY <1>3, <1>4
  <1>6. ASSUME NEW i \in 1 .. Size, i <= j, Begins(log[i]), r.begin <= log[i].t, log[i].t <= r.end
        PROVE  NamedOr(i, j, d)
    <2>1. CASE i = j
      <3>1. ~ (l.t < s.begin \/ l.t > s.end)
        BY <1>1, <1>3, <1>6, <2>1
      <3> HIDE DEF j
      <3> QED
        BY <1>4, <1>6, <2>1, <3>1 DEF NamedOr, j
    <2>2. CASE i <= k
      <3>1. NamedOr(i, k, s)
        BY <1>6, <2>2 DEF Gathered
      <3>2. ASSUME NEW t, After(i, k, t) PROVE After(i, j, t)
        BY <1>1, <3>2 DEF After
      <3>3. l.k = "emerge" /\ Has("lastmerge") => After(i, j, l.t)
        BY <1>1, <2>2 DEF After
      <3> HIDE DEF j, l
      <3>4. /\ log[i].pkg.pn \in DOMAIN s.names \/ After(i, j, s.lastMerge)
            /\ s.emergeAt = s.lastMerge \/ After(i, j, s.emergeAt)
        BY <3>1, <3>2 DEF NamedOr
      <3>5. d.emergeAt = d.lastMerge \/ After(i, j, d.emergeAt)
        BY <1>4, <3>3, <3>4
      <3>6. log[i].pkg.pn \in DOMAIN d.names \/ After(i, j, d.lastMerge)
        BY <1>4, <3>4
      <3> QED
        BY <3>5, <3>6 DEF NamedOr
    <2> QED
      BY <1>1, <1>6, <2>1, <2>2
  <1> QED
    BY <1>2, <1>3, <1>4, <1>5, <1>6 DEF Gathered, d

LEMMA GatherAll ==
  ASSUME LogInv, cmd.all, Ready(r), Timed(r), r.emergeAt = r.lastMerge
  PROVE  Gathered(Size, FoldLeft(ScanLine, r, log))
  <1>1. log \in Seq(LineSet) /\ Size \in Nat /\ r.begin \in Int /\ r.end \in Int
    BY LenProperties DEF LogInv, LinesInv, Size, Ready
  <1>2. PICK a : /\ a[0] = r /\ FoldLeft(ScanLine, r, log) = a[Size]
                 /\ \A i \in 1 .. Size : a[i] = ScanLine(a[i - 1], log[i])
    BY <1>1, ScanDef
  <1> DEFINE S == {k \in Nat : k <= Size => Gathered(k, a[k])}
  <1>3. 0 \in S
    <2>1. \A i \in 1 .. Size : ~ (i <= 0)
      BY <1>1
    <2> QED
      BY <1>2, <2>1 DEF Gathered, Scanned
  <1>4. ASSUME NEW k \in S, k < Size PROVE k + 1 \in S
    <2>1. k \in Nat /\ k + 1 \in 1 .. Size /\ (k + 1) - 1 = k /\ k <= Size
      BY <1>1, <1>4
    <2>2. a[k + 1] = ScanLine(a[k], log[k + 1])
      BY <1>2, <2>1
    <2>3. Gathered(k + 1, a[k + 1])
      BY <1>1, <1>4, <2>1, <2>2, GatherStep
    <2> QED
      BY <2>1, <2>3
  <1>5. Size \in S
    <2> HIDE DEF S
    <2>1. S \subseteq Nat
      BY DEF S
    <2>2. \A k \in 0 .. Size : k \in S
      BY <1>1, <1>3, <1>4, <2>1, UpTo
    <2> QED
      BY <1>1, <2>2
  <1> QED
    BY <1>1, <1>2, <1>5

LEMMA StartFound ==
  ASSUME Start, LogInv
  PROVE  FoundInv'
  <1>1. PICK c \in Commands, probe \in Probes :
          LET flags == Settled(c)
              from == IF c.from = Unset THEN 0 ELSE c.from
              probed == "running" \in flags /\ probe # NoProc
          IN /\ cmd' = [flags |-> flags, verbose |-> c.verbose,
                        all |-> (IF probed THEN ProbeProc(c.atoms, probe) ELSE c.atoms) = {}]
             /\ r' = Locals(from, IF c.to = Unset THEN Forever ELSE c.to)
    BY DEF Start
  <1> DEFINE from == IF c.from = Unset THEN 0 ELSE c.from
             to == IF c.to = Unset THEN Forever ELSE c.to
  <1>0. from \in Int /\ to \in Int
    BY EmergeLogAssumption DEF Forever
  <1>2. /\ r'.emergeAt = 0 /\ r'.lastMerge = 0 /\ r'.scanned = 0 /\ r'.pos = 0
        /\ r'.begin = from /\ r'.end = to
    BY <1>1 DEF Locals
  <1> HIDE DEF from, to
  <1>3. \A i \in 1 .. Size' : ~ (i <= 0)
    OBVIOUS
  <1>4. Found'
    BY <1>2, <1>3 DEF Found, Sought
  <1>5. log' = log /\ Size \in Nat
    BY LenProperties DEF Start, writers, LogInv, LinesInv, Size
  <1> QED
    BY <1>0, <1>2, <1>4, <1>5 DEF FoundInv, Size, PosInv

LEMMA ScanFound ==
  ASSUME LastInv, FoundInv, Scan
  PROVE  FoundInv'
  <1> DEFINE s0 == FoldLeft(ScanLine, r, log)
             s == [s0 EXCEPT !.scanned = Len(log)]
             d == [s EXCEPT !.begin = s.lastMerge, !.end = s.tstart]
  <1>1. /\ pc = "scan" /\ log' = log /\ cmd' = cmd
        /\ r' = IF Has("lastmerge") THEN d ELSE s
        /\ pc' \in {"read", "killed"}
    BY DEF Scan, Narrowed, writers
  <1>2. /\ Ready(r) /\ Timed(r) /\ LogInv /\ HeadInv /\ (Has("lastmerge") => Undated(r))
        /\ r.emergeAt = r.lastMerge
    BY <1>1 DEF LastInv, EmergeInv, Fresh, FoundInv
  <1>3. cmd.all => Gathered(Size, s0)
    BY <1>2, GatherAll
  <1>4. Scanned(s0)
    BY <1>2, ScanAll
  <1> HIDE DEF s0
  <1>5. /\ d.scanned = Size /\ d.begin = s0.lastMerge /\ d.end = s0.tstart /\ d.names = s0.names
        /\ s.scanned = Size /\ s.begin = s0.begin /\ s.end = s0.end /\ s.names = s0.names
    BY <1>4 DEF Scanned, Ready, Timed, Known, Size
  <1> HIDE DEF s, d
  <1>6. Size' = Size /\ Size \in Nat
    BY <1>1, <1>2, LenProperties DEF Size, LogInv, LinesInv
  <1>7. r'.scanned = Size
    BY <1>1, <1>5
  <1>8. ASSUME cmd.all, NEW i \in 1 .. Size, Begins(log[i]),
               r'.begin <= log[i].t, log[i].t <= r'.end, Sought(i)'
        PROVE  log[i].pkg.pn \in DOMAIN r'.names
    <2>1. r'.names = s0.names
      BY <1>1, <1>5
    <2>2. r.begin <= log[i].t /\ log[i].t <= r.end
      <3>1. CASE Has("lastmerge")
        <4>1. r.begin = 0 /\ r.end = Forever
          BY <1>2, <3>1 DEF Undated
        <4>2. log[i].t \in Nat /\ log[i].t <= Forever
          BY <1>2, LineFacts DEF HeadInv, Timely, LogInv
        <4> QED
          BY <4>1, <4>2
      <3>2. CASE ~ Has("lastmerge")
        <4>1. r' = s /\ s.begin = r.begin /\ s.end = r.end
          BY <1>1, <1>3, <1>5, <1>8, <3>2 DEF Gathered
        <4> QED
          BY <1>8, <4>1
      <3> QED
        BY <3>1, <3>2
    <2>3. i <= Size
      BY <1>6
    <2>4. NamedOr(i, Size, s0)
      BY <1>3, <1>8, <2>2, <2>3 DEF Gathered
    <2>5. ~ After(i, Size, s0.lastMerge)
      <3>1. SUFFICES ASSUME After(i, Size, s0.lastMerge) PROVE FALSE
        OBVIOUS
      <3>2. PICK n \in 1 .. Size : i < n /\ log[n].k = "emerge" /\ log[n].t = s0.lastMerge
        BY <3>1 DEF After
      <3>3. Has("lastmerge") /\ r'.begin = s0.lastMerge
        BY <1>1, <1>5, <3>1 DEF After
      <3>4. n \in i + 1 .. r'.scanned
        BY <1>6, <1>7, <3>2
      <3>5. \A m \in i + 1 .. r'.scanned : log[m].k = "emerge" => log[m].t # r'.begin
        BY <1>1, <1>8, <3>3 DEF Sought, Has
      <3> QED
        BY <3>2, <3>3, <3>4, <3>5
    <2> QED
      BY <2>1, <2>4, <2>5 DEF NamedOr
  <1>9. Found'
    BY <1>1, <1>6, <1>8 DEF Found, Begins
  <1> QED
    BY <1>1, <1>6, <1>7, <1>9 DEF FoundInv

\* What leaves the names and the lines that were gathered alone.
LEMMA SameFound ==
  ASSUME FoundInv, LogInv, cmd' = cmd, atoms' = atoms, log' = log,
         r'.names = r.names, r'.begin = r.begin, r'.end = r.end, r'.scanned = r.scanned,
         pc \in {"read", "over", "done"}
  PROVE  r'.scanned \in Nat /\ r'.scanned <= Size' /\ Found'
  <1>1. \A i : cmd.all => (Sought(i)' <=> Sought(i))
    BY DEF Sought, Has
  <1> QED
    BY <1>1 DEF FoundInv, Found, Begins, Size

LEMMA WriteFound ==
  ASSUME LastInv, FoundInv, NEW e \in Emerges, Write(e)
  PROVE  FoundInv'
  <1>1. /\ pc' = pc /\ r' = r /\ cmd' = cmd /\ atoms' = atoms /\ pc \in {"idle", "read"}
    BY DEF Write
  <1>2. CASE pc = "idle"
    BY <1>1, <1>2 DEF FoundInv
  <1>3. CASE pc = "read"
    <2>1. /\ Size \in Nat /\ Size' = Size + 1 /\ \A i \in 1 .. Size : log'[i] = log[i]
      <3>1. log \in Seq(LineSet)
        BY DEF LastInv, EmergeInv, LogInv, LinesInv
      <3>2. PICK x : log' = Append(log, x)
        BY DEF Write
      <3> QED
        BY <3>1, <3>2 DEF Size
    <2>2. r.scanned \in Nat /\ r.scanned <= Size /\ Found
      BY <1>3 DEF FoundInv
    <2>3. ASSUME cmd.all, NEW i \in 1 .. Size', Begins(log'[i]),
                 r.begin <= log'[i].t, log'[i].t <= r.end, Sought(i)'
          PROVE  log'[i].pkg.pn \in DOMAIN r.names
      <3>1. i <= r.scanned
        BY <1>1, <2>3 DEF Sought
      <3>2. i \in 1 .. Size /\ log'[i] = log[i]
        BY <2>1, <2>2, <3>1
      <3>3. \A n \in i + 1 .. r.scanned : log'[n] = log[n]
        BY <2>1, <2>2, <3>2
      <3>4. Sought(i)
        BY <1>1, <2>3, <3>1, <3>3 DEF Sought, Has
      <3> QED
        BY <2>2, <2>3, <3>2, <3>4 DEF Found
    <2>4. Found'
      BY <1>1, <2>3 DEF Found, Begins
    <2> QED
      BY <1>1, <1>3, <2>1, <2>2, <2>4 DEF FoundInv
  <1> QED
    BY <1>1, <1>2, <1>3

LEMMA ReadFound ==
  ASSUME LastInv, FoundInv, Read
  PROVE  FoundInv'
  <1> DEFINE s == FoldLeft(ReadLine, r, log)
             d == [s EXCEPT !.pos = Len(log)]
  <1>1. /\ pc = "read" /\ r' = d /\ log' = log /\ cmd' = cmd /\ atoms' = atoms
        /\ pc' \in {"over", "killed"}
    BY DEF Read, writers
  <1>2. LogInv /\ Ready(r)
    BY <1>1 DEF LastInv, EmergeInv, Fresh
  <1>3. Frame(r, s)
    BY <1>2, PairsReadAll
  <1> HIDE DEF s
  <1>4. /\ d.names = r.names /\ d.begin = r.begin /\ d.end = r.end /\ d.scanned = r.scanned
        /\ d.pos = Size
    BY <1>3 DEF Frame, Known, Size
  <1> HIDE DEF d
  <1>5. r'.scanned \in Nat /\ r'.scanned <= Size' /\ Found'
    BY <1>1, <1>2, <1>4, SameFound
  <1>6. Size \in Nat /\ r.begin \in Int /\ r.end \in Int
    BY <1>2, LenProperties DEF LogInv, LinesInv, Size, Ready
  <1>7. PosInv'
    BY <1>1, <1>4, <1>6 DEF PosInv, Size
  <1> QED
    BY <1>1, <1>5, <1>7 DEF FoundInv

LEMMA NextFound ==
  ASSUME LastInv, FoundInv, [Next]_vars
  PROVE  FoundInv'
  <1>1. LogInv
    BY DEF LastInv, EmergeInv
  <1>2. CASE Report
    <2>1. /\ pc = "over" /\ pc' \in {"done", "killed"} /\ log' = log /\ cmd' = cmd /\ atoms' = atoms
      BY <1>2 DEF Report, writers
    <2>2. /\ r'.scanned = r.scanned /\ r'.begin = r.begin /\ r'.end = r.end /\ r'.names = r.names
          /\ r'.pos = r.pos
      BY <1>2 DEF Report
    <2>3. r'.scanned \in Nat /\ r'.scanned <= Size' /\ Found'
      BY <1>1, <2>1, <2>2, SameFound
    <2> QED
      BY <2>1, <2>2, <2>3 DEF FoundInv, PosInv, Size
  <1>3. CASE (\E e \in Emerges : GiveUp(e)) \/ Pass \/ vars' = vars
    <2>1. cmd' = cmd /\ pc' = pc /\ r' = r /\ atoms' = atoms /\ log' = log
      BY <1>3 DEF GiveUp, Pass, vars
    <2>2. pc \in {"read", "over", "done"} => r'.scanned \in Nat /\ r'.scanned <= Size' /\ Found'
      BY <1>1, <2>1, SameFound
    <2> QED
      BY <2>1, <2>2 DEF FoundInv, PosInv, Size
  <1>4. CASE Start
    BY <1>1, <1>4, StartFound
  <1>5. CASE Scan
    BY <1>5, ScanFound
  <1>6. CASE Read
    BY <1>6, ReadFound
  <1>7. CASE \E e \in Emerges : Write(e)
    BY <1>7, WriteFound
  <1> QED
    BY <1>2, <1>3, <1>4, <1>5, <1>6, <1>7 DEF Next, Qlop

LEMMA AllFound ==
  ASSUME LastInv, FoundInv
  PROVE  AllReported
  <1> SUFFICES ASSUME Ended, Ordered, ~ Clash, ~ Has("running"), ~ Has("emerge"), ~ FindsNothing,
                      NEW i \in Lines, NEW j \in Lines,
                      Begins(log[i]), Ends(log[j]), Who(log[i]) = Who(log[j]),
                      IF log[j].k = "completed" THEN Has("merge") ELSE IsUnmerge(log[i]),
                      log[i].t >= r.begin, log[j].t <= r.end, Sought(i)
               PROVE  Cardinality({n \in DOMAIN r.pairs : r.pairs[n].to = Who(log[j])}) = 1
    BY DEF AllReported
  <1>1. LogInv /\ AllOnce /\ Found /\ PosInv
    BY DEF LastInv, EmergeInv, FoundInv, Ended
  <1>2. i \in 1 .. Size /\ j \in 1 .. Size /\ Size \in Nat
    <2>1. Size \in Nat
      BY <1>1, LenProperties DEF LogInv, LinesInv, Size
    <2> QED
      BY <1>1, <2>1 DEF Lines, PosInv
  <1>3. log[i].t <= log[j].t
    <2>1. PICK m \in 1 .. Size : m < j /\ Opens(m, j)
      BY <1>1, <1>2 DEF LogInv, Began
    <2>2. m = i
      BY <1>1, <1>2, <2>1 DEF LogInv, StartOnce, Opens, Same
    <2> QED
      BY <1>1, <1>2, <2>1, <2>2, InOrder DEF LogInv
  <1>4. Wanted(r, log[i].pkg)
    <2>1. CASE cmd.all
      <3>1. log[i].t \in Nat /\ log[j].t \in Nat
        BY <1>1, <1>2, LineFacts DEF LogInv
      <3>2. r.begin \in Int /\ r.end \in Int => log[i].t <= r.end
        BY <1>3, <3>1
      <3> QED
        BY <1>1, <1>2, <2>1, <3>2 DEF Found, Wanted, PosInv
    <2>2. CASE ~ cmd.all
      BY <2>2 DEF FindsNothing, Wanted, Sought
    <2> QED
      BY <2>1, <2>2
  <1>5. Asked(i, j)
    BY <1>4 DEF Asked, Same
  <1> QED
    BY <1>1, <1>5 DEF AllOnce

\* Every action in the dates that was asked for and has completed is reported, once,
\* whatever emerges did at the same time, was cut off before, or is written while
\* the log is read.
THEOREM AllAreReported == Spec => []AllReported
<1>1. Init => LastInv /\ FoundInv
  BY InitLast DEF Init, FoundInv
<1>2. LastInv /\ FoundInv /\ [Next]_vars => (LastInv /\ FoundInv)'
  BY NextLast, NextFound
<1>3. LastInv /\ FoundInv => AllReported
  BY AllFound
<1> QED
  BY <1>1, <1>2, <1>3, PTL DEF Spec

=============================================================================
