-------------------------- MODULE PathUtilsProofs ---------------------------
(***************************************************************************)
(* Theorems about PathUtils, for every LD_AUDIT, every path of the shim,   *)
(* every answer of the helper and every PATH_MAX.                          *)
(*                                                                         *)
(* All three edits of a string (an entry taken out of a list, a prefix and *)
(* a directory with something joined to them) are one: the front of one    *)
(* string, delimiters or nothing, and the end of another.  RunsOfJoin says *)
(* when the names in such a string are those of its two parts.             *)
(***************************************************************************)
EXTENDS PathUtils, FiniteSetTheorems, SequenceTheorems, WellFoundedInduction,
        NaturalsInduction, TLAPS

-----------------------------------------------------------------------------
(* Positions                                                               *)

Less == {ss \in Nat \X Nat : ss[1] < ss[2]}

LEMMA Least ==
  ASSUME NEW T \in SUBSET Nat, T # {}
  PROVE  \E x \in T : \A y \in T : x <= y
<1>1. IsWellFoundedOn(Less, Nat)
  BY NatLessThanWellFounded DEF OpToRel, Less
<1>2. PICK x \in T : \A y \in T : ~ (<<y, x>> \in Less)
  BY <1>1, WFMin
<1>3. ASSUME NEW y \in T, y < x PROVE FALSE
  <2>1. <<y, x>> \in Less
    BY <1>3 DEF Less
  <2> QED BY <1>2, <2>1
<1>4. \A y \in T : x \in Nat /\ y \in Nat
  OBVIOUS
<1> QED BY <1>3, <1>4

LEMMA Greatest ==
  ASSUME NEW n \in Nat, NEW T \in SUBSET (0..n), T # {}
  PROVE  \E x \in T : \A y \in T : y <= x
<1> DEFINE U == {n - x : x \in T}
<1>1. U \in SUBSET Nat /\ U # {}
  OBVIOUS
<1>2. PICK u \in U : \A v \in U : u <= v
  BY <1>1, Least
<1>3. PICK x \in T : u = n - x
  OBVIOUS
<1>4. ASSUME NEW y \in T PROVE y <= x
  <2>1. n - y \in U
    OBVIOUS
  <2> QED BY <1>2, <1>3, <2>1
<1> QED BY <1>4

\* next_token finds the delimiter behind its cursor, or the end of the string.
LEMMA TokenEndIs ==
  ASSUME NEW s \in Seq(Byte), NEW delim, NEW from \in 1..Len(s) + 1
  PROVE  /\ TokenEnd(s, from, delim) \in from..Len(s) + 1
         /\ TokenEnd(s, from, delim) <= Len(s) => s[TokenEnd(s, from, delim)] \in {delim, "nul"}
         /\ \A i \in from..TokenEnd(s, from, delim) - 1 : s[i] \notin {delim, "nul"}
<1> DEFINE T == {i \in from..Len(s) + 1 : i <= Len(s) => s[i] \in {delim, "nul"}}
<1>1. Len(s) \in Nat
  OBVIOUS
<1>2. T \in SUBSET Nat /\ Len(s) + 1 \in T
  BY <1>1
<1>3. PICK end \in T : \A y \in T : end <= y
  <2> HIDE DEF T
  <2> QED BY <1>2, Least
<1>4. \A i \in from..end - 1 : s[i] \notin {delim, "nul"}
  BY <1>1, <1>3
<1>5. \E x \in from..Len(s) + 1 :
        /\ x <= Len(s) => s[x] \in {delim, "nul"}
        /\ \A i \in from..x - 1 : s[i] \notin {delim, "nul"}
  BY <1>3, <1>4
<1> QED BY <1>5 DEF TokenEnd

-----------------------------------------------------------------------------
(* The names in a string                                                   *)

IsRun(s, delim, x, y) ==
  /\ x \in 1..Len(s) /\ y \in 1..Len(s) /\ x <= y
  /\ \A i \in x..y : s[i] # delim
  /\ x > 1 => s[x - 1] = delim
  /\ y < Len(s) => s[y + 1] = delim

LEMMA RunsAre ==
  ASSUME NEW s, NEW delim
  PROVE  /\ \A run \in Runs(s, delim) :
              run = <<run[1], run[2]>> /\ IsRun(s, delim, run[1], run[2])
         /\ \A x, y : IsRun(s, delim, x, y) => <<x, y>> \in Runs(s, delim)
<1>1. ASSUME NEW run \in Runs(s, delim)
      PROVE  run = <<run[1], run[2]>> /\ IsRun(s, delim, run[1], run[2])
  BY DEF Runs, IsRun
<1>2. ASSUME NEW x, NEW y, IsRun(s, delim, x, y) PROVE <<x, y>> \in Runs(s, delim)
  BY <1>2 DEF Runs, IsRun
<1> QED BY <1>1, <1>2

\* No name begins or ends inside another one.
LEMMA NoStartInside ==
  ASSUME NEW s \in Seq(Byte), NEW delim, NEW x, NEW y, NEW v, NEW w,
         IsRun(s, delim, x, y), IsRun(s, delim, v, w), v <= y
  PROVE  ~(x < v)
<1> SUFFICES ASSUME x < v PROVE FALSE
  OBVIOUS
<1>1. x \in Int /\ y \in Int /\ v \in Int /\ x >= 1
  BY DEF IsRun
<1>2. v > 1 /\ v - 1 \in x..y
  BY <1>1
<1>3. s[v - 1] = delim
  BY <1>2 DEF IsRun
<1>4. s[v - 1] # delim
  BY <1>2 DEF IsRun
<1> QED BY <1>3, <1>4

LEMMA NoEndInside ==
  ASSUME NEW s \in Seq(Byte), NEW delim, NEW x, NEW y, NEW v, NEW w,
         IsRun(s, delim, x, y), IsRun(s, delim, v, w), v <= y
  PROVE  ~(y < w)
<1> SUFFICES ASSUME y < w PROVE FALSE
  OBVIOUS
<1>1. y \in Int /\ v \in Int /\ w \in Int /\ w <= Len(s) /\ Len(s) \in Nat
  BY DEF IsRun
<1>2. y < Len(s) /\ y + 1 \in v..w
  BY <1>1
<1>3. s[y + 1] = delim
  BY <1>2 DEF IsRun
<1>4. s[y + 1] # delim
  BY <1>2 DEF IsRun
<1> QED BY <1>3, <1>4

\* Two names of a string are the same or apart.
LEMMA RunsApart ==
  ASSUME NEW s \in Seq(Byte), NEW delim,
         NEW r \in Runs(s, delim), NEW t \in Runs(s, delim)
  PROVE  r = t \/ r[2] < t[1] \/ t[2] < r[1]
<1>1. /\ r = <<r[1], r[2]>> /\ IsRun(s, delim, r[1], r[2])
      /\ t = <<t[1], t[2]>> /\ IsRun(s, delim, t[1], t[2])
  BY RunsAre
<1>2. Len(s) \in Nat
  OBVIOUS
<1>3. ASSUME r[1] <= t[2], t[1] <= r[2] PROVE r[1] = t[1] /\ r[2] = t[2]
  <2>1. ~(r[1] < t[1])
    BY <1>1, <1>3, NoStartInside
  <2>2. ~(t[1] < r[1])
    BY <1>1, <1>3, NoStartInside
  <2>3. ~(r[2] < t[2])
    BY <1>1, <1>3, NoEndInside
  <2>4. ~(t[2] < r[2])
    BY <1>1, <1>3, NoEndInside
  <2> QED BY <1>1, <1>2, <2>1, <2>2, <2>3, <2>4 DEF IsRun
<1> QED BY <1>1, <1>2, <1>3 DEF IsRun

\* The text of a name is as long as it is, and sits where it is.
LEMMA TextIs ==
  ASSUME NEW s \in Seq(Byte), NEW x \in 1..Len(s) + 1, NEW y \in 0..Len(s)
  PROVE  /\ Text(s, <<x, y>>) = SubSeq(s, x, y)
         /\ SubSeq(s, x, y) \in Seq(Byte)
         /\ Len(SubSeq(s, x, y)) = IF x <= y THEN y - x + 1 ELSE 0
         /\ \A i \in 1..y - x + 1 : SubSeq(s, x, y)[i] = s[x + i - 1]
<1>1. Len(s) \in Nat /\ \A i \in x..y : s[i] \in Byte
  OBVIOUS
<1> QED BY <1>1, SubSeqProperties DEF Text

\* The n bytes from x on.
LEMMA SliceIs ==
  ASSUME NEW s \in Seq(Byte), NEW x \in 1..Len(s) + 1, NEW n \in Nat, NEW y,
         y = x + n - 1, y <= Len(s)
  PROVE  /\ SubSeq(s, x, y) \in Seq(Byte) /\ Len(SubSeq(s, x, y)) = n
         /\ \A i \in 1..n : SubSeq(s, x, y)[i] = s[x + i - 1]
<1>1. Len(s) \in Nat
  OBVIOUS
<1>2. y \in 0..Len(s) /\ y - x + 1 = n /\ (x <= y <=> n # 0) /\ x \in Int
  BY <1>1
<1>3. /\ SubSeq(s, x, y) \in Seq(Byte)
      /\ Len(SubSeq(s, x, y)) = IF x <= y THEN y - x + 1 ELSE 0
      /\ \A i \in 1..y - x + 1 : SubSeq(s, x, y)[i] = s[x + i - 1]
  BY <1>2, TextIs
<1> QED BY <1>2, <1>3

LEMMA FrontIs ==
  ASSUME NEW s \in Seq(Byte), NEW n \in 0..Len(s)
  PROVE  /\ SubSeq(s, 1, n) \in Seq(Byte) /\ Len(SubSeq(s, 1, n)) = n
         /\ \A i \in 1..n : SubSeq(s, 1, n)[i] = s[i]
<1>1. Len(s) \in Nat
  OBVIOUS
<1>2. 1 \in 1..Len(s) + 1 /\ n \in Nat /\ n = 1 + n - 1 /\ n <= Len(s)
  BY <1>1
<1>3. /\ SubSeq(s, 1, n) \in Seq(Byte) /\ Len(SubSeq(s, 1, n)) = n
      /\ \A i \in 1..n : SubSeq(s, 1, n)[i] = s[1 + i - 1]
  BY <1>2, SliceIs
<1>4. \A i \in 1..n : 1 + i - 1 = i
  BY <1>2
<1> QED BY <1>3, <1>4

LEMMA ConcatIs ==
  ASSUME NEW u \in Seq(Byte), NEW v \in Seq(Byte), NEW m, NEW n, m = Len(u), n = Len(v)
  PROVE  /\ u \o v \in Seq(Byte) /\ Len(u \o v) = m + n /\ m \in Nat /\ n \in Nat
         /\ \A i \in 1..m : (u \o v)[i] = u[i]
         /\ \A i \in m + 1..m + n : (u \o v)[i] = v[i - m]
<1>1. /\ u \o v \in Seq(Byte) /\ Len(u \o v) = m + n /\ m \in Nat /\ n \in Nat
      /\ \A i \in 1..m + n : (u \o v)[i] = IF i <= m THEN u[i] ELSE v[i - m]
  BY ConcatProperties
<1>2. \A i \in 1..m : (u \o v)[i] = u[i]
  BY <1>1
<1>3. ASSUME NEW i \in m + 1..m + n PROVE (u \o v)[i] = v[i - m]
  <2>1. i \in 1..m + n /\ ~(i <= m)
    BY <1>1
  <2> QED BY <1>1, <2>1
<1> QED BY <1>1, <1>2, <1>3

\* Two texts of the same characters are the same.
LEMMA TextsEqual ==
  ASSUME NEW s \in Seq(Byte), NEW t \in Seq(Byte), NEW by \in Int,
         NEW x \in 1..Len(t), NEW y \in 1..Len(t), x <= y,
         x + by >= 1, y + by <= Len(s), \A i \in x..y : s[i + by] = t[i]
  PROVE  Text(s, <<x + by, y + by>>) = Text(t, <<x, y>>)
<1>1. Len(s) \in Nat /\ Len(t) \in Nat
  OBVIOUS
<1> DEFINE u == SubSeq(s, x + by, y + by)
           v == SubSeq(t, x, y)
<1>2. u \in Seq(Byte) /\ Len(u) = y - x + 1
      /\ \A i \in 1..y - x + 1 : u[i] = s[x + by + i - 1]
  BY <1>1, TextIs
<1>3. v \in Seq(Byte) /\ Len(v) = y - x + 1
      /\ \A i \in 1..y - x + 1 : v[i] = t[x + i - 1]
  BY <1>1, TextIs
<1>4. ASSUME NEW i \in 1..y - x + 1 PROVE u[i] = v[i]
  <2>1. u[i] = s[(x + i - 1) + by] /\ v[i] = t[x + i - 1] /\ x + i - 1 \in x..y
    BY <1>2, <1>3
  <2> QED BY <2>1
<1> HIDE DEF u, v
<1>5. u = v
  BY <1>2, <1>3, <1>4, SeqEqual
<1> QED BY <1>5 DEF u, v, Text

LEMMA TextsSame ==
  ASSUME NEW s \in Seq(Byte), NEW t \in Seq(Byte),
         NEW x \in 1..Len(t), NEW y \in 1..Len(t), x <= y,
         y <= Len(s), \A i \in x..y : s[i] = t[i]
  PROVE  Text(s, <<x, y>>) = Text(t, <<x, y>>)
<1>1. PICK by \in Int : by = 0
  OBVIOUS
<1>2. /\ x + by = x /\ y + by = y /\ x + by >= 1 /\ y + by <= Len(s)
      /\ \A i \in x..y : s[i + by] = t[i]
  BY <1>1
<1>3. Text(s, <<x + by, y + by>>) = Text(t, <<x, y>>)
  BY <1>2, TextsEqual
<1> QED BY <1>2, <1>3

\* The front of a, delimiters or nothing, and the end of b, with no name
\* across the seam in any of the three strings: s is that string.
Seam(s, delim, a, n, b, m, by) ==
  /\ s \in Seq(Byte) /\ a \in Seq(Byte) /\ b \in Seq(Byte)
  /\ n \in 0..Len(a) /\ m \in 0..Len(b) /\ by \in Int
  /\ n <= m + by /\ Len(s) = Len(b) + by
  /\ \A i \in 1..n : s[i] = a[i]
  /\ \A i \in m + 1..Len(b) : s[i + by] = b[i]
  /\ \A i \in n + 1..m + by : s[i] = delim
  /\ n = 0 \/ n = Len(a) \/ a[n] = delim \/ a[n + 1] = delim
  /\ m = 0 \/ m = Len(b) \/ b[m] = delim \/ b[m + 1] = delim
  /\ n < m + by \/ n = 0 \/ m = Len(b) \/ s[n] = delim \/ s[n + 1] = delim

LEMMA RunInFront ==
  ASSUME NEW s, NEW delim, NEW a, NEW n, NEW b, NEW m, NEW by, Seam(s, delim, a, n, b, m, by),
         NEW x, NEW y \in Int, y <= n
  PROVE  IsRun(s, delim, x, y) <=> IsRun(a, delim, x, y)
<1>1. Len(s) \in Nat /\ Len(a) \in Nat /\ Len(b) \in Nat /\ n <= Len(s)
  BY DEF Seam
<1>2. ASSUME IsRun(s, delim, x, y) PROVE IsRun(a, delim, x, y)
  <2>1. x \in 1..Len(a) /\ y \in 1..Len(a) /\ x <= y
    BY <1>1, <1>2 DEF Seam, IsRun
  <2>2. (\A i \in x..y : a[i] # delim) /\ (x > 1 => a[x - 1] = delim)
    BY <1>1, <1>2, <2>1 DEF Seam, IsRun
  <2>3. y < Len(a) => a[y + 1] = delim
    BY <1>1, <1>2, <2>1, <2>2 DEF Seam, IsRun
  <2> QED BY <2>1, <2>2, <2>3 DEF IsRun
<1>3. ASSUME IsRun(a, delim, x, y) PROVE IsRun(s, delim, x, y)
  <2>1. x \in 1..Len(s) /\ y \in 1..Len(s) /\ x <= y
    BY <1>1, <1>3 DEF Seam, IsRun
  <2>2. (\A i \in x..y : s[i] # delim) /\ (x > 1 => s[x - 1] = delim)
    BY <1>1, <1>3, <2>1 DEF Seam, IsRun
  <2>3. y < Len(s) => s[y + 1] = delim
    <3>1. CASE y < n
      BY <1>1, <1>3, <2>1, <3>1 DEF Seam, IsRun
    <3>2. CASE y = n
      BY <1>1, <1>3, <2>1, <2>2, <3>2 DEF Seam, IsRun
    <3> QED BY <1>1, <2>1, <3>1, <3>2 DEF Seam
  <2> QED BY <2>1, <2>2, <2>3 DEF IsRun
<1> QED BY <1>2, <1>3

LEMMA RunBehind ==
  ASSUME NEW s, NEW delim, NEW a, NEW n, NEW b, NEW m, NEW by, Seam(s, delim, a, n, b, m, by),
         NEW x \in Int, NEW y \in Int, x > m
  PROVE  IsRun(b, delim, x, y) <=> IsRun(s, delim, x + by, y + by)
<1>1. /\ Len(s) \in Nat /\ Len(a) \in Nat /\ Len(b) \in Nat
      /\ m \in Nat /\ m <= Len(b) /\ n \in Nat /\ by \in Int /\ m + by >= n
      /\ Len(s) = Len(b) + by
      /\ \A i \in m + 1..Len(b) : s[i + by] = b[i]
  BY DEF Seam
<1>m. ASSUME NEW i \in m + 1..Len(b), NEW k, k = i + by PROVE s[k] = b[i]
  BY <1>1, <1>m
<1>2. ASSUME IsRun(s, delim, x + by, y + by) PROVE IsRun(b, delim, x, y)
  <2>1. x \in 1..Len(b) /\ y \in 1..Len(b) /\ x <= y
    BY <1>1, <1>2 DEF IsRun
  <2>2. \A i \in x..y : b[i] # delim
    <3> TAKE i \in x..y
    <3>1. i + by \in x + by..y + by /\ i \in m + 1..Len(b)
      BY <1>1, <2>1
    <3> QED BY <1>1, <1>2, <3>1 DEF IsRun
  <2>3. y < Len(b) => b[y + 1] = delim
    <3> SUFFICES ASSUME y < Len(b) PROVE b[y + 1] = delim
      OBVIOUS
    <3>1. s[y + by + 1] = delim
      BY <1>1, <1>2, <2>1 DEF IsRun
    <3>2. y + 1 \in m + 1..Len(b) /\ y + by + 1 = (y + 1) + by
      BY <1>1, <2>1
    <3> QED BY <1>m, <3>1, <3>2
  <2>4. x > 1 => b[x - 1] = delim
    <3>1. CASE x > m + 1
      <4>1. s[x + by - 1] = delim
        BY <1>1, <1>2, <2>1, <3>1 DEF IsRun
      <4>2. x - 1 \in m + 1..Len(b) /\ x + by - 1 = (x - 1) + by
        BY <1>1, <2>1, <3>1
      <4> QED BY <1>m, <4>1, <4>2
    <3>2. CASE x = m + 1
      BY <1>1, <2>1, <2>2, <3>2 DEF Seam
    <3> QED BY <1>1, <3>1, <3>2
  <2> QED BY <2>1, <2>2, <2>3, <2>4 DEF IsRun
<1>3. ASSUME IsRun(b, delim, x, y) PROVE IsRun(s, delim, x + by, y + by)
  <2>1. x + by \in 1..Len(s) /\ y + by \in 1..Len(s) /\ x <= y /\ y <= Len(b)
    BY SMTT(30), <1>1, <1>3 DEF IsRun
  <2>2. \A i \in x + by..y + by : s[i] # delim
    <3> TAKE i \in x + by..y + by
    <3>1. i - by \in x..y /\ i - by \in m + 1..Len(b) /\ (i - by) + by = i
      BY SMTT(30), <1>1, <2>1
    <3>2. s[i] = b[i - by] /\ b[i - by] # delim
      BY <1>1, <1>3, <3>1 DEF IsRun
    <3> QED BY <3>2
  <2>3. y + by < Len(s) => s[y + by + 1] = delim
    <3> SUFFICES ASSUME y + by < Len(s) PROVE s[y + by + 1] = delim
      OBVIOUS
    <3>1. b[y + 1] = delim
      BY <1>1, <1>3, <2>1 DEF IsRun
    <3>2. y + 1 \in m + 1..Len(b) /\ y + by + 1 = (y + 1) + by
      BY <1>1, <2>1
    <3> QED BY <1>m, <3>1, <3>2
  <2>4. x + by > 1 => s[x + by - 1] = delim
    <3>1. CASE x > m + 1
      <4>1. b[x - 1] = delim
        BY <1>1, <1>3, <2>1, <3>1 DEF IsRun
      <4>2. x - 1 \in m + 1..Len(b) /\ x + by - 1 = (x - 1) + by
        BY <1>1, <2>1, <3>1
      <4> QED BY <1>m, <4>1, <4>2
    <3>2. CASE x = m + 1 /\ n < m + by
      BY <1>1, <3>2 DEF Seam
    <3>3. CASE x = m + 1 /\ n = m + by
      <4>1. s[n + 1] # delim
        BY SMTT(30), <1>1, <2>1, <2>2, <3>3
      <4>2. x + by - 1 = n /\ m < Len(b)
        BY <1>1, <2>1, <3>3
      <4> QED BY <1>1, <3>3, <4>1, <4>2 DEF Seam
    <3> QED BY <1>1, <3>1, <3>2, <3>3
  <2> QED BY <1>1, <2>1, <2>2, <2>3, <2>4 DEF IsRun
<1> QED BY <1>2, <1>3

\* No name of s is across the seam.
LEMMA RunOnOneSide ==
  ASSUME NEW s, NEW delim, NEW a, NEW n, NEW b, NEW m, NEW by, Seam(s, delim, a, n, b, m, by),
         NEW x, NEW y, IsRun(s, delim, x, y)
  PROVE  y <= n \/ x > m + by
<1>1. /\ Len(s) \in Nat /\ Len(a) \in Nat /\ Len(b) \in Nat
      /\ m \in Nat /\ m <= Len(b) /\ n \in Nat /\ by \in Int /\ m + by >= n
      /\ Len(s) = Len(b) + by
      /\ x \in 1..Len(s) /\ y \in 1..Len(s) /\ x <= y
      /\ \A i \in x..y : s[i] # delim
  BY DEF Seam, IsRun
<1> SUFFICES ASSUME y > n, x <= m + by PROVE FALSE
  BY <1>1
<1>2. CASE n < m + by
  <2>1. \A i \in n + 1..m + by : s[i] = delim
    BY DEF Seam
  <2>2. CASE x > n
    BY <1>1, <2>1, <2>2
  <2>3. CASE x <= n
    <3>1. n + 1 \in x..y
      BY <1>1, <2>3
    <3> QED BY <1>1, <1>2, <2>1, <3>1
  <2> QED BY <1>1, <2>2, <2>3
<1>3. CASE n = m + by
  <2>1. n \in x..y /\ n + 1 \in x..y
    BY <1>1, <1>3
  <2> QED BY <1>1, <1>3, <2>1 DEF Seam
<1> QED BY <1>1, <1>2, <1>3

LEMMA RunsOfJoin ==
  ASSUME NEW s, NEW delim, NEW a, NEW n, NEW b, NEW m, NEW by, Seam(s, delim, a, n, b, m, by)
  PROVE  Joins(s, Runs(s, delim), a, {run \in Runs(a, delim) : run[2] <= n},
                                  b, {run \in Runs(b, delim) : run[1] > m})
<1> DEFINE as == {run \in Runs(a, delim) : run[2] <= n}
           bs == {run \in Runs(b, delim) : run[1] > m}
<1>1. /\ s \in Seq(Byte) /\ a \in Seq(Byte) /\ b \in Seq(Byte)
      /\ Len(s) \in Nat /\ Len(a) \in Nat /\ Len(b) \in Nat
      /\ m \in Nat /\ m <= Len(b) /\ n \in Nat /\ n <= Len(a) /\ by \in Int /\ m + by >= n
      /\ Len(s) = Len(b) + by
      /\ \A i \in 1..n : s[i] = a[i]
      /\ \A i \in m + 1..Len(b) : s[i + by] = b[i]
  BY DEF Seam
<1>2. ASSUME NEW run \in as
      PROVE  /\ run \in Runs(s, delim) /\ run = <<run[1], run[2]>>
             /\ run[1] \in 1..n /\ run[2] \in 1..n /\ run[1] <= run[2]
  <2>1. run = <<run[1], run[2]>> /\ IsRun(a, delim, run[1], run[2]) /\ run[2] <= n
    BY RunsAre
  <2>2. run[1] \in Int /\ run[2] \in Int
    BY <1>1, <2>1 DEF IsRun
  <2>3. IsRun(s, delim, run[1], run[2])
    BY <2>1, <2>2, RunInFront
  <2>4. run \in Runs(s, delim)
    BY <2>1, <2>3, RunsAre
  <2>5. run[1] \in 1..n /\ run[2] \in 1..n /\ run[1] <= run[2]
    BY <1>1, <2>1, <2>2 DEF IsRun
  <2> QED BY <2>1, <2>4, <2>5
<1>3. ASSUME NEW run \in bs
      PROVE  /\ Shifted(run, by) \in Runs(s, delim) /\ run = <<run[1], run[2]>>
             /\ run[1] \in m + 1..Len(b) /\ run[2] \in m + 1..Len(b) /\ run[1] <= run[2]
  <2>1. run = <<run[1], run[2]>> /\ IsRun(b, delim, run[1], run[2]) /\ run[1] > m
    BY RunsAre
  <2>2. run[1] \in Int /\ run[2] \in Int
    BY <1>1, <2>1 DEF IsRun
  <2>3. IsRun(s, delim, run[1] + by, run[2] + by)
    BY <2>1, <2>2, RunBehind
  <2>4. Shifted(run, by) \in Runs(s, delim)
    BY <2>3, RunsAre DEF Shifted
  <2>5. /\ run[1] \in m + 1..Len(b) /\ run[2] \in m + 1..Len(b)
        /\ run[1] <= run[2]
    BY <1>1, <2>1, <2>2 DEF IsRun
  <2> QED BY <2>1, <2>4, <2>5
<1>4. ASSUME NEW run \in Runs(s, delim)
      PROVE  run \in as \/ \E r \in bs : run = Shifted(r, by)
  <2>1. run = <<run[1], run[2]>> /\ IsRun(s, delim, run[1], run[2])
    BY RunsAre
  <2>2. run[1] \in Int /\ run[2] \in Int
    BY <2>1 DEF IsRun
  <2>3. CASE run[2] <= n
    <3>1. IsRun(a, delim, run[1], run[2])
      BY <2>1, <2>2, <2>3, RunInFront
    <3> QED BY <2>1, <2>3, <3>1, RunsAre
  <2>4. CASE run[1] > m + by
    <3> DEFINE x == run[1] - by
               y == run[2] - by
    <3>1. x \in Int /\ y \in Int /\ x > m /\ x + by = run[1] /\ y + by = run[2]
      BY SMTT(30), <1>1, <2>2, <2>4
    <3> HIDE DEF x, y
    <3>2. IsRun(b, delim, x, y)
      BY <2>1, <3>1, RunBehind
    <3>3. <<x, y>> \in bs
      BY <3>1, <3>2, RunsAre
    <3>4. run = Shifted(<<x, y>>, by)
      BY <2>1, <3>1 DEF Shifted
    <3> QED BY <3>3, <3>4
  <2> QED BY <2>1, <2>3, <2>4, RunOnOneSide
<1>5. Runs(s, delim) = as \cup {Shifted(run, by) : run \in bs}
  <2> HIDE DEF as, bs
  <2> QED BY <1>2, <1>3, <1>4
<1>6. ASSUME NEW run \in as PROVE Text(s, run) = Text(a, run)
  <2>1. \A i \in run[1]..run[2] : s[i] = a[i]
    BY SMTT(30), <1>1, <1>2
  <2>2. /\ run[1] \in 1..Len(a) /\ run[2] \in 1..Len(a) /\ run[1] <= run[2]
        /\ run[2] <= Len(s)
    BY <1>1, <1>2
  <2>3. Text(s, <<run[1], run[2]>>) = Text(a, <<run[1], run[2]>>)
    <3> HIDE DEF as
    <3> QED BY <1>1, <2>1, <2>2, TextsSame
  <2> QED BY <1>2, <2>3
<1>7. ASSUME NEW run \in bs PROVE Text(s, Shifted(run, by)) = Text(b, run)
  <2>1. ASSUME NEW i \in run[1]..run[2] PROVE s[i + by] = b[i]
    <3>1. i \in m + 1..Len(b)
      BY <1>1, <1>3
    <3> QED BY <1>1, <3>1
  <2>2. /\ run[1] \in 1..Len(b) /\ run[2] \in 1..Len(b) /\ run[1] <= run[2]
        /\ run[1] + by >= 1 /\ run[2] + by <= Len(s)
    BY <1>1, <1>3
  <2>3. Text(s, <<run[1] + by, run[2] + by>>) = Text(b, <<run[1], run[2]>>)
    <3> HIDE DEF bs
    <3> QED BY <1>1, <2>1, <2>2, TextsEqual
  <2> QED BY <1>3, <2>3 DEF Shifted
<1>8. \A x \in as, y \in bs : x[2] < y[1] + by
  <2> TAKE x \in as, y \in bs
  <2>1. x[2] \in Int /\ x[2] <= n /\ y[1] \in Int /\ y[1] >= m + 1
    BY <1>1, <1>2, <1>3
  <2> QED BY <1>1, <2>1
<1>9. by \in -Len(b)..Len(s)
  BY <1>1
<1> HIDE DEF as, bs
<1>10. Joins(s, Runs(s, delim), a, as, b, bs)
  BY <1>5, <1>6, <1>7, <1>8, <1>9 DEF Joins
<1> QED BY <1>10 DEF as, bs

\* What holds of all names of a path holds of those other than ".".
LEMMA PartsOfJoin ==
  ASSUME NEW s, NEW a, NEW as, NEW b, NEW bs, Joins(s, Runs(s, "/"), a, as, b, bs),
         NEW cs, cs = {run \in as : Text(a, run) # <<".">>},
         NEW ds, ds = {run \in bs : Text(b, run) # <<".">>}
  PROVE  Joins(s, Parts(s), a, cs, b, ds)
<1>1. PICK by \in -Len(b)..Len(s) :
        /\ Runs(s, "/") = as \cup {Shifted(run, by) : run \in bs}
        /\ \A run \in as : Text(s, run) = Text(a, run)
        /\ \A run \in bs : Text(s, Shifted(run, by)) = Text(b, run)
        /\ \A x \in as, y \in bs : x[2] < y[1] + by
  BY DEF Joins
<1>2. Parts(s) = cs \cup {Shifted(run, by) : run \in ds}
  <2>1. ASSUME NEW part \in Parts(s)
        PROVE  part \in cs \/ \E run \in ds : part = Shifted(run, by)
    BY <1>1 DEF Parts
  <2>2. ASSUME NEW run \in as, Text(a, run) # <<".">> PROVE run \in Parts(s)
    BY <1>1, <2>2 DEF Parts
  <2>3. ASSUME NEW run \in bs, Text(b, run) # <<".">> PROVE Shifted(run, by) \in Parts(s)
    BY <1>1, <2>3 DEF Parts
  <2> QED BY <2>1, <2>2, <2>3
<1> QED BY <1>1, <1>2 DEF Joins

\* A string without the delimiter is one name.
LEMMA OneRun ==
  ASSUME NEW s \in Seq(Byte) \ {<<>>}, NEW delim, \A i \in 1..Len(s) : s[i] # delim
  PROVE  Runs(s, delim) = {<<1, Len(s)>>}
<1>1. Len(s) \in Nat \ {0}
  BY EmptySeq
<1>2. IsRun(s, delim, 1, Len(s))
  BY <1>1 DEF IsRun
<1>3. ASSUME NEW x, NEW y, IsRun(s, delim, x, y) PROVE x = 1 /\ y = Len(s)
  BY <1>1, <1>3 DEF IsRun
<1>4. ASSUME NEW run \in Runs(s, delim) PROVE run = <<1, Len(s)>>
  BY <1>3, RunsAre
<1> QED BY <1>2, <1>4, RunsAre

-----------------------------------------------------------------------------
(* File names                                                              *)

LEMMA FileNameIs ==
  ASSUME NEW s \in Seq(Byte)
  PROVE  \E n \in 0..Len(s) : /\ HasFileName(s, n)
                             /\ FileName(s) = SubSeq(s, Len(s) - n + 1, Len(s))
<1> DEFINE T == {0} \cup Slashes(s)
<1>1. Len(s) \in Nat
  OBVIOUS
<1>2. T \in SUBSET (0..Len(s)) /\ T # {}
  BY <1>1 DEF Slashes
<1>3. PICK x \in T : \A y \in T : y <= x
  <2> HIDE DEF T
  <2> QED BY <1>1, <1>2, Greatest
<1>4. Max(T) = x
  <2>1. \A y \in T : x >= y
    BY <1>2, <1>3
  <2>2. \A z \in T : (\A y \in T : z >= y) => z = x
    BY <1>2, <2>1
  <2> HIDE DEF T
  <2> QED BY <2>1, <2>2 DEF Max
<1> DEFINE n == Len(s) - x
<1>5. n \in 0..Len(s) /\ Len(s) - n + 1 = x + 1 /\ Len(s) - n = x /\ x \in 0..Len(s)
  BY <1>1, <1>2
<1>6. HasFileName(s, n)
  <2>1. ASSUME NEW i \in x + 1..Len(s) PROVE s[i] # "/"
    <3>1. i \in 1..Len(s) /\ ~(i <= x)
      BY <1>1, <1>5
    <3> QED BY <1>3, <3>1 DEF Slashes
  <2>2. x > 0 => s[x] = "/"
    BY DEF Slashes
  <2> QED BY <1>1, <1>5, <2>1, <2>2 DEF HasFileName
<1>7. FileName(s) = SubSeq(s, x + 1, Len(s))
  BY <1>4 DEF FileName
<1> HIDE DEF n
<1> QED BY <1>5, <1>6, <1>7

LEMMA OneFileName ==
  ASSUME NEW s \in Seq(Byte), NEW n \in Nat, NEW m \in Nat,
         HasFileName(s, n), HasFileName(s, m)
  PROVE  n = m
<1>1. Len(s) \in Nat /\ n <= Len(s) /\ m <= Len(s)
  BY DEF HasFileName
<1>2. ~(n < m)
  <2> SUFFICES ASSUME n < m PROVE FALSE
    OBVIOUS
  <2>1. s[Len(s) - n] = "/" /\ Len(s) - n \in Len(s) - m + 1..Len(s)
    BY <1>1 DEF HasFileName
  <2> QED BY <2>1 DEF HasFileName
<1>3. ~(m < n)
  <2> SUFFICES ASSUME m < n PROVE FALSE
    OBVIOUS
  <2>1. s[Len(s) - m] = "/" /\ Len(s) - m \in Len(s) - n + 1..Len(s)
    BY <1>1 DEF HasFileName
  <2> QED BY <2>1 DEF HasFileName
<1> QED BY <1>2, <1>3

\* What la_version compares tells the shim's own entries.
LEMMA OwnIs ==
  ASSUME self \in Seq(Byte), NEW entry \in Seq(Byte)
  PROVE  FileName(entry) = FileName(self) <=> Own(entry)
<1>1. Len(self) \in Nat /\ Len(entry) \in Nat
  OBVIOUS
<1>2. PICK n \in 0..Len(self) : /\ HasFileName(self, n)
                               /\ FileName(self) = SubSeq(self, Len(self) - n + 1, Len(self))
  BY FileNameIs
<1>3. PICK m \in 0..Len(entry) : /\ HasFileName(entry, m)
                                /\ FileName(entry) = SubSeq(entry, Len(entry) - m + 1, Len(entry))
  BY FileNameIs
<1> DEFINE u == SubSeq(self, Len(self) - n + 1, Len(self))
           v == SubSeq(entry, Len(entry) - m + 1, Len(entry))
<1>4. u \in Seq(Byte) /\ Len(u) = n /\ \A i \in 1..n : u[i] = self[Len(self) - n + i]
  <2>1. Len(self) - n + 1 \in 1..Len(self) + 1 /\ Len(self) - (Len(self) - n + 1) + 1 = n
    BY <1>1
  <2>2. /\ u \in Seq(Byte) /\ Len(u) = n
        /\ \A i \in 1..n : u[i] = self[(Len(self) - n + 1) + i - 1]
    BY <1>1, <2>1, TextIs
  <2>3. \A i \in 1..n : (Len(self) - n + 1) + i - 1 = Len(self) - n + i
    BY <1>1
  <2> QED BY <2>2, <2>3
<1>5. v \in Seq(Byte) /\ Len(v) = m /\ \A i \in 1..m : v[i] = entry[Len(entry) - m + i]
  <2>1. Len(entry) - m + 1 \in 1..Len(entry) + 1 /\ Len(entry) - (Len(entry) - m + 1) + 1 = m
    BY <1>1
  <2>2. /\ v \in Seq(Byte) /\ Len(v) = m
        /\ \A i \in 1..m : v[i] = entry[(Len(entry) - m + 1) + i - 1]
    BY <1>1, <2>1, TextIs
  <2>3. \A i \in 1..m : (Len(entry) - m + 1) + i - 1 = Len(entry) - m + i
    BY <1>1
  <2> QED BY <2>2, <2>3
<1> HIDE DEF u, v
<1>6. ASSUME u = v PROVE Own(entry)
  <2>1. n = m
    BY <1>4, <1>5, <1>6
  <2>2. ASSUME NEW i \in 0..n - 1 PROVE entry[Len(entry) - i] = self[Len(self) - i]
    <3>1. n - i \in 1..n /\ Len(self) - n + (n - i) = Len(self) - i
          /\ Len(entry) - n + (n - i) = Len(entry) - i
      BY <1>1
    <3> QED BY <1>4, <1>5, <1>6, <2>1, <3>1
  <2> QED BY <1>2, <1>3, <2>1, <2>2 DEF Own
<1>7. ASSUME Own(entry) PROVE u = v
  <2>1. PICK k \in 0..Len(self) :
          /\ HasFileName(self, k) /\ HasFileName(entry, k)
          /\ \A i \in 0..k - 1 : entry[Len(entry) - i] = self[Len(self) - i]
    BY <1>7 DEF Own
  <2>2. k = n /\ k = m
    BY <1>1, <1>2, <1>3, <2>1, OneFileName
  <2>3. ASSUME NEW i \in 1..n PROVE u[i] = v[i]
    <3>1. n - i \in 0..n - 1 /\ Len(self) - n + i = Len(self) - (n - i)
          /\ Len(entry) - n + i = Len(entry) - (n - i)
      BY <1>1
    <3>2. u[i] = self[Len(self) - (n - i)] /\ v[i] = entry[Len(entry) - (n - i)]
      BY <1>4, <1>5, <2>2, <3>1
    <3> QED BY <2>1, <2>2, <3>1, <3>2
  <2> QED BY <1>4, <1>5, <2>2, <2>3, SeqEqual
<1>8. FileName(self) = u /\ FileName(entry) = v
  BY <1>2, <1>3 DEF u, v
<1> QED BY <1>6, <1>7, <1>8

-----------------------------------------------------------------------------
(* path_join                                                               *)

LEMMA OneChar ==
  ASSUME NEW c \in Char
  PROVE  <<c>> \in Seq(Char) /\ Len(<<c>>) = 1 /\ <<c>>[1] = c /\ <<c>> # <<>>
  OBVIOUS

LEMMA ParentIs ==
  ASSUME NEW parent \in Seq(Char)
  PROVE  /\ Parent(parent) \in Seq(Char) \ {<<>>} /\ Len(Parent(parent)) \in Nat \ {0}
         /\ Parent(parent) = IF parent = <<>> THEN <<".">> ELSE parent
<1>1. <<".">> \in Seq(Char) /\ Len(<<".">>) = 1
  BY CharAssumption, OneChar
<1> QED BY <1>1, EmptySeq DEF Parent

\* The parent, at most one slash, and the child.
IsJoin(s, p, child) ==
  \E gap \in {0, 1} :
    /\ gap = 0 <=> Last(p) = "/" \/ child[1] = "/"
    /\ s \in Seq(Char) /\ Len(s) = Len(p) + gap + Len(child)
    /\ \A i \in 1..Len(p) : s[i] = p[i]
    /\ gap = 1 => s[Len(p) + 1] = "/"
    /\ \A i \in 1..Len(child) : s[i + (Len(p) + gap)] = child[i]

LEMMA JoinIs ==
  ASSUME NEW parent \in Seq(Char), NEW child \in Seq(Char) \ {<<>>},
         NEW s, s = PathJoin(parent, child), NEW p, p = Parent(parent)
  PROVE  IsJoin(s, p, child)
<1> DEFINE sep == IF Last(p) = "/" \/ Head(child) = "/" THEN <<>> ELSE <<"/">>
<1>1. /\ p \in Seq(Char) /\ Len(p) \in Nat \ {0} /\ child \in Seq(Char)
      /\ Len(child) \in Nat \ {0} /\ Head(child) = child[1]
  BY ParentIs, EmptySeq
<1>2. s = (p \o sep) \o child
  BY DEF PathJoin
<1>3. sep \in Seq(Char) /\ Len(sep) \in {0, 1} /\ (Len(sep) = 1 => sep[1] = "/")
      /\ (Len(sep) = 0 <=> Last(p) = "/" \/ child[1] = "/")
  <2>1. CASE Last(p) = "/" \/ child[1] = "/"
    <3>1. sep = <<>>
      BY <1>1, <2>1
    <3>2. <<>> \in Seq(Char) /\ Len(<<>>) = 0
      BY EmptySeq
    <3> HIDE DEF sep
    <3> QED BY <2>1, <3>1, <3>2
  <2>2. CASE ~(Last(p) = "/" \/ child[1] = "/")
    <3>1. sep = <<"/">>
      BY <1>1, <2>2
    <3>2. <<"/">> \in Seq(Char) /\ Len(<<"/">>) = 1 /\ <<"/">>[1] = "/"
      BY CharAssumption, OneChar
    <3> HIDE DEF sep
    <3> QED BY <2>2, <3>1, <3>2
  <2> QED BY <2>1, <2>2
<1> HIDE DEF sep
<1> DEFINE q == p \o sep
<1>4. /\ q \in Seq(Char) /\ Len(q) = Len(p) + Len(sep)
      /\ \A i \in 1..Len(p) + Len(sep) : q[i] = IF i <= Len(p) THEN p[i] ELSE sep[i - Len(p)]
  BY <1>1, <1>3, ConcatProperties
<1> HIDE DEF q
<1>5. /\ q \o child \in Seq(Char) /\ Len(q \o child) = Len(q) + Len(child)
      /\ \A i \in 1..Len(q) + Len(child) :
           (q \o child)[i] = IF i <= Len(q) THEN q[i] ELSE child[i - Len(q)]
  <2>1. q \in Seq(Char) /\ child \in Seq(Char)
    BY <1>1, <1>4
  <2> QED BY <2>1, ConcatProperties
<1>6. s = q \o child
  BY <1>2 DEF q
<1>7. \A i \in 1..Len(p) : s[i] = p[i]
  BY <1>1, <1>3, <1>4, <1>5, <1>6
<1>8. Len(sep) = 1 => s[Len(p) + 1] = "/"
  <2> SUFFICES ASSUME Len(sep) = 1 PROVE s[Len(p) + 1] = "/"
    OBVIOUS
  <2>1. q[Len(p) + 1] = sep[Len(p) + 1 - Len(p)] /\ Len(p) + 1 - Len(p) = 1
    BY <1>1, <1>4
  <2> QED BY <1>1, <1>3, <1>4, <1>5, <1>6, <2>1
<1>9. ASSUME NEW i \in 1..Len(child) PROVE s[i + (Len(p) + Len(sep))] = child[i]
  <2>1. /\ i + (Len(p) + Len(sep)) \in 1..Len(q) + Len(child)
        /\ ~(i + (Len(p) + Len(sep)) <= Len(q))
        /\ i + (Len(p) + Len(sep)) - Len(q) = i
    BY <1>1, <1>3, <1>4
  <2> QED BY <1>5, <1>6, <2>1
<1>10. s \in Seq(Char) /\ Len(s) = Len(p) + Len(sep) + Len(child)
  BY <1>4, <1>5, <1>6
<1> QED BY <1>3, <1>7, <1>8, <1>9, <1>10 DEF IsJoin

LEMMA CharsAreBytes ==
  ASSUME NEW s \in Seq(Char)
  PROVE  s \in Seq(Byte) /\ Len(s) \in Nat /\ \A i \in 1..Len(s) : s[i] \in Char /\ s[i] # "nul"
<1>1. s \in Seq(Byte)
  BY SeqMonotonic DEF Byte
<1>2. \A i \in 1..Len(s) : s[i] \in Char
  OBVIOUS
<1> QED BY <1>1, <1>2, CharAssumption

-----------------------------------------------------------------------------
(* The inductive invariant                                                 *)

\* The shim's path is that of a file.
SelfIsFile == self # <<>> /\ Last(self) # "/"

\* No entry in front of the cursor is the shim's.
Sanitizing ==
  pc = "sanitize" =>
    /\ env = original /\ backup = NoBackup
    /\ cursor \in 1..Len(original) + 1
    /\ cursor = 1 \/ cursor = Len(original) + 1 \/ original[cursor - 1] = ":"
    /\ \A own \in OwnEntries : own[1] >= cursor

\* match is where the last library directory in front of a position is.
Matched(position) ==
  \/ match = -1 /\ \A lib \in LibraryDirs : lib[1] < position => lib[1] = 1
  \/ \E lib \in LibraryDirs :
       /\ lib[1] > 1 /\ lib[1] < position /\ match = lib[1] - 2
       /\ \A other \in LibraryDirs : other[1] < position => other[1] <= lib[1]

Prefixing ==
  /\ pc = "sanitize" => match = -1
  /\ pc = "prefix" =>
       /\ cursor \in 1..Len(self)
       /\ cursor = 1 \/ self[cursor - 1] = "/"
       /\ Matched(cursor)
  /\ pc = "join" => Matched(Len(self) + 1)

Answered == pc \in {"sanitize", "prefix", "join", "answer"} => dir = <<>> /\ library = <<>>

IInv ==
  /\ TypeOK /\ SelfIsFile
  /\ Sanitizing /\ SlotRemoved /\ RestoreUndoes
  /\ Prefixing /\ SiblingFound
  /\ Answered /\ LibraryInDir

LEMMA InitHolds == Init => IInv
<1> SUFFICES ASSUME Init PROVE IInv
  OBVIOUS
<1>1. PICK input \in Inputs : self = input.self /\ original = input.ldAudit
  BY DEF Init
<1>2. /\ self \in Seq(Char) /\ original \in Seq(Char) /\ self # <<>> /\ Last(self) # "/"
      /\ <<>> \in Seq(Char) /\ Len(<<>>) = 0 /\ PathMax \in Nat \ {0}
  BY <1>1, InputsAssumption, EmptySeq, PathMaxAssumption
<1>3. Len(self) \in Nat /\ Len(original) \in Nat /\ original \in Seq(Byte)
  BY <1>2, CharsAreBytes
<1>4. TypeOK
  <2>1. Len(backup.data) <= PathMax
    BY <1>2 DEF Init, NoBackup
  <2> QED BY <1>2, <1>3, <2>1 DEF Init, TypeOK
<1>5. \A own \in OwnEntries : own[1] >= 1
  <2> TAKE own \in OwnEntries
  <2>1. IsRun(original, ":", own[1], own[2])
    BY RunsAre DEF OwnEntries
  <2> QED BY <1>3, <2>1 DEF IsRun
<1>6. Sanitizing
  BY <1>3, <1>5 DEF Init, Sanitizing
<1> QED BY <1>2, <1>4, <1>6
        DEF Init, IInv, SelfIsFile, SlotRemoved, RestoreUndoes, Prefixing, SiblingFound,
            Answered, LibraryInDir

\* The properties of a string stay when it does.
LEMMA StringsStay ==
  /\ UNCHANGED self => LibraryDirs' = LibraryDirs
  /\ UNCHANGED <<self, original>> => OwnEntries' = OwnEntries
  /\ UNCHANGED <<self, match>> => \A p : Matched(p)' = Matched(p)
  /\ UNCHANGED <<self, original, env>> /\ pc \notin {"sanitize", "crashed"} /\ SlotRemoved
       => SlotRemoved'
  /\ UNCHANGED <<original, env, backup>> /\ pc' # "crashed" /\ RestoreUndoes => RestoreUndoes'
<1>1. ASSUME UNCHANGED self PROVE LibraryDirs' = LibraryDirs
  BY <1>1 DEF LibraryDirs
<1>2. ASSUME UNCHANGED <<self, original>> PROVE OwnEntries' = OwnEntries
  BY <1>2 DEF OwnEntries, Own
<1>3. ASSUME UNCHANGED <<self, match>>, NEW p PROVE Matched(p)' = Matched(p)
  BY <1>1, <1>3 DEF Matched
<1>4. ASSUME UNCHANGED <<self, original, env>>, pc \notin {"sanitize", "crashed"}, SlotRemoved
      PROVE  SlotRemoved'
  BY <1>2, <1>4 DEF SlotRemoved
<1>5. ASSUME UNCHANGED <<original, env, backup>>, pc' # "crashed", RestoreUndoes
      PROVE  RestoreUndoes'
  BY <1>5 DEF RestoreUndoes, Restored
<1> QED BY <1>1, <1>2, <1>3, <1>4, <1>5

-----------------------------------------------------------------------------
(* The walk over LD_AUDIT                                                  *)

\* The token at the cursor is an entry of the shim's or nothing of one.
LEMMA TokenIsEntry ==
  ASSUME IInv, pc = "sanitize", More(env, cursor), NEW end, NEW next,
         end = TokenEnd(env, cursor, ":"), next = NextToken(env, end, ":"), NEW own,
         own <=> FileName(SubSeq(env, cursor, end - 1)) = FileName(self)
  PROVE  /\ cursor \in 1..Len(env) /\ end \in cursor..Len(env) + 1
         /\ next \in {end, end + 1} /\ next <= Len(env) + 1 /\ next > cursor
         /\ next = Len(env) + 1 \/ env[next - 1] = ":"
         /\ next = end + 1 => env[end] = ":"
         /\ next = end => end = Len(env) + 1
         /\ own => end > cursor /\ <<cursor, end - 1>> \in OwnEntries
         /\ ~own => \A other \in OwnEntries : other[1] >= next
<1>1. /\ env = original /\ original \in Seq(Char) /\ env \in Seq(Byte) /\ self \in Seq(Byte)
      /\ Len(env) \in Nat /\ \A i \in 1..Len(env) : env[i] # "nul"
      /\ Len(self) \in Nat \ {0} /\ self[Len(self)] # "/"
  BY CharsAreBytes, EmptySeq DEF IInv, Sanitizing, TypeOK, SelfIsFile, Last
<1>2. cursor \in 1..Len(env) /\ (cursor = 1 \/ env[cursor - 1] = ":")
  BY <1>1 DEF More, IInv, Sanitizing
<1>3. /\ end \in cursor..Len(env) + 1
      /\ end <= Len(env) => env[end] = ":"
      /\ \A i \in cursor..end - 1 : env[i] # ":"
  <2>1. cursor \in 1..Len(env) + 1
    BY <1>1, <1>2
  <2>2. /\ end \in cursor..Len(env) + 1
        /\ end <= Len(env) => env[end] \in {":", "nul"}
        /\ \A i \in cursor..end - 1 : env[i] \notin {":", "nul"}
    BY <1>1, <2>1, TokenEndIs
  <2>3. end \in 1..Len(env) + 1
    BY <1>1, <1>2, <2>2
  <2> QED BY <1>1, <2>2, <2>3
<1>4. /\ next \in {end, end + 1} /\ next <= Len(env) + 1 /\ next > cursor
      /\ next = Len(env) + 1 \/ env[next - 1] = ":"
      /\ next = end + 1 => env[end] = ":" /\ end <= Len(env)
      /\ next = end => end = Len(env) + 1
  <2>1. cursor \in Int /\ end \in Int /\ cursor <= end /\ end <= Len(env) + 1 /\ cursor <= Len(env)
    BY <1>1, <1>2, <1>3
  <2>2. CASE end <= Len(env)
    <3>1. next = end + 1 /\ env[end] = ":" /\ next - 1 = end
      BY <1>3, <2>1, <2>2 DEF NextToken, Delimited
    <3> QED BY <1>1, <2>1, <2>2, <3>1
  <2>3. CASE end = Len(env) + 1
    <3>1. next = end
      BY <1>1, <2>1, <2>3 DEF NextToken, Delimited
    <3> QED BY <1>1, <2>1, <2>3, <3>1
  <2> QED BY <1>1, <2>1, <2>2, <2>3
<1> DEFINE token == SubSeq(env, cursor, end - 1)
<1>5. /\ token \in Seq(Byte) /\ Len(token) = end - cursor
      /\ Text(original, <<cursor, end - 1>>) = token
  <2>1. cursor \in 1..Len(env) + 1 /\ end - 1 \in 0..Len(env)
    BY <1>1, <1>2, <1>3
  <2>2. Len(token) = end - cursor
    BY <1>1, <1>2, <1>3, <2>1, TextIs
  <2> QED BY <1>1, <2>1, <2>2, TextIs
<1>6. own <=> Own(token)
  BY <1>1, <1>5, OwnIs
<1> HIDE DEF token
<1>7. ASSUME Own(token) PROVE end > cursor
  <2>1. PICK n \in 0..Len(self) : HasFileName(self, n) /\ HasFileName(token, n)
    BY <1>7 DEF Own
  <2>2. n # 0
    BY <1>1, <2>1 DEF HasFileName
  <2>3. n <= Len(token)
    BY <2>1 DEF HasFileName
  <2>4. end - cursor \in Int /\ n \in Nat \ {0} /\ n <= end - cursor
    BY <1>1, <1>2, <1>3, <1>5, <2>1, <2>2, <2>3
  <2> QED BY <1>1, <1>2, <1>3, <2>4
<1>8. ASSUME end > cursor PROVE <<cursor, end - 1>> \in Runs(original, ":")
  <2>1. IsRun(original, ":", cursor, end - 1)
    BY <1>1, <1>2, <1>3, <1>8 DEF IsRun
  <2> QED BY <2>1, RunsAre
<1>9. own => end > cursor /\ <<cursor, end - 1>> \in OwnEntries
  BY <1>5, <1>6, <1>7, <1>8 DEF OwnEntries
<1>10. ASSUME ~own, NEW other \in OwnEntries PROVE other[1] >= next
  <2> SUFFICES ASSUME other[1] < next PROVE FALSE
    <3>1. IsRun(original, ":", other[1], other[2])
      BY RunsAre DEF OwnEntries
    <3> QED BY <1>1, <1>3, <1>4, <3>1 DEF IsRun
  <2>1. /\ other \in Runs(original, ":") /\ Own(Text(original, other))
        /\ other = <<other[1], other[2]>> /\ IsRun(original, ":", other[1], other[2])
        /\ other[1] >= cursor
    BY RunsAre DEF OwnEntries, IInv, Sanitizing
  <2>2. other[1] < end
    <3>1. other[1] # end
      BY <1>1, <1>3, <2>1 DEF IsRun
    <3>2. other[1] \in Int /\ end \in Int /\ other[1] < end + 1
      BY <1>1, <1>2, <1>3, <1>4, <2>1 DEF IsRun
    <3> QED BY <3>1, <3>2
  <2>3. end > cursor
    <3>1. other[1] \in Int /\ end \in Int /\ cursor \in Int
      BY <1>1, <1>2, <1>3, <2>1 DEF IsRun
    <3> QED BY <2>1, <2>2, <3>1
  <2>4. <<cursor, end - 1>> \in Runs(original, ":")
    BY <1>8, <2>3
  <2>5. other = <<cursor, end - 1>>
    <3>1. /\ other[1] \in Int /\ other[2] \in Int /\ other[1] <= other[2]
          /\ cursor \in Int /\ end \in Int
      BY <1>1, <1>2, <1>3, <2>1 DEF IsRun
    <3>2. \/ other = <<cursor, end - 1>>
          \/ other[2] < <<cursor, end - 1>>[1] \/ <<cursor, end - 1>>[2] < other[1]
      BY <1>1, <2>1, <2>4, RunsApart
    <3>3. ~(other[2] < cursor) /\ ~(end - 1 < other[1])
      BY <2>1, <2>2, <3>1
    <3> QED BY <3>2, <3>3
  <2> QED BY <1>5, <1>6, <1>10, <2>1, <2>5
<1> QED BY <1>2, <1>3, <1>4, <1>9, <1>10

\* An own entry of LD_AUDIT and the byte behind it: what Moved and Backup make
\* of it.
Cut(slot, end, next) ==
  /\ env = original /\ original \in Seq(Char)
  /\ slot \in 1..Len(env) /\ end \in slot + 1..Len(env) + 1
  /\ next \in {end, end + 1} /\ next <= Len(env) + 1
  /\ slot = 1 \/ env[slot - 1] = ":"
  /\ next = Len(env) + 1 \/ env[next - 1] = ":"
  /\ next = end + 1 => env[end] = ":"

LEMMA MovedIs ==
  ASSUME NEW slot, NEW end, NEW next, Cut(slot, end, next)
  PROVE  /\ Moved(slot, next) \in Seq(Byte) /\ Len(Moved(slot, next)) = Len(env)
         /\ \A i \in 1..slot - 1 : Moved(slot, next)[i] = env[i]
         /\ \A i \in next..Len(env) : Moved(slot, next)[i + (slot - next)] = env[i]
         /\ \A i \in Len(env) + (slot - next) + 1..Len(env) : Moved(slot, next)[i] = "nul"
<1>1. /\ env \in Seq(Byte) /\ Len(env) \in Nat /\ slot \in 1..Len(env)
      /\ next \in slot + 1..Len(env) + 1
  BY CharsAreBytes DEF Cut
<1> DEFINE front == SubSeq(env, 1, slot - 1)
           behind == SubSeq(env, next, Len(env))
           nuls == Nuls(next - slot)
<1>2. front \in Seq(Byte) /\ Len(front) = slot - 1 /\ \A i \in 1..slot - 1 : front[i] = env[i]
  BY <1>1, FrontIs
<1>3. /\ behind \in Seq(Byte) /\ Len(behind) = Len(env) - next + 1
      /\ \A i \in 1..Len(env) - next + 1 : behind[i] = env[next + i - 1]
  <2>1. PICK n \in Nat : n = Len(env) - next + 1
    BY <1>1
  <2>2. next \in 1..Len(env) + 1 /\ Len(env) = next + n - 1 /\ Len(env) <= Len(env)
    BY <1>1, <2>1
  <2>3. /\ behind \in Seq(Byte) /\ Len(behind) = n
        /\ \A i \in 1..n : behind[i] = env[next + i - 1]
    BY <1>1, <2>2, SliceIs
  <2> QED BY <2>1, <2>3
<1>4. nuls \in Seq(Byte) /\ Len(nuls) = next - slot /\ \A i \in 1..next - slot : nuls[i] = "nul"
  <2>1. "nul" \in Byte /\ next - slot \in Nat
    BY <1>1 DEF Byte
  <2> QED BY <2>1 DEF Nuls
<1> HIDE DEF front, behind, nuls
<1> DEFINE both == front \o behind
           size == Len(env) + (slot - next)
<1>5. /\ both \in Seq(Byte) /\ Len(both) = size
      /\ \A i \in 1..slot - 1 : both[i] = front[i]
      /\ \A i \in slot..size : both[i] = behind[i - (slot - 1)]
  <2>1. (slot - 1) + (Len(env) - next + 1) = size /\ slot - 1 + 1 = slot
    BY <1>1
  <2> HIDE DEF size
  <2> QED BY <1>2, <1>3, <2>1, ConcatIs
<1> HIDE DEF both
<1> DEFINE all == both \o nuls
<1>6. /\ all \in Seq(Byte) /\ Len(all) = Len(env)
      /\ \A i \in 1..size : all[i] = both[i]
      /\ \A i \in size + 1..Len(env) : all[i] = nuls[i - size]
  <2>1. size + (next - slot) = Len(env)
    BY <1>1
  <2> HIDE DEF size
  <2> QED BY <1>4, <1>5, <2>1, ConcatIs
<1> HIDE DEF all
<1>8. ASSUME NEW i \in 1..slot - 1 PROVE all[i] = env[i]
  <2>1. i \in 1..size
    BY <1>1
  <2> QED BY <1>2, <1>5, <1>6, <2>1
<1>9. ASSUME NEW i \in next..Len(env) PROVE all[i + (slot - next)] = env[i]
  <2> DEFINE j == i + (slot - next)
  <2>1. /\ j \in 1..size /\ j \in slot..size
        /\ j - (slot - 1) \in 1..Len(env) - next + 1
        /\ next + (j - (slot - 1)) - 1 = i
    BY <1>1
  <2> HIDE DEF j
  <2>2. all[j] = behind[j - (slot - 1)]
    BY <1>5, <1>6, <2>1
  <2>3. behind[j - (slot - 1)] = env[next + (j - (slot - 1)) - 1]
    BY <1>3, <2>1
  <2>4. all[j] = env[i]
    BY <2>1, <2>2, <2>3
  <2> QED BY <2>4 DEF j
<1>10. ASSUME NEW i \in Len(env) + (slot - next) + 1..Len(env) PROVE all[i] = "nul"
  <2>1. i \in size + 1..Len(env) /\ i - size \in 1..next - slot
    BY <1>1
  <2> HIDE DEF size
  <2> QED BY <1>4, <1>6, <2>1
<1>11. Moved(slot, next) = all
  BY DEF Moved, all, both, front, behind, nuls
<1> QED BY <1>6, <1>8, <1>9, <1>10, <1>11

\* Without its own entry LD_AUDIT has the names it had in front of it and
\* behind it.
LEMMA CutNames ==
  ASSUME NEW slot, NEW end, NEW next, Cut(slot, end, next), NEW s, NEW size,
         size = Len(env) + (slot - next), s = SubSeq(Moved(slot, next), 1, size)
  PROVE  Joins(s, Runs(s, ":"), original, {run \in Runs(original, ":") : run[2] < slot},
                               original, {run \in Runs(original, ":") : run[1] > end - 1})
<1>1. /\ env = original /\ env \in Seq(Byte) /\ Len(env) \in Nat /\ slot \in 1..Len(env)
      /\ end \in slot + 1..Len(env) + 1
      /\ next \in slot + 1..Len(env) + 1 /\ next \in {end, end + 1}
      /\ next = end + 1 => env[end] = ":"
      /\ slot = 1 \/ env[slot - 1] = ":"
      /\ next = Len(env) + 1 \/ env[next - 1] = ":"
      /\ slot \in Int /\ next \in Int /\ end \in Int
  BY CharsAreBytes DEF Cut
<1> DEFINE moved == Moved(slot, next)
<1>2. /\ moved \in Seq(Byte) /\ Len(moved) = Len(env)
      /\ \A i \in 1..slot - 1 : moved[i] = env[i]
      /\ \A i \in next..Len(env) : moved[i + (slot - next)] = env[i]
  BY MovedIs
<1> HIDE DEF moved
<1>3. size \in 0..Len(env)
  BY <1>1
<1>4. s \in Seq(Byte) /\ Len(s) = size /\ \A i \in 1..size : s[i] = moved[i]
  <2>1. s = SubSeq(moved, 1, size) /\ size \in 0..Len(moved)
    BY <1>2, <1>3 DEF moved
  <2> QED BY <1>2, <2>1, FrontIs
<1>5. ASSUME NEW i \in 1..slot - 1 PROVE s[i] = original[i]
  <2>1. i \in 1..size
    BY <1>1
  <2> QED BY <1>1, <1>2, <1>4, <2>1
<1>6. ASSUME NEW i \in next - 1 + 1..Len(original) PROVE s[i + (slot - next)] = original[i]
  <2>1. i \in next..Len(env) /\ i + (slot - next) \in 1..size
    BY <1>1
  <2> QED BY <1>1, <1>2, <1>4, <2>1
<1>7. Seam(s, ":", original, slot - 1, original, next - 1, slot - next)
  <2>1. slot - 1 \in 0..Len(original) /\ next - 1 \in 0..Len(original) /\ slot - next \in Int
        /\ slot - 1 <= next - 1 + (slot - next)
        /\ Len(s) = Len(original) + (slot - next)
    <3>1. Len(s) = Len(original) + (slot - next)
      BY <1>1, <1>4
    <3> QED BY <1>1, <3>1
  <2>2. \A i \in slot - 1 + 1..next - 1 + (slot - next) : s[i] = ":"
    BY <1>1
  <2>3. slot - 1 = 0 \/ original[slot - 1] = ":"
    BY <1>1
  <2>4. next - 1 = Len(original) \/ original[next - 1] = ":"
    BY <1>1
  <2>5. slot - 1 = 0 \/ s[slot - 1] = ":"
    BY <1>1, <1>5, <2>3
  <2> QED BY <1>1, <1>4, <1>5, <1>6, <2>1, <2>2, <2>3, <2>4, <2>5 DEF Seam
<1>8. Joins(s, Runs(s, ":"), original, {run \in Runs(original, ":") : run[2] <= slot - 1},
                            original, {run \in Runs(original, ":") : run[1] > next - 1})
  BY <1>7, RunsOfJoin
<1>9. ASSUME NEW run \in Runs(original, ":")
      PROVE  /\ run[2] <= slot - 1 <=> run[2] < slot
             /\ run[1] > next - 1 <=> run[1] > end - 1
  <2>1. IsRun(original, ":", run[1], run[2])
    BY RunsAre
  <2>2. run[1] \in 1..Len(original) /\ run[2] \in 1..Len(original) /\ original[run[1]] # ":"
    <3>1. /\ run[1] \in 1..Len(original) /\ run[2] \in 1..Len(original) /\ run[1] <= run[2]
          /\ \A i \in run[1]..run[2] : original[i] # ":"
      BY <2>1 DEF IsRun
    <3>2. run[1] \in run[1]..run[2]
      BY <3>1
    <3> QED BY <3>1, <3>2
  <2>3. next = end + 1 => run[1] # end
    <3>1. next = end + 1 => original[end] = ":"
      BY <1>1
    <3> QED BY <2>2, <3>1
  <2>4. run[1] \in Int /\ run[2] \in Int /\ slot \in Int /\ end \in Int /\ next \in {end, end + 1}
    BY <1>1, <2>2
  <2> QED BY <2>3, <2>4
<1>10. /\ {run \in Runs(original, ":") : run[2] <= slot - 1}
            = {run \in Runs(original, ":") : run[2] < slot}
       /\ {run \in Runs(original, ":") : run[1] > next - 1}
            = {run \in Runs(original, ":") : run[1] > end - 1}
  BY <1>9
<1> QED BY <1>8, <1>10

\* What is kept of the entry is what the move has lost.
LEMMA CutRestores ==
  ASSUME NEW slot, NEW end, NEW next, Cut(slot, end, next), NEW kept,
         kept = Backup(slot, next), NEW moved, moved = Moved(slot, next)
  PROVE  SubSeq(moved, 1, kept.slot - 1) \o kept.data
           \o SubSeq(moved, kept.slot, kept.slot + kept.trailing - 1) = original
<1>1. /\ env = original /\ env \in Seq(Byte) /\ Len(env) \in Nat /\ slot \in 1..Len(env)
      /\ next \in slot + 1..Len(env) + 1 /\ slot \in Int /\ next \in Int
  BY CharsAreBytes DEF Cut
<1>2. /\ moved \in Seq(Byte) /\ Len(moved) = Len(env)
      /\ \A i \in 1..slot - 1 : moved[i] = env[i]
      /\ \A i \in next..Len(env) : moved[i + (slot - next)] = env[i]
  BY MovedIs
<1>3. kept.slot = slot /\ kept.trailing = Len(env) - next + 1
      /\ kept.data = SubSeq(env, slot, next - 1)
  BY DEF Backup
<1> DEFINE last == slot + (Len(env) - next + 1) - 1
           front == SubSeq(moved, 1, slot - 1)
           data == SubSeq(env, slot, next - 1)
           rest == SubSeq(moved, slot, last)
<1>4. front \in Seq(Byte) /\ Len(front) = slot - 1 /\ \A i \in 1..slot - 1 : front[i] = env[i]
  <2>1. slot - 1 \in 0..Len(moved)
    BY <1>1, <1>2
  <2> QED BY <1>2, <2>1, FrontIs
<1>5. /\ data \in Seq(Byte) /\ Len(data) = next - slot
      /\ \A i \in 1..next - slot : data[i] = env[slot + i - 1]
  <2>1. /\ slot \in 1..Len(env) + 1 /\ next - slot \in Nat
        /\ next - 1 = slot + (next - slot) - 1 /\ next - 1 <= Len(env)
    BY <1>1
  <2> QED BY SMTT(30), <1>1, <2>1, SliceIs
<1>6. /\ rest \in Seq(Byte) /\ Len(rest) = Len(env) - next + 1
      /\ \A i \in 1..Len(env) - next + 1 : rest[i] = env[next + i - 1]
  <2>1. /\ slot \in 1..Len(moved) + 1 /\ Len(env) - next + 1 \in Nat /\ last <= Len(moved)
    BY <1>1, <1>2
  <2>2. /\ rest \in Seq(Byte) /\ Len(rest) = Len(env) - next + 1
        /\ \A i \in 1..Len(env) - next + 1 : rest[i] = moved[slot + i - 1]
    BY <1>2, <2>1, SliceIs
  <2>3. ASSUME NEW i \in 1..Len(env) - next + 1 PROVE moved[slot + i - 1] = env[next + i - 1]
    <3>1. next + i - 1 \in next..Len(env) /\ slot + i - 1 = (next + i - 1) + (slot - next)
      BY <1>1
    <3> QED BY <1>2, <3>1
  <2> QED BY <2>2, <2>3
<1>7. kept.slot + kept.trailing - 1 = last
  BY <1>3
<1> HIDE DEF front, data, rest, last
<1> DEFINE both == front \o data
<1>8. /\ both \in Seq(Byte) /\ Len(both) = next - 1
      /\ \A i \in 1..slot - 1 : both[i] = front[i]
      /\ \A i \in slot..next - 1 : both[i] = data[i - (slot - 1)]
  <2>1. slot - 1 + (next - slot) = next - 1 /\ slot - 1 + 1 = slot
    BY <1>1
  <2> QED BY <1>4, <1>5, <2>1, ConcatIs
<1> HIDE DEF both
<1>9. ASSUME NEW i \in 1..next - 1 PROVE both[i] = env[i]
  <2>1. CASE i <= slot - 1
    <3>1. i \in 1..slot - 1
      BY <1>1, <2>1
    <3> QED BY <1>4, <1>8, <3>1
  <2>2. CASE ~(i <= slot - 1)
    <3>1. /\ i \in slot..next - 1
          /\ i - (slot - 1) \in 1..next - slot /\ slot + (i - (slot - 1)) - 1 = i
      BY <1>1, <2>2
    <3> QED BY <1>5, <1>8, <3>1
  <2> QED BY <2>1, <2>2
<1> DEFINE all == both \o rest
<1>10. /\ all \in Seq(Byte) /\ Len(all) = Len(env)
       /\ \A i \in 1..next - 1 : all[i] = both[i]
       /\ \A i \in next..Len(env) : all[i] = rest[i - (next - 1)]
  <2>1. PICK m, n : m = Len(both) /\ n = Len(rest)
    OBVIOUS
  <2>2. m = next - 1 /\ m + 1 = next /\ m + n = Len(env)
    BY <1>1, <1>6, <1>8, <2>1
  <2>6. both \in Seq(Byte) /\ rest \in Seq(Byte)
    BY <1>6, <1>8
  <2>3. /\ all \in Seq(Byte) /\ Len(all) = m + n
        /\ \A i \in 1..m : all[i] = both[i]
        /\ \A i \in m + 1..m + n : all[i] = rest[i - m]
    BY <2>1, <2>6, ConcatIs
  <2> HIDE DEF all
  <2>4. ASSUME NEW i \in 1..next - 1 PROVE all[i] = both[i]
    BY <2>2, <2>3
  <2>5. ASSUME NEW i \in next..Len(env) PROVE all[i] = rest[i - (next - 1)]
    <3>1. i \in m + 1..m + n /\ i - m = i - (next - 1)
      BY <2>2
    <3> QED BY <2>3, <3>1
  <2> QED BY <2>2, <2>3, <2>4, <2>5
<1> HIDE DEF all
<1>11. ASSUME NEW i \in 1..Len(env) PROVE all[i] = env[i]
  <2>1. CASE i <= next - 1
    <3>1. i \in 1..next - 1
      BY <1>1, <2>1
    <3> QED BY <1>9, <1>10, <3>1
  <2>2. CASE ~(i <= next - 1)
    <3>1. /\ i \in next..Len(env)
          /\ i - (next - 1) \in 1..Len(env) - next + 1 /\ next + (i - (next - 1)) - 1 = i
      BY <1>1, <2>2
    <3> QED BY <1>6, <1>10, <3>1
  <2> QED BY <2>1, <2>2
<1>12. all = env
  BY <1>1, <1>10, <1>11, SeqEqual
<1> QED BY <1>1, <1>3, <1>7, <1>12 DEF all, both, front, data, rest

\* Taking the shim's entry out of LD_AUDIT, or passing another one over.
LEMMA SanitizeTokenKeeps ==
  ASSUME IInv, SanitizeToken
  PROVE  /\ env' \in Seq(Byte) /\ Len(env') = Len(env)
         /\ cursor' \in 1..Len(env) + 1 /\ pc' \in {"sanitize", "prefix"}
         /\ pc' = "prefix" => cursor' = 1
         /\ Len(backup'.data) <= PathMax
         /\ Sanitizing' /\ SlotRemoved' /\ RestoreUndoes'
<1> DEFINE end == TokenEnd(env, cursor, ":")
           next == NextToken(env, end, ":")
           own == FileName(SubSeq(env, cursor, end - 1)) = FileName(self)
<1>1. /\ pc = "sanitize" /\ More(env, cursor)
      /\ UNCHANGED <<self, original, match, outPath, dir, library>>
      /\ \/ ~own /\ cursor' = next /\ UNCHANGED <<env, backup, pc>>
         \/ /\ own /\ FitsBackup(cursor, next)
            /\ backup' = Backup(cursor, next) /\ env' = Moved(cursor, next)
            /\ cursor' = 1 /\ pc' = "prefix"
  BY DEF SanitizeToken
<1>2. /\ env = original /\ original \in Seq(Char) /\ env \in Seq(Byte)
      /\ Len(env) \in Nat /\ \A i \in 1..Len(env) : env[i] # "nul"
      /\ \A entry \in OwnEntries : entry[1] >= cursor
      /\ cursor = 1 \/ cursor = Len(env) + 1 \/ env[cursor - 1] = ":"
      /\ backup = NoBackup
  BY <1>1, CharsAreBytes DEF IInv, TypeOK, Sanitizing
<1>3. /\ cursor \in 1..Len(env) /\ end \in cursor..Len(env) + 1
      /\ next \in {end, end + 1} /\ next <= Len(env) + 1 /\ next > cursor
      /\ next = Len(env) + 1 \/ env[next - 1] = ":"
      /\ next = end + 1 => env[end] = ":"
      /\ own => end > cursor /\ <<cursor, end - 1>> \in OwnEntries
      /\ ~own => \A other \in OwnEntries : other[1] >= next
  <2> HIDE DEF own
  <2>1. own <=> FileName(SubSeq(env, cursor, end - 1)) = FileName(self)
    BY DEF own
  <2> QED BY <1>1, <2>1, TokenIsEntry
<1>4. OwnEntries' = OwnEntries
  BY <1>1, StringsStay
<1>5. CASE ~own
  <2> HIDE DEF end, next, own
  <2>1. cursor' = next /\ UNCHANGED <<env, backup, pc>>
    BY <1>1, <1>5
  <2>2. Sanitizing'
    BY <1>1, <1>2, <1>3, <1>4, <1>5, <2>1 DEF Sanitizing
  <2>3. Len(backup'.data) <= PathMax
    BY <2>1 DEF IInv, TypeOK
  <2> QED BY <1>1, <1>2, <1>3, <2>1, <2>2, <2>3 DEF SlotRemoved, RestoreUndoes
<1>6. CASE own
  <2> HIDE DEF end, next, own
  <2>1. /\ backup' = Backup(cursor, next) /\ env' = Moved(cursor, next)
        /\ cursor' = 1 /\ pc' = "prefix"
    BY <1>1, <1>6
  <2>10. Len(backup'.data) <= PathMax
    <3>1. next - cursor <= PathMax
      BY <1>1, <1>6 DEF FitsBackup
    <3>2. /\ cursor \in 1..Len(env) + 1 /\ next - cursor \in Nat
          /\ next - 1 = cursor + (next - cursor) - 1 /\ next - 1 <= Len(env)
      BY <1>2, <1>3
    <3>3. Len(SubSeq(env, cursor, next - 1)) = next - cursor
      BY <1>2, <3>2, SliceIs
    <3>4. backup'.data = SubSeq(env, cursor, next - 1)
      BY <2>1 DEF Backup
    <3> QED BY <3>1, <3>3, <3>4
  <2>2. Cut(cursor, end, next)
    <3>1. cursor \in 1..Len(env) /\ end \in cursor + 1..Len(env) + 1
      BY <1>2, <1>3, <1>6
    <3> QED BY <1>2, <1>3, <3>1 DEF Cut
  <2>3. /\ env' \in Seq(Byte) /\ Len(env') = Len(env)
        /\ \A i \in 1..cursor - 1 : env'[i] = env[i]
        /\ \A i \in next..Len(env) : env'[i + (cursor - next)] = env[i]
        /\ \A i \in Len(env) + (cursor - next) + 1..Len(env) : env'[i] = "nul"
    BY <2>1, <2>2, MovedIs
  <2>4. PICK size : size = Len(env) + (cursor - next)
    OBVIOUS
  <2>5. size \in 0..Len(env) /\ cursor \in Int /\ next \in Int /\ cursor - 1 <= size
    BY <1>2, <1>3, <2>4
  <2>6. ASSUME NEW i \in 1..Len(env) PROVE env'[i] = "nul" <=> i > size
    <3>1. CASE i > size
      BY <1>2, <2>3, <2>4, <2>5, <3>1
    <3>2. CASE i <= cursor - 1
      BY <1>2, <2>3, <2>5, <3>2
    <3>3. CASE i >= cursor /\ i <= size
      <4>1. /\ i - (cursor - next) \in next..Len(env)
            /\ i - (cursor - next) \in 1..Len(env)
            /\ (i - (cursor - next)) + (cursor - next) = i
        BY <1>2, <1>3, <2>4, <2>5, <3>3
      <4>2. env'[i] = env[i - (cursor - next)]
        BY <2>3, <4>1
      <4> QED BY <1>2, <2>5, <3>3, <4>1, <4>2
    <3> QED BY <2>5, <3>1, <3>2, <3>3
  <2>7. Joins(SubSeq(env', 1, size), Runs(SubSeq(env', 1, size), ":"),
              original, {run \in Runs(original, ":") : run[2] < cursor},
              original, {run \in Runs(original, ":") : run[1] > end - 1})
    BY <2>1, <2>2, <2>4, CutNames
  <2>8. SlotRemoved'
    <3> DEFINE entry == <<cursor, end - 1>>
    <3>1. entry \in OwnEntries /\ entry[1] = cursor /\ entry[2] = end - 1
      BY <1>3, <1>6
    <3>2. size \in 0..Len(env') /\ original' = original /\ Len(env') = Len(env)
      BY <1>1, <2>3, <2>5
    <3>3. \A i \in 1..Len(env') : env'[i] = "nul" <=> i > size
      BY <2>6, <3>2
    <3>4. \A other \in OwnEntries : entry[1] <= other[1]
      <4> TAKE other \in OwnEntries
      <4>1. IsRun(original, ":", other[1], other[2])
        BY RunsAre DEF OwnEntries
      <4> QED BY <1>2, <1>3, <3>1, <4>1 DEF IsRun
    <3>5. /\ {run \in Runs(original, ":") : run[2] < cursor}
               = {run \in Runs(original, ":") : run[2] < entry[1]}
          /\ {run \in Runs(original, ":") : run[1] > end - 1}
               = {run \in Runs(original, ":") : run[1] > entry[2]}
      BY <3>1
    <3>6. Joins(SubSeq(env', 1, size), Runs(SubSeq(env', 1, size), ":"),
                original, {run \in Runs(original, ":") : run[2] < entry[1]},
                original, {run \in Runs(original, ":") : run[1] > entry[2]})
      BY <2>7, <3>5
    <3> HIDE DEF entry
    <3> QED BY <1>4, <3>1, <3>2, <3>3, <3>4, <3>6 DEF SlotRemoved
  <2>9. Restored' = original
    <3>1. backup' = Backup(cursor, next) /\ env' = Moved(cursor, next)
      BY <2>1
    <3> QED BY <2>2, <3>1, CutRestores DEF Restored
  <2> QED BY <1>1, <1>2, <2>1, <2>3, <2>8, <2>9, <2>10 DEF Sanitizing, RestoreUndoes
<1> QED BY <1>5, <1>6

\* An entry that cannot be kept is the first of the shim's, and too long.
LEMMA SanitizeOverflowsKeeps == IInv /\ SanitizeOverflows => RestoreUndoes'
<1> SUFFICES ASSUME IInv, SanitizeOverflows PROVE RestoreUndoes'
  OBVIOUS
<1> DEFINE end == TokenEnd(env, cursor, ":")
           next == NextToken(env, end, ":")
           own == FileName(SubSeq(env, cursor, end - 1)) = FileName(self)
<1>1. /\ pc = "sanitize" /\ More(env, cursor) /\ own /\ ~FitsBackup(cursor, next)
      /\ UNCHANGED <<self, original, env, backup>>
  BY DEF SanitizeOverflows
<1>2. /\ env = original /\ Len(env) \in Nat /\ backup = NoBackup
      /\ \A entry \in OwnEntries : entry[1] >= cursor
  BY <1>1, CharsAreBytes DEF IInv, TypeOK, Sanitizing
<1>3. /\ cursor \in 1..Len(env) /\ end \in cursor..Len(env) + 1
      /\ next \in {end, end + 1} /\ next <= Len(env) + 1 /\ next > cursor
      /\ next = end => end = Len(env) + 1
      /\ <<cursor, end - 1>> \in OwnEntries
  <2> HIDE DEF own
  <2>1. own <=> FileName(SubSeq(env, cursor, end - 1)) = FileName(self)
    BY DEF own
  <2> QED BY <1>1, <2>1, TokenIsEntry
<1> HIDE DEF end, next, own
<1> DEFINE entry == <<cursor, end - 1>>
<1>4. entry \in OwnEntries /\ entry[1] = cursor /\ entry[2] = end - 1
  BY <1>3
<1> HIDE DEF entry
<1>5. SlotLength(original, entry) > PathMax
  <2>1. next - cursor > PathMax
    <3>1. next \in Int /\ cursor \in Int /\ PathMax \in Int
      BY <1>2, <1>3, PathMaxAssumption
    <3> QED BY <1>1, <3>1 DEF FitsBackup
  <2>2. SlotLength(original, entry) = next - cursor
    <3>1. SlotLength(original, entry)
            = end - 1 - cursor + (IF end - 1 = Len(env) THEN 1 ELSE 2)
      BY <1>2, <1>4 DEF SlotLength
    <3>2. CASE next = end
      BY <1>2, <1>3, <3>1, <3>2
    <3>3. CASE next = end + 1
      BY <1>2, <1>3, <3>1, <3>3
    <3> QED BY <1>3, <3>2, <3>3
  <2> QED BY <2>1, <2>2
<1>6. \A other \in OwnEntries : entry[1] <= other[1]
  <2> TAKE other \in OwnEntries
  <2>1. IsRun(original, ":", other[1], other[2])
    BY RunsAre DEF OwnEntries
  <2> QED BY <1>2, <1>3, <1>4, <2>1 DEF IsRun
<1>7. OwnEntries' = OwnEntries
  BY <1>1, StringsStay
<1>8. \E first \in OwnEntries' :
        /\ \A other \in OwnEntries' : first[1] <= other[1]
        /\ SlotLength(original', first) > PathMax
  BY <1>1, <1>4, <1>5, <1>6, <1>7
<1> QED BY <1>1, <1>2, <1>8 DEF RestoreUndoes

\* A walk that ends has passed no entry of the shim's.
LEMMA SanitizeEndsKeeps ==
  ASSUME IInv, SanitizeEnds
  PROVE  Sanitizing' /\ SlotRemoved' /\ RestoreUndoes'
<1>1. /\ pc = "sanitize" /\ ~More(env, cursor) /\ pc' = "prefix"
      /\ UNCHANGED <<self, original, env, backup>>
  BY DEF SanitizeEnds
<1>2. /\ env = original /\ Len(original) \in Nat /\ \A i \in 1..Len(env) : env[i] # "nul"
      /\ cursor \in 1..Len(original) + 1 /\ backup = NoBackup
      /\ \A own \in OwnEntries : own[1] >= cursor
  BY <1>1, CharsAreBytes DEF IInv, TypeOK, Sanitizing
<1>3. cursor = Len(original) + 1
  BY <1>1, <1>2 DEF More
<1>4. OwnEntries = {}
  <2> SUFFICES ASSUME NEW own \in OwnEntries PROVE FALSE
    OBVIOUS
  <2>1. IsRun(original, ":", own[1], own[2])
    BY RunsAre DEF OwnEntries
  <2> QED BY <1>2, <1>3, <2>1 DEF IsRun
<1>5. OwnEntries' = {}
  BY <1>1, <1>4, StringsStay
<1> QED BY <1>1, <1>2, <1>5 DEF Sanitizing, SlotRemoved, RestoreUndoes

-----------------------------------------------------------------------------
(* The walk over the shim's path                                           *)

\* What path_prefix compares is whether a component begins with the prefix.
LEMMA StartsWithIs ==
  ASSUME NEW s \in Seq(Byte), NEW from \in 1..Len(s), NEW end \in from..Len(s) + 1
  PROVE  StartsWith(s, from, end) <=> end > from /\ IsPrefix(Prefix, Text(s, <<from, end - 1>>))
<1>1. /\ Prefix \in Seq(Byte) /\ Len(Prefix) \in Nat \ {0} /\ Len(s) \in Nat
      /\ from \in Int /\ end \in Int
  BY NamesAssumption, CharsAreBytes, EmptySeq
<1> DEFINE text == SubSeq(s, from, end - 1)
           size == Len(Prefix)
           front == SubSeq(s, from, from + size - 1)
<1>2. /\ text \in Seq(Byte) /\ Len(text) = end - from
      /\ \A i \in 1..end - from : text[i] = s[from + i - 1]
      /\ Text(s, <<from, end - 1>>) = text
  <2>1. PICK n \in Nat : n = end - from
    BY <1>1
  <2>2. from \in 1..Len(s) + 1 /\ end - 1 = from + n - 1 /\ end - 1 <= Len(s)
    BY <1>1, <2>1
  <2>3. /\ text \in Seq(Byte) /\ Len(text) = n
        /\ \A i \in 1..n : text[i] = s[from + i - 1]
    BY <2>2, SliceIs
  <2> QED BY <2>1, <2>3 DEF Text
<1>3. ASSUME size <= end - from
      PROVE  /\ front \in Seq(Byte) /\ Len(front) = size
             /\ \A i \in 1..size : front[i] = s[from + i - 1]
  <2>1. /\ from \in 1..Len(s) + 1 /\ size \in Nat /\ from + size - 1 <= Len(s)
    BY <1>1, <1>3
  <2>2. PICK y : y = from + size - 1
    OBVIOUS
  <2> QED BY <2>1, <2>2, SliceIs
<1> HIDE DEF text, front
<1>4. IsPrefix(Prefix, text) <=> size <= end - from /\ \A i \in 1..size : Prefix[i] = text[i]
  <2>1. ASSUME size <= end - from PROVE SubSeq(text, 1, size) \in Seq(Byte)
          /\ Len(SubSeq(text, 1, size)) = size
          /\ \A i \in 1..size : SubSeq(text, 1, size)[i] = text[i]
    <3>1. size \in 0..Len(text)
      BY <1>1, <1>2, <2>1
    <3> QED BY <1>2, <3>1, FrontIs
  <2>2. ASSUME IsPrefix(Prefix, text) PROVE size <= end - from /\ \A i \in 1..size : Prefix[i] = text[i]
    <3>1. size <= end - from /\ Prefix = SubSeq(text, 1, size)
      BY <1>1, <1>2, <2>2 DEF IsPrefix
    <3> QED BY <2>1, <3>1
  <2>3. ASSUME size <= end - from, \A i \in 1..size : Prefix[i] = text[i] PROVE IsPrefix(Prefix, text)
    <3>1. Prefix = SubSeq(text, 1, size)
      BY <1>1, <2>1, <2>3, SeqEqual
    <3> QED BY <1>1, <1>2, <2>3, <3>1 DEF IsPrefix
  <2> QED BY <2>2, <2>3
<1>5. ASSUME size <= end - from
      PROVE  front = Prefix <=> \A i \in 1..size : Prefix[i] = text[i]
  <2>1. \A i \in 1..size : front[i] = text[i]
    BY <1>1, <1>2, <1>3, <1>5
  <2>2. ASSUME \A i \in 1..size : Prefix[i] = text[i] PROVE front = Prefix
    BY <1>1, <1>3, <1>5, <2>1, <2>2, SeqEqual
  <2> QED BY <2>1, <2>2
<1>6. StartsWith(s, from, end) <=> end - from >= size /\ front = Prefix
  BY DEF StartsWith, front
<1> QED BY <1>1, <1>2, <1>4, <1>5, <1>6

\* The name of a library directory lies within the path.
LEMMA LibIs ==
  ASSUME self \in Seq(Byte), NEW lib \in LibraryDirs
  PROVE  /\ lib = <<lib[1], lib[2]>> /\ IsRun(self, "/", lib[1], lib[2])
         /\ lib[1] \in 1..Len(self) /\ lib[2] \in 1..Len(self) /\ lib[1] <= lib[2]
         /\ lib[2] < Len(self) /\ self[lib[2] + 1] = "/"
         /\ lib[1] > 1 => self[lib[1] - 1] = "/"
         /\ \A i \in lib[1]..lib[2] : self[i] # "/"
         /\ IsPrefix(Prefix, Text(self, lib)) /\ Len(self) \in Nat
<1>1. lib = <<lib[1], lib[2]>> /\ IsRun(self, "/", lib[1], lib[2])
  BY RunsAre DEF LibraryDirs
<1>2. lib[2] < Len(self) /\ IsPrefix(Prefix, Text(self, lib)) /\ Len(self) \in Nat
  BY DEF LibraryDirs
<1> QED BY <1>1, <1>2 DEF IsRun

\* The walk comes to the next component, and match is right up to there.
LEMMA PrefixComponentKeeps ==
  ASSUME IInv, PrefixComponent
  PROVE  /\ Prefixing' /\ match' \in -1..Len(self) /\ cursor' \in 1..Len(self)
         /\ pc' \in {"prefix", "join"}
<1> DEFINE end == TokenEnd(self, cursor, "/")
<1>1. /\ pc = "prefix" /\ More(self, cursor) /\ UNCHANGED self
      /\ \/ /\ Delimited(self, end, "/") /\ cursor' = NextToken(self, end, "/")
            /\ match' = IF StartsWith(self, cursor, end) THEN MatchAt(cursor) ELSE match
            /\ pc' = pc
         \/ /\ ~Delimited(self, end, "/") /\ pc' = "join"
            /\ UNCHANGED <<cursor, match>>
  BY DEF PrefixComponent
<1>2. /\ self \in Seq(Char) /\ self \in Seq(Byte) /\ Len(self) \in Nat \ {0}
      /\ self[Len(self)] # "/" /\ \A i \in 1..Len(self) : self[i] # "nul"
      /\ match \in -1..Len(self)
  BY CharsAreBytes, EmptySeq DEF IInv, TypeOK, SelfIsFile, Last
<1>3. /\ cursor \in 1..Len(self)
      /\ cursor = 1 \/ self[cursor - 1] = "/"
      /\ Matched(cursor)
  BY <1>1 DEF IInv, Prefixing
<1>4. /\ cursor \in 1..Len(self) /\ end \in cursor..Len(self) + 1
      /\ end <= Len(self) => self[end] = "/"
      /\ \A i \in cursor..end - 1 : self[i] # "/"
  <2>1. cursor \in 1..Len(self)
    BY <1>1 DEF IInv, Prefixing
  <2>2. /\ end \in cursor..Len(self) + 1
        /\ end <= Len(self) => self[end] \in {"/", "nul"}
        /\ \A i \in cursor..end - 1 : self[i] \notin {"/", "nul"}
    BY <1>2, <2>1, TokenEndIs
  <2>3. end \in 1..Len(self) + 1
    BY <1>2, <2>1, <2>2
  <2> HIDE DEF end
  <2> QED BY <1>2, <2>1, <2>2, <2>3
<1> HIDE DEF end
<1>5. LibraryDirs' = LibraryDirs
  BY <1>1, StringsStay
<1>6. ASSUME NEW lib \in LibraryDirs, lib[1] >= cursor, lib[1] <= end
      PROVE  lib = <<cursor, end - 1>> /\ StartsWith(self, cursor, end) /\ end <= Len(self)
  <2>1. /\ lib = <<lib[1], lib[2]>> /\ lib[1] \in 1..Len(self) /\ lib[2] \in 1..Len(self)
        /\ lib[1] <= lib[2] /\ lib[2] < Len(self) /\ self[lib[2] + 1] = "/"
        /\ lib[1] > 1 => self[lib[1] - 1] = "/"
        /\ \A i \in lib[1]..lib[2] : self[i] # "/"
        /\ IsPrefix(Prefix, Text(self, lib))
    BY <1>2, LibIs
  <2>2. lib[1] # end
    BY <1>2, <1>4, <2>1
  <2>3. ~(lib[1] > cursor)
    <3> SUFFICES ASSUME lib[1] > cursor PROVE FALSE
      OBVIOUS
    <3>1. lib[1] - 1 \in cursor..end - 1 /\ lib[1] > 1
      BY <1>2, <1>4, <1>6, <2>1, <2>2
    <3> QED BY <1>4, <2>1, <3>1
  <2>4. ~(lib[2] >= end)
    BY <1>2, <1>4, <1>6, <2>1
  <2>5. ~(lib[2] < end - 1)
    <3> SUFFICES ASSUME lib[2] < end - 1 PROVE FALSE
      OBVIOUS
    <3>1. lib[2] + 1 \in cursor..end - 1
      BY <1>2, <1>4, <1>6, <2>1
    <3> QED BY <1>4, <2>1, <3>1
  <2>6. lib[1] = cursor /\ lib[2] = end - 1 /\ end > cursor /\ end <= Len(self)
    BY <1>2, <1>4, <1>6, <2>1, <2>2, <2>3, <2>4, <2>5
  <2>7. lib = <<cursor, end - 1>>
    BY <2>1, <2>6
  <2>8. StartsWith(self, cursor, end)
    BY <1>2, <1>4, <2>1, <2>6, <2>7, StartsWithIs
  <2> QED BY <2>6, <2>7, <2>8
<1>7. CASE end <= Len(self)
  <2>1. Delimited(self, end, "/") /\ NextToken(self, end, "/") = end + 1 /\ end < Len(self)
    BY <1>2, <1>4, <1>7 DEF Delimited, NextToken
  <2>2. /\ cursor' = end + 1 /\ pc' = "prefix" /\ self[cursor' - 1] = "/"
        /\ match' = IF StartsWith(self, cursor, end) THEN MatchAt(cursor) ELSE match
    BY <1>1, <1>4, <1>7, <2>1
  <2>3. CASE StartsWith(self, cursor, end)
    <3> DEFINE own == <<cursor, end - 1>>
    <3>1. end > cursor /\ IsPrefix(Prefix, Text(self, own))
      BY <1>2, <1>4, <2>3, StartsWithIs
    <3>2. own \in Runs(self, "/")
      <4>1. IsRun(self, "/", cursor, end - 1)
        BY <1>2, <1>3, <1>4, <1>7, <3>1 DEF IsRun
      <4> QED BY <4>1, RunsAre
    <3>3. own \in LibraryDirs /\ own[1] = cursor
      BY <1>2, <1>4, <2>1, <3>1, <3>2 DEF LibraryDirs
    <3>4. match' = cursor - 2
      BY <2>2, <2>3 DEF MatchAt
    <3>5. ASSUME NEW lib \in LibraryDirs, lib[1] < end + 1
          PROVE  lib[1] \in 1..Len(self) /\ lib[1] <= cursor
      <4>1. lib[1] \in 1..Len(self)
        BY <1>2, LibIs
      <4> QED BY <1>2, <1>4, <1>6, <3>5, <4>1
    <3> HIDE DEF own
    <3>6. Matched(cursor)'
      <4>1. CASE cursor = 1
        <5>1. \A lib \in LibraryDirs : lib[1] < end + 1 => lib[1] = 1
          BY <3>5, <4>1
        <5> QED BY <1>5, <2>2, <3>4, <4>1, <5>1 DEF Matched
      <4>2. CASE cursor > 1
        <5>1. own[1] > 1 /\ own[1] < end + 1
          BY <1>4, <3>1, <3>3, <4>2
        <5>2. \A lib \in LibraryDirs : lib[1] < end + 1 => lib[1] <= own[1]
          BY <3>3, <3>5
        <5> QED BY <1>5, <2>2, <3>3, <3>4, <5>1, <5>2 DEF Matched
      <4> QED BY <1>4, <4>1, <4>2
    <3>7. match' \in -1..Len(self) /\ cursor' \in 1..Len(self)
      BY <1>2, <1>4, <2>1, <2>2, <3>4
    <3> QED BY <1>1, <2>2, <3>6, <3>7 DEF Prefixing
  <2>4. CASE ~StartsWith(self, cursor, end)
    <3>1. match' = match
      BY <2>2, <2>4
    <3>2. ASSUME NEW lib \in LibraryDirs, lib[1] < end + 1 PROVE lib[1] < cursor
      <4>1. lib[1] \in 1..Len(self)
        BY <1>2, LibIs
      <4> QED BY <1>4, <1>6, <2>4, <3>2, <4>1
    <3>3. \A lib \in LibraryDirs : lib[1] \in 1..Len(self) /\ (lib[1] < cursor => lib[1] < end + 1)
      <4> TAKE lib \in LibraryDirs
      <4>1. lib[1] \in 1..Len(self)
        BY <1>2, LibIs
      <4> QED BY <1>4, <4>1
    <3>4. Matched(cursor)'
      BY <1>3, <1>5, <2>2, <3>1, <3>2, <3>3 DEF Matched
    <3>5. match' \in -1..Len(self) /\ cursor' \in 1..Len(self)
      BY <1>2, <1>4, <2>1, <2>2, <3>1
    <3> QED BY <1>1, <2>2, <3>4, <3>5 DEF Prefixing
  <2> QED BY <2>3, <2>4
<1>8. CASE end = Len(self) + 1
  <2>1. ~Delimited(self, end, "/")
    BY <1>2, <1>8 DEF Delimited
  <2>2. pc' = "join" /\ cursor' = cursor /\ match' = match
    BY <1>1, <2>1
  <2>3. ASSUME NEW lib \in LibraryDirs
        PROVE  lib[1] \in 1..Len(self) /\ lib[1] < cursor /\ lib[1] < Len(self) + 1
    <3>1. lib[1] \in 1..Len(self)
      BY <1>2, LibIs
    <3> QED BY <1>2, <1>4, <1>6, <1>8, <3>1
  <2>4. Matched(Len(self) + 1)'
    BY <1>3, <1>1, <1>5, <2>2, <2>3 DEF Matched
  <2> QED BY <1>1, <1>2, <1>4, <2>2, <2>4 DEF Prefixing
<1> QED BY <1>2, <1>4, <1>7, <1>8

-----------------------------------------------------------------------------
(* The two joins                                                           *)

LEMMA HelperIs ==
  Helper \in Seq(Char) \ {<<>>} /\ Helper \in Seq(Byte) /\ Len(Helper) \in Nat \ {0} /\ Helper[1] = "/"
  BY NamesAssumption, CharsAreBytes, EmptySeq

\* Every name of a string is behind its position 0.
LEMMA RunsInside ==
  ASSUME NEW s \in Seq(Byte), NEW delim, NEW run \in Runs(s, delim)
  PROVE  /\ run = <<run[1], run[2]>> /\ run[1] \in 1..Len(s) /\ run[2] \in 1..Len(s)
         /\ run[1] <= run[2] /\ s[run[1]] # delim /\ s[run[2]] # delim /\ Len(s) \in Nat
<1>1. run = <<run[1], run[2]>> /\ IsRun(s, delim, run[1], run[2]) /\ Len(s) \in Nat
  BY RunsAre
<1> QED BY <1>1 DEF IsRun

\* The directory in front of a library directory, with the helper appended.
LEMMA HelperBeside ==
  ASSUME self \in Seq(Char), NEW lib \in LibraryDirs, lib[1] > 2, NEW path,
         path = PathJoin(SubSeq(self, 1, lib[1] - 2), Helper)
  PROVE  /\ path \in Seq(Char) /\ path # <<>> /\ Len(path) = lib[1] - 2 + Len(Helper)
         /\ Joins(path, Parts(path), self, {part \in Parts(self) : part[2] < lib[1]},
                  Helper, Parts(Helper))
         /\ Absolute(path) <=> Absolute(self)
<1>1. /\ self \in Seq(Byte) /\ Len(self) \in Nat /\ \A i \in 1..Len(self) : self[i] \in Char
  BY CharsAreBytes
<1>2. lib[1] \in 1..Len(self) /\ self[lib[1] - 1] = "/"
  BY <1>1, LibIs
<1>3. PICK n \in Nat \ {0} : n = lib[1] - 2 /\ lib[1] = n + 2 /\ n <= Len(self) /\ self[n + 1] = "/"
  BY <1>1, <1>2
<1> DEFINE front == SubSeq(self, 1, n)
<1>4. /\ front \in Seq(Char) /\ Len(front) = n /\ \A i \in 1..n : front[i] = self[i]
      /\ front # <<>> /\ Parent(front) = front
  <2>1. n \in 0..Len(self)
    BY <1>1, <1>3
  <2>2. Len(front) = n /\ \A i \in 1..n : front[i] = self[i]
    BY <1>1, <2>1, FrontIs
  <2>3. front \in Seq(Char)
    <3>1. \A i \in 1..n : self[i] \in Char
      BY <1>1, <1>3
    <3> QED BY <1>1, <3>1, SubSeqProperties
  <2> HIDE DEF front
  <2>4. front # <<>>
    BY <1>3, <2>2, EmptySeq
  <2> QED BY <2>2, <2>3, <2>4 DEF Parent
<1>5. path = PathJoin(front, Helper)
  BY <1>3
<1> HIDE DEF front
<1>6. /\ path \in Seq(Char) /\ Len(path) = n + Len(Helper)
      /\ \A i \in 1..n : path[i] = self[i]
      /\ \A i \in 1..Len(Helper) : path[i + n] = Helper[i]
  <2>1. PICK gap \in {0, 1} :
           /\ gap = 0 <=> Last(front) = "/" \/ Helper[1] = "/"
           /\ path \in Seq(Char) /\ Len(path) = Len(front) + gap + Len(Helper)
           /\ \A i \in 1..Len(front) : path[i] = front[i]
           /\ \A i \in 1..Len(Helper) : path[i + (Len(front) + gap)] = Helper[i]
    <3>1. front \in Seq(Char) /\ Helper \in Seq(Char) \ {<<>>} /\ front = Parent(front)
      BY <1>4, HelperIs
    <3>2. IsJoin(path, front, Helper)
      BY <1>5, <3>1, JoinIs
    <3> QED BY <3>2 DEF IsJoin
  <2>2. gap = 0 /\ n + gap = n /\ n + gap + Len(Helper) = n + Len(Helper)
    BY <1>3, <2>1, HelperIs
  <2> QED BY <1>4, <2>1, <2>2
<1>7. path \in Seq(Byte) /\ path # <<>> /\ path[1] = self[1] /\ path[n + 1] = "/"
  <2>1. path[1 + n] = Helper[1] /\ 1 + n = n + 1
    BY SMTT(30), <1>3, <1>6, HelperIs
  <2>2. Len(path) # 0
    BY <1>3, <1>6, HelperIs
  <2>3. path # <<>> /\ path \in Seq(Byte)
    BY <1>6, <2>2, EmptySeq, CharsAreBytes
  <2>4. path[1] = self[1]
    <3>1. 1 \in 1..n
      BY <1>3
    <3> QED BY <1>6, <3>1
  <2> QED BY <2>1, <2>3, <2>4, HelperIs
<1>8. Seam(path, "/", self, n, Helper, 0, n)
  <2>1. 0 + n = n /\ 0 + 1 = 1 /\ n \in Int /\ n <= 0 + n /\ n \in 0..Len(self) /\ 0 \in 0..Len(Helper)
        /\ Len(path) = Len(Helper) + n
    BY <1>1, <1>3, <1>6, HelperIs
  <2>2. \A i \in n + 1..0 + n : path[i] = "/"
    BY <1>3
  <2> QED BY <1>1, <1>3, <1>6, <1>7, <2>1, <2>2, HelperIs DEF Seam
<1> DEFINE as == {run \in Runs(self, "/") : run[2] <= n}
           bs == {run \in Runs(Helper, "/") : run[1] > 0}
<1>9. Joins(path, Runs(path, "/"), self, as, Helper, bs)
  BY <1>8, RunsOfJoin
<1>11. ASSUME NEW run \in Runs(self, "/") PROVE run[2] <= n <=> run[2] < lib[1]
  <2>1. run[2] \in 1..Len(self) /\ self[run[2]] # "/"
    BY <1>1, RunsInside
  <2> QED BY <1>1, <1>3, <2>1
<1>12. {run \in as : Text(self, run) # <<".">>} = {part \in Parts(self) : part[2] < lib[1]}
  BY <1>11 DEF Parts
<1>13. ASSUME NEW run \in Runs(Helper, "/") PROVE run[1] > 0
  <2>1. run[1] \in 1..Len(Helper)
    BY HelperIs, RunsInside
  <2> QED BY HelperIs, <2>1
<1>14. {run \in bs : Text(Helper, run) # <<".">>} = Parts(Helper)
  BY <1>13 DEF Parts
<1>15. Joins(path, Parts(path), self, {part \in Parts(self) : part[2] < lib[1]},
             Helper, Parts(Helper))
  <2> HIDE DEF as, bs
  <2> QED BY <1>9, <1>12, <1>14, PartsOfJoin
<1>16. Absolute(path) <=> Absolute(self)
  <2>1. self # <<>>
    BY <1>1, <1>3, EmptySeq
  <2> QED BY <1>6, <1>7, <2>1 DEF Absolute
<1> QED BY <1>3, <1>6, <1>7, <1>15, <1>16

\* Beside a library directory in the root the helper is a relative path.
LEMMA HelperInRoot ==
  ASSUME self \in Seq(Char), NEW lib \in LibraryDirs, lib[1] = 2, NEW path,
         path = PathJoin(SubSeq(self, 1, lib[1] - 2), Helper)
  PROVE  /\ path \in Seq(Char) /\ path # <<>> /\ Len(path) = 1 + Len(Helper)
         /\ Joins(path, Parts(path), self, {part \in Parts(self) : part[2] < lib[1]},
                  Helper, Parts(Helper))
         /\ ~Absolute(path)
<1>1. self \in Seq(Byte) /\ Len(self) \in Nat /\ self[1] = "/" /\ Len(self) >= 1
  <2>1. self \in Seq(Byte) /\ Len(self) \in Nat
    BY CharsAreBytes
  <2>2. lib[1] > 1 => self[lib[1] - 1] = "/"
    BY <2>1, LibIs
  <2>3. lib[1] \in 1..Len(self) /\ lib[1] - 1 = 1
    BY <2>1, LibIs
  <2> QED BY <2>1, <2>2, <2>3
<1> DEFINE dot == <<".">>
<1>2. /\ dot \in Seq(Char) /\ Len(dot) = 1 /\ dot[1] = "." /\ dot \in Seq(Byte) /\ dot # <<>>
  BY CharAssumption, OneChar, CharsAreBytes
<1>3. SubSeq(self, 1, lib[1] - 2) = <<>> /\ <<>> \in Seq(Char) /\ Parent(<<>>) = dot
  <2>1. lib[1] - 2 = 0
    OBVIOUS
  <2>2. 0 \in 0..Len(self)
    BY <1>1
  <2>3. SubSeq(self, 1, 0) \in Seq(Byte) /\ Len(SubSeq(self, 1, 0)) = 0
    BY <1>1, <2>2, FrontIs
  <2> QED BY <2>1, <2>3, EmptySeq DEF Parent
<1> HIDE DEF dot
<1>4. /\ path \in Seq(Char) /\ Len(path) = 1 + Len(Helper) /\ path[1] = "."
      /\ \A i \in 1..Len(Helper) : path[i + 1] = Helper[i]
  <2>1. path = PathJoin(<<>>, Helper)
    BY <1>3
  <2>2. PICK gap \in {0, 1} :
           /\ gap = 0 <=> Last(dot) = "/" \/ Helper[1] = "/"
           /\ path \in Seq(Char) /\ Len(path) = Len(dot) + gap + Len(Helper)
           /\ \A i \in 1..Len(dot) : path[i] = dot[i]
           /\ \A i \in 1..Len(Helper) : path[i + (Len(dot) + gap)] = Helper[i]
    <3>1. <<>> \in Seq(Char) /\ Helper \in Seq(Char) \ {<<>>} /\ dot = Parent(<<>>)
      BY <1>3, HelperIs
    <3>2. IsJoin(path, dot, Helper)
      BY <2>1, <3>1, JoinIs
    <3> QED BY <3>2 DEF IsJoin
  <2>3. gap = 0 /\ 1 + gap = 1 /\ 1 + gap + Len(Helper) = 1 + Len(Helper) /\ 1 \in 1..1
    BY <2>2, HelperIs
  <2> QED BY <1>2, <1>3, <2>2, <2>3
<1>5. path \in Seq(Byte) /\ path # <<>> /\ path[1 + 1] = "/"
  <2>1. path[1 + 1] = Helper[1] /\ Len(path) # 0
    BY <1>4, HelperIs
  <2>2. path # <<>>
    BY <2>1, EmptySeq
  <2> QED BY <1>4, <2>1, <2>2, CharsAreBytes, HelperIs
<1>6. Seam(path, "/", dot, 1, Helper, 0, 1)
  <2>1. \A i \in 1..1 : path[i] = dot[i]
    BY <1>2, <1>4
  <2>2. \A i \in 1 + 1..0 + 1 : path[i] = "/"
    OBVIOUS
  <2>3. 0 + 1 = 1 /\ 1 \in 0..Len(dot) /\ 0 \in 0..Len(Helper) /\ 1 \in Int /\ 1 <= 0 + 1
        /\ Len(path) = Len(Helper) + 1
    BY <1>2, <1>4, HelperIs
  <2> QED BY <1>2, <1>4, <1>5, <2>1, <2>2, <2>3, HelperIs DEF Seam
<1> DEFINE as == {run \in Runs(dot, "/") : run[2] <= 1}
           bs == {run \in Runs(Helper, "/") : run[1] > 0}
<1>7. Joins(path, Runs(path, "/"), dot, as, Helper, bs)
  BY <1>6, RunsOfJoin
<1>9. {run \in as : Text(dot, run) # <<".">>} = {}
  <2>1. ASSUME NEW run \in Runs(dot, "/") PROVE Text(dot, run) = <<".">>
    <3>1. run = <<run[1], run[2]>> /\ run[1] \in 1..Len(dot) /\ run[2] \in 1..Len(dot)
      BY <1>2, RunsInside
    <3>2. run = <<1, 1>>
      BY <1>2, <3>1
    <3>3. 1 \in 0..Len(dot)
      BY <1>2
    <3>4. /\ SubSeq(dot, 1, 1) \in Seq(Byte) /\ Len(SubSeq(dot, 1, 1)) = 1
          /\ \A i \in 1..1 : SubSeq(dot, 1, 1)[i] = dot[i]
      BY <1>2, <3>3, FrontIs
    <3>5. SubSeq(dot, 1, 1) = dot
      BY <1>2, <3>4, SeqEqual
    <3> QED BY <3>2, <3>5 DEF Text, dot
  <2> QED BY <2>1
<1>10. {part \in Parts(self) : part[2] < lib[1]} = {}
  <2>1. ASSUME NEW run \in Runs(self, "/") PROVE ~(run[2] < lib[1])
    <3>1. run[2] \in 1..Len(self) /\ self[run[2]] # "/"
      BY <1>1, RunsInside
    <3> QED BY <1>1, <3>1
  <2> QED BY <2>1 DEF Parts
<1>11. ASSUME NEW run \in Runs(Helper, "/") PROVE run[1] > 0
  <2>1. run[1] \in 1..Len(Helper)
    BY HelperIs, RunsInside
  <2> QED BY HelperIs, <2>1
<1>12. {run \in bs : Text(Helper, run) # <<".">>} = Parts(Helper)
  BY <1>11 DEF Parts
<1>13. Joins(path, Parts(path), self, {}, Helper, Parts(Helper))
  <2>1. Joins(path, Parts(path), dot, {}, Helper, Parts(Helper))
    <3> HIDE DEF as, bs
    <3> QED BY <1>7, <1>9, <1>12, PartsOfJoin
  <2> QED BY <2>1 DEF Joins
<1>14. ~Absolute(path)
  BY <1>4, <1>5 DEF Absolute
<1> QED BY <1>4, <1>5, <1>10, <1>13, <1>14

\* The helper's path, if there is one and it fits.
LEMMA JoinHelperKeeps ==
  ASSUME IInv, JoinHelper
  PROVE  SiblingFound' /\ outPath' \in Seq(Char) /\ Len(outPath') < PathMax
<1>1. /\ pc = "join" /\ UNCHANGED self
      /\ outPath' = IF match = -1 THEN <<>> ELSE Joined(SubSeq(self, 1, match), Helper)
  BY DEF JoinHelper
<1>2. /\ self \in Seq(Char) /\ self \in Seq(Byte) /\ Len(self) \in Nat
      /\ Matched(Len(self) + 1)
  BY <1>1, CharsAreBytes DEF IInv, TypeOK, Prefixing
<1>3. <<>> \in Seq(Char) /\ Len(<<>>) = 0 /\ Len(<<>>) < PathMax
  BY PathMaxAssumption, EmptySeq
<1>4. LibraryDirs' = LibraryDirs
  BY <1>1, StringsStay
<1>5. \A lib \in LibraryDirs : lib[1] \in 1..Len(self) /\ lib[1] < Len(self) + 1
  <2> TAKE lib \in LibraryDirs
  <2>1. lib[1] \in 1..Len(self)
    BY <1>2, LibIs
  <2> QED BY <1>2, <2>1
<1>6. CASE match = -1 /\ \A lib \in LibraryDirs : lib[1] < Len(self) + 1 => lib[1] = 1
  BY <1>1, <1>3, <1>4, <1>5, <1>6 DEF SiblingFound
<1>7. CASE \E lib \in LibraryDirs :
             /\ lib[1] > 1 /\ lib[1] < Len(self) + 1 /\ match = lib[1] - 2
             /\ \A other \in LibraryDirs : other[1] < Len(self) + 1 => other[1] <= lib[1]
  <2>1. PICK lib \in LibraryDirs :
          /\ lib[1] > 1 /\ match = lib[1] - 2
          /\ \A other \in LibraryDirs : other[1] <= lib[1]
    BY <1>5, <1>7
  <2>2. lib[1] \in Int /\ match # -1 /\ (lib[1] = 2 \/ lib[1] > 2)
    BY <1>2, <1>5, <2>1
  <2> DEFINE path == PathJoin(SubSeq(self, 1, lib[1] - 2), Helper)
  <2>3. outPath' = IF Len(path) < PathMax THEN path ELSE <<>>
    BY <1>1, <2>1, <2>2 DEF Joined, Fits
  <2>4. /\ path \in Seq(Char) /\ path # <<>>
        /\ Len(path) = (IF lib[1] = 2 THEN 1 ELSE lib[1] - 2) + Len(Helper)
        /\ Joins(path, Parts(path), self, {part \in Parts(self) : part[2] < lib[1]},
                 Helper, Parts(Helper))
        /\ Absolute(path) <=> Absolute(self) /\ lib[1] # 2
    <3> HIDE DEF path
    <3>1. path = PathJoin(SubSeq(self, 1, lib[1] - 2), Helper)
      BY DEF path
    <3>2. CASE lib[1] = 2
      BY <1>2, <3>1, <3>2, HelperInRoot
    <3>3. CASE lib[1] > 2
      <4>1. /\ path \in Seq(Char) /\ path # <<>> /\ Len(path) = lib[1] - 2 + Len(Helper)
            /\ Joins(path, Parts(path), self, {part \in Parts(self) : part[2] < lib[1]},
                     Helper, Parts(Helper))
            /\ Absolute(path) <=> Absolute(self)
        BY <1>2, <3>1, <3>3, HelperBeside
      <4>2. lib[1] # 2
        BY <2>2, <3>3
      <4> QED BY <4>1, <4>2
    <3> QED BY <2>2, <3>2, <3>3
  <2> HIDE DEF path
  <2>5. CASE Len(path) < PathMax
    <3>1. outPath' = path
      BY <2>3, <2>5
    <3> QED BY <1>1, <1>4, <2>1, <2>4, <2>5, <3>1 DEF SiblingFound
  <2>6. CASE ~(Len(path) < PathMax)
    <3>1. outPath' = <<>> /\ Len(path) >= PathMax
      <4>1. Len(path) \in Nat /\ PathMax \in Nat
        BY <2>4, PathMaxAssumption
      <4> QED BY <2>3, <2>6, <4>1
    <3> QED BY <1>3, <1>4, <2>1, <2>4, <3>1 DEF SiblingFound
  <2> QED BY <2>5, <2>6
<1> QED BY <1>2, <1>6, <1>7 DEF Matched

\* A directory the helper answers, with the library's name appended.
LEMMA LibraryBehind ==
  ASSUME NEW d \in Dirs, NEW path, path = PathJoin(d, Soname)
  PROVE  /\ path \in Seq(Char) /\ path # <<>>
         /\ Len(path) = Len(d) + Len(Soname) + (IF Last(d) = "/" THEN 0 ELSE 1)
         /\ Joins(path, Parts(path), d, Parts(d), Soname, {<<1, Len(Soname)>>})
         /\ Absolute(path) <=> Absolute(d)
<1>1. /\ d \in Seq(Char) /\ d \in Seq(Byte) /\ Len(d) \in Nat \ {0} /\ d # <<>>
      /\ Parent(d) = d /\ Last(d) = d[Len(d)]
  BY NamesAssumption, CharsAreBytes, EmptySeq DEF Parent, Last
<1>2. /\ Soname \in Seq(Char) \ {<<>>} /\ Soname \in Seq(Byte) \ {<<>>} /\ Soname # <<".">>
      /\ Len(Soname) \in Nat \ {0} /\ \A i \in 1..Len(Soname) : Soname[i] # "/"
  BY NamesAssumption, CharsAreBytes, EmptySeq
<1>3. PICK gap \in {0, 1} :
        /\ gap = 0 <=> Last(d) = "/" \/ Soname[1] = "/"
        /\ path \in Seq(Char) /\ Len(path) = Len(d) + gap + Len(Soname)
        /\ \A i \in 1..Len(d) : path[i] = d[i]
        /\ gap = 1 => path[Len(d) + 1] = "/"
        /\ \A i \in 1..Len(Soname) : path[i + (Len(d) + gap)] = Soname[i]
  <2>1. d \in Seq(Char) /\ Soname \in Seq(Char) \ {<<>>} /\ d = Parent(d)
    BY <1>1, <1>2
  <2>2. IsJoin(path, d, Soname)
    BY <2>1, JoinIs
  <2> QED BY <2>2 DEF IsJoin
<1>4. PICK n \in Nat \ {0}, by \in Int : n = Len(d) /\ by = n + gap
  BY <1>1
<1>5. /\ path \in Seq(Byte) /\ path # <<>> /\ path[1] = d[1]
      /\ gap = 0 <=> d[n] = "/"
      /\ Len(path) = Len(Soname) + by
      /\ \A i \in 1..n : path[i] = d[i]
      /\ \A i \in n + 1..by : path[i] = "/"
      /\ \A i \in 1..Len(Soname) : path[i + by] = Soname[i]
  <2>1. path \in Seq(Byte)
    BY <1>3, CharsAreBytes
  <2>2. Len(path) # 0
    BY <1>1, <1>2, <1>3
  <2>3. path # <<>>
    BY <2>2, EmptySeq
  <2>4. gap = 0 <=> d[n] = "/"
    <3>1. 1 \in 1..Len(Soname)
      BY <1>2
    <3> QED BY <1>1, <1>2, <1>3, <1>4, <3>1
  <2>5. ASSUME NEW i \in n + 1..by PROVE path[i] = "/"
    <3>1. gap = 1 /\ i = Len(d) + 1
      BY <1>3, <1>4
    <3> QED BY <1>3, <3>1
  <2>6. path[1] = d[1]
    <3>1. 1 \in 1..Len(d)
      BY <1>1
    <3> QED BY <1>3, <3>1
  <2>7. Len(path) = Len(Soname) + by
    BY <1>1, <1>2, <1>3, <1>4
  <2> QED BY <1>3, <1>4, <2>1, <2>3, <2>4, <2>5, <2>6, <2>7
<1>6. Seam(path, "/", d, n, Soname, 0, by)
  <2>1. /\ 0 + by = by /\ 0 + 1 = 1 /\ n \in 0..Len(d) /\ 0 \in 0..Len(Soname) /\ n <= 0 + by
        /\ n < 0 + by \/ gap = 0
    BY <1>1, <1>2, <1>3, <1>4
  <2>2. n < 0 + by \/ path[n] = "/"
    <3>1. n \in 1..n
      BY <1>4
    <3> QED BY <1>5, <2>1, <3>1
  <2> QED BY <1>1, <1>2, <1>4, <1>5, <2>1, <2>2 DEF Seam
<1> DEFINE as == {run \in Runs(d, "/") : run[2] <= n}
           bs == {run \in Runs(Soname, "/") : run[1] > 0}
<1>7. Joins(path, Runs(path, "/"), d, as, Soname, bs)
  BY <1>6, RunsOfJoin
<1>8. {run \in as : Text(d, run) # <<".">>} = Parts(d)
  <2>1. ASSUME NEW run \in Runs(d, "/") PROVE run[2] <= n
    <3>1. run[2] \in 1..Len(d)
      BY <1>1, RunsInside
    <3> QED BY <1>1, <1>4, <3>1
  <2> QED BY <2>1 DEF Parts
<1>9. {run \in bs : Text(Soname, run) # <<".">>} = {<<1, Len(Soname)>>}
  <2>1. bs = {<<1, Len(Soname)>>}
    <3>1. Runs(Soname, "/") = {<<1, Len(Soname)>>}
      BY <1>2, OneRun
    <3> QED BY <3>1
  <2>2. Text(Soname, <<1, Len(Soname)>>) = Soname
    <3>1. Len(Soname) \in 0..Len(Soname)
      BY <1>2
    <3>2. /\ SubSeq(Soname, 1, Len(Soname)) \in Seq(Byte)
          /\ Len(SubSeq(Soname, 1, Len(Soname))) = Len(Soname)
          /\ \A i \in 1..Len(Soname) : SubSeq(Soname, 1, Len(Soname))[i] = Soname[i]
      BY <1>2, <3>1, FrontIs
    <3>3. SubSeq(Soname, 1, Len(Soname)) = Soname
      BY <1>2, <3>2, SeqEqual
    <3> QED BY <3>3 DEF Text
  <2> HIDE DEF bs
  <2> QED BY <1>2, <2>1, <2>2
<1>10. Joins(path, Parts(path), d, Parts(d), Soname, {<<1, Len(Soname)>>})
  <2> HIDE DEF as, bs
  <2> QED BY <1>7, <1>8, <1>9, PartsOfJoin
<1>11. Absolute(path) <=> Absolute(d)
  BY <1>1, <1>3, <1>5 DEF Absolute
<1>12. Len(path) = Len(d) + Len(Soname) + (IF Last(d) = "/" THEN 0 ELSE 1)
  <2>1. gap = IF Last(d) = "/" THEN 0 ELSE 1
    BY <1>1, <1>3, <1>4, <1>5
  <2>2. Len(d) + gap + Len(Soname) = Len(d) + Len(Soname) + gap
    BY <1>1, <1>2
  <2>3. Len(path) = Len(d) + gap + Len(Soname)
    BY <1>3
  <2> QED BY <2>1, <2>2, <2>3
<1> QED BY <1>3, <1>5, <1>10, <1>11, <1>12

\* The library's path, if it fits.
LEMMA JoinLibraryKeeps ==
  ASSUME IInv, JoinLibrary
  PROVE  LibraryInDir' /\ dir' \in Dirs /\ library' \in Seq(Char) /\ Len(library') < PathMax
<1>1. PICK d \in Dirs : dir' = d /\ library' = Joined(d, Soname)
  BY DEF JoinLibrary
<1> DEFINE path == PathJoin(d, Soname)
<1>2. library' = IF Len(path) < PathMax THEN path ELSE <<>>
  BY <1>1 DEF Joined, Fits
<1>3. /\ path \in Seq(Char) /\ path # <<>>
      /\ Len(path) = Len(d) + Len(Soname) + (IF Last(d) = "/" THEN 0 ELSE 1)
      /\ Joins(path, Parts(path), d, Parts(d), Soname, {<<1, Len(Soname)>>})
      /\ Absolute(path) <=> Absolute(d)
  <2>1. path = PathJoin(d, Soname)
    OBVIOUS
  <2> HIDE DEF path
  <2> QED BY <2>1, LibraryBehind
<1> HIDE DEF path
<1>4. /\ <<>> \in Seq(Char) /\ Len(<<>>) < PathMax
      /\ Len(path) < PathMax \/ Len(path) >= PathMax
  <2>1. Len(path) \in Nat /\ Len(<<>>) = 0 /\ <<>> \in Seq(Char)
    BY <1>3, EmptySeq
  <2> QED BY <2>1, PathMaxAssumption
<1>5. CASE Len(path) < PathMax
  <2>1. library' = path
    BY <1>2, <1>5
  <2> QED BY <1>1, <1>3, <1>5, <2>1 DEF LibraryInDir
<1>6. CASE ~(Len(path) < PathMax)
  <2>1. library' = <<>> /\ Len(path) >= PathMax
    BY <1>2, <1>4, <1>6
  <2> QED BY <1>1, <1>3, <1>4, <2>1 DEF LibraryInDir
<1> QED BY <1>5, <1>6

-----------------------------------------------------------------------------
(* The steps                                                               *)

LEMMA SanitizeTokenHolds == IInv /\ SanitizeToken => IInv'
<1> SUFFICES ASSUME IInv, SanitizeToken PROVE IInv'
  OBVIOUS
<1>1. /\ env' \in Seq(Byte) /\ Len(env') = Len(env)
      /\ cursor' \in 1..Len(env) + 1 /\ pc' \in {"sanitize", "prefix"}
      /\ pc' = "prefix" => cursor' = 1
      /\ Len(backup'.data) <= PathMax
      /\ Sanitizing' /\ SlotRemoved' /\ RestoreUndoes'
  BY SanitizeTokenKeeps
<1>2. pc = "sanitize" /\ UNCHANGED <<self, original, match, outPath, dir, library>>
  BY DEF SanitizeToken
<1>3. TypeOK'
  BY <1>1, <1>2 DEF IInv, TypeOK
<1>4. Prefixing'
  <2>1. self \in Seq(Byte) /\ Len(self) \in Nat \ {0} /\ match = -1
    BY <1>2, CharsAreBytes, EmptySeq DEF IInv, TypeOK, SelfIsFile, Prefixing
  <2>2. ASSUME pc' = "prefix" PROVE Matched(cursor)'
    <3>1. \A lib \in LibraryDirs : ~(lib[1] < 1)
      <4> TAKE lib \in LibraryDirs
      <4>1. lib[1] \in 1..Len(self)
        BY <2>1, LibIs
      <4> QED BY <2>1, <4>1
    <3>2. LibraryDirs' = LibraryDirs /\ cursor' = 1 /\ match' = -1
      BY <1>1, <1>2, <2>1, <2>2, StringsStay
    <3> QED BY <3>1, <3>2 DEF Matched
  <2> QED BY <1>1, <1>2, <2>1, <2>2 DEF Prefixing
<1> QED BY <1>1, <1>2, <1>3, <1>4
        DEF IInv, SelfIsFile, SiblingFound, Answered, LibraryInDir

LEMMA SanitizeOverflowsHolds == IInv /\ SanitizeOverflows => IInv'
<1> SUFFICES ASSUME IInv, SanitizeOverflows PROVE IInv'
  OBVIOUS
<1>1. RestoreUndoes'
  BY SanitizeOverflowsKeeps
<1>2. /\ pc = "sanitize" /\ pc' = "crashed"
      /\ UNCHANGED <<self, original, env, cursor, backup, match, outPath, dir, library>>
  BY DEF SanitizeOverflows
<1>3. TypeOK'
  BY <1>2 DEF IInv, TypeOK
<1>4. Sanitizing' /\ SlotRemoved' /\ Prefixing' /\ SiblingFound' /\ Answered' /\ LibraryInDir'
  BY <1>2 DEF Sanitizing, SlotRemoved, Prefixing, SiblingFound, Answered, LibraryInDir
<1>5. SelfIsFile'
  BY <1>2 DEF IInv, SelfIsFile
<1> QED BY <1>1, <1>3, <1>4, <1>5 DEF IInv

LEMMA SanitizeEndsHolds == IInv /\ SanitizeEnds => IInv'
<1> SUFFICES ASSUME IInv, SanitizeEnds PROVE IInv'
  OBVIOUS
<1>1. Sanitizing' /\ SlotRemoved' /\ RestoreUndoes'
  BY SanitizeEndsKeeps
<1>2. /\ pc = "sanitize" /\ pc' = "prefix" /\ cursor' = 1
      /\ UNCHANGED <<self, original, env, backup, match, outPath, dir, library>>
  BY DEF SanitizeEnds
<1>3. self \in Seq(Byte) /\ Len(self) \in Nat \ {0} /\ match = -1
  BY <1>2, CharsAreBytes, EmptySeq DEF IInv, TypeOK, SelfIsFile, Prefixing
<1>4. TypeOK'
  BY <1>2, <1>3 DEF IInv, TypeOK
<1>5. Prefixing'
  <2>1. \A lib \in LibraryDirs : ~(lib[1] < 1)
    <3> TAKE lib \in LibraryDirs
    <3>1. lib[1] \in 1..Len(self)
      BY <1>3, LibIs
    <3> QED BY <1>3, <3>1
  <2>2. Matched(cursor)'
    <3>1. LibraryDirs' = LibraryDirs /\ cursor' = 1 /\ match' = -1
      BY <1>2, <1>3, StringsStay
    <3> QED BY <2>1, <3>1 DEF Matched
  <2> QED BY <1>2, <1>3, <2>2 DEF Prefixing
<1> QED BY <1>1, <1>2, <1>4, <1>5
        DEF IInv, SelfIsFile, SiblingFound, Answered, LibraryInDir

LEMMA PrefixComponentHolds == IInv /\ PrefixComponent => IInv'
<1> SUFFICES ASSUME IInv, PrefixComponent PROVE IInv'
  OBVIOUS
<1>1. /\ Prefixing' /\ match' \in -1..Len(self) /\ cursor' \in 1..Len(self)
      /\ pc' \in {"prefix", "join"}
  BY PrefixComponentKeeps
<1>2. pc = "prefix" /\ UNCHANGED <<self, original, env, backup, outPath, dir, library>>
  BY DEF PrefixComponent
<1>3. TypeOK'
  <2>1. Len(self) \in Nat
    BY CharsAreBytes DEF IInv, TypeOK
  <2> QED BY <1>1, <1>2, <2>1 DEF IInv, TypeOK
<1>4. SlotRemoved' /\ RestoreUndoes'
  BY <1>1, <1>2, StringsStay DEF IInv
<1> QED BY <1>1, <1>2, <1>3, <1>4
        DEF IInv, SelfIsFile, Sanitizing, SiblingFound, Answered, LibraryInDir

LEMMA JoinHelperHolds == IInv /\ JoinHelper => IInv'
<1> SUFFICES ASSUME IInv, JoinHelper PROVE IInv'
  OBVIOUS
<1>1. SiblingFound' /\ outPath' \in Seq(Char) /\ Len(outPath') < PathMax
  BY JoinHelperKeeps
<1>2. /\ pc = "join" /\ pc' = "answer"
      /\ UNCHANGED <<self, original, env, cursor, backup, match, dir, library>>
  BY DEF JoinHelper
<1>3. TypeOK'
  BY <1>1, <1>2 DEF IInv, TypeOK
<1>4. SlotRemoved' /\ RestoreUndoes'
  BY <1>2, StringsStay DEF IInv
<1> QED BY <1>1, <1>2, <1>3, <1>4
        DEF IInv, SelfIsFile, Sanitizing, Prefixing, Answered, LibraryInDir

\* From the helper's answer on the shim's path, LD_AUDIT and the helper's path stay.
LEMMA AnswerHolds ==
  ASSUME IInv, pc = "answer", pc' = "done",
         UNCHANGED <<self, original, env, cursor, backup, match, outPath>>,
         dir' \in {<<>>} \cup Dirs, library' \in Seq(Char), Len(library') < PathMax,
         LibraryInDir'
  PROVE  IInv'
<1>1. TypeOK'
  BY DEF IInv, TypeOK
<1>2. SlotRemoved' /\ RestoreUndoes'
  BY StringsStay DEF IInv
<1>3. SiblingFound'
  BY StringsStay DEF IInv, SiblingFound, Parts, Absolute
<1> QED BY <1>1, <1>2, <1>3 DEF IInv, SelfIsFile, Sanitizing, Prefixing, Answered

LEMMA JoinLibraryHolds == IInv /\ JoinLibrary => IInv'
<1> SUFFICES ASSUME IInv, JoinLibrary PROVE IInv'
  OBVIOUS
<1>1. LibraryInDir' /\ dir' \in Dirs /\ library' \in Seq(Char) /\ Len(library') < PathMax
  BY JoinLibraryKeeps
<1>2. /\ pc = "answer" /\ pc' = "done"
      /\ UNCHANGED <<self, original, env, cursor, backup, match, outPath>>
  BY DEF JoinLibrary
<1> QED BY <1>1, <1>2, AnswerHolds

LEMMA NoLibraryHolds == IInv /\ NoLibrary => IInv'
<1> SUFFICES ASSUME IInv, NoLibrary PROVE IInv'
  OBVIOUS
<1>1. /\ pc = "answer" /\ pc' = "done"
      /\ UNCHANGED <<self, original, env, cursor, backup, match, outPath, dir, library>>
  BY DEF NoLibrary
<1>2. dir = <<>> /\ dir' \in {<<>>} \cup Dirs /\ library' \in Seq(Char) /\ Len(library') < PathMax
  BY <1>1 DEF IInv, TypeOK, Answered
<1>3. LibraryInDir'
  BY <1>1, <1>2 DEF LibraryInDir
<1> QED BY <1>1, <1>2, <1>3, AnswerHolds

LEMMA StutterHolds == IInv /\ UNCHANGED vars => IInv'
<1> SUFFICES ASSUME IInv, UNCHANGED vars PROVE IInv'
  OBVIOUS
<1>1. UNCHANGED <<self, original, env, pc, cursor, backup, match, outPath, dir, library>>
  BY DEF vars
<1>2. TypeOK' /\ SelfIsFile' /\ Answered'
  BY <1>1 DEF IInv, TypeOK, SelfIsFile, Answered
<1>3. Sanitizing' /\ Prefixing' /\ SiblingFound' /\ LibraryInDir'
  <2>1. OwnEntries' = OwnEntries /\ LibraryDirs' = LibraryDirs
    BY <1>1, StringsStay
  <2>2. Sanitizing'
    BY <1>1, <2>1 DEF IInv, Sanitizing
  <2>3. Prefixing'
    BY <1>1, <2>1 DEF IInv, Prefixing, Matched
  <2>4. SiblingFound'
    BY <1>1, <2>1 DEF IInv, SiblingFound, Parts, Absolute
  <2>5. LibraryInDir'
    BY <1>1 DEF IInv, LibraryInDir
  <2> QED BY <2>2, <2>3, <2>4, <2>5
<1>4. RestoreUndoes'
  <2>1. OwnEntries' = OwnEntries
    BY <1>1, StringsStay
  <2> QED BY <1>1, <2>1 DEF IInv, RestoreUndoes, Restored
<1>5. SlotRemoved'
  BY <1>1, StringsStay DEF IInv, SlotRemoved
<1> QED BY <1>2, <1>3, <1>4, <1>5 DEF IInv

LEMMA StepHolds == IInv /\ [Next]_vars => IInv'
<1> SUFFICES ASSUME IInv, [Next]_vars PROVE IInv'
  OBVIOUS
<1>1. CASE SanitizeToken
  BY <1>1, SanitizeTokenHolds
<1>2. CASE SanitizeEnds
  BY <1>2, SanitizeEndsHolds
<1>3. CASE PrefixComponent
  BY <1>3, PrefixComponentHolds
<1>4. CASE JoinHelper
  BY <1>4, JoinHelperHolds
<1>5. CASE JoinLibrary
  BY <1>5, JoinLibraryHolds
<1>6. CASE NoLibrary
  BY <1>6, NoLibraryHolds
<1>7. CASE SanitizeOverflows
  BY <1>7, SanitizeOverflowsHolds
<1>8. CASE UNCHANGED vars
  BY <1>8, StutterHolds
<1> QED BY <1>1, <1>2, <1>3, <1>4, <1>5, <1>6, <1>7, <1>8 DEF Next, Steps, Ended

LEMMA IInvAlways == Spec => []IInv
BY InitHolds, StepHolds, PTL DEF Spec

-----------------------------------------------------------------------------
(* What a step may do                                                      *)

\* What la_version has still to do, and the string next_token walks over.
StagesLeft ==
  CASE pc = "sanitize" -> 4
    [] pc = "prefix" -> 3
    [] pc = "join" -> 2
    [] pc = "answer" -> 1
    [] OTHER -> 0
Walked == IF pc = "sanitize" THEN env ELSE self

\* Each token is behind the one before it, and none behind the string.
Advances ==
  \/ StagesLeft' < StagesLeft
  \/ StagesLeft' = StagesLeft /\ Walked' = Walked /\ cursor < cursor' /\ cursor' <= Len(Walked) + 1

\* Also a token of no characters is stepped over, with its delimiter.
LEMMA NextIsBehind ==
  ASSUME NEW s \in Seq(Byte), NEW from \in Nat \ {0}, More(s, from), NEW delim
  PROVE  /\ NextToken(s, TokenEnd(s, from, delim), delim) > from
         /\ NextToken(s, TokenEnd(s, from, delim), delim) <= Len(s) + 1
<1>1. Len(s) \in Nat /\ from \in 1..Len(s) + 1 /\ from <= Len(s) /\ s[from] # "nul"
  BY DEF More
<1>2. PICK end : end = TokenEnd(s, from, delim)
  OBVIOUS
<1>3. /\ end \in from..Len(s) + 1
      /\ end <= Len(s) => s[end] \in {delim, "nul"}
  BY <1>1, <1>2, TokenEndIs
<1>4. CASE Delimited(s, end, delim)
  <2>1. NextToken(s, end, delim) = end + 1 /\ end <= Len(s)
    BY <1>4 DEF NextToken, Delimited
  <2> QED BY <1>1, <1>2, <1>3, <2>1
<1>5. CASE ~Delimited(s, end, delim)
  <2>1. NextToken(s, end, delim) = end
    BY <1>5 DEF NextToken
  <2>2. end # from
    BY <1>1, <1>3, <1>5 DEF Delimited
  <2> QED BY <1>1, <1>2, <1>3, <2>1, <2>2
<1> QED BY <1>4, <1>5

LEMMA StepAdvances == IInv /\ [Next]_vars => [Advances]_vars
<1> SUFFICES ASSUME IInv, Next PROVE UNCHANGED vars \/ Advances
  OBVIOUS
<1>1. self \in Seq(Byte) /\ env \in Seq(Byte)
  BY CharsAreBytes DEF IInv, TypeOK
<1>2. CASE SanitizeToken
  <2>1. CASE pc' = "prefix"
    <3>1. StagesLeft' < StagesLeft
      BY <1>2, <2>1 DEF SanitizeToken, StagesLeft
    <3> QED BY <3>1 DEF Advances
  <2>2. CASE pc' # "prefix"
    <3>1. /\ pc = "sanitize" /\ pc' = pc /\ env' = env /\ More(env, cursor)
          /\ cursor' = NextToken(env, TokenEnd(env, cursor, ":"), ":")
      BY <1>2, <2>2 DEF SanitizeToken
    <3>2. cursor \in Nat \ {0}
      BY <3>1 DEF IInv, Sanitizing
    <3>3. cursor < cursor' /\ cursor' <= Len(env) + 1
      <4>1. PICK n : n = NextToken(env, TokenEnd(env, cursor, ":"), ":")
        OBVIOUS
      <4>2. n > cursor /\ n <= Len(env) + 1
        BY <1>1, <3>1, <3>2, <4>1, NextIsBehind
      <4>3. n = cursor'
        BY <3>1, <4>1
      <4> QED BY <4>2, <4>3
    <3>4. StagesLeft' = StagesLeft /\ Walked' = Walked /\ Walked = env
      BY <3>1 DEF StagesLeft, Walked
    <3> QED BY <3>3, <3>4 DEF Advances
  <2> QED BY <2>1, <2>2
<1>3. CASE PrefixComponent
  <2>1. CASE pc' = "join"
    <3>1. StagesLeft' < StagesLeft
      BY <1>3, <2>1 DEF PrefixComponent, StagesLeft
    <3> QED BY <3>1 DEF Advances
  <2>2. CASE pc' # "join"
    <3>1. /\ pc = "prefix" /\ pc' = pc /\ self' = self /\ More(self, cursor)
          /\ cursor' = NextToken(self, TokenEnd(self, cursor, "/"), "/")
      BY <1>3, <2>2 DEF PrefixComponent
    <3>2. cursor \in Nat \ {0}
      BY <3>1 DEF IInv, Prefixing
    <3>3. cursor < cursor' /\ cursor' <= Len(self) + 1
      <4>1. PICK n : n = NextToken(self, TokenEnd(self, cursor, "/"), "/")
        OBVIOUS
      <4>2. n > cursor /\ n <= Len(self) + 1
        BY <1>1, <3>1, <3>2, <4>1, NextIsBehind
      <4>3. n = cursor'
        BY <3>1, <4>1
      <4> QED BY <4>2, <4>3
    <3>4. StagesLeft' = StagesLeft /\ Walked' = Walked /\ Walked = self
      BY <3>1 DEF StagesLeft, Walked
    <3> QED BY <3>3, <3>4 DEF Advances
  <2> QED BY <2>1, <2>2
<1>4. CASE SanitizeOverflows \/ SanitizeEnds \/ JoinHelper \/ JoinLibrary \/ NoLibrary
  <2>1. StagesLeft' < StagesLeft
    BY <1>4 DEF SanitizeOverflows, SanitizeEnds, JoinHelper, JoinLibrary, NoLibrary, StagesLeft
  <2> QED BY <2>1 DEF Advances
<1> QED BY <1>2, <1>3, <1>4 DEF Next, Steps, Ended

-----------------------------------------------------------------------------
(* Theorems                                                                *)

\* In every state the strings are strings, LD_AUDIT keeps its bytes' number, and
\* what path_join writes leaves room for its terminating nul, for every PATH_MAX.
THEOREM TypeCorrect == Spec => []TypeOK
<1>1. IInv => TypeOK
  BY DEF IInv
<1> QED BY <1>1, IInvAlways, PTL

\* Whatever LD_AUDIT is and wherever in it the shim's entry is, what
\* sanitize_ld_audit leaves names every other audit library, whole and in order.
THEOREM SlotRemovedAlways == Spec => []SlotRemoved
<1>1. IInv => SlotRemoved
  BY DEF IInv
<1> QED BY <1>1, IInvAlways, PTL

\* The backup of sanitize_ld_audit is enough to undo its edit, byte for byte,
\* unless the entry is longer than the backup: then the program ends before
\* the edit, and only then.
THEOREM RestoreUndoesAlways == Spec => []RestoreUndoes
<1>1. IInv => RestoreUndoes
  BY DEF IInv
<1> QED BY <1>1, IInvAlways, PTL

\* For every path of the shim, find_search_helper looks for the helper beside
\* the last library directory in it, or nowhere for a reason.
THEOREM SiblingFoundAlways == Spec => []SiblingFound
<1>1. IInv => SiblingFound
  BY DEF IInv
<1> QED BY <1>1, IInvAlways, PTL

\* For every directory the helper answers, la_version's path_join names the
\* library in it, or nothing when the path would not fit.
THEOREM LibraryInDirAlways == Spec => []LibraryInDir
<1>1. IInv => LibraryInDir
  BY DEF IInv
<1> QED BY <1>1, IInvAlways, PTL

\* next_token gets on: each step of sanitize_ld_audit's and path_prefix's loops
\* goes to a later place of the string, which does not change under it and is
\* not left, also over empty entries; every other step goes to a later part of
\* la_version.  Both loops go round finitely often (audit.c:88, path_utils.c:66).
THEOREM WalksAdvance == Spec => [][Advances]_vars
BY IInvAlways, StepAdvances, PTL DEF Spec

=============================================================================
