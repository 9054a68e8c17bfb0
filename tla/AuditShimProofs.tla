-------------------------- MODULE AuditShimProofs ---------------------------
(***************************************************************************)
(* Theorems about AuditShim, for every LD_AUDIT, all directories and every *)
(* number of programs, upgrades and opened libraries.                      *)
(*                                                                         *)
(* The first part is about LD_AUDIT as a sequence of slots, the second     *)
(* about the stack of programs that wait for each other, the third about   *)
(* what the helper has seen and what is there now, the fourth about what   *)
(* the application has opened.                                             *)
(***************************************************************************)
EXTENDS AuditShim, FiniteSetTheorems, FunctionTheorems, SequenceTheorems,
        WellFoundedInduction, TLAPS

-----------------------------------------------------------------------------
(* LD_AUDIT                                                                *)

LEMMA SelfSlotsFinite ==
  ASSUME NEW env \in Seq(Slot)
  PROVE  /\ SelfSlots(env) \subseteq 1..Len(env)
         /\ IsFiniteSet(SelfSlots(env))
         /\ SelfCount(env) \in Nat
<1>1. Len(env) \in Nat /\ SelfSlots(env) \subseteq 1..Len(env)
  BY LenProperties DEF SelfSlots
<1>2. IsFiniteSet(1..Len(env))
  BY <1>1, FS_Interval
<1>3. IsFiniteSet(SelfSlots(env))
  BY <1>1, <1>2, FS_Subset
<1> QED BY <1>1, <1>3, FS_CardinalityType DEF SelfCount

Less == {ss \in Nat \X Nat : ss[1] < ss[2]}

LEMMA LessWellFounded == IsWellFoundedOn(Less, Nat)
  BY NatLessThanWellFounded DEF OpToRel, Less

\* There is a first slot with the shim's name.
LEMMA FirstSelf ==
  ASSUME NEW env \in Seq(Slot), Audited(env)
  PROVE  Min(SelfSlots(env)) \in SelfSlots(env)
<1> DEFINE T == SelfSlots(env)
<1>1. T \subseteq Nat /\ T # {}
  BY SelfSlotsFinite DEF Audited
<1>2. PICK x \in T : \A y \in T : ~ (<<y, x>> \in Less)
  <2> HIDE DEF T
  <2> QED BY <1>1, LessWellFounded, WFMin
<1>3. \A y \in T : x <= y
  <2> HIDE DEF T
  <2> SUFFICES ASSUME NEW y \in T, y < x PROVE FALSE
    BY <1>1, <1>2
  <2>1. x \in Nat /\ y \in Nat /\ y < x
    BY <1>1, <1>2
  <2>2. <<y, x>> \in Less
    BY <2>1 DEF Less
  <2> QED BY <1>2, <2>2
<1> QED BY <1>2, <1>3 DEF Min

\* Taking a slot out moves those behind it by one.
LEMMA Removed ==
  ASSUME NEW env \in Seq(Slot), NEW m \in 1..Len(env)
  PROVE  /\ RemoveAt(env, m) \in Seq(Slot)
         /\ Len(RemoveAt(env, m)) = Len(env) - 1
         /\ \A i \in 1..Len(env) - 1 :
              RemoveAt(env, m)[i] = IF i < m THEN env[i] ELSE env[i + 1]
<1> DEFINE front == SubSeq(env, 1, m - 1)
           rest == SubSeq(env, m + 1, Len(env))
<1>1. Len(env) \in Nat /\ m \in Nat /\ \A i \in 1..Len(env) : env[i] \in Slot
  BY LenProperties, ElementOfSeq
<1>2. /\ front \in Seq(Slot) /\ Len(front) = m - 1
      /\ \A i \in 1..m - 1 : front[i] = env[i]
  <2>1. /\ front \in Seq(Slot)
        /\ Len(front) = IF 1 <= m - 1 THEN m - 1 - 1 + 1 ELSE 0
        /\ \A i \in 1..m - 1 - 1 + 1 : front[i] = env[1 + i - 1]
    BY <1>1, SubSeqProperties
  <2> QED BY <1>1, <2>1
<1>3. /\ rest \in Seq(Slot) /\ Len(rest) = Len(env) - m
      /\ \A i \in 1..Len(env) - m : rest[i] = env[m + i]
  <2>1. /\ rest \in Seq(Slot)
        /\ Len(rest) = IF m + 1 <= Len(env) THEN Len(env) - (m + 1) + 1 ELSE 0
        /\ \A i \in 1..Len(env) - (m + 1) + 1 : rest[i] = env[m + 1 + i - 1]
    BY <1>1, SubSeqProperties
  <2> QED BY <1>1, <2>1
<1> HIDE DEF front, rest
<1>4. /\ front \o rest \in Seq(Slot)
      /\ Len(front \o rest) = Len(front) + Len(rest)
      /\ \A i \in 1..Len(front) + Len(rest) :
           (front \o rest)[i] = IF i <= Len(front) THEN front[i] ELSE rest[i - Len(front)]
  BY <1>2, <1>3, ConcatProperties
<1>5. Len(front \o rest) = Len(env) - 1
  BY <1>1, <1>2, <1>3, <1>4
<1>6. ASSUME NEW i \in 1..Len(env) - 1
      PROVE  (front \o rest)[i] = IF i < m THEN env[i] ELSE env[i + 1]
  <2>1. CASE i < m
    BY <1>1, <1>2, <1>3, <1>4, <2>1
  <2>2. CASE i >= m
    <3>1. /\ i - (m - 1) \in 1..Len(env) - m /\ m + (i - (m - 1)) = i + 1
          /\ ~(i <= m - 1) /\ i \in 1..(m - 1) + (Len(env) - m)
      BY <1>1, <2>2
    <3>2. (front \o rest)[i] = rest[i - (m - 1)]
      BY <1>2, <1>3, <1>4, <3>1
    <3> QED BY <1>1, <1>3, <2>2, <3>1, <3>2
  <2>3. i < m \/ i >= m
    BY <1>1
  <2> QED BY <2>1, <2>2, <2>3
<1> QED BY <1>4, <1>5, <1>6 DEF RemoveAt, front, rest

\* What is left is an LD_AUDIT that next_token can walk over.
LEMMA SanitizedType ==
  ASSUME NEW env \in LdAudit PROVE Sanitized(env) \in LdAudit
<1> SUFFICES ASSUME Audited(env) /\ setup.selfKnown PROVE Sanitized(env) \in LdAudit
  BY DEF Sanitized
<1> DEFINE m == Min(SelfSlots(env))
           rest == RemoveAt(env, m)
<1>1. env \in Seq(Slot) /\ Len(env) \in Nat
  BY LenProperties DEF LdAudit
<1>2. m \in 1..Len(env)
  BY <1>1, FirstSelf, SelfSlotsFinite
<1>3. /\ rest \in Seq(Slot) /\ Len(rest) = Len(env) - 1
      /\ \A i \in 1..Len(env) - 1 : rest[i] = IF i < m THEN env[i] ELSE env[i + 1]
  <2> HIDE DEF m
  <2> QED BY <1>1, <1>2, Removed
<1>4. ASSUME NEW i \in 1..Len(rest)
      PROVE  /\ i < Len(rest) => rest[i].delim
             /\ rest[i].name = "empty" => rest[i].delim
  <2> HIDE DEF m, rest
  <2>1. PICK k \in 1..Len(env) : rest[i] = env[k] /\ (i < Len(rest) => k < Len(env))
    <3>1. CASE i < m
      <4>1. i \in 1..Len(env) /\ rest[i] = env[i]
            /\ (i < Len(rest) => i < Len(env))
        BY <1>1, <1>2, <1>3, <3>1
      <4> QED BY <4>1
    <3>2. CASE ~(i < m)
      <4>1. i + 1 \in 1..Len(env) /\ rest[i] = env[i + 1]
            /\ (i < Len(rest) => i + 1 < Len(env))
        BY <1>1, <1>2, <1>3, <3>2
      <4> QED BY <4>1
    <3> QED BY <3>1, <3>2
  <2>2. (k < Len(env) => env[k].delim) /\ (env[k].name = "empty" => env[k].delim)
    BY DEF LdAudit
  <2> QED BY <2>1, <2>2
<1>5. rest \in LdAudit
  BY <1>3, <1>4 DEF LdAudit
<1> QED BY <1>5 DEF Sanitized

\* One entry for the shim less.
LEMMA SanitizedCount ==
  ASSUME NEW env \in Seq(Slot), Audited(env), setup.selfKnown
  PROVE  SelfCount(Sanitized(env)) <= SelfCount(env) - 1
<1> DEFINE m == Min(SelfSlots(env))
           rest == RemoveAt(env, m)
           f == [i \in SelfSlots(rest) |-> IF i < m THEN i ELSE i + 1]
<1>1. Len(env) \in Nat /\ m \in SelfSlots(env) /\ m \in 1..Len(env)
  BY LenProperties, FirstSelf, SelfSlotsFinite
<1>2. /\ rest \in Seq(Slot) /\ Len(rest) = Len(env) - 1
      /\ \A i \in 1..Len(env) - 1 : rest[i] = IF i < m THEN env[i] ELSE env[i + 1]
  <2> HIDE DEF m
  <2> QED BY <1>1, Removed
<1> HIDE DEF m, rest
<1>3. \A i \in SelfSlots(rest) : i \in 1..Len(env) - 1
  BY <1>1, <1>2 DEF SelfSlots
<1>4. ASSUME NEW i \in SelfSlots(rest) PROVE f[i] \in SelfSlots(env) \ {m}
  <2>1. i \in 1..Len(env) - 1 /\ rest[i].name = "self"
    BY <1>3 DEF SelfSlots
  <2>2. CASE i < m
    <3>1. env[i].name = "self" /\ f[i] = i
      BY <1>2, <2>1, <2>2
    <3>2. i \in 1..Len(env) /\ i # m
      BY <1>1, <2>1, <2>2
    <3> QED BY <3>1, <3>2 DEF SelfSlots
  <2>3. CASE ~(i < m)
    <3>1. env[i + 1].name = "self" /\ f[i] = i + 1
      BY <1>2, <2>1, <2>3
    <3>2. i + 1 \in 1..Len(env) /\ i + 1 # m
      BY <1>1, <2>1, <2>3
    <3> QED BY <3>1, <3>2 DEF SelfSlots
  <2> QED BY <2>2, <2>3
<1>5. \A i, j \in SelfSlots(rest) : f[i] = f[j] => i = j
  <2> SUFFICES ASSUME NEW i \in SelfSlots(rest), NEW j \in SelfSlots(rest), f[i] = f[j]
               PROVE  i = j
    OBVIOUS
  <2>1. i \in Nat /\ j \in Nat /\ m \in Nat
    BY <1>1, <1>3
  <2>2. /\ f[i] = IF i < m THEN i ELSE i + 1
        /\ f[j] = IF j < m THEN j ELSE j + 1
    OBVIOUS
  <2> QED BY <2>1, <2>2
<1>6. f \in Injection(SelfSlots(rest), SelfSlots(env) \ {m})
  <2>1. f \in [SelfSlots(rest) -> SelfSlots(env) \ {m}]
    BY <1>4
  <2> DEFINE A == SelfSlots(rest)
             B == SelfSlots(env) \ {m}
  <2>2. f \in [A -> B] /\ \A i, j \in A : f[i] = f[j] => i = j
    BY <1>5, <2>1
  <2> HIDE DEF f, A, B
  <2>3. f \in Injection(A, B)
    BY <2>2, Fun_IsInj
  <2> QED BY <2>3 DEF A, B
<1>7. /\ IsFiniteSet(SelfSlots(env) \ {m})
      /\ Cardinality(SelfSlots(env) \ {m}) = SelfCount(env) - 1
  BY <1>1, SelfSlotsFinite, FS_RemoveElement DEF SelfCount
<1>8. SelfCount(rest) <= SelfCount(env) - 1
  <2> HIDE DEF f
  <2> QED BY <1>6, <1>7, FS_Injection DEF SelfCount
<1> QED BY <1>8 DEF Sanitized, rest, m

\* Nothing but that entry is taken out.
LEMMA KeepsItself == ASSUME NEW env \in Seq(Slot) PROVE Keeps(env, env)
<1> DEFINE at == [i \in 1..Len(env) |-> i]
<1>1. /\ at \in [1..Len(env) -> 1..Len(env)]
      /\ \A i \in 1..Len(env) : at[i] = i
  OBVIOUS
<1> HIDE DEF at
<1> QED BY <1>1 DEF Keeps

LEMMA SanitizedKeeps ==
  ASSUME NEW env \in Seq(Slot), NEW rest \in Seq(Slot), Keeps(env, rest)
  PROVE  Keeps(env, Sanitized(rest))
<1> SUFFICES ASSUME Audited(rest), setup.selfKnown PROVE Keeps(env, Sanitized(rest))
  BY DEF Sanitized
<1> DEFINE m == Min(SelfSlots(rest))
           left == RemoveAt(rest, m)
           n == Len(rest)
<1>1. n \in Nat /\ Len(env) \in Nat /\ m \in SelfSlots(rest) /\ m \in 1..n
  BY LenProperties, FirstSelf, SelfSlotsFinite
<1>2. /\ Len(left) = n - 1
      /\ \A i \in 1..n - 1 : left[i] = IF i < m THEN rest[i] ELSE rest[i + 1]
  <2> HIDE DEF m
  <2> QED BY <1>1, Removed
<1>3. PICK at \in [1..n -> 1..Len(env)] :
        /\ \A i, j \in 1..n : i < j => at[i] < at[j]
        /\ \A i \in 1..n : rest[i] = env[at[i]]
        /\ \A k \in 1..Len(env) \ SelfSlots(env) : \E i \in 1..n : at[i] = k
  BY DEF Keeps
<1>4. Sanitized(rest) = left
  BY DEF Sanitized
<1> DEFINE new == [i \in 1..n - 1 |-> IF i < m THEN at[i] ELSE at[i + 1]]
<1> HIDE DEF m, left, n
<1>5. \A i \in 1..n - 1 : /\ i \in 1..n /\ i + 1 \in 1..n
                           /\ new[i] = IF i < m THEN at[i] ELSE at[i + 1]
  BY <1>1
<1>6. new \in [1..n - 1 -> 1..Len(env)]
  BY <1>1, <1>3, <1>5
<1>7. ASSUME NEW i \in 1..n - 1, NEW j \in 1..n - 1, i < j PROVE new[i] < new[j]
  <2>1. /\ new[i] = at[IF i < m THEN i ELSE i + 1]
        /\ new[j] = at[IF j < m THEN j ELSE j + 1]
    BY <1>5
  <2>2. /\ (IF i < m THEN i ELSE i + 1) \in 1..n
        /\ (IF j < m THEN j ELSE j + 1) \in 1..n
        /\ (IF i < m THEN i ELSE i + 1) < (IF j < m THEN j ELSE j + 1)
    BY <1>1, <1>7
  <2> HIDE DEF new
  <2> QED BY <1>3, <2>1, <2>2
<1>8. \A i \in 1..n - 1 : left[i] = env[new[i]]
  BY <1>2, <1>3, <1>5
<1>9. ASSUME NEW k \in 1..Len(env) \ SelfSlots(env) PROVE \E i \in 1..n - 1 : new[i] = k
  <2>1. PICK i \in 1..n : at[i] = k
    BY <1>3
  <2>2. i # m
    <3>1. rest[i].name # "self"
      BY <1>3, <2>1 DEF SelfSlots
    <3> QED BY <1>1, <3>1 DEF SelfSlots
  <2>3. CASE i < m
    <3>1. i \in 1..n - 1
      BY <1>1, <2>3
    <3> QED BY <1>5, <2>1, <2>3, <3>1
  <2>4. CASE ~(i < m)
    <3>1. i - 1 \in 1..n - 1 /\ ~(i - 1 < m) /\ i - 1 + 1 = i
      BY <1>1, <2>2, <2>4
    <3>2. new[i - 1] = at[i - 1 + 1]
      BY <1>5, <3>1
    <3> QED BY <2>1, <3>1, <3>2
  <2> QED BY <2>3, <2>4
<1> HIDE DEF new
<1>10. \E f \in [1..Len(left) -> 1..Len(env)] :
         /\ \A i, j \in 1..Len(left) : i < j => f[i] < f[j]
         /\ \A i \in 1..Len(left) : left[i] = env[f[i]]
         /\ \A k \in 1..Len(env) \ SelfSlots(env) : \E i \in 1..Len(left) : f[i] = k
  <2>1. 1..Len(left) = 1..n - 1
    BY <1>2
  <2>2. new \in [1..Len(left) -> 1..Len(env)]
    BY <1>6, <2>1
  <2>3. /\ \A i, j \in 1..Len(left) : i < j => new[i] < new[j]
        /\ \A i \in 1..Len(left) : left[i] = env[new[i]]
    BY <1>7, <1>8, <2>1
  <2>4. \A k \in 1..Len(env) \ SelfSlots(env) : \E i \in 1..Len(left) : new[i] = k
    BY <1>9, <2>1
  <2> QED BY <2>2, <2>3, <2>4
<1>11. Keeps(env, left)
  BY <1>10 DEF Keeps
<1> QED BY <1>4, <1>11

-----------------------------------------------------------------------------
(* The stack                                                               *)

FoundType == [path : Dir, driver : Contents]

ProgramType ==
  [image : {"app", "shell", "helper"}, original : LdAudit, env : LdAudit,
   pc : {"start", "pclose", "main", "exit"}, found : SUBSET FoundType,
   dir : SUBSET Dir, paths : SUBSET Soname]

OthersTyped ==
  /\ contents \in [Dir -> Contents]
  /\ changed \in SUBSET Dir
  /\ changes \in 0..MaxChanges
  /\ programs \in 1..MaxPrograms

Typed ==
  /\ configured \in LdAudit
  /\ stack \in Seq(ProgramType)
  /\ stack # <<>>
  /\ OthersTyped

\* The directories la_version takes from an answer.
DirsOf(found) == {FirstLine[f.path] : f \in found}

\* Program i of n: the entries for the shim pay for the programs below it.
Good(p, i, n) ==
  /\ p.image = "app" <=> i = 1
  /\ p.pc = "pclose" <=> i < n
  /\ p.pc = "exit" => p.image = "helper"
  /\ i + SelfCount(p.env) <= 1 + SelfCount(configured)
  /\ Keeps(configured, p.env)
  /\ p.pc \in {"start", "pclose"} => p.found = {} /\ p.dir = {} /\ p.paths = {}
  /\ p.found = {} \/ \E f : p.found = {f}
  /\ p.pc = "exit" => \A f \in p.found, s \in Soname : JoinedLength(f.path, s) < PathMax
  /\ p.image = "app" => p.dir = DirsOf(p.found)
  /\ p.paths = {} \/ (p.paths = Soname /\ p.dir # {})

StackOK == Typed /\ \A i \in 1..Len(stack) : Good(stack[i], i, Len(stack))

LEMMA Replaced ==
  ASSUME NEW S, NEW s \in Seq(S), s # <<>>, NEW p \in S
  PROVE  /\ ReplaceAt(s, Len(s), p) \in Seq(S) /\ ReplaceAt(s, Len(s), p) # <<>>
         /\ Len(ReplaceAt(s, Len(s), p)) = Len(s)
         /\ \A i \in 1..Len(s) :
              ReplaceAt(s, Len(s), p)[i] = IF i = Len(s) THEN p ELSE s[i]
<1>1. Len(s) \in Nat /\ Len(s) > 0
  BY LenProperties, EmptySeq
<1>2. Len(s) \in 1..Len(s)
  BY <1>1
<1> QED BY <1>1, <1>2, ExceptSeq, LenProperties, EmptySeq DEF ReplaceAt

LEMMA Fronted ==
  ASSUME NEW S, NEW s \in Seq(S), Len(s) > 1
  PROVE  /\ Front(s) \in Seq(S) /\ Front(s) # <<>> /\ Len(Front(s)) = Len(s) - 1
         /\ \A i \in 1..Len(s) - 1 : Front(s)[i] = s[i]
         /\ Last(Front(s)) = s[Len(s) - 1]
<1> DEFINE r == Front(s)
<1>1. Len(s) \in Nat /\ \A i \in 1..Len(s) : s[i] \in S
  BY LenProperties, ElementOfSeq
<1>2. /\ r \in Seq(S) /\ Len(r) = Len(s) - 1
      /\ \A i \in 1..Len(s) - 1 : r[i] = s[i]
  <2>1. /\ r \in Seq(S)
        /\ Len(r) = IF 1 <= Len(s) - 1 THEN Len(s) - 1 - 1 + 1 ELSE 0
        /\ \A i \in 1..Len(s) - 1 - 1 + 1 : r[i] = s[1 + i - 1]
    BY <1>1, SubSeqProperties DEF Front
  <2> QED BY <1>1, <2>1
<1> HIDE DEF r
<1>3. r # <<>> /\ Len(r) \in 1..Len(s) - 1
  BY <1>1, <1>2, EmptySeq
<1>4. Last(r) = s[Len(s) - 1]
  BY <1>1, <1>2, <1>3 DEF Last
<1> QED BY <1>2, <1>3, <1>4 DEF r

LEMMA TopIs ==
  ASSUME StackOK
  PROVE  /\ Len(stack) \in Nat \ {0} /\ Len(stack) \in 1..Len(stack)
         /\ Top = stack[Len(stack)] /\ Top \in ProgramType
         /\ Good(Top, Len(stack), Len(stack))
<1>1. stack \in Seq(ProgramType) /\ stack # <<>> /\ Len(stack) \in Nat
  BY LenProperties DEF StackOK, Typed
<1>2. Len(stack) # 0
  BY <1>1, EmptySeq
<1>3. Len(stack) \in 1..Len(stack)
  BY <1>1, <1>2
<1>4. stack[Len(stack)] \in ProgramType
  BY <1>1, <1>3, ElementOfSeq
<1> QED BY <1>1, <1>2, <1>3, <1>4 DEF Top, Last, StackOK

\* The topmost program changes into another good one.
LEMMA SetTopHolds ==
  ASSUME StackOK, NEW p \in ProgramType, SetTop(p), Good(p, Len(stack), Len(stack)),
         UNCHANGED configured, OthersTyped'
  PROVE  StackOK' /\ Top' = p
<1>1. stack \in Seq(ProgramType) /\ stack # <<>>
  BY DEF StackOK, Typed
<1>2. /\ stack' \in Seq(ProgramType) /\ stack' # <<>> /\ Len(stack') = Len(stack)
      /\ \A i \in 1..Len(stack) : stack'[i] = IF i = Len(stack) THEN p ELSE stack[i]
  <2> DEFINE t == ReplaceAt(stack, Len(stack), p)
  <2>1. /\ t \in Seq(ProgramType) /\ t # <<>> /\ Len(t) = Len(stack)
        /\ \A i \in 1..Len(stack) : t[i] = IF i = Len(stack) THEN p ELSE stack[i]
    BY <1>1, Replaced
  <2>2. stack' = t
    BY DEF SetTop
  <2> QED BY <2>1, <2>2
<1>3. Typed'
  BY <1>2 DEF StackOK, Typed
<1>4. ASSUME NEW i \in 1..Len(stack') PROVE Good(stack[i], i, Len(stack)) /\ Good(p, Len(stack), Len(stack))
  BY <1>2 DEF StackOK
<1>5. ASSUME NEW i \in 1..Len(stack') PROVE Good(stack[i], i, Len(stack))'
  <2>1. CASE i = Len(stack)
    BY <1>2, <1>4, <2>1 DEF Good
  <2>2. CASE i # Len(stack)
    <3>1. stack'[i] = stack[i]
      BY <1>2, <2>2
    <3> QED BY <1>2, <1>4, <3>1 DEF Good
  <2> QED BY <2>1, <2>2
<1>6. Top' = p
  BY <1>2, TopIs DEF Top, Last
<1> QED BY <1>3, <1>5, <1>6 DEF StackOK

\* A program starts another one and waits for it.
LEMMA PushHolds ==
  ASSUME StackOK, NEW p \in ProgramType, NEW q \in ProgramType,
         stack' = Append(ReplaceAt(stack, Len(stack), p), q),
         Good(p, Len(stack), Len(stack) + 1), Good(q, Len(stack) + 1, Len(stack) + 1),
         UNCHANGED configured, OthersTyped'
  PROVE  StackOK' /\ Top' = q
<1>1. stack \in Seq(ProgramType) /\ stack # <<>> /\ Len(stack) \in Nat
  BY LenProperties DEF StackOK, Typed
<1>2. /\ stack' \in Seq(ProgramType) /\ stack' # <<>> /\ Len(stack') = Len(stack) + 1
      /\ \A i \in 1..Len(stack) + 1 :
           stack'[i] = IF i = Len(stack) THEN p
                       ELSE IF i = Len(stack) + 1 THEN q ELSE stack[i]
  <2> DEFINE r == ReplaceAt(stack, Len(stack), p)
  <2>1. /\ r \in Seq(ProgramType) /\ Len(r) = Len(stack)
        /\ \A i \in 1..Len(stack) : r[i] = IF i = Len(stack) THEN p ELSE stack[i]
    BY <1>1, Replaced
  <2> HIDE DEF r
  <2>2. /\ Append(r, q) \in Seq(ProgramType) /\ Append(r, q) # <<>>
        /\ Len(Append(r, q)) = Len(r) + 1
        /\ \A i \in 1..Len(r) : Append(r, q)[i] = r[i]
        /\ Append(r, q)[Len(r) + 1] = q
    BY <2>1, AppendProperties
  <2>3. stack' = Append(r, q)
    BY DEF r
  <2> QED BY <1>1, <2>1, <2>2, <2>3
<1>3. Typed'
  BY <1>2 DEF StackOK, Typed
<1>4. ASSUME NEW i \in 1..Len(stack') PROVE Good(stack[i], i, Len(stack))'
  <2>1. CASE i = Len(stack)
    BY <1>1, <1>2, <2>1 DEF Good
  <2>2. CASE i = Len(stack) + 1
    BY <1>1, <1>2, <2>2 DEF Good
  <2>3. CASE i \notin {Len(stack), Len(stack) + 1}
    <3>1. i \in 1..Len(stack) /\ i < Len(stack) /\ i < Len(stack')
      BY <1>1, <1>2, <2>3
    <3>2. Good(stack[i], i, Len(stack))
      BY <3>1 DEF StackOK
    <3> QED BY <1>2, <2>3, <3>1, <3>2 DEF Good
  <2> QED BY <2>1, <2>2, <2>3
<1>5. Top' = q
  BY <1>1, <1>2 DEF Top, Last
<1> QED BY <1>3, <1>4, <1>5 DEF StackOK

\* A program ends, and the one that waited for it goes on.
LEMMA PopHolds ==
  ASSUME StackOK, Len(stack) > 1, NEW p \in ProgramType,
         stack' = ReplaceAt(Front(stack), Len(Front(stack)), p),
         Good(p, Len(stack) - 1, Len(stack) - 1),
         UNCHANGED configured, OthersTyped'
  PROVE  StackOK' /\ Top' = p
<1>1. stack \in Seq(ProgramType) /\ Len(stack) \in Nat
  BY LenProperties DEF StackOK, Typed
<1>2. /\ stack' \in Seq(ProgramType) /\ stack' # <<>> /\ Len(stack') = Len(stack) - 1
      /\ \A i \in 1..Len(stack) - 1 :
           stack'[i] = IF i = Len(stack) - 1 THEN p ELSE stack[i]
  <2> DEFINE r == Front(stack)
  <2>1. /\ r \in Seq(ProgramType) /\ r # <<>> /\ Len(r) = Len(stack) - 1
        /\ \A i \in 1..Len(stack) - 1 : r[i] = stack[i]
    BY <1>1, Fronted
  <2> HIDE DEF r
  <2>2. r \in Seq(ProgramType) /\ r # <<>>
    BY <2>1
  <2>3. /\ ReplaceAt(r, Len(r), p) \in Seq(ProgramType)
        /\ ReplaceAt(r, Len(r), p) # <<>>
        /\ Len(ReplaceAt(r, Len(r), p)) = Len(r)
        /\ \A i \in 1..Len(r) :
             ReplaceAt(r, Len(r), p)[i] = IF i = Len(r) THEN p ELSE r[i]
    BY ONLY <2>2, p \in ProgramType, Replaced
  <2>4. stack' = ReplaceAt(r, Len(r), p)
    BY DEF r
  <2> QED BY <1>1, <2>1, <2>3, <2>4
<1>3. Typed'
  BY <1>2 DEF StackOK, Typed
<1>4. ASSUME NEW i \in 1..Len(stack') PROVE Good(stack[i], i, Len(stack))'
  <2>1. CASE i = Len(stack) - 1
    BY <1>1, <1>2, <2>1 DEF Good
  <2>2. CASE i # Len(stack) - 1
    <3>1. i \in 1..Len(stack) /\ i < Len(stack) /\ i < Len(stack')
      BY <1>1, <1>2, <2>2
    <3>2. Good(stack[i], i, Len(stack))
      BY <3>1 DEF StackOK
    <3> QED BY <1>2, <2>2, <3>1, <3>2 DEF Good
  <2> QED BY <2>1, <2>2
<1>5. Top' = p
  BY <1>1, <1>2 DEF Top, Last
<1> QED BY <1>3, <1>4, <1>5 DEF StackOK

LEMMA ProgramIsTyped ==
  ASSUME NEW image \in {"app", "shell", "helper"}, NEW env \in LdAudit
  PROVE  Program(image, env) \in ProgramType
  BY DEF Program, ProgramType

\* sanitize_ld_audit and, since its backup is empty, restore_ld_audit.
LEMMA RestoredIs == ASSUME NEW env, NEW original PROVE Restored(env, original) = env
  BY DEF Restored, BackupSlot

\* la_version pays for the shell with its own entry.
LEMMA LoadShimHolds == StackOK /\ LoadShim => StackOK' /\ Top'.found = {}
<1> SUFFICES ASSUME StackOK, LoadShim PROVE StackOK' /\ Top'.found = {}
  OBVIOUS
<1> DEFINE n == Len(stack)
           env == Sanitized(Top.env)
<1>1. /\ n \in Nat \ {0} /\ Top \in ProgramType /\ Good(Top, n, n)
      /\ Top.env \in LdAudit /\ Top.env \in Seq(Slot) /\ Audited(Top.env)
      /\ Top.pc = "start"
      /\ UNCHANGED <<configured, contents, changed, changes, programs>>
  BY TopIs DEF LoadShim, ProgramType, LdAudit
<1>2. env \in LdAudit /\ env \in Seq(Slot)
  BY <1>1, SanitizedType DEF LdAudit
<1>3. /\ SelfCount(env) \in Nat /\ SelfCount(Top.env) \in Nat
      /\ SelfCount(configured) \in Nat
  BY <1>1, <1>2, SelfSlotsFinite DEF StackOK, Typed, LdAudit
<1>4. SelfCount(env) <= SelfCount(Top.env) - (IF setup.selfKnown THEN 1 ELSE 0)
  <2>1. CASE setup.selfKnown
    BY <1>1, <2>1, SanitizedCount
  <2>2. CASE ~setup.selfKnown
    BY <1>3, <2>2 DEF Sanitized
  <2> QED BY <2>1, <2>2
<1>5. OthersTyped'
  BY <1>1 DEF StackOK, Typed, OthersTyped
<1>8. Keeps(configured, env)
  BY <1>1, SanitizedKeeps DEF Good, StackOK, Typed, LdAudit
<1>9. /\ Top.image = "app" <=> n = 1
      /\ n + SelfCount(Top.env) <= 1 + SelfCount(configured)
      /\ Top.found = {} /\ Top.dir = {} /\ Top.paths = {} /\ DirsOf({}) = {}
  BY <1>1 DEF Good, DirsOf
<1> HIDE DEF env
<1>6. CASE /\ setup.selfKnown
           /\ stack' = Append(ReplaceAt(stack, n, [Top EXCEPT !.env = env, !.pc = "pclose"]),
                              Program("shell", env))
  <2> DEFINE p == [Top EXCEPT !.env = env, !.pc = "pclose"]
             q == Program("shell", env)
  <2>1. p \in ProgramType /\ q \in ProgramType
    BY <1>1, <1>2, ProgramIsTyped DEF ProgramType
  <2>3. /\ n + SelfCount(env) <= 1 + SelfCount(configured)
        /\ n + 1 + SelfCount(env) <= 1 + SelfCount(configured)
    BY <1>1, <1>3, <1>4, <1>6, <1>9
  <2>4. Good(p, n, n + 1)
    <3>1. /\ p.image = Top.image /\ p.pc = "pclose" /\ p.env = env
          /\ p.found = {} /\ p.dir = {} /\ p.paths = {}
      BY <1>1, <1>9 DEF ProgramType
    <3> HIDE DEF p
    <3> QED BY <1>1, <1>8, <1>9, <2>3, <3>1 DEF Good
  <2>5. Good(q, n + 1, n + 1)
    <3>1. /\ q.image = "shell" /\ q.pc = "start" /\ q.env = env
          /\ q.found = {} /\ q.dir = {} /\ q.paths = {}
      BY DEF Program
    <3> HIDE DEF q
    <3> QED BY <1>1, <1>8, <2>3, <3>1 DEF Good
  <2>6. q.found = {}
    BY DEF Program
  <2> HIDE DEF p, q
  <2>7. StackOK' /\ Top' = q
    BY <1>1, <1>5, <1>6, <2>1, <2>4, <2>5, PushHolds DEF p, q
  <2> QED BY <2>6, <2>7
<1>7. CASE SetTop([Top EXCEPT !.env = Restored(env, Top.env), !.pc = "main"])
  <2> DEFINE p == [Top EXCEPT !.env = env, !.pc = "main"]
  <2>1. p \in ProgramType
    BY <1>1, <1>2 DEF ProgramType
  <2>2. n + SelfCount(env) <= 1 + SelfCount(configured)
    BY <1>1, <1>3, <1>4, <1>9
  <2>5. /\ p.image = Top.image /\ p.pc = "main" /\ p.env = env
        /\ p.found = {} /\ p.dir = {} /\ p.paths = {}
    BY <1>1, <1>9 DEF ProgramType
  <2>4. SetTop(p)
    BY <1>7, RestoredIs
  <2> HIDE DEF p
  <2>3. Good(p, n, n)
    BY <1>1, <1>8, <1>9, <2>2, <2>5 DEF Good
  <2>6. StackOK' /\ Top' = p
    BY <1>1, <1>5, <2>1, <2>3, <2>4, SetTopHolds
  <2> QED BY <2>5, <2>6
<1> QED BY <1>6, <1>7 DEF LoadShim, env

LEMMA StartHolds ==
  StackOK /\ (StartPlain \/ ExecHelper \/ Exec) => StackOK' /\ Top'.found = {}
<1> SUFFICES ASSUME StackOK, StartPlain \/ ExecHelper \/ Exec
             PROVE  StackOK' /\ Top'.found = {}
  OBVIOUS
<1> DEFINE n == Len(stack)
<1>1. /\ n \in Nat \ {0} /\ Top \in ProgramType /\ Good(Top, n, n)
      /\ Top.env \in LdAudit /\ Top.image \in {"app", "shell", "helper"}
      /\ programs \in 1..MaxPrograms /\ MaxPrograms \in Nat /\ DirsOf({}) = {}
  BY TopIs, BoundsAssumption DEF ProgramType, StackOK, Typed, OthersTyped, DirsOf
<1>6. UNCHANGED configured /\ OthersTyped'
  <2>1. UNCHANGED <<configured, contents, changed, changes>> /\ programs' \in 1..MaxPrograms
    BY <1>1 DEF StartPlain, ExecHelper, Exec
  <2> QED BY <2>1 DEF StackOK, Typed, OthersTyped
<1>2. ASSUME NEW image \in {"app", "helper"}, SetTop(Program(image, Top.env)),
             Top.image = "app" <=> image = "app"
      PROVE  StackOK' /\ Top'.found = {}
  <2> DEFINE p == Program(image, Top.env)
  <2>1. p \in ProgramType
    BY <1>1, ProgramIsTyped
  <2>2. /\ p.image = image /\ p.pc = "start" /\ p.env = Top.env
        /\ p.found = {} /\ p.dir = {} /\ p.paths = {}
    BY DEF Program
  <2>4. SetTop(p)
    BY <1>2
  <2> HIDE DEF p
  <2>3. Good(p, n, n)
    BY <1>1, <1>2, <2>2 DEF Good
  <2>5. StackOK' /\ Top' = p
    BY <1>6, <2>1, <2>3, <2>4, SetTopHolds
  <2> QED BY <2>2, <2>5
<1>3. CASE StartPlain
  <2> DEFINE p == [Top EXCEPT !.pc = "main"]
  <2>1. p \in ProgramType
    BY <1>1 DEF ProgramType
  <2>2. /\ p.image = Top.image /\ p.pc = "main" /\ p.env = Top.env
        /\ p.found = {} /\ p.dir = {} /\ p.paths = {}
    BY <1>1, <1>3 DEF ProgramType, Good, StartPlain
  <2>4. SetTop(p)
    BY <1>3 DEF StartPlain
  <2> HIDE DEF p
  <2>3. Good(p, n, n)
    BY <1>1, <2>2 DEF Good
  <2>5. StackOK' /\ Top' = p
    BY <1>6, <2>1, <2>3, <2>4, SetTopHolds
  <2> QED BY <2>2, <2>5
<1>4. CASE ExecHelper
  <2>1. SetTop(Program("helper", Top.env)) /\ Top.image # "app"
    BY <1>4 DEF ExecHelper
  <2> QED BY <1>2, <2>1
<1>5. CASE Exec
  <2>1. SetTop(Program("app", Top.env)) /\ Top.image = "app"
    BY <1>5 DEF Exec
  <2> QED BY <1>2, <2>1
<1> QED BY <1>3, <1>4, <1>5

\* What the helper prints is short enough for all four paths.
LEMMA HelperSearchesHolds ==
  StackOK /\ HelperSearches =>
    /\ StackOK'
    /\ \A f \in Top'.found : f.driver # NoDriver /\ contents'[f.path] = f.driver
<1> SUFFICES ASSUME StackOK, HelperSearches
             PROVE  /\ StackOK'
                    /\ \A f \in Top'.found : f.driver # NoDriver /\ contents'[f.path] = f.driver
  OBVIOUS
<1> DEFINE n == Len(stack)
<1>1. /\ n \in Nat \ {0} /\ Top \in ProgramType /\ Good(Top, n, n)
      /\ Top.image = "helper" /\ Top.pc = "main"
      /\ changed' = {} /\ UNCHANGED <<configured, contents, changes, programs>>
      /\ contents \in [Dir -> Contents]
  BY TopIs DEF HelperSearches, StackOK, Typed, OthersTyped
<1>2. PICK found : /\ found = {} \/ \E d \in Answers : found = {[path |-> d, driver |-> contents[d]]}
                   /\ SetTop([Top EXCEPT !.found = found, !.pc = "exit"])
  BY DEF HelperSearches
<1>3. /\ found \in SUBSET FoundType
      /\ found = {} \/ \E f : found = {f}
      /\ \A f \in found : /\ f.driver # NoDriver /\ contents[f.path] = f.driver
                          /\ \A s \in Soname : JoinedLength(f.path, s) < PathMax
  <2>1. CASE found = {}
    BY <2>1
  <2>2. CASE \E d \in Answers : found = {[path |-> d, driver |-> contents[d]]}
    <3>1. PICK d \in Answers : found = {[path |-> d, driver |-> contents[d]]}
      BY <2>2
    <3>2. /\ d \in Dir /\ contents[d] # NoDriver /\ contents[d] \in Contents
          /\ \A s \in Soname : JoinedLength(d, s) < PathMax
      BY <1>1 DEF Answers
    <3> DEFINE f == [path |-> d, driver |-> contents[d]]
    <3>3. f \in FoundType /\ f.path = d /\ f.driver = contents[d]
      BY <3>2 DEF FoundType
    <3>4. found = {f}
      BY <3>1
    <3> HIDE DEF f
    <3> QED BY <3>2, <3>3, <3>4
  <2> QED BY <1>2, <2>1, <2>2
<1> DEFINE p == [Top EXCEPT !.found = found, !.pc = "exit"]
<1>4. /\ p.image = "helper" /\ p.pc = "exit" /\ p.env = Top.env /\ p.found = found
      /\ p.dir = Top.dir /\ p.paths = Top.paths
      /\ p \in ProgramType
  BY <1>1, <1>3 DEF ProgramType
<1>5. SetTop(p)
  BY <1>2
<1> HIDE DEF p
<1>6. Good(p, n, n)
  BY <1>1, <1>3, <1>4 DEF Good
<1>7. OthersTyped'
  BY <1>1 DEF StackOK, Typed, OthersTyped
<1>8. StackOK' /\ Top' = p
  BY <1>1, <1>4, <1>5, <1>6, <1>7, SetTopHolds
<1> QED BY <1>1, <1>3, <1>4, <1>8

\* A directory for which one of the four paths is too long is refused by the
\* helper, and the first line of one is not longer: la_version can join all
\* four or has no directory.
LEMMA PathsAllOrNone ==
  ASSUME NEW found \in SUBSET FoundType,
         \A f \in found, s \in Soname : JoinedLength(f.path, s) < PathMax
  PROVE  LET paths == {s \in Soname : \E d \in DirsOf(found) : JoinFits(d, s)}
         IN paths = {} \/ (paths = Soname /\ DirsOf(found) # {})
<1>1. ASSUME NEW f \in found, NEW s \in Soname PROVE JoinFits(FirstLine[f.path], s)
  <2>1. /\ f.path \in Dir /\ FirstLine[f.path] \in Dir
        /\ DirLength[FirstLine[f.path]] <= DirLength[f.path]
        /\ DirLength[f.path] \in Nat /\ DirLength[FirstLine[f.path]] \in Nat
        /\ SonameLength[s] \in Nat /\ PathMax \in Nat
    BY FirstLineAssumption, DirAssumption, SizeAssumption DEF FoundType, SonameLength, Soname
  <2>2. DirLength[f.path] + 1 + SonameLength[s] < PathMax
    BY <1>1 DEF JoinedLength
  <2>3. DirLength[FirstLine[f.path]] + 1 + SonameLength[s] < PathMax
    BY <2>1, <2>2
  <2> QED BY <2>3 DEF JoinFits, JoinedLength
<1>2. CASE found = {}
  BY <1>2 DEF DirsOf
<1>3. CASE found # {}
  <2>1. PICK f \in found : TRUE
    BY <1>3
  <2>2. FirstLine[f.path] \in DirsOf(found)
    BY DEF DirsOf
  <2>3. \A s \in Soname : JoinFits(FirstLine[f.path], s)
    BY <1>1
  <2> QED BY <2>2, <2>3
<1> QED BY <1>2, <1>3

LEMMA HelperEndsHolds == StackOK /\ HelperEnds => StackOK' /\ Top'.found = Top.found
<1> SUFFICES ASSUME StackOK, HelperEnds PROVE StackOK' /\ Top'.found = Top.found
  OBVIOUS
<1> DEFINE n == Len(stack)
           found == Top.found
<1>1. /\ n \in Nat \ {0} /\ Good(Top, n, n) /\ Top.pc = "exit" /\ found \in SUBSET FoundType
  BY TopIs DEF HelperEnds, ProgramType
<1>2. n > 1
  <2>1. n # 1
    BY <1>1 DEF Good
  <2> HIDE DEF n
  <2> QED BY <1>1, <2>1
<1>3. stack' = ReplaceAt(Front(stack), Len(Front(stack)), Answered(Last(Front(stack)), found))
  BY DEF HelperEnds
<1> DEFINE w == stack[n - 1]
           p == Answered(w, found)
<1>4. stack \in Seq(ProgramType) /\ Last(Front(stack)) = w
  <2>1. stack \in Seq(ProgramType) /\ stack[n - 1] \in ProgramType
    BY <1>1, <1>2, ElementOfSeq DEF StackOK, Typed
  <2> QED BY <1>2, <2>1, Fronted
<1>5. w \in ProgramType /\ Good(w, n - 1, n)
  <2>1. n - 1 \in 1..n
    BY <1>1, <1>2
  <2> QED BY <1>4, <2>1, ElementOfSeq DEF StackOK
<1>6. /\ DirsOf(found) \in SUBSET Dir
      /\ found = {} \/ \E f : found = {f}
      /\ \A f \in found, s \in Soname : JoinedLength(f.path, s) < PathMax
  <2>1. \A f \in found : f.path \in Dir
    BY <1>1 DEF FoundType
  <2> QED BY <1>1, <2>1, FirstLineAssumption DEF DirsOf, Good
<1>10. /\ stack' = ReplaceAt(Front(stack), Len(Front(stack)), p)
       /\ UNCHANGED <<configured, contents, changed, changes, programs>>
  BY <1>3, <1>4 DEF HelperEnds
<1> HIDE DEF w, found
<1>7. /\ p.image = w.image /\ p.original = w.original /\ p.env = w.env /\ p.pc = "main"
      /\ p.found = found /\ p.dir = DirsOf(found)
      /\ p.paths = {s \in Soname : \E d \in DirsOf(found) : JoinFits(d, s)}
      /\ p \in ProgramType
  BY <1>1, <1>5, <1>6, RestoredIs DEF Answered, ProgramType, DirsOf
<1> HIDE DEF p
<1>8. p.paths = {} \/ (p.paths = Soname /\ p.dir # {})
  BY <1>1, <1>6, <1>7, PathsAllOrNone
<1>9. Good(p, n - 1, n - 1)
  <2>1. n - 1 < n /\ ~(n - 1 < n - 1)
    BY <1>1
  <2> HIDE DEF n
  <2> QED BY <1>5, <1>6, <1>7, <1>8, <2>1 DEF Good
<1>11. OthersTyped'
  BY <1>10 DEF StackOK, Typed, OthersTyped
<1>12. StackOK' /\ Top' = p
  BY <1>2, <1>7, <1>9, <1>10, <1>11, PopHolds
<1> QED BY <1>7, <1>12 DEF found

\* Directories that do not change hold what they held.
LEMMA ChangeHolds ==
  ASSUME StackOK, NEW dirs \in SUBSET Dir, Change(dirs)
  PROVE  /\ StackOK' /\ UNCHANGED <<stack, opened>> /\ Top' = Top
         /\ changed \subseteq changed'
         /\ \A d \in Dir : d \in changed' \/ contents'[d] = contents[d]
<1>1. /\ changes < MaxChanges /\ changes' = changes + 1 /\ changed' = changed \cup dirs
      /\ UNCHANGED <<setup, configured, stack, programs, opened>>
  BY DEF Change
<1>2. PICK new \in [dirs -> Contents] :
        contents' = [d \in Dir |-> IF d \in dirs THEN new[d] ELSE contents[d]]
  BY DEF Change
<1>3. OthersTyped'
  BY <1>1, <1>2, BoundsAssumption DEF StackOK, Typed, OthersTyped
<1>4. StackOK'
  BY <1>1, <1>3 DEF StackOK, Typed, Good
<1> QED BY <1>1, <1>2, <1>4 DEF Top

LEMMA ChangesHold ==
  StackOK /\ (Upgrade \/ Chdir) =>
    /\ StackOK' /\ UNCHANGED <<stack, opened>> /\ Top' = Top
    /\ changed \subseteq changed'
    /\ \A d \in Dir : d \in changed' \/ contents'[d] = contents[d]
<1> SUFFICES ASSUME StackOK, Upgrade \/ Chdir
             PROVE  /\ StackOK' /\ UNCHANGED <<stack, opened>> /\ Top' = Top
                    /\ changed \subseteq changed'
                    /\ \A d \in Dir : d \in changed' \/ contents'[d] = contents[d]
  OBVIOUS
<1>1. PICK dirs \in SUBSET Dir : Change(dirs)
  BY PathsAssumption DEF Upgrade, Chdir
<1> QED BY <1>1, ChangeHolds

-----------------------------------------------------------------------------
(* What the helper has seen                                                *)

\* It is still there, or its directory has changed since.
Seen ==
  Top.image = "app" \/ Top.pc = "exit" =>
    \A f \in Top.found : f.driver # NoDriver /\ (f.path \in changed \/ contents[f.path] = f.driver)

LEMMA InitHolds == Init => StackOK /\ Seen
<1> SUFFICES ASSUME Init PROVE StackOK /\ Seen
  OBVIOUS
<1> DEFINE p == Program("app", configured)
<1>1. /\ configured \in LdAudit /\ configured \in Seq(Slot) /\ stack = <<p>>
      /\ contents \in [Dir -> Contents] /\ changed = {} /\ changes = 0 /\ programs = 1
  BY EnvironmentsAssumption, DriverAssumption DEF Init, LdAudit
<1>2. /\ p \in ProgramType
      /\ p.image = "app" /\ p.pc = "start" /\ p.env = configured
      /\ p.found = {} /\ p.dir = {} /\ p.paths = {}
  BY <1>1, ProgramIsTyped DEF Program
<1> HIDE DEF p
<1>3. Good(p, 1, 1)
  <2>1. SelfCount(configured) \in Nat /\ DirsOf({}) = {}
    BY <1>1, SelfSlotsFinite DEF DirsOf
  <2> QED BY <1>1, <1>2, <2>1, KeepsItself DEF Good
<1>4. /\ stack \in Seq(ProgramType) /\ stack # <<>> /\ Len(stack) = 1 /\ stack[1] = p
  BY <1>1, <1>2
<1>5. Typed
  BY <1>1, <1>4, BoundsAssumption DEF Typed, OthersTyped
<1>6. Top.found = {}
  BY <1>2, <1>4 DEF Top, Last
<1> QED BY <1>3, <1>4, <1>5, <1>6 DEF StackOK, Seen

LEMMA StepHolds == StackOK /\ Seen /\ [Next]_vars => StackOK' /\ Seen'
<1> SUFFICES ASSUME StackOK, Seen, [Next]_vars PROVE StackOK' /\ Seen'
  OBVIOUS
<1>1. CASE LoadShim
  BY <1>1, LoadShimHolds DEF Seen
<1>2. CASE StartPlain \/ ExecHelper \/ Exec
  BY <1>2, StartHolds DEF Seen
<1>3. CASE HelperSearches
  BY <1>3, HelperSearchesHolds DEF Seen
<1>4. CASE HelperEnds
  <2>1. StackOK' /\ Top'.found = Top.found
    BY <1>4, HelperEndsHolds
  <2>2. Top.pc = "exit" /\ UNCHANGED <<contents, changed>>
    BY <1>4 DEF HelperEnds
  <2> QED BY <2>1, <2>2 DEF Seen
<1>5. CASE Upgrade \/ Chdir
  <2>1. /\ StackOK' /\ Top' = Top /\ changed \subseteq changed'
        /\ \A d \in Dir : d \in changed' \/ contents'[d] = contents[d]
    BY <1>5, ChangesHold
  <2>2. \A f \in Top.found : f.path \in Dir
    BY TopIs DEF ProgramType, FoundType
  <2> QED BY <2>1, <2>2 DEF Seen
<1>6. CASE (\E name \in Name : OpenByName(name)) \/ (\E d \in Dir, name \in Name : OpenByPath(d, name))
           \/ Run \/ UNCHANGED vars
  <2>1. UNCHANGED <<configured, stack, contents, changed, changes, programs>>
    BY <1>6 DEF OpenByName, OpenByPath, Run, vars
  <2>2. StackOK'
    BY <2>1 DEF StackOK, Typed, OthersTyped, Good
  <2> QED BY <2>1, <2>2 DEF Seen, Top
<1> QED BY <1>1, <1>2, <1>3, <1>4, <1>5, <1>6 DEF Next, Launch

LEMMA StackAlways == Spec => [](StackOK /\ Seen)
  BY InitHolds, StepHolds, PTL DEF Spec

-----------------------------------------------------------------------------
(* What the application has opened                                         *)

OpenedOK ==
  /\ opened # {} => Top.image = "app" /\ Top.pc = "main"
  /\ \A o \in opened :
       /\ o.name \in Name
       /\ o.byName => (o.redirected <=> Redirects(Top, o.name))
       /\ o.redirected =>
            /\ Top.dir = {o.dir}
            /\ o.dir \in changed \/ o.driver = contents[o.dir]
            /\ o.driver # NoDriver => o.bound
       /\ o.bound => \E d \in Top.dir :
                       o.dir = d \/ \E s \in Soname : <<o.dir, d, s>> \in Beside

\* The program on the top, which may open a library.
LEMMA OpenerIs ==
  ASSUME StackOK, CanOpen
  PROVE  /\ Top.image = "app" /\ Top.pc = "main"
         /\ Top.dir \in SUBSET Dir
         /\ Top.dir = {} \/ Top.dir = {ChosenDir(Top)}
         /\ Top.paths = {} \/ (Top.paths = Soname /\ Top.dir # {})
<1>1. /\ Top.image = "app" /\ Top.pc = "main" /\ Top \in ProgramType
      /\ Good(Top, Len(stack), Len(stack))
  BY TopIs DEF CanOpen
<1>2. Top.dir = {} \/ \E d : Top.dir = {d}
  <2>1. Top.dir = DirsOf(Top.found) /\ (Top.found = {} \/ \E f : Top.found = {f})
    BY <1>1 DEF Good
  <2> QED BY <2>1 DEF DirsOf
<1>3. Top.dir = {} \/ Top.dir = {ChosenDir(Top)}
  BY <1>2 DEF ChosenDir
<1> QED BY <1>1, <1>3 DEF Good, ProgramType

\* strncmp finds no difference just where l_name begins with a path that is
\* set: the length of one that is not is the greatest size there is.
LEMMA BoundIs ==
  ASSUME StackOK, CanOpen, NEW d \in Dir, NEW file
  PROVE  Bound(d, file, Top) <=>
           \E s \in Top.paths : Begins(d, file, Top, s)
<1>1. /\ Top.dir \in SUBSET Dir
      /\ Top.dir = {} \/ Top.dir = {ChosenDir(Top)}
      /\ Top.paths = {} \/ (Top.paths = Soname /\ Top.dir # {})
  BY OpenerIs
<1>2. ASSUME NEW s \in Soname
      PROVE  Common(d, file, Top, s) >= AsSize(PathLen(Top, s))
               <=> s \in Top.paths /\ Begins(d, file, Top, s)
  <2>1. CASE s \notin Top.paths
    <3>1. Common(d, file, Top, s) = 0 /\ PathLen(Top, s) = -1
      BY <2>1 DEF Common, PathLen
    <3>2. AsSize(-1) = SizeMax /\ SizeMax > 0
      BY SizeAssumption DEF AsSize
    <3>3. SizeMax \in Nat
      BY SizeAssumption
    <3> QED BY <2>1, <3>1, <3>2, <3>3
  <2>2. CASE s \in Top.paths
    <3>1. ChosenDir(Top) \in Dir
      BY <1>1, <2>2
    <3>2. PICK n : n = JoinedLength(ChosenDir(Top), s)
      OBVIOUS
    <3>3. n \in Nat
      <4>1. DirLength[ChosenDir(Top)] \in Nat /\ SonameLength[s] \in Nat
        BY <3>1, DirAssumption DEF SonameLength, Soname
      <4> QED BY <3>2, <4>1 DEF JoinedLength
    <3>4. AsSize(PathLen(Top, s)) = n
      BY <2>2, <3>2, <3>3 DEF PathLen, AsSize
    <3>5. CASE Begins(d, file, Top, s)
      <4>1. Common(d, file, Top, s) = n
        BY <2>2, <3>2, <3>5 DEF Common
      <4> QED BY <2>2, <3>3, <3>4, <3>5, <4>1
    <3>6. CASE ~Begins(d, file, Top, s)
      <4>1. Common(d, file, Top, s) = n - 1
        BY <2>2, <3>2, <3>6 DEF Common
      <4> QED BY <3>3, <3>4, <3>6, <4>1
    <3> QED BY <3>5, <3>6
  <2> QED BY <2>1, <2>2
<1>3. Top.paths \subseteq Soname
  BY <1>1
<1> QED BY <1>2, <1>3 DEF Bound

\* What is bound is in the chosen directory or beside a library of it.
LEMMA BoundIsChosen ==
  ASSUME StackOK, CanOpen, NEW d \in Dir, NEW file, Bound(d, file, Top)
  PROVE  \E e \in Top.dir : d = e \/ \E s \in Soname : <<d, e, s>> \in Beside
<1>1. PICK s \in Top.paths : Begins(d, file, Top, s)
  BY BoundIs
<1>2. s \in Soname /\ ChosenDir(Top) \in Top.dir
  BY OpenerIs
<1> QED BY <1>1, <1>2 DEF Begins

\* The library that is opened is one of those of which OpenedOK speaks.
LEMMA OpenedHolds ==
  ASSUME StackOK, OpenedOK, CanOpen, NEW name \in Name, NEW file, NEW d \in Dir,
         NEW byName \in BOOLEAN, NEW redirected \in BOOLEAN,
         opened' = opened \cup {Opened(name, file, d, byName, redirected)},
         UNCHANGED <<stack, contents, changed>>,
         byName => (redirected <=> Redirects(Top, name)),
         redirected => Top.dir = {d} /\ Bound(d, file, Top)
  PROVE  OpenedOK'
<1> DEFINE o == Opened(name, file, d, byName, redirected)
<1>1. /\ o.name = name /\ o.dir = d /\ o.byName = byName /\ o.redirected = redirected
      /\ o.driver = contents[d]
      /\ o.bound <=> contents[d] # NoDriver /\ Bound(d, file, Top)
  BY DEF Opened
<1>2. \A u \in opened' : u \in opened \/ u = o
  OBVIOUS
<1> HIDE DEF o
<1>3. Top' = Top /\ Top.image = "app" /\ Top.pc = "main"
  BY DEF Top, CanOpen
<1>4. o.bound => \E e \in Top.dir : o.dir = e \/ \E s \in Soname : <<o.dir, e, s>> \in Beside
  <2> SUFFICES ASSUME o.bound
               PROVE  \E e \in Top.dir : o.dir = e \/ \E s \in Soname : <<o.dir, e, s>> \in Beside
    OBVIOUS
  <2>1. \E e \in Top.dir : d = e \/ \E s \in Soname : <<d, e, s>> \in Beside
    BY <1>1, BoundIsChosen
  <2> QED BY <1>1, <2>1
<1>5. o.redirected =>
        /\ Top.dir = {o.dir} /\ o.driver = contents[o.dir]
        /\ o.driver # NoDriver => o.bound
  BY <1>1
<1>6. o.name \in Name /\ (o.byName => (o.redirected <=> Redirects(Top, o.name)))
  BY <1>1
<1> QED BY <1>2, <1>3, <1>4, <1>5, <1>6 DEF OpenedOK, Redirects

LEMMA OpenByNameHolds ==
  ASSUME StackOK, OpenedOK, NEW name \in Name, OpenByName(name)
  PROVE  OpenedOK'
<1>1. CanOpen /\ UNCHANGED <<stack, contents, changed>>
  BY DEF OpenByName
<1>2. CASE Redirects(Top, name)
  <2>1. PICK s \in Top.paths :
          /\ Matches(name, s)
          /\ opened' = opened \cup {Opened(name, s, ChosenDir(Top), TRUE, TRUE)}
    BY <1>2 DEF OpenByName
  <2>2. Top.dir = {ChosenDir(Top)} /\ ChosenDir(Top) \in Dir
    BY <1>1, <2>1, OpenerIs
  <2>3. Bound(ChosenDir(Top), s, Top)
    <3>1. Begins(ChosenDir(Top), s, Top, s)
      BY DEF Begins, Matches
    <3> QED BY <1>1, <2>2, <3>1, BoundIs
  <2> QED BY <1>1, <1>2, <2>1, <2>2, <2>3, OpenedHolds
<1>3. CASE ~Redirects(Top, name)
  <2>1. PICK d \in Dir : opened' = opened \cup {Opened(name, name, d, TRUE, FALSE)}
    BY <1>3 DEF OpenByName
  <2> QED BY <1>1, <1>3, <2>1, OpenedHolds
<1> QED BY <1>2, <1>3

LEMMA OpenByPathHolds ==
  ASSUME StackOK, OpenedOK, NEW d \in Dir, NEW name \in Name, OpenByPath(d, name)
  PROVE  OpenedOK'
<1>1. /\ CanOpen /\ UNCHANGED <<stack, contents, changed>>
      /\ opened' = opened \cup {Opened(name, name, d, FALSE, FALSE)}
  BY DEF OpenByPath
<1> QED BY <1>1, OpenedHolds

LEMMA OpenedAlways == Spec => []OpenedOK
<1>1. Init => OpenedOK
  BY DEF Init, OpenedOK
<1>2. StackOK /\ OpenedOK /\ [Next]_vars => OpenedOK'
  <2> SUFFICES ASSUME StackOK, OpenedOK, [Next]_vars PROVE OpenedOK'
    OBVIOUS
  <2>1. CASE Launch \/ Exec
    <3>1. Top.image # "app" \/ Top.pc # "main" \/ opened' = {}
      <4>1. Top.pc = "exit" => Top.image = "helper"
        BY TopIs DEF Good
      <4> QED BY <2>1, <4>1 DEF Launch, LoadShim, StartPlain, ExecHelper, HelperSearches,
                                HelperEnds, Exec
    <3>2. opened' = {} \/ opened' = opened
      BY <2>1 DEF Launch, LoadShim, StartPlain, ExecHelper, HelperSearches, HelperEnds, Exec
    <3>3. opened' = {}
      BY <3>1, <3>2 DEF OpenedOK
    <3> QED BY <3>3 DEF OpenedOK
  <2>2. CASE Upgrade \/ Chdir
    <3>1. /\ opened' = opened /\ Top' = Top /\ changed \subseteq changed'
          /\ \A d \in Dir : d \in changed' \/ contents'[d] = contents[d]
      BY <2>2, ChangesHold
    <3>2. ASSUME NEW o \in opened, o.redirected
          PROVE  o.dir \in changed' \/ o.driver = contents'[o.dir]
      <4>1. Top.dir = {o.dir} /\ (o.dir \in changed \/ o.driver = contents[o.dir])
        BY <3>2 DEF OpenedOK
      <4>2. o.dir \in Dir
        BY <4>1, TopIs DEF ProgramType
      <4> QED BY <3>1, <4>1, <4>2
    <3> QED BY <3>1, <3>2 DEF OpenedOK, Redirects
  <2>3. CASE Run \/ UNCHANGED vars
    <3>1. UNCHANGED <<stack, opened, contents, changed>> /\ Top' = Top
      BY <2>3 DEF Run, vars, Top
    <3> QED BY <3>1 DEF OpenedOK, Redirects
  <2> QED BY <2>1, <2>2, <2>3, OpenByNameHolds, OpenByPathHolds DEF Next
<1> QED BY <1>1, <1>2, StackAlways, PTL DEF Spec

-----------------------------------------------------------------------------
(* The theorems                                                            *)

\* Editing LD_AUDIT keeps it one that next_token can walk over, in every
\* program of every launch, and the stack is one chain of waiting programs.
THEOREM TypeCorrect == Spec => []TypeOK
<1>1. StackOK => TypeOK
  <2> SUFFICES ASSUME StackOK PROVE TypeOK
    OBVIOUS
  <2>1. ASSUME NEW i \in 1..Len(stack)
        PROVE  /\ stack[i].image = "app" <=> i = 1
               /\ stack[i].image \in {"app", "shell", "helper"}
               /\ stack[i].env \in LdAudit
               /\ stack[i].original \in LdAudit
               /\ stack[i].pc \in {"start", "pclose", "main", "exit"}
               /\ stack[i].pc = "pclose" <=> i < Len(stack)
               /\ stack[i].pc = "exit" => stack[i].image = "helper"
               /\ stack[i].found \in SUBSET [path : Dir, driver : Contents]
               /\ stack[i].dir \in SUBSET Dir
               /\ stack[i].paths \in SUBSET Soname
    <3>1. stack[i] \in ProgramType
      BY ElementOfSeq DEF StackOK, Typed
    <3>2. Good(stack[i], i, Len(stack))
      BY DEF StackOK
    <3> QED BY <3>1, <3>2 DEF ProgramType, FoundType, Good
  <2> QED BY <2>1 DEF StackOK, Typed, OthersTyped, TypeOK
<1> QED BY <1>1, StackAlways, PTL

\* The shim does not start itself without end: each program that waits has
\* taken one entry out of LD_AUDIT before the next one inherited it.
THEOREM RecursionBoundedAlways == Spec => []RecursionBounded
<1>1. StackOK => RecursionBounded
  <2> SUFFICES ASSUME StackOK PROVE RecursionBounded
    OBVIOUS
  <2>1. /\ Len(stack) \in Nat /\ Good(Top, Len(stack), Len(stack))
        /\ Top.env \in Seq(Slot) /\ configured \in Seq(Slot)
    BY TopIs DEF ProgramType, LdAudit, StackOK, Typed
  <2>2. SelfCount(Top.env) \in Nat /\ SelfCount(configured) \in Nat
    BY <2>1, SelfSlotsFinite
  <2>3. Len(stack) + SelfCount(Top.env) <= 1 + SelfCount(configured)
    BY <2>1 DEF Good
  <2> QED BY <2>1, <2>2, <2>3 DEF RecursionBounded
<1> QED BY <1>1, StackAlways, PTL

\* Whatever LD_AUDIT names, and however deep the programs are nested, no
\* program is without an audit library it would have had without the shim.
THEOREM OtherAuditorsKeptAlways == Spec => []OtherAuditorsKept
<1>1. StackOK => OtherAuditorsKept
  BY DEF StackOK, Good, OtherAuditorsKept
<1> QED BY <1>1, StackAlways, PTL

\* Whatever the lengths of the directories, la_version sets all four paths or
\* none: la_objsearch may decide by one of them.
THEOREM AllOrNoneAlways == Spec => []AllOrNone
<1>1. StackOK => AllOrNone
  BY DEF StackOK, Good, AllOrNone
<1> QED BY <1>1, StackAlways, PTL

\* No program mixes the libraries of two drivers, however often drivers come
\* and go while it runs, unless the one it uses is replaced in its directory.
THEOREM OneDriverPerProgramAlways == Spec => []OneDriverPerProgram
<1>1. OpenedOK => OneDriverPerProgram
  <2> SUFFICES ASSUME OpenedOK, NEW o \in DriverLibraries, NEW u \in DriverLibraries, o.redirected
               PROVE  /\ u.redirected /\ u.dir = o.dir
                      /\ u.driver = o.driver \/ o.dir \in changed
    BY DEF OneDriverPerProgram
  <2>1. o \in opened /\ u \in opened /\ o.byName /\ u.byName /\ u.name \in Name \ {"unrelated"}
    BY DEF DriverLibraries, OpenedOK
  <2>2. "libcuda" \in Top.paths /\ Top.dir = {o.dir} /\ (o.dir \in changed \/ o.driver = contents[o.dir])
    BY <2>1 DEF OpenedOK, Redirects
  <2>3. \E s \in Soname : Matches(u.name, s)
    <3>1. "libcuda" \in Soname
      BY DEF Soname, SonameLength
    <3> QED BY <2>1, <3>1 DEF Name, Matches
  <2>4. u.redirected
    BY <2>1, <2>2, <2>3 DEF OpenedOK, Redirects
  <2>5. Top.dir = {u.dir} /\ (u.dir \in changed \/ u.driver = contents[u.dir])
    BY <2>1, <2>4 DEF OpenedOK
  <2> QED BY <2>2, <2>4, <2>5
<1> QED BY <1>1, OpenedAlways, PTL

\* Whatever is installed, replaced or removed between the helper's look and the
\* opening of a library, the shim redirects to the driver the helper has seen,
\* but for one replaced in its directory and a name cut at its newline.
THEOREM RedirectedIsFoundAlways == Spec => []RedirectedIsFound
<1>1. StackOK /\ Seen /\ OpenedOK => RedirectedIsFound
  <2> SUFFICES ASSUME StackOK, Seen, OpenedOK, NEW o \in opened, o.redirected
               PROVE  \E f \in Top.found :
                        \/ o.driver = f.driver /\ f.driver # NoDriver
                        \/ f.path \in changed
                        \/ FirstLine[f.path] # f.path
    BY DEF RedirectedIsFound
  <2>1. /\ Top.image = "app" /\ Top.dir = {o.dir}
        /\ o.dir \in changed \/ o.driver = contents[o.dir]
    BY DEF OpenedOK
  <2>2. Top.dir = DirsOf(Top.found)
    BY <2>1, TopIs DEF Good
  <2>3. PICK f \in Top.found : o.dir = FirstLine[f.path]
    BY <2>1, <2>2 DEF DirsOf
  <2>4. f.driver # NoDriver /\ (f.path \in changed \/ contents[f.path] = f.driver)
    BY <2>1 DEF Seen
  <2> QED BY <2>1, <2>3, <2>4
<1> QED BY <1>1, StackAlways, OpenedAlways, PTL

\* la_objopen binds the symbols of every library la_objsearch has redirected,
\* whatever the lengths of the paths, and none through a length that is not set.
THEOREM RedirectedIsBoundAlways == Spec => []RedirectedIsBound
<1>1. OpenedOK => RedirectedIsBound
  BY DEF OpenedOK, RedirectedIsBound
<1> QED BY <1>1, OpenedAlways, PTL
=============================================================================
