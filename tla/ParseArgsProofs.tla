-------------------------- MODULE ParseArgsProofs ---------------------------
(***************************************************************************)
(* Theorems about ParseArgs, for every command line, every stdin and all   *)
(* paths: the recursion keeps its types, the lists are what the search     *)
(* relies on, and they are all it was asked for.  A list has no path twice *)
(* because whatever it holds is in its cache, over all command lines that  *)
(* share the two.  Nothing that was asked for is left out because every    *)
(* option of a line that was read is either ahead of the call that reads   *)
(* it, or its tokens are cached or on their way; and at the end no call    *)
(* and no token is left.  The lists are in the order of the command lines  *)
(* because what is looked at next is behind all places looked at before:   *)
(* only the innermost call is at its options, and its line is the one read *)
(* last.  Every "-" has a line because each that is read takes one of the  *)
(* "-" that are ahead of some call, and brings those it has.               *)
(***************************************************************************)
EXTENDS ParseArgs, SequenceTheorems, FiniteSetTheorems, TLAPS

Token == Path \cup {Empty}

CallType ==
  {c \in [line : CommandLine, pass : {"options", "arguments"}, next : Nat \ {0}] :
     c.next <= Len(c.line) + 1}

Typed ==
  /\ kind \in [Path -> Kind]
  /\ default \subseteq Seq(Token)
  /\ calls \in Seq(CallType)
  /\ lines \in Seq(CommandLine)
  /\ todo \in Seq(Token)
  /\ dirMode \in BOOLEAN
  /\ pathCache \in SUBSET Path /\ libCache \in SUBSET Path
  /\ pathSeen \in BOOLEAN
  /\ status \in {"options", "default", "done", "failed", "aborted"}
  /\ status = "default" => dirMode

\* A list and its cache: each path once, and each of them cached.
Kept(list, cache, k) ==
  /\ list \in Seq(Path)
  /\ \A i \in 1..Len(list) : list[i] \in cache /\ kind[list[i]] = k
  /\ IsInjective(list)

IInv ==
  /\ Typed
  /\ Kept(paths, pathCache, "directory")
  /\ Kept(libs, libCache, "file")

-----------------------------------------------------------------------------
(* Sequences                                                               *)

LEMMA Replaced ==
  ASSUME NEW S, NEW s \in Seq(S), s # <<>>, NEW e \in S
  PROVE  ReplaceAt(s, Len(s), e) \in Seq(S)
<1>1. Len(s) \in 1..Len(s)
  BY LenProperties, EmptySeq
<1> QED BY <1>1, ExceptSeq DEF ReplaceAt

LEMMA Fronted ==
  ASSUME NEW S, NEW s \in Seq(S), s # <<>>
  PROVE  Front(s) \in Seq(S)
<1>1. Len(s) \in Nat \ {0} /\ \A i \in 1..Len(s) : s[i] \in S
  BY LenProperties, EmptySeq, ElementOfSeq
<1> QED BY <1>1, SubSeqProperties DEF Front

LEMMA Headed ==
  ASSUME NEW S, NEW s \in Seq(S), s # <<>>
  PROVE  Head(s) \in S /\ Tail(s) \in Seq(S)
  BY HeadTailProperties

\* A new path that is cached and of the right kind goes to the end.
LEMMA KeptMore ==
  ASSUME NEW list, NEW cache, NEW k, Kept(list, cache, k),
         NEW p \in Path \ cache, kind[p] = k, UNCHANGED kind
  PROVE  Kept(Append(list, p), cache \cup {p}, k)
<1> DEFINE more == Append(list, p)
<1>1. list \in Seq(Path) /\ Len(list) \in Nat
  BY LenProperties DEF Kept
<1>2. /\ more \in Seq(Path) /\ Len(more) = Len(list) + 1
      /\ \A i \in 1..Len(list) : more[i] = list[i]
      /\ more[Len(list) + 1] = p
  BY <1>1, AppendProperties
<1> HIDE DEF more
<1>3. \A i \in 1..Len(list) : list[i] \in cache /\ kind[list[i]] = k /\ list[i] # p
  BY DEF Kept
<1>4. \A i \in 1..Len(more) : more[i] \in cache \cup {p} /\ kind[more[i]] = k
  BY <1>1, <1>2, <1>3
<1>5. DOMAIN more = 1..Len(more) /\ DOMAIN list = 1..Len(list)
  BY <1>1, <1>2, LenProperties
<1>6. ASSUME NEW i \in 1..Len(more), NEW j \in 1..Len(more), more[i] = more[j]
      PROVE  i = j
  <2>1. \A a, b \in 1..Len(list) : list[a] = list[b] => a = b
    BY <1>5 DEF Kept, IsInjective
  <2> QED BY <1>1, <1>2, <1>3, <1>6, <2>1
<1> QED BY <1>2, <1>4, <1>5, <1>6 DEF Kept, IsInjective, more

LEMMA KeptCached ==
  ASSUME NEW list, NEW cache, NEW k, NEW p \in Path, Kept(list, cache, k)
  PROVE  Kept(list, cache \cup {p}, k)
  BY DEF Kept

-----------------------------------------------------------------------------
(* The invariant                                                           *)

LEMMA CallIs ==
  ASSUME NEW line \in CommandLine
  PROVE  Call(line) \in CallType
<1>1. Len(line) \in Nat
  BY LenProperties DEF CommandLine
<1> QED BY <1>1 DEF Call, CallType

LEMMA InitHolds == Init => IInv
<1> SUFFICES ASSUME Init PROVE IInv
  OBVIOUS
<1>1. kind \in [Path -> Kind] /\ argv \in CommandLine /\ input \in Seq(CommandLine)
  BY KindsAssumption, LinesAssumption DEF Init
<1>2. default \subseteq Seq(Token)
  BY DefaultsAssumption DEF Init, Token
<1>3. calls \in Seq(CallType)
  BY <1>1, CallIs DEF Init
<1>4. Typed
  <2>1. todo \in Seq(Token) /\ lines \in Seq(CommandLine)
    BY <1>1 DEF Init
  <2>2. /\ dirMode \in BOOLEAN /\ pathSeen \in BOOLEAN /\ status = "options"
        /\ pathCache \in SUBSET Path /\ libCache \in SUBSET Path
    BY DEF Init
  <2> QED BY <1>1, <1>2, <1>3, <2>1, <2>2 DEF Typed
<1>5. \A c, k : Kept(<<>>, c, k)
  BY DEF Kept, IsInjective
<1> QED BY <1>4, <1>5 DEF Init, IInv

\* The innermost call, and the argument it is at.
LEMMA InnermostIs ==
  ASSUME Typed, calls # <<>>
  PROVE  /\ Innermost \in CallType
         /\ Innermost.line \in CommandLine /\ Len(Innermost.line) \in Nat
         /\ ~AtEnd => Current \in Argument /\ Advance \in CallType
<1>1. calls \in Seq(CallType) /\ Len(calls) \in 1..Len(calls)
  BY LenProperties, EmptySeq DEF Typed
<1>2. Innermost \in CallType
  BY <1>1, ElementOfSeq DEF Innermost, Last
<1>3. /\ Innermost.line \in CommandLine /\ Innermost.next \in Nat \ {0}
      /\ Innermost.next <= Len(Innermost.line) + 1
      /\ Innermost \in [line : CommandLine, pass : {"options", "arguments"}, next : Nat \ {0}]
  BY <1>2 DEF CallType
<1>4. Len(Innermost.line) \in Nat
  BY <1>3, LenProperties DEF CommandLine
<1>5. ASSUME ~AtEnd PROVE Current \in Argument /\ Advance \in CallType
  <2>1. Innermost.next \in 1..Len(Innermost.line) /\ Innermost.next + 1 <= Len(Innermost.line) + 1
    BY <1>3, <1>4, <1>5 DEF AtEnd
  <2>2. Current \in Argument
    BY <1>3, <2>1, ElementOfSeq DEF Current, CommandLine
  <2>3. Advance \in CallType
    BY <1>3, <2>1 DEF Advance, CallType
  <2> QED BY <2>2, <2>3
<1> QED BY <1>2, <1>3, <1>4, <1>5

LEMMA PassSet ==
  ASSUME NEW L, NEW P, NEW N, NEW d \in [line : L, pass : P, next : N], NEW e \in P
  PROVE  /\ [d EXCEPT !.pass = e] \in [line : L, pass : P, next : N]
         /\ [d EXCEPT !.pass = e].line = d.line
  OBVIOUS

LEMMA NextSet ==
  ASSUME NEW L, NEW P, NEW N, NEW d \in [line : L, pass : P, next : N], NEW e \in N
  PROVE  /\ [d EXCEPT !.next = e] \in [line : L, pass : P, next : N]
         /\ [d EXCEPT !.next = e].line = d.line
         /\ [d EXCEPT !.next = e].next = e
  OBVIOUS

\* A call that starts the second pass over its command line.
LEMMA SecondPass ==
  ASSUME NEW d \in CallType, Len(d.line) \in Nat
  PROVE  [d EXCEPT !.pass = "arguments", !.next = 1] \in CallType
<1> DEFINE R == [line : CommandLine, pass : {"options", "arguments"}, next : Nat \ {0}]
           f == [d EXCEPT !.pass = "arguments"]
           g == [f EXCEPT !.next = 1]
<1>1. d \in R
  BY DEF CallType
<1>2. f \in R /\ f.line = d.line
  BY <1>1, PassSet
<1> HIDE DEF f
<1>3. g \in R /\ g.line = f.line /\ g.next = 1
  BY <1>2, NextSet
<1>4. g = [d EXCEPT !.pass = "arguments", !.next = 1]
  BY DEF f
<1> HIDE DEF g
<1>5. g \in CallType
  BY <1>2, <1>3 DEF CallType
<1> QED BY <1>4, <1>5

LEMMA SetInnermostHolds ==
  ASSUME Typed, calls # <<>>, NEW c \in CallType
  PROVE  ReplaceAt(calls, Len(calls), c) \in Seq(CallType)
  BY Replaced DEF Typed

\* Everything but add_path leaves the lists alone.
LEMMA ListsStay ==
  ASSUME IInv, UNCHANGED kind, UNCHANGED lists, Typed'
  PROVE  IInv'
  BY DEF IInv, Kept, lists

LEMMA AddPathHolds == IInv /\ AddPath => IInv'
<1> SUFFICES ASSUME IInv, AddPath PROVE IInv'
  OBVIOUS
<1> DEFINE p == Named(Head(todo))
<1>1. /\ Typed /\ todo # <<>> /\ todo' = Tail(todo) /\ (Head(todo) # Empty \/ dirMode)
      /\ UNCHANGED <<kind, default, calls, lines, dirMode, pathSeen>>
      /\ status' = IF Faults(p) THEN "aborted" ELSE status
  BY DEF IInv, AddPath, inputs
<1>2. Head(todo) \in Token /\ Tail(todo) \in Seq(Token)
  BY <1>1, Headed DEF Typed
<1>3. p \in Path
  BY <1>1, <1>2, HereAssumption DEF Named, Token
<1>4. status' \in {"options", "default", "done", "failed", "aborted"}
      /\ (status' = "default" => status = "default")
  BY <1>1 DEF Typed
<1>5. CASE dirMode
  <2>1. /\ pathCache' = pathCache \cup {p}
        /\ paths' = IF Keeps(p) THEN Append(paths, p) ELSE paths
        /\ UNCHANGED <<libs, libCache>>
    BY <1>5 DEF AddPath
  <2> HIDE DEF p
  <2>2. Typed'
    BY <1>1, <1>2, <1>3, <1>4, <1>5, <2>1 DEF Typed
  <2>3. Kept(paths', pathCache', "directory")
    <3>1. Kept(paths, pathCache, "directory")
      BY DEF IInv
    <3>2. CASE Keeps(p)
      <4>1. p \in Path \ pathCache /\ kind[p] = "directory"
        BY <1>3, <1>5, <3>2 DEF Keeps, Cache, Wanted
      <4> QED BY <1>1, <2>1, <3>1, <3>2, <4>1, KeptMore
    <3>3. CASE ~Keeps(p)
      BY <1>3, <2>1, <3>1, <3>3, KeptCached
    <3> QED BY <3>2, <3>3
  <2> QED BY <1>1, <2>1, <2>2, <2>3 DEF IInv, Kept
<1>6. CASE ~dirMode
  <2>1. /\ libCache' = libCache \cup {p}
        /\ libs' = IF Keeps(p) THEN Append(libs, p) ELSE libs
        /\ UNCHANGED <<paths, pathCache>>
    BY <1>6 DEF AddPath
  <2> HIDE DEF p
  <2>2. Typed'
    BY <1>1, <1>2, <1>3, <1>4, <1>6, <2>1 DEF Typed
  <2>3. Kept(libs', libCache', "file")
    <3>1. Kept(libs, libCache, "file")
      BY DEF IInv
    <3>2. CASE Keeps(p)
      <4>1. p \in Path \ libCache /\ kind[p] = "file"
        BY <1>3, <1>6, <3>2 DEF Keeps, Cache, Wanted
      <4> QED BY <1>1, <2>1, <3>1, <3>2, <4>1, KeptMore
    <3>3. CASE ~Keeps(p)
      BY <1>3, <2>1, <3>1, <3>3, KeptCached
    <3> QED BY <3>2, <3>3
  <2> QED BY <1>1, <2>1, <2>2, <2>3 DEF IInv, Kept
<1> QED BY <1>5, <1>6

LEMMA ParseOptionHolds == IInv /\ ParseOption => IInv'
<1> SUFFICES ASSUME IInv, ParseOption PROVE IInv'
  OBVIOUS
<1>1. /\ Typed /\ calls # <<>> /\ ~AtEnd /\ status = "options"
      /\ calls' = ReplaceAt(calls, Len(calls), Advance)
      /\ UNCHANGED <<kind, default, lines>> /\ UNCHANGED lists
      /\ status' \in {"options", "failed"}
      /\ pathSeen' \in BOOLEAN
  BY DEF IInv, ParseOption, Parsing, SetInnermost, inputs
<1>2. calls' \in Seq(CallType)
  BY <1>1, InnermostIs, SetInnermostHolds
<1>3. todo' \in Seq(Token) /\ dirMode' \in BOOLEAN
  <2>1. Current.list \in Seq(Token)
    BY <1>1, InnermostIs DEF Argument, Token
  <2>2. todo \in Seq(Token) /\ dirMode \in BOOLEAN
    BY <1>1 DEF Typed
  <2>3. \/ todo' = Current.list /\ dirMode' = (Current.arg = "-p")
        \/ UNCHANGED <<todo, dirMode>>
    BY DEF ParseOption
  <2> QED BY <2>1, <2>2, <2>3
<1>4. Typed'
  <2>1. pathCache' = pathCache /\ libCache' = libCache
    BY <1>1 DEF lists
  <2> QED BY <1>1, <1>2, <1>3, <2>1 DEF Typed
<1> QED BY <1>1, <1>4, ListsStay

LEMMA ParseArgumentHolds == IInv /\ ParseArgument => IInv'
<1> SUFFICES ASSUME IInv, ParseArgument PROVE IInv'
  OBVIOUS
<1>1. /\ Typed /\ calls # <<>> /\ ~AtEnd /\ status = "options"
      /\ UNCHANGED <<kind, default, todo, dirMode, pathSeen>> /\ UNCHANGED lists
      /\ status' \in {"options", "failed"}
  BY DEF IInv, ParseArgument, Parsing, inputs
<1>2. lines # <<>> => Head(lines) \in CommandLine /\ Tail(lines) \in Seq(CommandLine)
  BY <1>1, Headed DEF Typed
<1>3. lines' \in Seq(CommandLine)
  <2>1. lines' = lines \/ (lines # <<>> /\ lines' = Tail(lines))
    BY DEF ParseArgument
  <2> QED BY <1>1, <1>2, <2>1 DEF Typed
<1>4. calls' \in Seq(CallType)
  <2>1. ReplaceAt(calls, Len(calls), Advance) \in Seq(CallType)
    BY <1>1, InnermostIs, SetInnermostHolds
  <2>2. CASE calls' = calls \/ calls' = ReplaceAt(calls, Len(calls), Advance)
    BY <1>1, <2>1, <2>2 DEF Typed
  <2>3. CASE /\ lines # <<>>
             /\ calls' = Append(ReplaceAt(calls, Len(calls), Advance), Call(Head(lines)))
    <3>1. Call(Head(lines)) \in CallType
      BY <1>2, <2>3, CallIs
    <3> QED BY <2>1, <2>3, <3>1, AppendProperties
  <2> QED BY <2>2, <2>3 DEF ParseArgument, SetInnermost
<1>5. Typed'
  <2>1. pathCache' = pathCache /\ libCache' = libCache
    BY <1>1 DEF lists
  <2> QED BY <1>1, <1>3, <1>4, <2>1 DEF Typed
<1> QED BY <1>1, <1>5, ListsStay

LEMMA CallsHold == IInv /\ (OptionsEnd \/ HelperReturns) => IInv'
<1> SUFFICES ASSUME IInv, OptionsEnd \/ HelperReturns PROVE IInv'
  OBVIOUS
<1>1. /\ Typed /\ calls # <<>>
      /\ UNCHANGED <<kind, default, lines, todo, dirMode, pathSeen, status>>
      /\ UNCHANGED lists
  BY DEF IInv, OptionsEnd, HelperReturns, Parsing, inputs
<1>2. calls' \in Seq(CallType)
  <2>1. CASE OptionsEnd
    <3> DEFINE c == [Innermost EXCEPT !.pass = "arguments", !.next = 1]
    <3>1. Innermost \in CallType /\ Len(Innermost.line) \in Nat
      BY <1>1, InnermostIs
    <3>2. c \in CallType
      BY <3>1, SecondPass
    <3> HIDE DEF c
    <3>3. calls' = ReplaceAt(calls, Len(calls), c)
      BY <2>1 DEF OptionsEnd, SetInnermost, c
    <3> QED BY <1>1, <3>2, <3>3, SetInnermostHolds
  <2>2. CASE HelperReturns
    BY <1>1, <2>2, Fronted DEF HelperReturns, Typed
  <2> QED BY <2>1, <2>2
<1>3. Typed'
  <2>1. pathCache' = pathCache /\ libCache' = libCache
    BY <1>1 DEF lists
  <2> QED BY <1>1, <1>2, <2>1 DEF Typed
<1> QED BY <1>1, <1>3, ListsStay

\* The steps of parse_args itself, and those that only walk the list.
LEMMA OthersHold == IInv /\ (SkipEmpty \/ ParseArgsEnds \/ DefaultEnds) => IInv'
<1> SUFFICES ASSUME IInv, SkipEmpty \/ ParseArgsEnds \/ DefaultEnds PROVE IInv'
  OBVIOUS
<1>1. /\ Typed /\ UNCHANGED <<kind, default, calls, lines, pathSeen>> /\ UNCHANGED lists
  BY DEF IInv, SkipEmpty, ParseArgsEnds, DefaultEnds, inputs
<1>2. todo' \in Seq(Token)
  <2>1. CASE SkipEmpty
    BY <1>1, <2>1, Headed DEF SkipEmpty, Typed
  <2>2. CASE ParseArgsEnds
    BY <1>1, <2>2 DEF ParseArgsEnds, Typed
  <2>3. CASE DefaultEnds
    BY <1>1, <2>3 DEF DefaultEnds, Typed
  <2> QED BY <2>1, <2>2, <2>3
<1>3. /\ dirMode' \in BOOLEAN
      /\ status' \in {"options", "default", "done", "failed", "aborted"}
      /\ status' = "default" => dirMode'
  <2>1. dirMode \in BOOLEAN /\ (status = "default" => dirMode)
    BY <1>1 DEF Typed
  <2>2. CASE SkipEmpty
    BY <2>1, <2>2 DEF SkipEmpty
  <2>3. CASE ParseArgsEnds
    BY <2>1, <2>3 DEF ParseArgsEnds
  <2>4. CASE DefaultEnds
    BY <2>1, <2>4 DEF DefaultEnds
  <2> QED BY <2>2, <2>3, <2>4
<1>4. Typed'
  <2>1. pathCache' = pathCache /\ libCache' = libCache
    BY <1>1 DEF lists
  <2> QED BY <1>1, <1>2, <1>3, <2>1 DEF Typed
<1> QED BY <1>1, <1>4, ListsStay

LEMMA IInvAlways == Spec => []IInv
<1>1. IInv /\ [Next]_vars => IInv'
  <2> SUFFICES ASSUME IInv, [Next]_vars PROVE IInv'
    OBVIOUS
  <2>1. CASE Ended \/ UNCHANGED vars
    <3>1. UNCHANGED vars
      BY <2>1 DEF Ended
    <3> QED BY <3>1 DEF vars, IInv, Typed, Kept
  <2> QED BY <2>1, AddPathHolds, ParseOptionHolds, ParseArgumentHolds, CallsHold, OthersHold
          DEF Next
<1> QED BY <1>1, InitHolds, PTL DEF Spec

-----------------------------------------------------------------------------
(* Everything that is asked for, and nothing else                          *)

\* What has been read of stdin is in front of what is left of it.
Suffix ==
  /\ Len(lines) <= Len(input)
  /\ \A i \in 1..Len(lines) : lines[i] = input[Len(input) - Len(lines) + i]

\* The option i of line is still ahead of the call c.
Ahead(c, line, i) == c.line = line /\ c.pass = "options" /\ c.next <= i
Pending(line, i) == \E k \in 1..Len(calls) : Ahead(calls[k], line, i)

\* The token t of a list of directories or libraries has been looked at, or is
\* about to be.
Looked(t, dirs) == IF dirs THEN Named(t) \in pathCache ELSE t = Empty \/ t \in libCache
Taken(t, dirs) == Looked(t, dirs) \/ (dirs = dirMode /\ t \in Range(todo))

OptionTaken(line, i) ==
  line[i].arg \in {"-p", "-l"} =>
    /\ line[i].arg = "-p" => pathSeen
    /\ \A t \in Range(line[i].list) : Taken(t, line[i].arg = "-p")

\* No option is lost, while the program has not failed.
OptionsTaken ==
  status \in {"options", "default", "done"} =>
    \A line \in ReadLines : \A i \in 1..Len(line) : Pending(line, i) \/ OptionTaken(line, i)

DefaultTaken ==
  /\ status \in {"default", "done"} =>
       /\ calls = <<>>
       /\ pathSeen \/ (~PathGiven /\ \A t \in DefaultTokens : Taken(t, TRUE))
  /\ status = "default" => ~pathSeen
  /\ status = "done" => todo = <<>>
  /\ pathSeen => PathGiven

\* Nothing is looked at but what is asked for.
NamedDirs == {Named(t) : t \in TokensOf("-p")}
DirAsked(p) ==
  \/ p \in NamedDirs
  \/ status # "options" /\ ~PathGiven /\ \E t \in DefaultTokens : p = Named(t)
CacheAsked ==
  /\ \A p \in pathCache : DirAsked(p)
  /\ libCache \subseteq AskedLibs
  /\ \A t \in Range(todo) :
       IF dirMode THEN DirAsked(Named(t)) ELSE t = Empty \/ t \in AskedLibs

\* A path that may not be looked at ends the program.
FaultSeen ==
  status = "aborted" <=> \E p \in pathCache \cup libCache : kind[p] = "denied"

\* A list has all that is in its cache and of its kind.
Full(list, cache, k) == Range(list) = {p \in cache : kind[p] = k}

\* The inputs are fixed, and the dynamic linker has one search path or none.
Fixed ==
  /\ argv \in CommandLine /\ input \in Seq(CommandLine)
  /\ default = {} \/ \E d : default = {d}

All ==
  /\ Fixed /\ Suffix /\ (\A k \in 1..Len(calls) : calls[k].line \in ReadLines)
  /\ OptionsTaken /\ DefaultTaken /\ CacheAsked /\ FaultSeen
  /\ Full(paths, pathCache, "directory") /\ Full(libs, libCache, "file")

LEMMA RangeOfMore ==
  ASSUME NEW S, NEW s \in Seq(S), NEW e \in S
  PROVE  Range(Append(s, e)) = Range(s) \cup {e}
<1> DEFINE more == Append(s, e)
<1>1. /\ more \in Seq(S) /\ Len(more) = Len(s) + 1 /\ Len(s) \in Nat
      /\ \A i \in 1..Len(s) : more[i] = s[i]
      /\ more[Len(s) + 1] = e
  BY AppendProperties
<1>2. DOMAIN more = 1..Len(s) + 1 /\ DOMAIN s = 1..Len(s)
  BY <1>1
<1> HIDE DEF more
<1>3. \A x \in Range(more) : x \in Range(s) \cup {e}
  BY <1>1, <1>2 DEF Range
<1>4. \A x \in Range(s) \cup {e} : x \in Range(more)
  <2>1. \A i \in 1..Len(s) : i \in 1..Len(s) + 1
    BY <1>1
  <2>2. Len(s) + 1 \in 1..Len(s) + 1
    BY <1>1
  <2> QED BY <1>1, <1>2, <2>1, <2>2 DEF Range
<1> QED BY <1>3, <1>4 DEF more

LEMMA RangeOfHead ==
  ASSUME NEW S, NEW s \in Seq(S), s # <<>>
  PROVE  Range(s) = {Head(s)} \cup Range(Tail(s))
<1> DEFINE rest == Tail(s)
<1>1. /\ Len(s) \in Nat \ {0} /\ Head(s) = s[1] /\ DOMAIN s = 1..Len(s)
      /\ rest \in Seq(S) /\ Len(rest) = Len(s) - 1 /\ DOMAIN rest = 1..Len(s) - 1
      /\ \A i \in 1..Len(s) - 1 : rest[i] = s[i + 1]
  BY HeadTailProperties, EmptySeq
<1> HIDE DEF rest
<1>2. ASSUME NEW i \in 1..Len(s) PROVE s[i] \in {Head(s)} \cup Range(rest)
  <2>1. CASE i = 1
    BY <1>1, <2>1
  <2>2. CASE i # 1
    <3>1. i - 1 \in 1..Len(s) - 1 /\ i - 1 + 1 = i
      BY <1>1, <2>2
    <3> QED BY <1>1, <3>1 DEF Range
  <2> QED BY <2>1, <2>2
<1>3. ASSUME NEW i \in 1..Len(s) - 1 PROVE rest[i] \in Range(s)
  <2>1. i + 1 \in 1..Len(s)
    BY <1>1
  <2> QED BY <1>1, <2>1 DEF Range
<1>4. Head(s) \in Range(s)
  <2>1. 1 \in 1..Len(s)
    BY <1>1
  <2> QED BY <1>1, <2>1 DEF Range
<1> QED BY <1>1, <1>2, <1>3, <1>4 DEF Range, rest

LEMMA RangeInside ==
  ASSUME NEW S, NEW s \in Seq(S)
  PROVE  Range(s) \subseteq S /\ (s = <<>> => Range(s) = {})
         /\ \A i \in 1..Len(s) : s[i] \in Range(s)
<1>1. DOMAIN s = 1..Len(s) /\ \A i \in 1..Len(s) : s[i] \in S
  OBVIOUS
<1>2. s = <<>> => DOMAIN s = {}
  OBVIOUS
<1> QED BY <1>1, <1>2 DEF Range

\* What is asked for does not change while no line is read.
LEMMA NothingRead ==
  ASSUME UNCHANGED inputs, UNCHANGED lines
  PROVE  /\ ReadLines' = ReadLines /\ (Suffix => Suffix') /\ (Fixed => Fixed')
         /\ PathGiven' = PathGiven /\ DefaultTokens' = DefaultTokens
         /\ NamedDirs' = NamedDirs /\ AskedLibs' = AskedLibs
         /\ \A a : TokensOf(a)' = TokensOf(a)
<1>1. UNCHANGED <<kind, argv, input, default>>
  BY DEF inputs
<1>2. ReadLines' = ReadLines
  BY <1>1 DEF ReadLines
<1>3. \A a : TokensOf(a)' = TokensOf(a)
  BY <1>2 DEF TokensOf
<1>4. TokensOf("-p")' = TokensOf("-p") /\ TokensOf("-l")' = TokensOf("-l")
  BY <1>2 DEF TokensOf
<1> QED BY <1>1, <1>2, <1>3, <1>4
        DEF Suffix, Fixed, PathGiven, DefaultTokens, NamedDirs, AskedLibs

\* A line that is read is asked for too, and whatever was before.
LEMMA LineRead ==
  ASSUME Typed, Fixed, Suffix, lines # <<>>, UNCHANGED inputs, lines' = Tail(lines)
  PROVE  /\ Suffix' /\ Fixed' /\ ReadLines' = ReadLines \cup {Head(lines)}
         /\ PathGiven => PathGiven'
         /\ NamedDirs \subseteq NamedDirs' /\ AskedLibs \subseteq AskedLibs'
<1>1. UNCHANGED <<kind, argv, input, default>>
  BY DEF inputs
<1>2. /\ Len(lines) \in Nat \ {0} /\ Len(input) \in Nat /\ Head(lines) = lines[1]
      /\ Len(lines') = Len(lines) - 1
      /\ \A i \in 1..Len(lines) - 1 : lines'[i] = lines[i + 1]
      /\ Len(lines) <= Len(input)
      /\ \A i \in 1..Len(lines) : lines[i] = input[Len(input) - Len(lines) + i]
  BY HeadTailProperties, EmptySeq DEF Typed, Fixed, Suffix
<1>3. Suffix'
  <2>1. ASSUME NEW i \in 1..Len(lines')
        PROVE  lines'[i] = input[Len(input) - Len(lines') + i]
    <3>1. i \in 1..Len(lines) - 1 /\ i + 1 \in 1..Len(lines)
          /\ Len(input) - Len(lines) + (i + 1) = Len(input) - Len(lines') + i
      BY <1>2
    <3>2. lines'[i] = lines[i + 1] /\ lines[i + 1] = input[Len(input) - Len(lines) + (i + 1)]
      BY <1>2, <3>1
    <3> QED BY <3>1, <3>2
  <2> QED BY <1>1, <1>2, <2>1 DEF Suffix
<1>4. ReadLines' = ReadLines \cup {Head(lines)}
  <2> DEFINE n == Len(input) - Len(lines)
  <2>1. n \in Nat /\ Len(input) - Len(lines') = n + 1 /\ input[n + 1] = Head(lines)
    BY <1>2
  <2>2. (1..n + 1) = (1..n) \cup {n + 1}
    BY <2>1
  <2> QED BY <1>1, <2>1, <2>2 DEF ReadLines
<1>5. ReadLines \subseteq ReadLines'
  BY <1>4
<1>6. /\ TokensOf("-p") \subseteq TokensOf("-p")' /\ TokensOf("-l") \subseteq TokensOf("-l")'
      /\ PathGiven => PathGiven'
  BY <1>5 DEF TokensOf, PathGiven
<1> QED BY <1>1, <1>3, <1>4, <1>6 DEF Fixed, NamedDirs, AskedLibs

\* A command line that is read, its arguments and their tokens.
LEMMA ReadLinesAre ==
  ASSUME Fixed, NEW line \in ReadLines
  PROVE  /\ line \in CommandLine /\ Len(line) \in Nat
         /\ \A i \in 1..Len(line) :
              /\ line[i] \in Argument /\ line[i].list \in Seq(Token)
              /\ \A t \in Range(line[i].list) : t \in TokensOf(line[i].arg)
              /\ line[i].arg = "-p" => PathGiven
<1>1. line \in CommandLine
  <2>1. Len(input) \in Nat /\ \A i \in 1..Len(input) - Len(lines) : i \in 1..Len(input) => input[i] \in CommandLine
    BY DEF Fixed
  <2> QED BY <2>1 DEF ReadLines, Fixed
<1>2. Len(line) \in Nat /\ \A i \in 1..Len(line) : line[i] \in Argument
  BY <1>1 DEF CommandLine
<1>3. ASSUME NEW i \in 1..Len(line)
      PROVE  /\ line[i].list \in Seq(Token)
             /\ \A t \in Range(line[i].list) : t \in TokensOf(line[i].arg)
             /\ line[i].arg = "-p" => PathGiven
  <2>1. line[i].list \in Seq(Token)
    BY <1>2 DEF Argument, Token
  <2>2. Range(line[i].list) \subseteq Token
    BY <2>1, RangeInside
  <2> QED BY <2>1, <2>2 DEF TokensOf, PathGiven, Token
<1> QED BY <1>1, <1>2, <1>3

LEMMA ReplacedIs ==
  ASSUME Typed, calls # <<>>, NEW c, calls' = ReplaceAt(calls, Len(calls), c)
  PROVE  /\ Len(calls) \in Nat \ {0} /\ Len(calls') = Len(calls)
         /\ Innermost = calls[Len(calls)] /\ calls'[Len(calls)] = c
         /\ \A k \in 1..Len(calls) : k # Len(calls) => calls'[k] = calls[k]
<1>1. calls \in Seq(CallType) /\ Len(calls) \in Nat \ {0} /\ DOMAIN calls = 1..Len(calls)
  BY EmptySeq DEF Typed
<1>2. calls' = [calls EXCEPT ![Len(calls)] = c]
  BY DEF ReplaceAt
<1>3. calls \in Seq(CallType \cup {c}) /\ Len(calls) \in 1..Len(calls)
  BY <1>1, SeqMonotonic
<1> DEFINE S == CallType \cup {c}
           n == Len(calls)
<1>4. calls \in Seq(S) /\ n \in 1..n /\ n = Len(calls) /\ c \in S
  BY <1>3
<1> HIDE DEF S, n
<1>5. /\ Len(calls') = Len(calls) /\ calls'[n] = c
      /\ \A k \in 1..n : k # n => calls'[k] = calls[k]
  <2>1. n \in 1..Len(calls) /\ calls' = [calls EXCEPT ![n] = c]
    BY <1>2, <1>4
  <2> QED BY <1>4, <2>1, ExceptSeq
<1> QED BY <1>1, <1>4, <1>5 DEF Innermost, Last

\* What is looked at stays so, and so do the caches and the lists.
LEMMA ListsUnchanged ==
  ASSUME All, UNCHANGED inputs, UNCHANGED lists
  PROVE  /\ Full(paths, pathCache, "directory")' /\ Full(libs, libCache, "file")'
         /\ \A t, d : Looked(t, d)' <=> Looked(t, d)
         /\ (status # "aborted" /\ status' # "aborted") \/ status' = status => FaultSeen'
<1>1. UNCHANGED <<kind, paths, pathCache, libs, libCache>>
  BY DEF inputs, lists
<1>2. \A t, d : Looked(t, d)' <=> Looked(t, d)
  BY <1>1 DEF Looked, Named
<1> QED BY <1>1, <1>2 DEF All, Full, FaultSeen

LEMMA ParseOptionTakes == IInv /\ All /\ ParseOption => All'
<1> SUFFICES ASSUME IInv, All, ParseOption PROVE All'
  OBVIOUS
<1>1. /\ Typed /\ calls # <<>> /\ ~AtEnd /\ status = "options" /\ todo = <<>>
      /\ Innermost.pass = "options"
      /\ calls' = ReplaceAt(calls, Len(calls), Advance)
      /\ UNCHANGED inputs /\ UNCHANGED lines /\ UNCHANGED lists
      /\ status' \in {"options", "failed"}
      /\ pathSeen' = (pathSeen \/ Current.arg = "-p")
      /\ IF Current.arg \in {"-p", "-l"}
         THEN todo' = Current.list /\ dirMode' = (Current.arg = "-p")
         ELSE UNCHANGED <<todo, dirMode>>
  BY DEF IInv, ParseOption, Parsing, SetInnermost
<1> DEFINE line == Innermost.line
           next == Innermost.next
           last == Len(calls)
<1>2. /\ Innermost \in CallType /\ line \in CommandLine /\ Len(line) \in Nat
      /\ next \in 1..Len(line) /\ Current = line[next]
      /\ Advance.line = line /\ Advance.pass = "options" /\ Advance.next = next + 1
  <2>1. Innermost \in CallType /\ line \in CommandLine /\ Len(line) \in Nat
    BY <1>1, InnermostIs
  <2>2. /\ next \in Nat \ {0}
        /\ Innermost \in [line : CommandLine, pass : {"options", "arguments"}, next : Nat \ {0}]
    BY <2>1 DEF CallType
  <2>3. next \in 1..Len(line)
    BY <1>1, <2>1, <2>2 DEF AtEnd
  <2> QED BY <1>1, <2>1, <2>2, <2>3 DEF Current, Advance
<1>3. /\ last \in Nat \ {0} /\ Len(calls') = last /\ Innermost = calls[last]
      /\ calls'[last] = Advance
      /\ \A k \in 1..last : k # last => calls'[k] = calls[k]
  BY <1>1, ReplacedIs
<1>4. /\ ReadLines' = ReadLines /\ Suffix' /\ Fixed'
      /\ PathGiven' = PathGiven /\ DefaultTokens' = DefaultTokens
      /\ NamedDirs' = NamedDirs /\ AskedLibs' = AskedLibs
  BY <1>1, NothingRead DEF All
<1>5. line \in ReadLines
  BY <1>3 DEF All
<1>6. Current.arg = "-p" => PathGiven
  BY <1>2, <1>5, ReadLinesAre DEF All
<1>7. ASSUME NEW t \in Range(Current.list), Current.arg \in {"-p", "-l"}
      PROVE  IF Current.arg = "-p" THEN Named(t) \in NamedDirs ELSE t = Empty \/ t \in AskedLibs
  <2>1. t \in TokensOf(Current.arg)
    BY <1>2, <1>5, <1>7, ReadLinesAre DEF All
  <2> QED BY <1>7, <2>1 DEF NamedDirs, AskedLibs
<1> HIDE DEF line, next, last
<1>8. \A k \in 1..Len(calls') : calls'[k].line \in ReadLines'
  BY <1>2, <1>3, <1>4, <1>5 DEF All, last
<1>9. OptionsTaken'
  <2> SUFFICES ASSUME NEW l \in ReadLines, NEW i \in 1..Len(l)
               PROVE  Pending(l, i)' \/ OptionTaken(l, i)'
    BY <1>4 DEF OptionsTaken
  <2>1. Pending(l, i) \/ OptionTaken(l, i)
    BY <1>1 DEF All, OptionsTaken
  <2>2. i \in Int
    OBVIOUS
  <2>3. CASE OptionTaken(l, i)
    <3>1. Range(todo) = {}
      BY <1>1, RangeInside DEF Typed
    <3>2. \A t, d : Taken(t, d) => Looked(t, d)
      BY <3>1 DEF Taken
    <3>3. \A t, d : Looked(t, d) => Looked(t, d)'
      BY <1>1, ListsUnchanged
    <3>4. \A t, d : Taken(t, d) => Taken(t, d)'
      BY <3>2, <3>3 DEF Taken
    <3> QED BY <1>1, <2>3, <3>4 DEF OptionTaken
  <2>4. CASE \E k \in 1..last : k # last /\ Ahead(calls[k], l, i)
    BY <1>3, <2>4 DEF Pending, last
  <2>5. CASE Ahead(Innermost, l, i) /\ next # i
    <3>1. next + 1 <= i /\ l = line
      BY <1>2, <2>2, <2>5 DEF Ahead, next, line
    <3>2. Ahead(Advance, l, i)
      BY <1>2, <3>1 DEF Ahead
    <3> QED BY <1>3, <3>2 DEF Pending
  <2>6. CASE Ahead(Innermost, l, i) /\ next = i
    <3>1. l[i] = Current
      BY <1>2, <2>6 DEF Ahead, line
    <3>2. ASSUME l[i].arg \in {"-p", "-l"}, NEW t \in Range(l[i].list)
          PROVE  Taken(t, l[i].arg = "-p")'
      <4>1. todo' = l[i].list /\ dirMode' = (l[i].arg = "-p")
        BY <1>1, <3>1, <3>2
      <4> QED BY <3>2, <4>1 DEF Taken
    <3> QED BY <1>1, <3>1, <3>2 DEF OptionTaken
  <2>7. Pending(l, i) => (\E k \in 1..last : k # last /\ Ahead(calls[k], l, i)) \/ Ahead(Innermost, l, i)
    BY <1>3 DEF Pending, last
  <2> QED BY <2>1, <2>3, <2>4, <2>5, <2>6, <2>7
<1>10. DefaultTaken'
  BY <1>1, <1>4, <1>6 DEF All, DefaultTaken
<1>11. CacheAsked'
  <2>1. ASSUME NEW p, DirAsked(p) PROVE DirAsked(p)'
    BY <1>1, <1>4, <2>1 DEF DirAsked
  <2>2. ASSUME NEW t \in Range(todo')
        PROVE  IF dirMode' THEN DirAsked(Named(t))' ELSE t = Empty \/ t \in AskedLibs'
    <3>1. CASE Current.arg \in {"-p", "-l"}
      BY <1>1, <1>4, <1>7, <2>2, <3>1 DEF DirAsked
    <3>2. CASE ~(Current.arg \in {"-p", "-l"})
      BY <1>1, <1>4, <2>1, <2>2, <3>2 DEF All, CacheAsked
    <3> QED BY <3>1, <3>2
  <2>3. pathCache' = pathCache /\ libCache' = libCache
    BY <1>1 DEF lists
  <2> QED BY <1>4, <2>1, <2>2, <2>3 DEF All, CacheAsked, Named
<1>12. FaultSeen' /\ Full(paths, pathCache, "directory")' /\ Full(libs, libCache, "file")'
  BY <1>1, ListsUnchanged
<1> QED BY <1>4, <1>8, <1>9, <1>10, <1>11, <1>12 DEF All

LEMMA FrontedIs ==
  ASSUME Typed, calls # <<>>, calls' = Front(calls)
  PROVE  /\ Len(calls) \in Nat \ {0} /\ Len(calls') = Len(calls) - 1
         /\ Innermost = calls[Len(calls)]
         /\ \A k \in 1..Len(calls) - 1 : calls'[k] = calls[k]
<1>1. calls \in Seq(CallType) /\ Len(calls) \in Nat \ {0} /\ calls' = SubSeq(calls, 1, Len(calls) - 1)
  BY EmptySeq DEF Typed, Front
<1> DEFINE n == Len(calls) - 1
<1>3. n \in Nat /\ Len(calls) = n + 1 /\ calls' = SubSeq(calls, 1, n)
  BY <1>1
<1>4. Len(calls') = n /\ \A k \in 1..n : calls'[k] = calls[1 + k - 1] /\ 1 + k - 1 = k
  <2> HIDE DEF n
  <2>1. \A k \in 1..n : calls[k] \in CallType
    BY <1>1, <1>3
  <2> QED BY <1>3, <2>1, SubSeqProperties
<1> QED BY <1>1, <1>3, <1>4 DEF Innermost, Last

\* Nothing is taken but calls that have no option ahead.
LEMMA CallsTaken == IInv /\ All /\ (OptionsEnd \/ HelperReturns) => All'
<1> SUFFICES ASSUME IInv, All, OptionsEnd \/ HelperReturns PROVE All'
  OBVIOUS
<1>1. /\ Typed /\ calls # <<>> /\ status = "options" /\ AtEnd
      /\ UNCHANGED inputs /\ UNCHANGED lists
      /\ UNCHANGED <<lines, todo, dirMode, pathSeen, status>>
  BY DEF IInv, OptionsEnd, HelperReturns, Parsing
<1> DEFINE last == Len(calls)
<1>2. /\ last \in Nat \ {0} /\ Innermost = calls[last]
      /\ \A k \in 1..last : k # last => k \in 1..Len(calls') /\ calls'[k] = calls[k]
      /\ \A k \in 1..Len(calls') : k # last => k \in 1..last /\ calls'[k] = calls[k]
      /\ last \in 1..Len(calls') => calls'[last].line = Innermost.line
  <2>1. CASE OptionsEnd
    <3> DEFINE c == [Innermost EXCEPT !.pass = "arguments", !.next = 1]
    <3>1. calls' = ReplaceAt(calls, Len(calls), c)
      BY <2>1 DEF OptionsEnd, SetInnermost
    <3>2. c.line = Innermost.line
      <4>1. Innermost \in [line : CommandLine, pass : {"options", "arguments"}, next : Nat \ {0}]
        BY <1>1, InnermostIs DEF CallType
      <4> QED BY <4>1
    <3> HIDE DEF c
    <3> QED BY <1>1, <3>1, <3>2, ReplacedIs
  <2>2. CASE HelperReturns
    <3>1. calls' = Front(calls)
      BY <2>2 DEF HelperReturns
    <3>2. /\ last \in Nat \ {0} /\ Len(calls') = last - 1 /\ Innermost = calls[last]
          /\ \A k \in 1..last - 1 : calls'[k] = calls[k]
      BY <1>1, <3>1, FrontedIs
    <3> HIDE DEF last
    <3> QED BY <3>2
  <2> QED BY <2>1, <2>2
<1>3. /\ ReadLines' = ReadLines /\ Suffix' /\ Fixed'
      /\ PathGiven' = PathGiven /\ DefaultTokens' = DefaultTokens
      /\ NamedDirs' = NamedDirs /\ AskedLibs' = AskedLibs
  BY <1>1, NothingRead DEF All
<1>4. Innermost.line \in CommandLine /\ Len(Innermost.line) \in Nat /\ Innermost.next > Len(Innermost.line)
  BY <1>1, InnermostIs DEF AtEnd
<1>5. \A k \in 1..Len(calls') : calls'[k].line \in ReadLines'
  <2> TAKE k \in 1..Len(calls')
  <2>1. \A j \in 1..last : calls[j].line \in ReadLines
    BY DEF All
  <2> HIDE DEF last
  <2>2. CASE k # last
    <3>1. k \in 1..last /\ calls'[k] = calls[k]
      BY <1>2, <2>2
    <3>2. calls'[k].line \in ReadLines
      BY <2>1, <3>1
    <3> QED BY <1>3, <3>2
  <2>3. CASE k = last
    <3>1. last \in 1..last /\ last \in 1..Len(calls')
      BY <1>2, <2>3
    <3>2. calls'[k].line = calls[last].line
      BY <1>2, <2>3, <3>1
    <3>3. calls[last].line \in ReadLines
      BY <2>1, <3>1
    <3> QED BY <1>3, <3>2, <3>3
  <2> QED BY <2>2, <2>3
<1>6. OptionsTaken'
  <2> SUFFICES ASSUME NEW l \in ReadLines, NEW i \in 1..Len(l)
               PROVE  Pending(l, i)' \/ OptionTaken(l, i)'
    BY <1>3 DEF OptionsTaken
  <2>1. Pending(l, i) \/ OptionTaken(l, i)
    BY <1>1 DEF All, OptionsTaken
  <2>2. ~Ahead(Innermost, l, i)
    <3> SUFFICES ASSUME Ahead(Innermost, l, i) PROVE FALSE
      OBVIOUS
    <3>1. l = Innermost.line /\ Innermost.next <= i
      BY DEF Ahead
    <3>2. i \in 1..Len(Innermost.line) /\ Innermost.next \in Nat
      BY <1>1, <3>1, InnermostIs DEF CallType
    <3> QED BY <1>4, <3>1, <3>2
  <2>3. Pending(l, i) => Pending(l, i)'
    BY <1>2, <2>2 DEF Pending
  <2>4. OptionTaken(l, i) => OptionTaken(l, i)'
    <3>1. \A t, d : Taken(t, d) => Taken(t, d)'
      BY <1>1, ListsUnchanged DEF Taken
    <3> QED BY <1>1, <3>1 DEF OptionTaken
  <2> QED BY <2>1, <2>3, <2>4
<1>7. DefaultTaken'
  BY <1>1, <1>3 DEF All, DefaultTaken
<1>8. CacheAsked'
  BY <1>1, <1>3 DEF All, CacheAsked, DirAsked, Named, lists
<1>9. FaultSeen' /\ Full(paths, pathCache, "directory")' /\ Full(libs, libCache, "file")'
  BY <1>1, ListsUnchanged
<1> QED BY <1>3, <1>5, <1>6, <1>7, <1>8, <1>9 DEF All

\* A line that is read has all its options ahead.
LEMMA ParseArgumentTakes == IInv /\ All /\ ParseArgument => All'
<1> SUFFICES ASSUME IInv, All, ParseArgument PROVE All'
  OBVIOUS
<1>1. /\ Typed /\ calls # <<>> /\ ~AtEnd /\ status = "options" /\ todo = <<>>
      /\ Innermost.pass = "arguments"
      /\ UNCHANGED inputs /\ UNCHANGED lists
      /\ UNCHANGED <<todo, dirMode, pathSeen>>
  BY DEF IInv, ParseArgument, Parsing
<1>2. FaultSeen' /\ Full(paths, pathCache, "directory")' /\ Full(libs, libCache, "file")'
  <2>1. status' # "aborted"
    BY <1>1 DEF ParseArgument
  <2> QED BY <1>1, <2>1, ListsUnchanged
<1>3. /\ Suffix' /\ Fixed' /\ ReadLines \subseteq ReadLines'
      /\ PathGiven => PathGiven'
      /\ NamedDirs \subseteq NamedDirs' /\ AskedLibs \subseteq AskedLibs'
  <2>1. lines' = lines \/ (lines # <<>> /\ lines' = Tail(lines))
    BY DEF ParseArgument
  <2>2. CASE lines' = lines
    BY <1>1, <2>2, NothingRead DEF All
  <2>3. CASE lines # <<>> /\ lines' = Tail(lines)
    BY <1>1, <2>3, LineRead DEF All
  <2> QED BY <2>1, <2>2, <2>3
<1>4. CacheAsked'
  <2>1. ASSUME NEW p, DirAsked(p) PROVE DirAsked(p)'
    BY <1>1, <1>3, <2>1 DEF DirAsked
  <2> QED BY <1>1, <1>3, <2>1 DEF All, CacheAsked, Named, lists
<1>5. DefaultTaken'
  <2>1. status' \in {"options", "failed"}
    BY <1>1 DEF ParseArgument
  <2> QED BY <1>1, <1>3, <2>1 DEF All, DefaultTaken
<1>6. ASSUME NEW l, NEW i, OptionTaken(l, i) PROVE OptionTaken(l, i)'
  <2>1. \A t, d : Taken(t, d) => Taken(t, d)'
    BY <1>1, ListsUnchanged DEF Taken
  <2> QED BY <1>1, <1>6, <2>1 DEF OptionTaken
<1> DEFINE last == Len(calls)
<1>7. /\ Innermost.line \in ReadLines /\ Advance.line = Innermost.line
      /\ last \in Nat \ {0} /\ Innermost = calls[last]
  <2>1. Innermost \in [line : CommandLine, pass : {"options", "arguments"}, next : Nat \ {0}]
    BY <1>1, InnermostIs DEF CallType
  <2>2. last \in Nat \ {0} /\ Innermost = calls[last]
    BY <1>1, EmptySeq DEF Typed, Innermost, Last
  <2> QED BY <2>1, <2>2 DEF All, Advance
<1>8. ASSUME status' = "failed", UNCHANGED calls PROVE All'
  <2>1. \A k \in 1..Len(calls') : calls'[k].line \in ReadLines'
    BY <1>3, <1>8 DEF All
  <2>2. OptionsTaken'
    BY <1>8 DEF OptionsTaken
  <2> QED BY <1>2, <1>3, <1>4, <1>5, <2>1, <2>2 DEF All
<1> DEFINE moved == ReplaceAt(calls, last, Advance)
<1>9. /\ Len(moved) = last /\ moved \in Seq(CallType) /\ moved[last] = Advance
      /\ \A k \in 1..last : k # last => moved[k] = calls[k]
  <2>1. calls \in Seq(CallType) /\ last \in 1..Len(calls) /\ Advance \in CallType
    BY <1>1, <1>7, InnermostIs DEF Typed
  <2>2. moved = [calls EXCEPT ![last] = Advance]
    BY DEF ReplaceAt
  <2> HIDE DEF moved
  <2> QED BY <2>1, <2>2, ExceptSeq
<1> HIDE DEF moved
<1>10. ASSUME status' = "options", UNCHANGED lines, calls' = moved PROVE All'
  <2>1. ReadLines' = ReadLines
    BY <1>1, <1>10, NothingRead
  <2>2. \A k \in 1..Len(calls') : calls'[k].line \in ReadLines'
    BY <1>7, <1>9, <1>10, <2>1 DEF All
  <2>3. OptionsTaken'
    <3> SUFFICES ASSUME NEW l \in ReadLines, NEW i \in 1..Len(l)
                 PROVE  Pending(l, i)' \/ OptionTaken(l, i)'
      BY <2>1 DEF OptionsTaken
    <3>1. Pending(l, i) \/ OptionTaken(l, i)
      BY <1>1 DEF All, OptionsTaken
    <3>2. Pending(l, i) => Pending(l, i)'
      BY <1>1, <1>7, <1>9, <1>10 DEF Pending, Ahead
    <3> QED BY <1>6, <3>1, <3>2
  <2> QED BY <1>2, <1>3, <1>4, <1>5, <2>2, <2>3 DEF All
<1>11. ASSUME status' = "options", lines # <<>>, lines' = Tail(lines),
              calls' = Append(moved, Call(Head(lines)))
       PROVE  All'
  <2> DEFINE c == Call(Head(lines))
  <2>1. /\ ReadLines' = ReadLines \cup {Head(lines)} /\ Head(lines) \in CommandLine
    BY <1>1, <1>11, LineRead, Headed DEF All, Typed
  <2>2. /\ c \in CallType /\ c.line = Head(lines) /\ c.pass = "options" /\ c.next = 1
    BY <2>1, CallIs DEF Call
  <2>3. /\ Len(calls') = last + 1 /\ calls'[last + 1] = c /\ calls'[last] = Advance
        /\ \A k \in 1..last : k # last => calls'[k] = calls[k]
    <3>1. calls' = Append(moved, c)
      BY <1>11
    <3> HIDE DEF c
    <3>2. /\ Len(calls') = Len(moved) + 1 /\ calls'[Len(moved) + 1] = c
          /\ \A k \in 1..Len(moved) : calls'[k] = moved[k]
      BY <1>9, <2>2, <3>1, AppendProperties
    <3>3. last \in 1..last
      BY <1>7
    <3> QED BY <1>9, <3>2, <3>3
  <2> HIDE DEF c, last
  <2>4. \A k \in 1..Len(calls') : calls'[k].line \in ReadLines'
    <3> TAKE k \in 1..Len(calls')
    <3>1. k = last + 1 \/ k = last \/ (k \in 1..last /\ k # last)
      BY <1>7, <2>3
    <3>2. \A j \in 1..last : calls[j].line \in ReadLines
      BY DEF All, last
    <3> QED BY <1>7, <2>1, <2>2, <2>3, <3>1, <3>2
  <2>5. OptionsTaken'
    <3> SUFFICES ASSUME NEW l \in ReadLines', NEW i \in 1..Len(l)
                 PROVE  Pending(l, i)' \/ OptionTaken(l, i)'
      BY DEF OptionsTaken
    <3>1. CASE l = Head(lines)
      <4>1. Ahead(c, l, i)
        BY <2>2, <3>1 DEF Ahead
      <4>2. last + 1 \in 1..Len(calls')
        BY <1>7, <2>3
      <4> QED BY <2>3, <4>1, <4>2 DEF Pending
    <3>2. CASE l \in ReadLines
      <4>1. Pending(l, i) \/ OptionTaken(l, i)
        BY <1>1, <3>2 DEF All, OptionsTaken
      <4>2. ASSUME Pending(l, i) PROVE Pending(l, i)'
        <5>1. PICK k \in 1..last : Ahead(calls[k], l, i)
          BY <4>2 DEF Pending, last
        <5>2. k # last
          BY <1>1, <1>7, <5>1 DEF Ahead
        <5>3. calls'[k] = calls[k] /\ k \in 1..Len(calls')
          BY <1>7, <2>3, <5>1, <5>2
        <5> QED BY <5>1, <5>3 DEF Pending
      <4> QED BY <1>6, <4>1, <4>2
    <3> QED BY <2>1, <3>1, <3>2
  <2> QED BY <1>2, <1>3, <1>4, <1>5, <2>4, <2>5 DEF All
<1> QED BY <1>1, <1>8, <1>10, <1>11 DEF ParseArgument, SetInnermost, moved

\* A token leaves the list for the cache it is meant for.
LEMMA AddPathTakes == IInv /\ All /\ AddPath => All'
<1> SUFFICES ASSUME IInv, All, AddPath PROVE All'
  OBVIOUS
<1> DEFINE p == Named(Head(todo))
<1>1. /\ Typed /\ todo # <<>> /\ todo' = Tail(todo) /\ (Head(todo) # Empty \/ dirMode)
      /\ status \in {"options", "default"}
      /\ UNCHANGED inputs /\ UNCHANGED lines
      /\ kind' = kind /\ calls' = calls /\ dirMode' = dirMode /\ pathSeen' = pathSeen
      /\ status' = IF Faults(p) THEN "aborted" ELSE status
  BY DEF IInv, AddPath, inputs
<1>2. /\ Head(todo) \in Token /\ Head(todo) \in Range(todo)
      /\ \A t \in Range(todo) : t = Head(todo) \/ t \in Range(todo')
      /\ Range(todo') \subseteq Range(todo)
  BY <1>1, Headed, RangeOfHead DEF Typed
<1>3. p \in Path /\ (~dirMode => p = Head(todo))
  BY <1>1, <1>2, HereAssumption DEF Named, Token
<1>4. /\ ReadLines' = ReadLines /\ Suffix' /\ Fixed'
      /\ PathGiven' = PathGiven /\ DefaultTokens' = DefaultTokens
      /\ NamedDirs' = NamedDirs /\ AskedLibs' = AskedLibs
  BY <1>1, NothingRead DEF All
<1>5. /\ pathCache' = IF dirMode THEN pathCache \cup {p} ELSE pathCache
      /\ libCache' = IF dirMode THEN libCache ELSE libCache \cup {p}
      /\ paths' = IF dirMode /\ Keeps(p) THEN Append(paths, p) ELSE paths
      /\ libs' = IF ~dirMode /\ Keeps(p) THEN Append(libs, p) ELSE libs
  BY DEF AddPath
<1>6. \A t, d : Taken(t, d) => Taken(t, d)'
  <2> SUFFICES ASSUME NEW t, NEW d, Taken(t, d) PROVE Taken(t, d)'
    OBVIOUS
  <2>1. CASE Looked(t, d)
    BY <1>5, <2>1 DEF Looked, Taken, Named
  <2>2. CASE d = dirMode /\ t = Head(todo)
    BY <1>1, <1>3, <1>5, <2>2 DEF Looked, Taken, Named
  <2>3. CASE d = dirMode /\ t \in Range(todo')
    BY <1>1, <2>3 DEF Taken
  <2> QED BY <1>2, <2>1, <2>2, <2>3 DEF Taken
<1> HIDE DEF p
<1>7. OptionsTaken'
  <2>1. ASSUME NEW l, NEW i, Pending(l, i) \/ OptionTaken(l, i)
        PROVE  Pending(l, i)' \/ OptionTaken(l, i)'
    BY <1>1, <1>6, <2>1 DEF Pending, OptionTaken
  <2> QED BY <1>1, <1>4, <2>1 DEF All, OptionsTaken
<1>8. DefaultTaken'
  BY <1>1, <1>4, <1>6 DEF All, DefaultTaken
<1>9. CacheAsked'
  <2>1. ASSUME NEW q, DirAsked(q) PROVE DirAsked(q)'
    BY <1>1, <1>4, <2>1 DEF DirAsked
  <2>2. IF dirMode THEN DirAsked(p) ELSE p \in AskedLibs
    BY <1>1, <1>2, <1>3 DEF All, CacheAsked, p
  <2>3. \A q \in pathCache' : DirAsked(q)'
    BY <1>5, <2>1, <2>2 DEF All, CacheAsked
  <2>4. libCache' \subseteq AskedLibs'
    BY <1>4, <1>5, <2>2 DEF All, CacheAsked
  <2>5. ASSUME NEW t \in Range(todo')
        PROVE  IF dirMode' THEN DirAsked(Named(t))' ELSE t = Empty \/ t \in AskedLibs'
    BY <1>1, <1>2, <1>4, <2>1 DEF All, CacheAsked
  <2> QED BY <2>3, <2>4, <2>5 DEF CacheAsked, Named
<1>10. FaultSeen'
  <2>1. \A q \in pathCache \cup libCache : kind[q] # "denied"
    BY <1>1 DEF All, FaultSeen
  <2>2. pathCache' \cup libCache' = pathCache \cup libCache \cup {p}
    BY <1>5
  <2>3. CASE Faults(p)
    BY <1>1, <2>2, <2>3 DEF Faults, FaultSeen
  <2>4. CASE ~Faults(p)
    <3>1. kind[p] # "denied"
      BY <2>1, <2>4 DEF Faults, Cache
    <3> QED BY <1>1, <2>1, <2>2, <2>4, <3>1 DEF FaultSeen
  <2> QED BY <2>3, <2>4
<1>11. Full(paths, pathCache, "directory")'
  <2>1. Range(paths) = {q \in pathCache : kind[q] = "directory"} /\ paths \in Seq(Path)
    BY DEF All, Full, IInv, Kept
  <2>2. CASE dirMode /\ Keeps(p)
    <3>1. Range(Append(paths, p)) = Range(paths) \cup {p} /\ kind[p] = "directory"
      BY <1>3, <2>1, <2>2, RangeOfMore DEF Keeps, Wanted
    <3> QED BY <1>1, <1>5, <2>1, <2>2, <3>1 DEF Full
  <2>3. CASE ~(dirMode /\ Keeps(p))
    <3>1. ~dirMode \/ p \in pathCache \/ kind[p] # "directory"
      BY <2>3 DEF Keeps, Cache, Wanted
    <3> QED BY <1>1, <1>5, <2>1, <2>3, <3>1 DEF Full
  <2> QED BY <2>2, <2>3
<1>12. Full(libs, libCache, "file")'
  <2>1. Range(libs) = {q \in libCache : kind[q] = "file"} /\ libs \in Seq(Path)
    BY DEF All, Full, IInv, Kept
  <2>2. CASE ~dirMode /\ Keeps(p)
    <3>1. Range(Append(libs, p)) = Range(libs) \cup {p} /\ kind[p] = "file"
      BY <1>3, <2>1, <2>2, RangeOfMore DEF Keeps, Wanted
    <3> QED BY <1>1, <1>5, <2>1, <2>2, <3>1 DEF Full
  <2>3. CASE ~(~dirMode /\ Keeps(p))
    <3>1. dirMode \/ p \in libCache \/ kind[p] # "file"
      BY <2>3 DEF Keeps, Cache, Wanted
    <3> QED BY <1>1, <1>5, <2>1, <2>3, <3>1 DEF Full
  <2> QED BY <2>2, <2>3
<1>13. \A k \in 1..Len(calls') : calls'[k].line \in ReadLines'
  BY <1>1, <1>4 DEF All
<1> QED BY <1>4, <1>7, <1>8, <1>9, <1>10, <1>11, <1>12, <1>13 DEF All

\* An empty token of a list of libraries asks for nothing.
LEMMA SkipEmptyTakes == IInv /\ All /\ SkipEmpty => All'
<1> SUFFICES ASSUME IInv, All, SkipEmpty PROVE All'
  OBVIOUS
<1>1. /\ Typed /\ todo # <<>> /\ todo' = Tail(todo) /\ Head(todo) = Empty /\ ~dirMode
      /\ status = "options" /\ status' = status
      /\ UNCHANGED inputs /\ UNCHANGED lines /\ UNCHANGED lists
      /\ calls' = calls /\ dirMode' = dirMode /\ pathSeen' = pathSeen
  BY DEF IInv, SkipEmpty
<1>2. /\ \A t \in Range(todo) : t = Empty \/ t \in Range(todo')
      /\ Range(todo') \subseteq Range(todo)
  BY <1>1, RangeOfHead DEF Typed
<1>3. /\ ReadLines' = ReadLines /\ Suffix' /\ Fixed'
      /\ PathGiven' = PathGiven /\ DefaultTokens' = DefaultTokens
      /\ NamedDirs' = NamedDirs /\ AskedLibs' = AskedLibs
  BY <1>1, NothingRead DEF All
<1>4. \A t, d : Taken(t, d) => Taken(t, d)'
  <2>1. \A t, d : Looked(t, d) => Looked(t, d)'
    BY <1>1, ListsUnchanged
  <2>2. Looked(Empty, FALSE)
    BY DEF Looked
  <2>3. dirMode = FALSE
    BY <1>1 DEF Typed
  <2> SUFFICES ASSUME NEW t, NEW d, Taken(t, d) PROVE Taken(t, d)'
    OBVIOUS
  <2>4. CASE Looked(t, d)
    BY <2>1, <2>4 DEF Taken
  <2>5. CASE d = dirMode /\ t \in Range(todo')
    BY <1>1, <2>5 DEF Taken
  <2>6. CASE d = dirMode /\ t = Empty
    <3>1. Looked(t, d)
      BY <2>2, <2>3, <2>6
    <3> QED BY <2>1, <3>1 DEF Taken
  <2> QED BY <1>2, <2>4, <2>5, <2>6 DEF Taken
<1>5. OptionsTaken'
  <2>1. ASSUME NEW l, NEW i, Pending(l, i) \/ OptionTaken(l, i)
        PROVE  Pending(l, i)' \/ OptionTaken(l, i)'
    BY <1>1, <1>4, <2>1 DEF Pending, OptionTaken
  <2> QED BY <1>1, <1>3, <2>1 DEF All, OptionsTaken
<1>6. DefaultTaken'
  BY <1>1, <1>3, <1>4 DEF All, DefaultTaken
<1>7. CacheAsked'
  BY <1>1, <1>2, <1>3 DEF All, CacheAsked, DirAsked, Named, lists
<1>8. FaultSeen' /\ Full(paths, pathCache, "directory")' /\ Full(libs, libCache, "file")'
  BY <1>1, ListsUnchanged
<1>9. \A k \in 1..Len(calls') : calls'[k].line \in ReadLines'
  BY <1>1, <1>3 DEF All
<1> QED BY <1>3, <1>5, <1>6, <1>7, <1>8, <1>9 DEF All

\* When all calls have returned no option is ahead, so that nothing of the
\* command lines is left out and a -p was seen if there was one.
LEMMA NothingPending ==
  ASSUME All, calls = <<>>, status = "options"
  PROVE  /\ \A l \in ReadLines : \A i \in 1..Len(l) : OptionTaken(l, i)
         /\ pathSeen <=> PathGiven
<1>1. \A l, i : ~Pending(l, i)
  BY DEF Pending
<1>2. \A l \in ReadLines : \A i \in 1..Len(l) : OptionTaken(l, i)
  BY <1>1 DEF All, OptionsTaken
<1>3. PathGiven => pathSeen
  BY <1>2 DEF PathGiven, OptionTaken
<1>4. pathSeen => PathGiven
  BY DEF All, DefaultTaken
<1> QED BY <1>2, <1>3, <1>4

\* The default counts when no command line has a -p, and only then.
LEMMA ParseArgsEndsTakes == IInv /\ All /\ ParseArgsEnds => All'
<1> SUFFICES ASSUME IInv, All, ParseArgsEnds PROVE All'
  OBVIOUS
<1>1. /\ Typed /\ todo = <<>> /\ calls = <<>> /\ status = "options"
      /\ UNCHANGED inputs /\ UNCHANGED lines /\ UNCHANGED lists
      /\ calls' = calls /\ pathSeen' = pathSeen
      /\ default' = default
  BY DEF IInv, ParseArgsEnds, inputs
<1>2. /\ ReadLines' = ReadLines /\ Suffix' /\ Fixed'
      /\ PathGiven' = PathGiven /\ DefaultTokens' = DefaultTokens
      /\ NamedDirs' = NamedDirs /\ AskedLibs' = AskedLibs
  BY <1>1, NothingRead DEF All
<1>3. /\ \A l \in ReadLines : \A i \in 1..Len(l) : OptionTaken(l, i)
      /\ pathSeen <=> PathGiven
  BY <1>1, NothingPending
<1>4. Range(todo) = {}
  BY <1>1, RangeInside DEF Typed
<1>5. ASSUME NEW t, NEW d, Taken(t, d) PROVE Taken(t, d)'
  <2>1. Looked(t, d)
    BY <1>4, <1>5 DEF Taken
  <2> QED BY <1>1, <2>1, ListsUnchanged DEF Taken
<1>6. ASSUME NEW l, NEW i, OptionTaken(l, i) PROVE OptionTaken(l, i)'
  BY <1>1, <1>5, <1>6 DEF OptionTaken
<1>7. OptionsTaken'
  BY <1>2, <1>3, <1>6 DEF OptionsTaken
<1>8. FaultSeen' /\ Full(paths, pathCache, "directory")' /\ Full(libs, libCache, "file")'
  <2>1. status' # "aborted"
    BY DEF ParseArgsEnds
  <2> QED BY <1>1, <2>1, ListsUnchanged
<1>9. \A k \in 1..Len(calls') : calls'[k].line \in ReadLines'
  BY <1>1, <1>2 DEF All
<1>10. ASSUME NEW q, DirAsked(q) PROVE DirAsked(q)'
  BY <1>1, <1>2, <1>10 DEF DirAsked
<1>11. CASE status' \in {"done", "failed"} /\ UNCHANGED <<todo, dirMode>>
  <2>1. DefaultTaken'
    <3>1. status' = "done" => pathSeen
      BY <1>11 DEF ParseArgsEnds
    <3> QED BY <1>1, <1>2, <1>3, <1>11, <3>1 DEF DefaultTaken
  <2>2. CacheAsked'
    <3>1. pathCache' = pathCache /\ libCache' = libCache
      BY <1>1 DEF lists
    <3> QED BY <1>2, <1>4, <1>10, <1>11, <3>1 DEF All, CacheAsked
  <2> QED BY <1>2, <1>7, <1>8, <1>9, <2>1, <2>2 DEF All
<1>12. CASE ~pathSeen /\ default # {} /\ status' = "default" /\ todo' \in default /\ dirMode' = TRUE
  <2>1. DefaultTokens = Range(todo')
    <3>1. default = {todo'}
      BY <1>12 DEF All, Fixed
    <3> QED BY <3>1 DEF DefaultTokens
  <2>2. DefaultTaken'
    <3>1. \A t \in DefaultTokens : Taken(t, TRUE)'
      BY <1>12, <2>1 DEF Taken
    <3> QED BY <1>1, <1>2, <1>3, <1>12, <3>1 DEF DefaultTaken
  <2>3. CacheAsked'
    <3>1. pathCache' = pathCache /\ libCache' = libCache
      BY <1>1 DEF lists
    <3>2. \A t \in Range(todo') : DirAsked(Named(t))'
      BY <1>2, <1>3, <1>12, <2>1 DEF DirAsked, Named
    <3> QED BY <1>2, <1>10, <1>12, <3>1, <3>2 DEF All, CacheAsked
  <2> QED BY <1>2, <1>7, <1>8, <1>9, <2>2, <2>3 DEF All
<1> QED BY <1>11, <1>12 DEF ParseArgsEnds

LEMMA DefaultEndsTakes == IInv /\ All /\ DefaultEnds => All'
<1> SUFFICES ASSUME IInv, All, DefaultEnds PROVE All'
  OBVIOUS
<1>1. /\ Typed /\ todo = <<>> /\ status = "default" /\ status' = "done"
      /\ UNCHANGED inputs /\ UNCHANGED lines /\ UNCHANGED lists
      /\ calls' = calls /\ todo' = todo /\ dirMode' = dirMode /\ pathSeen' = pathSeen
  BY DEF IInv, DefaultEnds
<1>2. /\ ReadLines' = ReadLines /\ Suffix' /\ Fixed'
      /\ PathGiven' = PathGiven /\ DefaultTokens' = DefaultTokens
      /\ NamedDirs' = NamedDirs /\ AskedLibs' = AskedLibs
  BY <1>1, NothingRead DEF All
<1>3. ASSUME NEW t, NEW d, Taken(t, d) PROVE Taken(t, d)'
  BY <1>1, <1>3, ListsUnchanged DEF Taken
<1>4. OptionsTaken'
  <2>1. ASSUME NEW l, NEW i, Pending(l, i) \/ OptionTaken(l, i)
        PROVE  Pending(l, i)' \/ OptionTaken(l, i)'
    BY <1>1, <1>3, <2>1 DEF Pending, OptionTaken
  <2> QED BY <1>1, <1>2, <2>1 DEF All, OptionsTaken
<1>5. DefaultTaken'
  BY <1>1, <1>2, <1>3 DEF All, DefaultTaken
<1>6. CacheAsked'
  BY <1>1, <1>2 DEF All, CacheAsked, DirAsked, Named, lists
<1>7. FaultSeen' /\ Full(paths, pathCache, "directory")' /\ Full(libs, libCache, "file")'
  BY <1>1, ListsUnchanged
<1>8. \A k \in 1..Len(calls') : calls'[k].line \in ReadLines'
  BY <1>1, <1>2 DEF All
<1> QED BY <1>2, <1>4, <1>5, <1>6, <1>7, <1>8 DEF All

\* At first the program's own command line is ahead and nothing is read.
LEMMA InitTakes == Init => All
<1> SUFFICES ASSUME Init PROVE All
  OBVIOUS
<1>1. /\ argv \in CommandLine /\ input \in Seq(CommandLine) /\ lines = input
      /\ calls = <<Call(argv)>> /\ todo = <<>> /\ status = "options" /\ ~pathSeen
      /\ paths = <<>> /\ libs = <<>> /\ pathCache = {} /\ libCache = {}
      /\ default = {} \/ \E d : default = {d}
  BY LinesAssumption DEF Init
<1>2. Fixed /\ Suffix
  <2>1. Len(input) \in Nat
    BY <1>1, LenProperties
  <2>2. Fixed
    BY <1>1 DEF Fixed
  <2>3. \A i \in 1..Len(input) : Len(input) - Len(input) + i = i
    BY <2>1
  <2>4. Suffix
    BY <1>1, <2>1, <2>3 DEF Suffix
  <2> QED BY <2>2, <2>4
<1>3. ReadLines = {argv}
  <2>1. Len(input) - Len(lines) = 0
    BY <1>1, LenProperties
  <2> QED BY <2>1 DEF ReadLines
<1>4. Len(calls) = 1 /\ calls[1].line = argv /\ calls[1].pass = "options" /\ calls[1].next = 1
  BY <1>1 DEF Call
<1>5. OptionsTaken
  <2> SUFFICES ASSUME NEW i \in 1..Len(argv) PROVE Pending(argv, i)
    BY <1>3 DEF OptionsTaken
  <2>1. 1 <= i
    OBVIOUS
  <2>2. Ahead(calls[1], argv, i)
    BY <1>4, <2>1 DEF Ahead
  <2> QED BY <1>4, <2>2 DEF Pending
<1>6. DefaultTaken
  BY <1>1 DEF DefaultTaken
<1>7. Range(<<>>) = {}
  BY DEF Range
<1>8. CacheAsked /\ FaultSeen /\ Full(paths, pathCache, "directory") /\ Full(libs, libCache, "file")
  BY <1>1, <1>7 DEF CacheAsked, FaultSeen, Full
<1> QED BY <1>2, <1>3, <1>4, <1>5, <1>6, <1>8 DEF All

LEMMA AllAlways == Spec => [](IInv /\ All)
<1>1. IInv /\ All /\ [Next]_vars => All'
  <2> SUFFICES ASSUME IInv, All, [Next]_vars PROVE All'
    OBVIOUS
  <2>1. CASE Ended \/ UNCHANGED vars
    <3>1. UNCHANGED vars
      BY <2>1 DEF Ended
    <3>2. /\ UNCHANGED inputs /\ UNCHANGED lines /\ UNCHANGED lists
          /\ calls' = calls /\ todo' = todo /\ dirMode' = dirMode
          /\ pathSeen' = pathSeen /\ status' = status
      BY <3>1 DEF vars, inputs, lists
    <3>3. /\ ReadLines' = ReadLines /\ Suffix' /\ Fixed'
          /\ PathGiven' = PathGiven /\ DefaultTokens' = DefaultTokens
          /\ NamedDirs' = NamedDirs /\ AskedLibs' = AskedLibs
      BY <3>2, NothingRead DEF All
    <3>4. ASSUME NEW t, NEW d, Taken(t, d) PROVE Taken(t, d)'
      BY <3>2, <3>4, ListsUnchanged DEF Taken
    <3>5. OptionsTaken'
      <4>1. ASSUME NEW l, NEW i, Pending(l, i) \/ OptionTaken(l, i)
            PROVE  Pending(l, i)' \/ OptionTaken(l, i)'
        BY <3>2, <3>4, <4>1 DEF Pending, OptionTaken
      <4> QED BY <3>2, <3>3, <4>1 DEF All, OptionsTaken
    <3>6. DefaultTaken'
      BY <3>2, <3>3, <3>4 DEF All, DefaultTaken
    <3>7. CacheAsked'
      BY <3>2, <3>3 DEF All, CacheAsked, DirAsked, Named, lists
    <3>8. FaultSeen' /\ Full(paths, pathCache, "directory")' /\ Full(libs, libCache, "file")'
      BY <3>2, ListsUnchanged
    <3>9. \A k \in 1..Len(calls') : calls'[k].line \in ReadLines'
      BY <3>2, <3>3 DEF All
    <3> QED BY <3>3, <3>5, <3>6, <3>7, <3>8, <3>9 DEF All
  <2> QED BY <2>1, AddPathTakes, SkipEmptyTakes, ParseOptionTakes, CallsTaken, ParseArgumentTakes,
             ParseArgsEndsTakes, DefaultEndsTakes
          DEF Next
<1> QED BY <1>1, IInvAlways, InitTakes, PTL DEF Spec

\* No cache holds a path that is not asked for.
LEMMA AskedOnly ==
  ASSUME All
  PROVE  pathCache \subseteq AskedDirs /\ libCache \subseteq AskedLibs
<1>1. ASSUME NEW p, DirAsked(p) PROVE p \in AskedDirs
  <2>1. CASE p \in NamedDirs
    <3>1. PICK t \in TokensOf("-p") : p = Named(t)
      BY <2>1 DEF NamedDirs
    <3>2. PathGiven
      BY <3>1 DEF TokensOf, PathGiven
    <3> QED BY <3>1, <3>2 DEF AskedDirs
  <2>2. CASE ~PathGiven /\ \E t \in DefaultTokens : p = Named(t)
    BY <2>2 DEF AskedDirs
  <2> QED BY <1>1, <2>1, <2>2 DEF DirAsked
<1> QED BY <1>1 DEF All, CacheAsked

\* When parsing is done the caches hold what is asked for.
LEMMA CachesAsked ==
  ASSUME IInv, All, status = "done"
  PROVE  pathCache = AskedDirs /\ libCache = AskedLibs
<1>1. calls = <<>> /\ todo = <<>>
  BY DEF All, DefaultTaken
<1>2. \A t, d : Taken(t, d) => Looked(t, d)
  <2>1. Range(todo) = {}
    BY <1>1, RangeInside DEF IInv, Typed
  <2> QED BY <2>1 DEF Taken
<1>3. \A l \in ReadLines : \A i \in 1..Len(l) : OptionTaken(l, i)
  <2>1. \A l, i : ~Pending(l, i)
    BY <1>1 DEF Pending
  <2> QED BY <2>1 DEF All, OptionsTaken
<1>4. \A t \in TokensOf("-p") : Looked(t, TRUE)
  BY <1>2, <1>3 DEF TokensOf, OptionTaken
<1>5. \A t \in TokensOf("-l") : Looked(t, FALSE)
  BY <1>2, <1>3 DEF TokensOf, OptionTaken
<1>6. ~PathGiven => \A t \in DefaultTokens : Looked(t, TRUE)
  BY <1>2 DEF All, DefaultTaken
<1>7. AskedDirs \subseteq pathCache
  BY <1>4, <1>6 DEF AskedDirs, Looked
<1>8. AskedLibs \subseteq libCache
  BY <1>5 DEF AskedLibs, Looked
<1> QED BY <1>7, <1>8, AskedOnly

-----------------------------------------------------------------------------
(* Where the lists come from                                               *)

Place == Nat \X Nat \X Nat

\* The places of a list of options that are behind the innermost call, while
\* it is at the options of the line read last; all of them, once it is not.
OnOptions == calls # <<>> /\ Innermost.pass = "options"
Behind(u, l, i, j) == u[1] < l \/ u[2] < i \/ (u[2] = i /\ u[3] <= j)
PassedOption == Innermost.next - 1
PassedTokens == Len(Innermost.line[PassedOption].list) - Len(todo)
OptionsPassed ==
  {u \in Place : OnOptions => Behind(u, Read, PassedOption, PassedTokens)}

\* The places of the dynamic linker's search path that have been looked at.
DefaultPassed == {u \in Place : \A d \in default : u[3] <= Len(d) - Len(todo)}

\* A list is in order, it was taken from the places that are passed, and none
\* of them was passed without a trace in the cache.
Tracked(list, cache, places, passed) ==
  /\ InOrder(list, places)
  /\ \A x \in 1..Len(list) : places[list[x]] \cap passed # {}
  /\ \A p \in Path : places[p] \cap passed # {} => p \in cache

\* The tokens that are to be added are the end of the list they are from.
EndOf(s, t) == Len(s) <= Len(t) /\ \A m \in 1..Len(s) : s[m] = t[Len(t) - Len(s) + m]

\* Only the innermost call is at the options of its line, which is the line
\* that was read last, and what is left to be added is from the option it has passed.
Position ==
  /\ \A k \in 1..Len(calls) : k # Len(calls) => calls[k].pass = "arguments"
  /\ OnOptions => Innermost.line = LineAt(Read)
  /\ status = "options" /\ todo # <<>> =>
       /\ OnOptions /\ PassedOption > 0
       /\ Innermost.line[PassedOption].arg = IF dirMode THEN "-p" ELSE "-l"
       /\ EndOf(todo, Innermost.line[PassedOption].list)
  /\ status = "default" => \E d \in default : default = {d} /\ EndOf(todo, d)

Ordered ==
  /\ status = "options" =>
       /\ Tracked(paths, pathCache, Places("-p"), OptionsPassed)
       /\ Tracked(libs, libCache, Places("-l"), OptionsPassed)
  /\ status = "default" => Tracked(paths, pathCache, DefaultPlaces, DefaultPassed)
  /\ status \in {"default", "done"} => InOrder(libs, Places("-l"))
  /\ status = "done" => InOrder(paths, DirPlaces)

\* A path that is named at a place not passed before goes to the end.
LEMMA TrackedMore ==
  ASSUME NEW list \in Seq(Path), NEW cache, NEW F, NEW P, NEW Q, Tracked(list, cache, F, P),
         NEW p \in Path \ cache, F[p] \cap Q # {},
         \A q \in Path : F[q] \cap P \subseteq Q,
         \A q \in Path \ {p} : F[q] \cap Q \subseteq P,
         \A q \in Path : \A u \in F[q] \cap P : \A v \in F[p] \ P : Before(u, v)
  PROVE  Tracked(Append(list, p), cache \cup {p}, F, Q)
<1> DEFINE more == Append(list, p)
<1>1. /\ Len(list) \in Nat /\ Len(more) = Len(list) + 1
      /\ \A x \in 1..Len(list) : more[x] = list[x] /\ list[x] \in Path
      /\ more[Len(list) + 1] = p
  BY AppendProperties
<1> HIDE DEF more
<1>2. ASSUME NEW x \in 1..Len(more), NEW y \in 1..Len(more), x < y
      PROVE  \E u \in F[more[x]] : \A v \in F[more[y]] : Before(u, v)
  <2>1. x \in 1..Len(list) /\ (y \in 1..Len(list) \/ y = Len(list) + 1)
    BY <1>1, <1>2
  <2>2. CASE y \in 1..Len(list)
    BY <1>1, <1>2, <2>1, <2>2 DEF Tracked, InOrder
  <2>3. CASE y = Len(list) + 1
    <3>1. PICK u \in F[list[x]] \cap P : TRUE
      BY <2>1 DEF Tracked
    <3>2. F[p] \cap P = {}
      BY DEF Tracked
    <3>3. \A v \in F[p] : Before(u, v)
      BY <1>1, <2>1, <3>1, <3>2
    <3> QED BY <1>1, <2>1, <2>3, <3>1, <3>3
  <2> QED BY <2>1, <2>2, <2>3
<1>3. ASSUME NEW x \in 1..Len(more) PROVE F[more[x]] \cap Q # {}
  <2>1. x \in 1..Len(list) \/ x = Len(list) + 1
    BY <1>1
  <2>2. CASE x \in 1..Len(list)
    <3>1. F[list[x]] \cap P # {}
      BY <2>2 DEF Tracked
    <3> QED BY <1>1, <2>2, <3>1
  <2> QED BY <1>1, <2>1, <2>2
<1>4. \A q \in Path : F[q] \cap Q # {} => q \in cache \cup {p}
  BY DEF Tracked
<1> QED BY <1>2, <1>3, <1>4 DEF Tracked, InOrder, more

\* A path may be cached that is not put on the list.
LEMMA TrackedCached ==
  ASSUME NEW list \in Seq(Path), NEW cache, NEW more, NEW F, NEW P, NEW Q,
         Tracked(list, cache, F, P), cache \subseteq more,
         \A q \in Path : F[q] \cap P \subseteq Q,
         \A q \in Path \ more : F[q] \cap Q \subseteq P
  PROVE  Tracked(list, more, F, Q)
<1>1. \A x \in 1..Len(list) : list[x] \in Path
  OBVIOUS
<1> QED BY <1>1 DEF Tracked

\* A line that is read names paths behind all places so far, which are passed.
LEMMA TrackedRead ==
  ASSUME NEW list \in Seq(Path), NEW cache, NEW F, NEW G, NEW P, NEW Q,
         Tracked(list, cache, F, P),
         \A q \in Path : F[q] \subseteq P,
         \A q \in Path : G[q] \cap Q = F[q],
         \A q, r \in Path : \A u \in F[q] : \A v \in G[r] \ F[r] : Before(u, v)
  PROVE  Tracked(list, cache, G, Q)
<1>1. \A x \in 1..Len(list) : list[x] \in Path
  OBVIOUS
<1>2. ASSUME NEW x \in 1..Len(list), NEW y \in 1..Len(list), x < y
      PROVE  \E u \in G[list[x]] : \A v \in G[list[y]] : Before(u, v)
  <2>1. PICK u \in F[list[x]] : \A v \in F[list[y]] : Before(u, v)
    BY <1>2 DEF Tracked, InOrder
  <2>2. \A v \in G[list[y]] : Before(u, v)
    BY <1>1, <2>1
  <2> QED BY <1>1, <2>1, <2>2
<1>3. \A q \in Path : G[q] \cap Q = F[q] \cap P
  OBVIOUS
<1> QED BY <1>1, <1>2, <1>3 DEF Tracked, InOrder

-----------------------------------------------------------------------------
\* The lines that are read.
LEMMA LinesAre ==
  ASSUME Typed, Fixed, Suffix
  PROVE  /\ Read \in Nat /\ Len(lines) \in Nat /\ Len(input) \in Nat
         /\ \A l \in 0..Read :
              /\ LineAt(l) \in CommandLine /\ LineAt(l) \in ReadLines
              /\ Len(LineAt(l)) \in Nat
              /\ \A i \in 1..Len(LineAt(l)) :
                   /\ LineAt(l)[i].list \in Seq(Token)
                   /\ Len(LineAt(l)[i].list) \in Nat
                   /\ LineAt(l)[i] \in Argument
         /\ \A line \in ReadLines : \E l \in 0..Read : line = LineAt(l)
<1>1. Len(lines) \in Nat /\ Len(input) \in Nat /\ Len(lines) <= Len(input)
  BY LenProperties DEF Typed, Fixed, Suffix
<1>2. Read \in Nat /\ Read <= Len(input)
  BY <1>1 DEF Read
<1>3. \A l \in 0..Read : LineAt(l) \in ReadLines
  BY <1>2 DEF LineAt, ReadLines, Read
<1>4. \A line \in ReadLines : \E l \in 0..Read : line = LineAt(l)
  <2> SUFFICES ASSUME NEW line \in ReadLines PROVE \E l \in 0..Read : line = LineAt(l)
    OBVIOUS
  <2>1. CASE line = argv
    <3>1. 0 \in 0..Read /\ LineAt(0) = argv
      BY <1>2 DEF LineAt
    <3> QED BY <2>1, <3>1
  <2>2. CASE line # argv
    <3>1. PICK i \in 1..Read : line = input[i]
      BY <2>2 DEF ReadLines, Read
    <3>2. i \in 0..Read /\ LineAt(i) = input[i]
      BY <1>2, <3>1 DEF LineAt
    <3> QED BY <3>1, <3>2
  <2> QED BY <2>1, <2>2
<1>5. ASSUME NEW l \in 0..Read
      PROVE  /\ LineAt(l) \in CommandLine /\ Len(LineAt(l)) \in Nat
             /\ \A i \in 1..Len(LineAt(l)) :
                   /\ LineAt(l)[i].list \in Seq(Token)
                   /\ Len(LineAt(l)[i].list) \in Nat
                   /\ LineAt(l)[i] \in Argument
  <2>1. LineAt(l) \in ReadLines
    BY <1>3
  <2>2. /\ LineAt(l) \in CommandLine /\ Len(LineAt(l)) \in Nat
        /\ \A i \in 1..Len(LineAt(l)) : LineAt(l)[i] \in Argument /\ LineAt(l)[i].list \in Seq(Token)
    BY <2>1, ReadLinesAre
  <2> QED BY <2>2, LenProperties
<1> QED BY <1>1, <1>2, <1>3, <1>4, <1>5

\* The arguments a of the lines up to l.
LEMMA ArgumentsAre ==
  ASSUME NEW a, NEW l \in Nat, NEW o
  PROVE  o \in Arguments(a, l) <=>
           \E m \in 0..l : \E i \in 1..Len(LineAt(m)) : o = <<m, i>> /\ LineAt(m)[i].arg = a
  BY DEF Arguments

\* The places where a path is named: where one of the lines names it.
NamedAt(a, p, l, u) ==
  \E i \in 1..Len(LineAt(l)) : \E j \in 1..Len(LineAt(l)[i].list) :
    /\ u = <<l, i, j>> /\ LineAt(l)[i].arg = a
    /\ Names(a, LineAt(l)[i].list[j]) = p

LEMMA PlacesAre ==
  ASSUME Read \in Nat, NEW a, NEW p \in Path, NEW u
  PROVE  u \in Places(a)[p] <=> \E l \in 0..Read : NamedAt(a, p, l, u)
<1>1. Places(a)[p] =
        UNION {{o[1]} \X {o[2]} \X {j \in 1..Len(ListAt(o)) : Names(a, ListAt(o)[j]) = p} :
                 o \in Arguments(a, Read)}
  BY DEF Places
<1>2. ASSUME u \in Places(a)[p]
      PROVE  \E l \in 0..Read : NamedAt(a, p, l, u)
  <2>1. PICK o \in Arguments(a, Read) :
          u \in {o[1]} \X {o[2]} \X {j \in 1..Len(ListAt(o)) : Names(a, ListAt(o)[j]) = p}
    BY <1>1, <1>2
  <2>2. PICK l \in 0..Read : \E i \in 1..Len(LineAt(l)) : o = <<l, i>> /\ LineAt(l)[i].arg = a
    BY <2>1, ArgumentsAre
  <2>3. PICK i \in 1..Len(LineAt(l)) : o = <<l, i>> /\ LineAt(l)[i].arg = a
    BY <2>2
  <2>4. o[1] = l /\ o[2] = i /\ ListAt(o) = LineAt(l)[i].list
    BY <2>3 DEF ListAt
  <2>5. NamedAt(a, p, l, u)
    BY <2>1, <2>3, <2>4 DEF NamedAt
  <2> QED BY <2>5
<1>3. ASSUME NEW l \in 0..Read, NamedAt(a, p, l, u)
      PROVE  u \in Places(a)[p]
  <2>1. PICK i \in 1..Len(LineAt(l)) : \E j \in 1..Len(LineAt(l)[i].list) :
          /\ u = <<l, i, j>> /\ LineAt(l)[i].arg = a
          /\ Names(a, LineAt(l)[i].list[j]) = p
    BY <1>3 DEF NamedAt
  <2>2. PICK j \in 1..Len(LineAt(l)[i].list) :
          /\ u = <<l, i, j>> /\ LineAt(l)[i].arg = a
          /\ Names(a, LineAt(l)[i].list[j]) = p
    BY <2>1
  <2>3. PICK o : o = <<l, i>>
    OBVIOUS
  <2>4. o \in Arguments(a, Read) /\ o[1] = l /\ o[2] = i /\ ListAt(o) = LineAt(l)[i].list
    BY <2>2, <2>3, ArgumentsAre DEF ListAt
  <2>5. u \in {o[1]} \X {o[2]} \X {j2 \in 1..Len(ListAt(o)) : Names(a, ListAt(o)[j2]) = p}
    BY <2>2, <2>4
  <2> QED BY <1>1, <2>4, <2>5
<1> QED BY <1>2, <1>3

LEMMA DefaultPlacesAre ==
  ASSUME NEW d, default = {d}, NEW p \in Path, NEW u
  PROVE  u \in DefaultPlaces[p] <=>
           \E j \in 1..Len(d) : u = <<0, 0, j>> /\ Named(d[j]) = p
<1>1. DefaultPlaces[p] = {0} \X {0} \X {j \in 1..Len(d) : Named(d[j]) = p}
  BY DEF DefaultPlaces
<1> QED BY <1>1

\* A place of a path in an option of a line that is read.
LEMMA PlaceParts ==
  ASSUME Typed, Fixed, Suffix, NEW b, NEW q \in Path, NEW u \in Places(b)[q]
  PROVE  /\ u \in Place /\ u[1] \in 0..Read /\ u[2] \in 1..Len(LineAt(u[1]))
         /\ u[3] \in 1..Len(ListAt(u)) /\ Len(ListAt(u)) \in Nat
         /\ LineAt(u[1])[u[2]].arg = b /\ Names(b, ListAt(u)[u[3]]) = q
         /\ u = <<u[1], u[2], u[3]>>
<1>1. /\ Read \in Nat
      /\ \A l \in 0..Read : Len(LineAt(l)) \in Nat
      /\ \A l \in 0..Read : \A i \in 1..Len(LineAt(l)) : Len(LineAt(l)[i].list) \in Nat
  BY LinesAre
<1>2. PICK l \in 0..Read : NamedAt(b, q, l, u)
  BY <1>1, PlacesAre
<1>3. PICK i \in 1..Len(LineAt(l)) : \E j \in 1..Len(LineAt(l)[i].list) :
        u = <<l, i, j>> /\ LineAt(l)[i].arg = b /\ Names(b, LineAt(l)[i].list[j]) = q
  BY <1>2 DEF NamedAt
<1>4. PICK j \in 1..Len(LineAt(l)[i].list) :
        u = <<l, i, j>> /\ LineAt(l)[i].arg = b /\ Names(b, LineAt(l)[i].list[j]) = q
  BY <1>3
<1>5. ListAt(u) = LineAt(l)[i].list /\ u[1] = l /\ u[2] = i /\ u[3] = j
  BY <1>4 DEF ListAt
<1>6. l \in Nat /\ i \in Nat /\ j \in Nat /\ Len(LineAt(l)[i].list) \in Nat
  BY <1>1, <1>4
<1> QED BY <1>4, <1>5, <1>6 DEF Place
LEMMA BehindNext ==
  ASSUME NEW n \in Int, NEW i \in Int, NEW j \in Int, NEW u \in Place, u[1] <= n
  PROVE  /\ Behind(u, n, i, j) => Behind(u, n, i, j + 1)
         /\ Behind(u, n, i, j + 1) /\ ~Behind(u, n, i, j) => u[1] = n /\ u[2] = i /\ u[3] = j + 1
  BY DEF Behind, Place

LEMMA BehindBefore ==
  ASSUME NEW n \in Int, NEW i \in Int, NEW j \in Int, NEW u \in Place, NEW v \in Place,
         u[1] <= n, v[1] <= n, Behind(u, n, i, j), ~Behind(v, n, i, j)
  PROVE  Before(u, v)
  BY DEF Behind, Before, Place

\* The place of the next token: what is passed with it, and what is not.
LEMMA NextPlace ==
  ASSUME IInv, All, Position, status = "options", todo # <<>>, todo' = Tail(todo),
         UNCHANGED inputs, UNCHANGED lines, UNCHANGED calls,
         NEW a, a = IF dirMode THEN "-p" ELSE "-l"
  PROVE  /\ \A b : \A q \in Path : \A u \in Places(b)[q] :
              u \in OptionsPassed => u \in OptionsPassed'
         /\ \A b : \A q \in Path : \A u \in Places(b)[q] :
              u \in OptionsPassed' /\ u \notin OptionsPassed => b = a /\ q = Names(a, Head(todo))
         /\ \A q \in Path : q = Names(a, Head(todo)) => Places(a)[q] \cap OptionsPassed' # {}
         /\ \A b : \A q, r \in Path :
              \A u \in Places(b)[q] \cap OptionsPassed : \A v \in Places(b)[r] \ OptionsPassed :
                Before(u, v)
<1>1. /\ Typed /\ Fixed /\ Suffix /\ calls # <<>>
      /\ UNCHANGED <<argv, input, lines, calls>>
  BY DEF IInv, All, Position, OnOptions, inputs
<1>2. PICK n : n = Read
  OBVIOUS
<1>3. /\ n \in Nat /\ n \in 0..n /\ Read' = n
      /\ \A l \in 0..n : Len(LineAt(l)) \in Nat
      /\ \A l \in 0..n : \A i \in 1..Len(LineAt(l)) : Len(LineAt(l)[i].list) \in Nat
  <2>1. Read' = Read
    BY <1>1 DEF Read
  <2>2. /\ n \in Nat
        /\ \A l \in 0..n : Len(LineAt(l)) \in Nat
        /\ \A l \in 0..n : \A i \in 1..Len(LineAt(l)) : Len(LineAt(l)[i].list) \in Nat
    BY <1>1, <1>2, LinesAre
  <2>3. n \in 0..n
    BY <2>2
  <2> QED BY <1>2, <2>1, <2>2, <2>3
<1>4. PICK i0 : i0 = PassedOption
  OBVIOUS
<1>5. PICK list : list = LineAt(n)[i0].list
  OBVIOUS
<1>6. /\ OnOptions /\ Innermost.line = LineAt(n) /\ i0 \in 1..Len(LineAt(n))
      /\ LineAt(n)[i0].arg = a /\ EndOf(todo, list) /\ Len(list) \in Nat
  <2>1. /\ OnOptions /\ PassedOption > 0 /\ Innermost.line = LineAt(n)
        /\ Innermost.line[PassedOption].arg = a
        /\ EndOf(todo, Innermost.line[PassedOption].list)
    BY <1>2 DEF Position
  <2>2. Innermost.next \in Nat \ {0} /\ Innermost.next <= Len(Innermost.line) + 1 /\ Len(Innermost.line) \in Nat
    BY <1>1, InnermostIs DEF CallType
  <2>3. i0 \in 1..Len(LineAt(n))
    BY <1>4, <2>1, <2>2 DEF PassedOption
  <2>4. Len(list) \in Nat
    BY <1>3, <1>5, <2>3
  <2> QED BY <1>4, <1>5, <2>1, <2>3, <2>4
<1>7. PICK j0 : j0 = Len(list) - Len(todo)
  OBVIOUS
<1>8. /\ j0 \in Int /\ j0 + 1 \in 1..Len(list) /\ Head(todo) = list[j0 + 1]
      /\ Len(list) - Len(todo') = j0 + 1
  <2>1. todo \in Seq(Token) /\ Len(todo) \in Nat \ {0} /\ Len(todo') = Len(todo) - 1 /\ Head(todo) = todo[1]
    BY <1>1, HeadTailProperties, EmptySeq DEF Typed
  <2>2. Len(todo) <= Len(list) /\ todo[1] = list[Len(list) - Len(todo) + 1]
    BY <1>6, <2>1 DEF EndOf
  <2> QED BY <1>6, <1>7, <2>1, <2>2
<1>9. \A u \in Place : /\ u \in OptionsPassed <=> Behind(u, n, i0, j0)
                       /\ u \in OptionsPassed' <=> Behind(u, n, i0, j0 + 1)
  <2>1. PassedTokens = j0
    BY <1>4, <1>5, <1>6, <1>7 DEF PassedTokens
  <2>2. OnOptions' /\ Innermost' = Innermost
    BY <1>1, <1>6 DEF OnOptions, Innermost
  <2>3. PassedOption' = i0 /\ PassedTokens' = j0 + 1
    BY <1>4, <1>5, <1>6, <1>8, <2>2 DEF PassedOption, PassedTokens
  <2> QED BY <1>2, <1>3, <1>4, <1>6, <2>1, <2>2, <2>3 DEF OptionsPassed
<1>10. \A b : \A q \in Path : \A u \in Places(b)[q] :
         /\ u \in Place /\ u[1] \in 0..n
         /\ LineAt(u[1])[u[2]].arg = b /\ Names(b, ListAt(u)[u[3]]) = q
  BY <1>1, <1>2, PlaceParts
<1>11. ASSUME NEW b, NEW q \in Path, NEW u \in Places(b)[q],
              Behind(u, n, i0, j0 + 1), ~Behind(u, n, i0, j0)
       PROVE  b = a /\ q = Names(a, Head(todo))
  <2>1. u \in Place /\ u[1] <= n
    BY <1>3, <1>10
  <2>2. u[1] = n /\ u[2] = i0 /\ u[3] = j0 + 1
    BY <1>3, <1>6, <1>8, <1>11, <2>1, BehindNext
  <2>3. ListAt(u) = list
    BY <1>5, <2>2 DEF ListAt
  <2> QED BY <1>6, <1>8, <1>10, <2>2, <2>3
<1>12. ASSUME NEW q \in Path, q = Names(a, Head(todo))
       PROVE  Places(a)[q] \cap OptionsPassed' # {}
  <2>1. PICK c : c = <<n, i0, j0 + 1>>
    OBVIOUS
  <2>2. c \in Places(a)[q]
    <3>1. /\ n \in 0..Read /\ i0 \in 1..Len(LineAt(n)) /\ j0 + 1 \in 1..Len(LineAt(n)[i0].list)
          /\ LineAt(n)[i0].arg = a /\ Names(a, LineAt(n)[i0].list[j0 + 1]) = q
      BY <1>2, <1>3, <1>5, <1>6, <1>8, <1>12
    <3>2. NamedAt(a, q, n, c)
      BY <2>1, <3>1 DEF NamedAt
    <3> QED BY <1>2, <1>3, <3>1, <3>2, PlacesAre
  <2>3. Behind(c, n, i0, j0 + 1)
    BY <1>8, <2>1 DEF Behind
  <2> QED BY <1>9, <1>10, <2>2, <2>3
<1>13. ASSUME NEW b, NEW q \in Path, NEW r \in Path,
              NEW u \in Places(b)[q], NEW v \in Places(b)[r],
              Behind(u, n, i0, j0), ~Behind(v, n, i0, j0)
       PROVE  Before(u, v)
  <2>1. u \in Place /\ v \in Place /\ u[1] <= n /\ v[1] <= n
    BY <1>3, <1>10
  <2> QED BY <1>3, <1>6, <1>8, <1>13, <2>1, BehindBefore
<1>14. \A b : \A q \in Path : \A u \in Places(b)[q] :
         /\ u \in OptionsPassed <=> Behind(u, n, i0, j0)
         /\ u \in OptionsPassed' <=> Behind(u, n, i0, j0 + 1)
  BY <1>9, <1>10
<1>15. \A b : \A q \in Path : \A u \in Places(b)[q] :
         Behind(u, n, i0, j0) => Behind(u, n, i0, j0 + 1)
  <2> SUFFICES ASSUME NEW b, NEW q \in Path, NEW u \in Places(b)[q], Behind(u, n, i0, j0)
               PROVE  Behind(u, n, i0, j0 + 1)
    OBVIOUS
  <2>1. u \in Place /\ u[1] <= n
    BY <1>3, <1>10
  <2> QED BY <1>3, <1>6, <1>8, <2>1, BehindNext
<1> QED BY <1>11, <1>12, <1>13, <1>14, <1>15

\* The lists and their places stay what they are while no line is read.
LEMMA PlacesStay ==
  ASSUME UNCHANGED inputs, UNCHANGED lines
  PROVE  /\ Read' = Read /\ (\A l : LineAt(l)' = LineAt(l))
         /\ Places("-p")' = Places("-p") /\ Places("-l")' = Places("-l")
         /\ DefaultPlaces' = DefaultPlaces /\ DirPlaces' = DirPlaces
<1>1. UNCHANGED <<argv, input, default>> /\ PathGiven' = PathGiven
  BY NothingRead DEF inputs
<1>2. Read' = Read /\ (\A l : LineAt(l)' = LineAt(l))
  BY <1>1 DEF Read, LineAt
<1>3. /\ Places("-p")' = Places("-p") /\ Places("-l")' = Places("-l")
      /\ DefaultPlaces' = DefaultPlaces
  BY <1>1, <1>2 DEF Places, Arguments, ListAt, Names, Named, DefaultPlaces
<1> QED BY <1>1, <1>2, <1>3 DEF DirPlaces

\* A step that moves neither the lists nor what is passed.
LEMMA TrackedStays ==
  ASSUME IInv, Ordered, status = "options", status' = "options",
         UNCHANGED inputs, UNCHANGED lines, UNCHANGED lists,
         \A b \in {"-p", "-l"} : \A q \in Path : \A u \in Places(b)[q] :
           u \in OptionsPassed' <=> u \in OptionsPassed
  PROVE  Ordered'
<1>1. /\ Tracked(paths, pathCache, Places("-p"), OptionsPassed)
      /\ Tracked(libs, libCache, Places("-l"), OptionsPassed)
      /\ paths \in Seq(Path) /\ libs \in Seq(Path)
      /\ UNCHANGED <<paths, pathCache, libs, libCache>>
  BY DEF Ordered, IInv, Kept, lists
<1>2. Places("-p")' = Places("-p") /\ Places("-l")' = Places("-l")
  BY PlacesStay
<1> DEFINE Q == OptionsPassed'
<1>3. /\ \A q \in Path : \A u \in Places("-p")[q] : u \in Q <=> u \in OptionsPassed
      /\ \A q \in Path : \A u \in Places("-l")[q] : u \in Q <=> u \in OptionsPassed
  OBVIOUS
<1> HIDE DEF Q
<1>4. Tracked(paths, pathCache, Places("-p"), Q)
  <2>1. \A q \in Path : /\ Places("-p")[q] \cap OptionsPassed \subseteq Q
                        /\ Places("-p")[q] \cap Q \subseteq OptionsPassed
    BY <1>3
  <2> QED BY <1>1, <2>1, TrackedCached
<1>5. Tracked(libs, libCache, Places("-l"), Q)
  <2>1. \A q \in Path : /\ Places("-l")[q] \cap OptionsPassed \subseteq Q
                        /\ Places("-l")[q] \cap Q \subseteq OptionsPassed
    BY <1>3
  <2> QED BY <1>1, <2>1, TrackedCached
<1> QED BY <1>1, <1>2, <1>4, <1>5 DEF Ordered, Tracked, Q

LEMMA OptionOrders == IInv /\ All /\ Position /\ Ordered /\ ParseOption => (Position /\ Ordered)'
<1> SUFFICES ASSUME IInv, All, Position, Ordered, ParseOption PROVE (Position /\ Ordered)'
  OBVIOUS
<1>1. /\ Typed /\ Fixed /\ Suffix /\ calls # <<>> /\ ~AtEnd /\ status = "options" /\ todo = <<>>
      /\ Innermost.pass = "options"
      /\ calls' = ReplaceAt(calls, Len(calls), Advance)
      /\ UNCHANGED inputs /\ UNCHANGED lines /\ UNCHANGED lists
      /\ status' \in {"options", "failed"}
      /\ IF Current.arg \in {"-p", "-l"}
         THEN todo' = Current.list /\ dirMode' = (Current.arg = "-p")
         ELSE UNCHANGED <<todo, dirMode>>
  BY DEF IInv, All, ParseOption, Parsing, SetInnermost
<1>2. PICK line : line = Innermost.line
  OBVIOUS
<1>3. PICK i : i = Innermost.next
  OBVIOUS
<1>4. /\ OnOptions /\ line = LineAt(Read) /\ Len(line) \in Nat /\ i \in 1..Len(line)
      /\ Current = line[i] /\ line[i].list \in Seq(Token) /\ Len(line[i].list) \in Nat
      /\ Advance.line = line /\ Advance.pass = "options" /\ Advance.next = i + 1
  <2>1. Innermost \in CallType /\ line \in CommandLine /\ Len(line) \in Nat /\ Current \in Argument
    BY <1>1, <1>2, InnermostIs
  <2>2. /\ i \in Nat \ {0}
        /\ Innermost \in [line : CommandLine, pass : {"options", "arguments"}, next : Nat \ {0}]
    BY <1>3, <2>1 DEF CallType
  <2>3. i \in 1..Len(line) /\ Current = line[i]
    BY <1>1, <1>2, <1>3, <2>1, <2>2 DEF AtEnd, Current
  <2>4. OnOptions /\ line = LineAt(Read)
    BY <1>1, <1>2 DEF OnOptions, Position
  <2>5. line[i].list \in Seq(Token) /\ Len(line[i].list) \in Nat
    BY <2>1, <2>3, LenProperties DEF Argument, Token
  <2>6. Advance.line = line /\ Advance.pass = "options" /\ Advance.next = i + 1
    BY <1>1, <1>2, <1>3, <2>2 DEF Advance
  <2> QED BY <2>1, <2>3, <2>4, <2>5, <2>6
<1>5. /\ Len(calls) \in Nat \ {0} /\ Len(calls') = Len(calls) /\ Innermost = calls[Len(calls)]
      /\ calls'[Len(calls)] = Advance
      /\ \A k \in 1..Len(calls) : k # Len(calls) => calls'[k] = calls[k]
  BY <1>1, ReplacedIs
<1>6. Innermost' = Advance /\ OnOptions'
  <2>1. Innermost' = Advance
    BY <1>5 DEF Innermost, Last
  <2>2. calls' # <<>>
    BY <1>5
  <2> QED BY <1>4, <2>1, <2>2 DEF OnOptions
<1>7. Read' = Read /\ (\A l : LineAt(l)' = LineAt(l))
  BY <1>1, PlacesStay
<1>8. PassedOption = i - 1 /\ PassedOption' = i
  BY <1>3, <1>4, <1>6 DEF PassedOption
<1>9. Innermost'.line = line
  BY <1>4, <1>6
<1>10. Position'
  <2>1. \A k \in 1..Len(calls') : k # Len(calls') => calls'[k].pass = "arguments"
    BY <1>5 DEF Position
  <2>2. ASSUME todo' # <<>>
        PROVE  /\ line[i].arg = IF dirMode' THEN "-p" ELSE "-l"
               /\ EndOf(todo', line[i].list)
    <3>1. Current.arg \in {"-p", "-l"} /\ todo' = line[i].list /\ dirMode' = (line[i].arg = "-p")
      BY <1>1, <1>4, <2>2
    <3>2. EndOf(todo', line[i].list)
      BY <1>4, <3>1 DEF EndOf
    <3> QED BY <1>4, <3>1, <3>2
  <2>3. status' # "default" /\ i > 0
    BY <1>1, <1>4
  <2> QED BY <1>4, <1>6, <1>7, <1>8, <1>9, <2>1, <2>2, <2>3 DEF Position
<1>11. ASSUME NEW b \in {"-p", "-l"}, NEW q \in Path, NEW u \in Places(b)[q]
       PROVE  u \in OptionsPassed' <=> u \in OptionsPassed
  <2>1. /\ u \in Place /\ u[1] \in 0..Read /\ u[3] \in 1..Len(ListAt(u)) /\ Len(ListAt(u)) \in Nat
        /\ LineAt(u[1])[u[2]].arg = b /\ Read \in Nat
    BY <1>1, PlaceParts, LinesAre
  <2>2. PICK n : n = Read
    OBVIOUS
  <2>3. PICK t : t = PassedTokens'
    OBVIOUS
  <2>4. PICK s : s = PassedTokens
    OBVIOUS
  <2>5. /\ u \in OptionsPassed <=> Behind(u, n, i - 1, s)
        /\ u \in OptionsPassed' <=> Behind(u, n, i, t)
    BY <1>4, <1>6, <1>7, <1>8, <2>1, <2>2, <2>3, <2>4 DEF OptionsPassed
  <2>6. s = Len(line[i - 1].list)
    <3>1. Len(todo) = 0 /\ s = Len(line[i - 1].list) - Len(todo)
      BY <1>1, <1>2, <1>8, <2>4 DEF PassedTokens
    <3>2. i = 1 \/ i - 1 \in 1..Len(line)
      BY <1>4
    <3> QED BY <3>1
  <2>7. u[1] = n /\ u[2] = i => line[i].arg = b /\ t = 0
    <3> SUFFICES ASSUME u[1] = n, u[2] = i PROVE line[i].arg = b /\ t = 0
      OBVIOUS
    <3>1. line[i].arg = b
      BY <1>4, <2>1, <2>2
    <3>2. todo' = line[i].list
      BY <1>1, <1>4, <3>1
    <3>3. t = Len(line[i].list) - Len(todo')
      BY <1>8, <1>9, <2>3 DEF PassedTokens
    <3> QED BY <1>4, <3>1, <3>2, <3>3
  <2>8. u[1] = n /\ u[2] = i - 1 => u[3] <= s
    <3> SUFFICES ASSUME u[1] = n, u[2] = i - 1 PROVE u[3] <= s
      OBVIOUS
    <3>1. ListAt(u) = line[i - 1].list
      BY <1>4, <2>2 DEF ListAt
    <3> QED BY <2>1, <2>6, <3>1
  <2>9. u[1] \in Nat /\ u[2] \in Nat /\ u[3] \in Nat \ {0} /\ n \in Nat /\ u[1] <= n /\ i \in Nat
    BY <1>4, <2>1, <2>2 DEF Place
  <2>10. CASE u[1] < n
    BY <2>5, <2>10 DEF Behind
  <2>11. CASE u[1] = n /\ u[2] = i
    <3>1. t = 0
      BY <2>7, <2>11
    <3> QED BY <2>5, <2>9, <2>11, <3>1 DEF Behind
  <2>12. CASE u[1] = n /\ u[2] = i - 1
    <3>1. u[3] <= s
      BY <2>8, <2>12
    <3> QED BY <2>5, <2>9, <2>12, <3>1 DEF Behind
  <2>13. CASE u[1] = n /\ u[2] # i /\ u[2] # i - 1
    BY <2>5, <2>9, <2>13 DEF Behind
  <2> QED BY <2>9, <2>10, <2>11, <2>12, <2>13
<1>12. Ordered'
  <2>1. CASE status' = "failed"
    BY <2>1 DEF Ordered
  <2>2. CASE status' = "options"
    BY <1>1, <1>11, <2>2, TrackedStays
  <2> QED BY <1>1, <2>1, <2>2
<1> QED BY <1>10, <1>12

\* What the places are, in any state.
PlacesKnown ==
  Read \in Nat =>
    \A a : \A p \in Path : \A u : u \in Places(a)[p] <=> \E l \in 0..Read : NamedAt(a, p, l, u)

LEMMA PlacesKnownNow == PlacesKnown
  BY PlacesAre DEF PlacesKnown

LEMMA PlacesKnownThen == PlacesKnown'
  BY PlacesKnownNow, PTL

LEMMA CallsOrder ==
  IInv /\ All /\ Position /\ Ordered /\ (OptionsEnd \/ HelperReturns) => (Position /\ Ordered)'
<1> SUFFICES ASSUME IInv, All, Position, Ordered, OptionsEnd \/ HelperReturns
             PROVE  (Position /\ Ordered)'
  OBVIOUS
<1>1. /\ Typed /\ Fixed /\ Suffix /\ calls # <<>> /\ status = "options" /\ AtEnd /\ todo = <<>>
      /\ UNCHANGED inputs /\ UNCHANGED lists /\ UNCHANGED lines
      /\ UNCHANGED <<todo, dirMode, status>>
  BY DEF IInv, All, OptionsEnd, HelperReturns, Parsing
<1>2. /\ \A k \in 1..Len(calls') : k # Len(calls') => calls'[k].pass = "arguments"
      /\ ~OnOptions'
  <2>1. CASE OptionsEnd
    <3> DEFINE c == [Innermost EXCEPT !.pass = "arguments", !.next = 1]
    <3>1. calls' = ReplaceAt(calls, Len(calls), c)
      BY <2>1 DEF OptionsEnd, SetInnermost
    <3>2. c.pass = "arguments"
      <4>1. Innermost \in [line : CommandLine, pass : {"options", "arguments"}, next : Nat \ {0}]
        BY <1>1, InnermostIs DEF CallType
      <4> QED BY <4>1
    <3> HIDE DEF c
    <3>3. /\ Len(calls) \in Nat \ {0} /\ Len(calls') = Len(calls)
          /\ calls'[Len(calls)] = c
          /\ \A k \in 1..Len(calls) : k # Len(calls) => calls'[k] = calls[k]
      BY <1>1, <3>1, ReplacedIs
    <3>4. Innermost' = c
      BY <3>3 DEF Innermost, Last
    <3> QED BY <3>2, <3>3, <3>4 DEF OnOptions, Position
  <2>2. CASE HelperReturns
    <3>1. calls' = Front(calls)
      BY <2>2 DEF HelperReturns
    <3>2. /\ Len(calls) \in Nat \ {0} /\ Len(calls') = Len(calls) - 1
          /\ \A k \in 1..Len(calls) - 1 : calls'[k] = calls[k]
      BY <1>1, <3>1, FrontedIs
    <3>3. \A k \in 1..Len(calls) - 1 : calls'[k].pass = "arguments"
      BY <3>2 DEF Position
    <3>4. ASSUME calls' # <<>> PROVE Innermost'.pass = "arguments"
      <4>1. calls' \in Seq(CallType)
        BY <1>1, <3>1, Fronted DEF Typed
      <4>2. Len(calls') \in 1..Len(calls')
        BY <3>4, <4>1, EmptySeq, LenProperties
      <4> QED BY <3>2, <3>3, <4>2 DEF Innermost, Last
    <3> QED BY <3>2, <3>3, <3>4 DEF OnOptions
  <2> QED BY <2>1, <2>2
<1>3. Position'
  BY <1>1, <1>2 DEF Position
<1>4. ASSUME NEW b \in {"-p", "-l"}, NEW q \in Path, NEW u \in Places(b)[q]
      PROVE  u \in OptionsPassed' <=> u \in OptionsPassed
  <2>1. u \in Place /\ u[1] \in 0..Read /\ u[2] \in 1..Len(LineAt(u[1]))
        /\ u[3] \in 1..Len(ListAt(u)) /\ Len(ListAt(u)) \in Nat
    BY <1>1, PlaceParts
  <2>2. u \in OptionsPassed'
    BY <1>2, <2>1 DEF OptionsPassed
  <2>3. OnOptions => Behind(u, Read, PassedOption, PassedTokens)
    <3> SUFFICES ASSUME OnOptions PROVE Behind(u, Read, PassedOption, PassedTokens)
      OBVIOUS
    <3>1. PICK n : n = Read
      OBVIOUS
    <3>2. PICK line : line = Innermost.line
      OBVIOUS
    <3>3. line = LineAt(n) /\ Len(line) \in Nat /\ PassedOption = Len(line) /\ n \in Nat
      <4>1. line = LineAt(n) /\ Len(line) \in Nat /\ n \in Nat
        BY <1>1, <3>1, <3>2, InnermostIs, LinesAre DEF Position
      <4>2. Innermost.next \in Nat /\ Innermost.next <= Len(line) + 1 /\ Innermost.next > Len(line)
        BY <1>1, <3>2, InnermostIs DEF CallType, AtEnd
      <4> QED BY <4>1, <4>2 DEF PassedOption
    <3>4. PICK t : t = PassedTokens
      OBVIOUS
    <3>5. t = Len(line[Len(line)].list) - 0
      BY <1>1, <3>2, <3>3, <3>4 DEF PassedTokens
    <3>6. u[1] \in Nat /\ u[2] \in Nat /\ u[3] \in Nat
      BY <2>1 DEF Place
    <3>7. u[1] < n \/ (u[1] = n /\ u[2] < Len(line)) \/ (u[1] = n /\ u[2] = Len(line))
      BY <2>1, <3>1, <3>3, <3>6
    <3>8. u[1] = n /\ u[2] = Len(line) => u[3] <= t
      BY <2>1, <3>3, <3>5, <3>6 DEF ListAt
    <3> QED BY <3>1, <3>3, <3>4, <3>7, <3>8 DEF Behind
  <2> QED BY <2>1, <2>2, <2>3 DEF OptionsPassed
<1>5. Ordered'
  BY <1>1, <1>4, TrackedStays
<1> QED BY <1>3, <1>5

\* The step that reads a line puts its places behind all others.
LEMMA ReadOrders ==
  ASSUME IInv, All, Position, Ordered, status = "options", ~OnOptions, status' = "options",
         lines # <<>>, lines' = Tail(lines), UNCHANGED inputs, UNCHANGED lists,
         OnOptions', PassedOption' = 0
  PROVE  Ordered'
<1>1. /\ Typed /\ Fixed /\ Suffix
      /\ UNCHANGED <<argv, input, default, paths, libs, pathCache, libCache>>
      /\ paths \in Seq(Path) /\ libs \in Seq(Path)
      /\ Tracked(paths, pathCache, Places("-p"), OptionsPassed)
      /\ Tracked(libs, libCache, Places("-l"), OptionsPassed)
  BY DEF IInv, All, Kept, Ordered, inputs, lists
<1>2. PICK n : n = Read
  OBVIOUS
<1>3. n \in Nat /\ Read' = n + 1 /\ \A l : LineAt(l)' = LineAt(l)
  <2>1. n \in Nat /\ Len(lines) \in Nat /\ Len(input) \in Nat /\ n = Len(input) - Len(lines)
    BY <1>1, <1>2, LinesAre DEF Read
  <2>2. Len(lines') = Len(lines) - 1
    BY <1>1, HeadTailProperties DEF Typed
  <2>3. Read' = n + 1
    BY <1>1, <2>1, <2>2 DEF Read
  <2> QED BY <1>1, <2>1, <2>3 DEF LineAt
<1>4. PICK Q : Q = OptionsPassed'
  OBVIOUS
<1>5. PICK t : t = PassedTokens'
  OBVIOUS
<1>6. \A u \in Place : u \in Q <=> Behind(u, n + 1, 0, t)
  BY <1>3, <1>4, <1>5 DEF OptionsPassed
<1>7. ASSUME NEW b, NEW F, NEW G, F = Places(b), G = Places(b)'
      PROVE  /\ \A q \in Path : F[q] \subseteq OptionsPassed
             /\ \A q \in Path : G[q] \cap Q = F[q]
             /\ \A q, r \in Path : \A u \in F[q] : \A v \in G[r] \ F[r] : Before(u, v)
  <2>1. ASSUME NEW q \in Path, NEW u \in F[q]
        PROVE  u \in Place /\ u[1] \in 0..n /\ u[2] \in Nat \ {0}
    <3>1. u \in Place /\ u[1] \in 0..n /\ u[2] \in 1..Len(LineAt(u[1]))
      BY <1>1, <1>2, <1>7, <2>1, PlaceParts
    <3> QED BY <3>1 DEF Place
  <2>2. \A q \in Path : \A u : u \in F[q] <=> \E l \in 0..n : NamedAt(b, q, l, u)
    BY <1>2, <1>3, <1>7, PlacesKnownNow DEF PlacesKnown
  <2>3. \A q \in Path : \A u : u \in G[q] <=> \E l \in 0..n + 1 : NamedAt(b, q, l, u)
    <3>1. \A q \in Path : \A u : u \in G[q] <=> \E l \in 0..Read' : NamedAt(b, q, l, u)'
      <4>1. Read' \in Nat
        BY <1>3
      <4> QED BY <1>7, <4>1, PlacesKnownThen DEF PlacesKnown
    <3>2. \A q, l, u : NamedAt(b, q, l, u)' <=> NamedAt(b, q, l, u)
      BY <1>1 DEF NamedAt, LineAt, Names, Named
    <3> QED BY <1>3, <3>1, <3>2
  <2>4. ASSUME NEW q \in Path, NEW u \in F[q] PROVE u \in G[q] /\ u \in Q
    <3>1. u \in G[q]
      <4>1. \A l \in 0..n : l \in 0..n + 1
        BY <1>3
      <4> QED BY <2>2, <2>3, <4>1
    <3>2. u \in Place /\ Behind(u, n + 1, 0, t)
      <4>1. u[1] < n + 1
        BY <1>3, <2>1
      <4> QED BY <2>1, <4>1 DEF Behind
    <3> QED BY <1>6, <3>1, <3>2
  <2>5. ASSUME NEW q \in Path, NEW v \in G[q], v \notin F[q]
        PROVE  v[1] = n + 1 /\ v \notin Q
    <3>1. PICK l \in 0..n + 1 : NamedAt(b, q, l, v)
      BY <2>3
    <3>2. l \notin 0..n
      BY <2>2, <2>5, <3>1
    <3>3. l = n + 1 /\ l \in 0..Read'
      BY <1>3, <3>1, <3>2
    <3>4. PICK i \in 1..Len(LineAt(l)) : \E j \in 1..Len(LineAt(l)[i].list) : v = <<l, i, j>>
      BY <3>1 DEF NamedAt
    <3>5. PICK j \in 1..Len(LineAt(l)[i].list) : v = <<l, i, j>>
      BY <3>4
    <3>6. v[1] = n + 1 /\ v[2] = i /\ i >= 1
      BY <3>3, <3>5
    <3>7. i \in Nat /\ j \in Nat /\ v \in Place
      <4>1. i \in Nat /\ j \in Nat
        BY <3>4, <3>5
      <4> QED BY <1>3, <3>3, <3>5, <4>1 DEF Place
    <3>8. ~Behind(v, n + 1, 0, t)
      BY <1>3, <3>6, <3>7 DEF Behind
    <3> QED BY <1>6, <3>6, <3>7, <3>8
  <2>6. \A q \in Path : F[q] \subseteq OptionsPassed
    BY <2>1 DEF OptionsPassed
  <2>7. \A q \in Path : G[q] \cap Q = F[q]
    BY <2>4, <2>5
  <2>8. ASSUME NEW q \in Path, NEW r \in Path, NEW u \in F[q], NEW v \in G[r] \ F[r]
        PROVE  Before(u, v)
    <3>1. u[1] < v[1]
      BY <1>3, <2>1, <2>5
    <3> QED BY <3>1 DEF Before
  <2> QED BY <2>6, <2>7, <2>8
<1>8. Tracked(paths, pathCache, Places("-p")', Q)
  <2>1. PICK F, G : F = Places("-p") /\ G = Places("-p")'
    OBVIOUS
  <2>2. /\ \A q \in Path : F[q] \subseteq OptionsPassed
        /\ \A q \in Path : G[q] \cap Q = F[q]
        /\ \A q, r \in Path : \A u \in F[q] : \A v \in G[r] \ F[r] : Before(u, v)
    BY <1>7, <2>1
  <2>3. Tracked(paths, pathCache, G, Q)
    BY <1>1, <2>1, <2>2, TrackedRead
  <2> QED BY <2>1, <2>3
<1>9. Tracked(libs, libCache, Places("-l")', Q)
  <2>1. PICK F, G : F = Places("-l") /\ G = Places("-l")'
    OBVIOUS
  <2>2. /\ \A q \in Path : F[q] \subseteq OptionsPassed
        /\ \A q \in Path : G[q] \cap Q = F[q]
        /\ \A q, r \in Path : \A u \in F[q] : \A v \in G[r] \ F[r] : Before(u, v)
    BY <1>7, <2>1
  <2>3. Tracked(libs, libCache, G, Q)
    BY <1>1, <2>1, <2>2, TrackedRead
  <2> QED BY <2>1, <2>3
<1> QED BY <1>1, <1>4, <1>8, <1>9 DEF Ordered, Tracked

LEMMA ArgumentOrders ==
  IInv /\ All /\ Position /\ Ordered /\ ParseArgument => (Position /\ Ordered)'
<1> SUFFICES ASSUME IInv, All, Position, Ordered, ParseArgument
             PROVE  (Position /\ Ordered)'
  OBVIOUS
<1>1. /\ Typed /\ Fixed /\ Suffix /\ calls # <<>> /\ status = "options" /\ ~AtEnd /\ todo = <<>>
      /\ Innermost.pass = "arguments" /\ ~OnOptions
      /\ UNCHANGED inputs /\ UNCHANGED lists
      /\ UNCHANGED <<todo, dirMode>>
  BY DEF IInv, All, ParseArgument, Parsing, OnOptions
<1> DEFINE last == Len(calls)
           moved == ReplaceAt(calls, last, Advance)
<1>2. last \in Nat \ {0} /\ Innermost = calls[last] /\ Advance.pass = "arguments"
  <2>1. Innermost \in [line : CommandLine, pass : {"options", "arguments"}, next : Nat \ {0}]
    BY <1>1, InnermostIs DEF CallType
  <2>2. last \in Nat \ {0} /\ Innermost = calls[last]
    BY <1>1, EmptySeq DEF Typed, Innermost, Last
  <2> QED BY <1>1, <2>1, <2>2 DEF Advance
<1>3. /\ Len(moved) = last /\ moved \in Seq(CallType)
      /\ \A k \in 1..last : moved[k].pass = "arguments"
  <2>1. calls \in Seq(CallType) /\ last \in 1..Len(calls) /\ Advance \in CallType
    BY <1>1, <1>2, InnermostIs DEF Typed
  <2>2. moved = [calls EXCEPT ![last] = Advance]
    BY DEF ReplaceAt
  <2> HIDE DEF moved
  <2>3. /\ Len(moved) = last /\ moved \in Seq(CallType) /\ moved[last] = Advance
        /\ \A k \in 1..last : k # last => moved[k] = calls[k]
    BY <2>1, <2>2, ExceptSeq
  <2>4. \A k \in 1..last : k # last => calls[k].pass = "arguments"
    BY DEF Position
  <2> QED BY <1>2, <2>3, <2>4
<1> HIDE DEF moved, last
<1>4. ASSUME status' = "failed", UNCHANGED calls PROVE (Position /\ Ordered)'
  <2>1. ~OnOptions'
    BY <1>1, <1>4 DEF OnOptions, Innermost
  <2> QED BY <1>4, <2>1 DEF Position, Ordered
<1>5. ASSUME status' = "options", UNCHANGED lines, calls' = moved PROVE (Position /\ Ordered)'
  <2>1. ~OnOptions'
    <3>1. Innermost' = moved[last]
      BY <1>3, <1>5 DEF Innermost, Last
    <3> QED BY <1>2, <1>3, <3>1 DEF OnOptions
  <2>2. Position'
    BY <1>1, <1>3, <1>5, <2>1 DEF Position
  <2>3. \A u : u \in OptionsPassed' <=> u \in OptionsPassed
    BY <1>1, <2>1 DEF OptionsPassed
  <2>4. Ordered'
    BY <1>1, <1>5, <2>3, TrackedStays
  <2> QED BY <2>2, <2>4
<1>6. ASSUME status' = "options", lines # <<>>, lines' = Tail(lines),
             calls' = Append(moved, Call(Head(lines)))
      PROVE  (Position /\ Ordered)'
  <2>1. PICK c : c = Call(Head(lines))
    OBVIOUS
  <2>2. c.line = Head(lines) /\ c.pass = "options" /\ c.next = 1 /\ c \in CallType
    BY <1>1, <1>6, <2>1, Headed, CallIs DEF Call, Typed
  <2>3. /\ Len(calls') = last + 1 /\ calls'[last + 1] = c
        /\ \A k \in 1..last : calls'[k].pass = "arguments"
    BY <1>3, <1>6, <2>1, <2>2, AppendProperties
  <2>4. Innermost' = c /\ OnOptions' /\ PassedOption' = 0
    <3>1. Innermost' = c
      BY <2>3 DEF Innermost, Last
    <3>2. calls' # <<>>
      BY <1>2, <2>3
    <3> QED BY <2>2, <3>1, <3>2 DEF OnOptions, PassedOption
  <2>5. LineAt(Read)' = Head(lines)
    <3>1. /\ Len(lines) \in Nat \ {0} /\ Len(input) \in Nat /\ Read' = Len(input) - Len(lines')
          /\ Len(lines') = Len(lines) - 1 /\ Head(lines) = lines[1]
          /\ Len(lines) <= Len(input)
          /\ lines[1] = input[Len(input) - Len(lines) + 1]
      <4>1. Len(lines) \in Nat \ {0} /\ Len(input) \in Nat /\ Len(lines') = Len(lines) - 1 /\ Head(lines) = lines[1]
        BY <1>1, <1>6, HeadTailProperties, EmptySeq, LinesAre DEF Typed
      <4> QED BY <1>1, <4>1 DEF Read, Suffix, inputs
    <3>2. Read' = Len(input) - Len(lines) + 1 /\ Read' # 0
      BY <3>1
    <3>3. input' = input
      BY <1>1 DEF inputs
    <3> QED BY <3>1, <3>2, <3>3 DEF LineAt
  <2>6. Position'
    <3>1. \A k \in 1..Len(calls') : k # Len(calls') => calls'[k].pass = "arguments"
      <4>1. \A k \in 1..last + 1 : k # last + 1 => k \in 1..last
        BY <1>2
      <4> QED BY <2>3, <4>1
    <3> QED BY <1>1, <1>6, <2>2, <2>4, <2>5, <3>1 DEF Position
  <2>7. Ordered'
    BY <1>1, <1>6, <2>4, ReadOrders
  <2> QED BY <2>6, <2>7
<1> QED BY <1>1, <1>4, <1>5, <1>6 DEF ParseArgument, SetInnermost, moved, last

\* What is left to be added stays the end of its list.
LEMMA EndOfTail ==
  ASSUME NEW S, NEW s \in Seq(S), s # <<>>, NEW t, Len(t) \in Nat, EndOf(s, t)
  PROVE  EndOf(Tail(s), t)
<1>1. /\ Len(s) \in Nat \ {0} /\ Len(Tail(s)) = Len(s) - 1
      /\ \A m \in 1..Len(s) - 1 : Tail(s)[m] = s[m + 1]
  BY HeadTailProperties, EmptySeq
<1>2. ASSUME NEW m \in 1..Len(s) - 1 PROVE Tail(s)[m] = t[Len(t) - Len(Tail(s)) + m]
  <2>1. m + 1 \in 1..Len(s) /\ Len(t) - Len(s) + (m + 1) = Len(t) - Len(Tail(s)) + m
    BY <1>1
  <2>2. s[m + 1] = t[Len(t) - Len(s) + (m + 1)]
    BY <2>1 DEF EndOf
  <2> QED BY <1>1, <2>1, <2>2
<1>3. Len(s) <= Len(t)
  BY DEF EndOf
<1> QED BY <1>1, <1>2, <1>3 DEF EndOf

\* A token that is taken leaves the position in its list.
LEMMA TokenPosition ==
  ASSUME Typed, Fixed, Position, todo # <<>>, todo' = Tail(todo), UNCHANGED inputs, UNCHANGED lines,
         UNCHANGED calls, UNCHANGED dirMode,
         status \in {"options", "default"}, status' = status \/ status' = "aborted"
  PROVE  Position'
<1>1. /\ todo \in Seq(Token) /\ Len(todo) \in Nat \ {0} /\ Read' = Read /\ \A l : LineAt(l)' = LineAt(l)
      /\ default' = default
  BY PlacesStay, EmptySeq DEF Typed, inputs
<1>2. OnOptions' <=> OnOptions
  BY DEF OnOptions, Innermost
<1>3. Innermost' = Innermost /\ PassedOption' = PassedOption
  BY DEF PassedOption, Innermost
<1>4. ASSUME status = "options" PROVE EndOf(Tail(todo), Innermost.line[PassedOption].list)
  <2>1. /\ PassedOption > 0 /\ OnOptions /\ EndOf(todo, Innermost.line[PassedOption].list)
    BY <1>4 DEF Position
  <2>2. Innermost \in CallType /\ Innermost.line \in CommandLine /\ Len(Innermost.line) \in Nat
    BY <2>1, InnermostIs DEF OnOptions
  <2>3. Innermost.next \in Nat /\ Innermost.next <= Len(Innermost.line) + 1
    BY <2>2 DEF CallType
  <2>4. PassedOption \in 1..Len(Innermost.line)
    BY <2>1, <2>2, <2>3 DEF PassedOption
  <2>5. Innermost.line[PassedOption] \in Argument
    BY <2>2, <2>4, ElementOfSeq DEF CommandLine
  <2>6. Len(Innermost.line[PassedOption].list) \in Nat
    BY <2>5, LenProperties DEF Argument
  <2> QED BY <1>1, <2>1, <2>6, EndOfTail
<1>5. ASSUME status = "default" PROVE \E d \in default : default = {d} /\ EndOf(Tail(todo), d)
  <2>1. PICK d \in default : default = {d} /\ EndOf(todo, d)
    BY <1>5 DEF Position
  <2>2. Len(d) \in Nat
    BY LenProperties DEF Typed
  <2> QED BY <1>1, <2>1, <2>2, EndOfTail
<1>6. \A k \in 1..Len(calls') : k # Len(calls') => calls'[k].pass = "arguments"
  BY DEF Position
<1>7. OnOptions => Innermost.line = LineAt(Read)
  BY DEF Position
<1>8. status = "options" =>
        /\ OnOptions /\ PassedOption > 0
        /\ Innermost.line[PassedOption].arg = IF dirMode THEN "-p" ELSE "-l"
  BY DEF Position
<1> QED BY <1>1, <1>2, <1>3, <1>4, <1>5, <1>6, <1>7, <1>8 DEF Position

LEMMA SkipEmptyOrders ==
  IInv /\ All /\ Position /\ Ordered /\ SkipEmpty => (Position /\ Ordered)'
<1> SUFFICES ASSUME IInv, All, Position, Ordered, SkipEmpty
             PROVE  (Position /\ Ordered)'
  OBVIOUS
<1>1. /\ Typed /\ Fixed /\ todo # <<>> /\ todo' = Tail(todo) /\ Head(todo) = Empty /\ ~dirMode
      /\ status = "options" /\ status' = status
      /\ UNCHANGED inputs /\ UNCHANGED lines /\ UNCHANGED lists
      /\ UNCHANGED calls /\ UNCHANGED dirMode
  BY DEF IInv, All, SkipEmpty
<1>2. Position'
  BY <1>1, TokenPosition
<1>3. ASSUME NEW b \in {"-p", "-l"}, NEW q \in Path, NEW u \in Places(b)[q]
      PROVE  u \in OptionsPassed' <=> u \in OptionsPassed
  <2>1. "-l" = IF dirMode THEN "-p" ELSE "-l"
    BY <1>1
  <2>2. /\ u \in OptionsPassed => u \in OptionsPassed'
        /\ u \in OptionsPassed' /\ u \notin OptionsPassed => q = Names("-l", Head(todo))
    BY <1>1, <2>1, NextPlace
  <2>3. Names("-l", Head(todo)) = Empty
    BY <1>1 DEF Names
  <2> QED BY <2>2, <2>3, HereAssumption
<1>4. Ordered'
  BY <1>1, <1>3, TrackedStays
<1> QED BY <1>2, <1>4

\* A token of a list of options is taken: its list is told of it, the other is not.
LEMMA AddOptionOrders ==
  IInv /\ All /\ Position /\ Ordered /\ AddPath /\ status = "options" => Ordered'
<1> SUFFICES ASSUME IInv, All, Position, Ordered, AddPath, status = "options"
             PROVE  Ordered'
  OBVIOUS
<1>1. PICK p : p = Named(Head(todo))
  OBVIOUS
<1>2. /\ Typed /\ todo # <<>> /\ todo' = Tail(todo) /\ (Head(todo) # Empty \/ dirMode)
      /\ UNCHANGED inputs /\ UNCHANGED lines /\ UNCHANGED calls
      /\ status' \in {"options", "aborted"}
      /\ pathCache' = (IF dirMode THEN pathCache \cup {p} ELSE pathCache)
      /\ libCache' = (IF dirMode THEN libCache ELSE libCache \cup {p})
      /\ paths' = (IF dirMode /\ Keeps(p) THEN Append(paths, p) ELSE paths)
      /\ libs' = (IF ~dirMode /\ Keeps(p) THEN Append(libs, p) ELSE libs)
  BY <1>1 DEF IInv, AddPath
<1>3. PICK a : a = IF dirMode THEN "-p" ELSE "-l"
  OBVIOUS
<1>4. p \in Path /\ p = Names(a, Head(todo))
  <2>1. Head(todo) \in Token
    BY <1>2, Headed DEF Typed
  <2> QED BY <1>1, <1>2, <1>3, <2>1, HereAssumption DEF Named, Names, Token
<1>5. PICK P, Q : P = OptionsPassed /\ Q = OptionsPassed'
  OBVIOUS
<1>6. /\ \A b : \A q \in Path : \A u \in Places(b)[q] : u \in P => u \in Q
      /\ \A b : \A q \in Path : \A u \in Places(b)[q] :
           u \in Q /\ u \notin P => b = a /\ q = p
      /\ Places(a)[p] \cap Q # {}
      /\ \A b : \A q, r \in Path : \A u \in Places(b)[q] \cap P : \A v \in Places(b)[r] \ P : Before(u, v)
  BY <1>2, <1>3, <1>4, <1>5, NextPlace
<1>7. /\ Tracked(paths, pathCache, Places("-p"), P) /\ paths \in Seq(Path)
      /\ Tracked(libs, libCache, Places("-l"), P) /\ libs \in Seq(Path)
  BY <1>5 DEF Ordered, IInv, Kept
<1>8. Tracked(paths', pathCache', Places("-p"), Q)
  <2>1. PICK F : F = Places("-p")
    OBVIOUS
  <2>2. /\ \A q \in Path : F[q] \cap P \subseteq Q
        /\ \A q \in Path \ {p} : F[q] \cap Q \subseteq P
        /\ dirMode => F[p] \cap Q # {}
        /\ ~dirMode => \A q \in Path : F[q] \cap Q \subseteq P
        /\ \A q \in Path : \A u \in F[q] \cap P : \A v \in F[p] \ P : Before(u, v)
    BY <1>3, <1>4, <1>6, <2>1
  <2>3. CASE dirMode /\ Keeps(p)
    <3>1. p \in Path \ pathCache
      BY <1>4, <2>3 DEF Keeps, Cache
    <3>2. Tracked(Append(paths, p), pathCache \cup {p}, F, Q)
      BY <1>7, <2>1, <2>2, <2>3, <3>1, TrackedMore
    <3> QED BY <1>2, <2>1, <2>3, <3>2
  <2>4. CASE dirMode /\ ~Keeps(p)
    <3>1. Tracked(paths, pathCache \cup {p}, F, Q)
      <4>1. \A q \in Path \ (pathCache \cup {p}) : F[q] \cap Q \subseteq P
        BY <2>2
      <4> QED BY <1>7, <2>1, <2>2, <4>1, TrackedCached
    <3> QED BY <1>2, <2>1, <2>4, <3>1
  <2>5. CASE ~dirMode
    <3>1. Tracked(paths, pathCache, F, Q)
      <4>1. \A q \in Path \ pathCache : F[q] \cap Q \subseteq P
        BY <2>2, <2>5
      <4> QED BY <1>7, <2>1, <2>2, <4>1, TrackedCached
    <3> QED BY <1>2, <2>1, <2>5, <3>1
  <2> QED BY <2>3, <2>4, <2>5
<1>9. Tracked(libs', libCache', Places("-l"), Q)
  <2>1. PICK F : F = Places("-l")
    OBVIOUS
  <2>2. /\ \A q \in Path : F[q] \cap P \subseteq Q
        /\ \A q \in Path \ {p} : F[q] \cap Q \subseteq P
        /\ ~dirMode => F[p] \cap Q # {}
        /\ dirMode => \A q \in Path : F[q] \cap Q \subseteq P
        /\ \A q \in Path : \A u \in F[q] \cap P : \A v \in F[p] \ P : Before(u, v)
    BY <1>3, <1>4, <1>6, <2>1
  <2>3. CASE ~dirMode /\ Keeps(p)
    <3>1. p \in Path \ libCache
      BY <1>4, <2>3 DEF Keeps, Cache
    <3>2. Tracked(Append(libs, p), libCache \cup {p}, F, Q)
      BY <1>7, <2>1, <2>2, <2>3, <3>1, TrackedMore
    <3> QED BY <1>2, <2>1, <2>3, <3>2
  <2>4. CASE ~dirMode /\ ~Keeps(p)
    <3>1. Tracked(libs, libCache \cup {p}, F, Q)
      <4>1. \A q \in Path \ (libCache \cup {p}) : F[q] \cap Q \subseteq P
        BY <2>2
      <4> QED BY <1>7, <2>1, <2>2, <4>1, TrackedCached
    <3> QED BY <1>2, <2>1, <2>4, <3>1
  <2>5. CASE dirMode
    <3>1. Tracked(libs, libCache, F, Q)
      <4>1. \A q \in Path \ libCache : F[q] \cap Q \subseteq P
        BY <2>2, <2>5
      <4> QED BY <1>7, <2>1, <2>2, <4>1, TrackedCached
    <3> QED BY <1>2, <2>1, <2>5, <3>1
  <2> QED BY <2>3, <2>4, <2>5
<1>10. Places("-p")' = Places("-p") /\ Places("-l")' = Places("-l")
  BY <1>2, PlacesStay
<1> QED BY <1>2, <1>5, <1>8, <1>9, <1>10 DEF Ordered, Tracked

\* A token of the dynamic linker's search path is taken.
LEMMA AddDefaultOrders ==
  IInv /\ All /\ Position /\ Ordered /\ AddPath /\ status = "default" => Ordered'
<1> SUFFICES ASSUME IInv, All, Position, Ordered, AddPath, status = "default"
             PROVE  Ordered'
  OBVIOUS
<1>1. PICK p : p = Named(Head(todo))
  OBVIOUS
<1>2. /\ Typed /\ todo # <<>> /\ todo' = Tail(todo) /\ dirMode
      /\ UNCHANGED inputs /\ UNCHANGED lines /\ UNCHANGED libs
      /\ status' \in {"default", "aborted"}
      /\ pathCache' = pathCache \cup {p}
      /\ paths' = (IF Keeps(p) THEN Append(paths, p) ELSE paths)
  BY <1>1 DEF IInv, AddPath, Typed
<1>3. PICK d \in default : default = {d} /\ EndOf(todo, d)
  BY DEF Position
<1>4. PICK t : t = Len(d) - Len(todo)
  OBVIOUS
<1>5. /\ t \in Nat /\ t + 1 \in 1..Len(d) /\ Head(todo) = d[t + 1] /\ Len(d) - Len(todo') = t + 1
      /\ Head(todo) \in Token /\ Len(d) \in Nat
  <2>1. /\ Len(todo) \in Nat \ {0} /\ Len(todo') = Len(todo) - 1 /\ Head(todo) = todo[1]
        /\ Head(todo) \in Token
    BY <1>2, HeadTailProperties, EmptySeq DEF Typed
  <2>2. Len(d) \in Nat
    BY <1>2, LenProperties DEF Typed
  <2>3. Len(todo) <= Len(d) /\ todo[1] = d[Len(d) - Len(todo) + 1]
    BY <1>3, <2>1 DEF EndOf
  <2> QED BY <1>4, <2>1, <2>2, <2>3
<1>6. p \in Path
  BY <1>1, <1>5, HereAssumption DEF Named, Token
<1>7. PICK F, P, Q : F = DefaultPlaces /\ P = DefaultPassed /\ Q = DefaultPassed'
  OBVIOUS
<1>8. /\ \A u \in Place : u \in P <=> u[3] <= t
      /\ \A u \in Place : u \in Q <=> u[3] <= t + 1
  BY <1>2, <1>3, <1>4, <1>5, <1>7 DEF DefaultPassed, inputs
<1>9. \A q \in Path : \A u : u \in F[q] <=> \E j \in 1..Len(d) : u = <<0, 0, j>> /\ Named(d[j]) = q
  BY <1>3, <1>7, DefaultPlacesAre
<1>10. \A q \in Path : \A u \in F[q] :
         u \in Place /\ u[1] = 0 /\ u[2] = 0 /\ u[3] \in 1..Len(d) /\ Named(d[u[3]]) = q
  <2> SUFFICES ASSUME NEW q \in Path, NEW u \in F[q]
               PROVE  u \in Place /\ u[1] = 0 /\ u[2] = 0 /\ u[3] \in 1..Len(d) /\ Named(d[u[3]]) = q
    OBVIOUS
  <2>1. PICK j \in 1..Len(d) : u = <<0, 0, j>> /\ Named(d[j]) = q
    BY <1>9
  <2>2. j \in Nat
    BY <1>5
  <2> QED BY <2>1, <2>2 DEF Place
<1>11. \A q \in Path : F[q] \cap P \subseteq Q
  <2> SUFFICES ASSUME NEW q \in Path, NEW u \in F[q], u \in P PROVE u \in Q
    OBVIOUS
  <2>1. u \in Place /\ u[3] \in Nat
    BY <1>5, <1>10
  <2> QED BY <1>5, <1>8, <2>1
<1>12. \A q \in Path \ {p} : F[q] \cap Q \subseteq P
  <2> SUFFICES ASSUME NEW q \in Path, q # p, NEW u \in F[q], u \in Q PROVE u \in P
    OBVIOUS
  <2>1. u \in Place /\ u[3] \in Nat /\ u[3] <= t + 1
    BY <1>5, <1>8, <1>10
  <2>2. u[3] # t + 1
    BY <1>1, <1>5, <1>10
  <2> QED BY <1>5, <1>8, <2>1, <2>2
<1>13. F[p] \cap Q # {}
  <2>1. PICK c : c = <<0, 0, t + 1>>
    OBVIOUS
  <2>2. c \in F[p]
    BY <1>1, <1>5, <1>6, <1>9, <2>1
  <2>3. c \in Place /\ c[3] <= t + 1
    BY <1>5, <2>1 DEF Place
  <2> QED BY <1>8, <2>2, <2>3
<1>14. \A q \in Path : \A u \in F[q] \cap P : \A v \in F[p] \ P : Before(u, v)
  <2> SUFFICES ASSUME NEW q \in Path, NEW u \in F[q] \cap P, NEW v \in F[p] \ P PROVE Before(u, v)
    OBVIOUS
  <2>1. /\ u[1] = 0 /\ u[2] = 0 /\ v[1] = 0 /\ v[2] = 0 /\ u \in Place /\ v \in Place
        /\ u[3] \in Nat /\ v[3] \in Nat
    BY <1>5, <1>6, <1>10
  <2>2. u[3] < v[3]
    BY <1>5, <1>8, <2>1
  <2> QED BY <2>1, <2>2 DEF Before
<1>15. Tracked(paths, pathCache, F, P) /\ paths \in Seq(Path)
  BY <1>7 DEF Ordered, IInv, Kept
<1>16. Tracked(paths', pathCache', F, Q)
  <2>1. CASE Keeps(p)
    <3>1. p \in Path \ pathCache
      BY <1>2, <1>6, <2>1 DEF Keeps, Cache
    <3>2. Tracked(Append(paths, p), pathCache \cup {p}, F, Q)
      BY <1>11, <1>12, <1>13, <1>14, <1>15, <3>1, TrackedMore
    <3> QED BY <1>2, <2>1, <3>2
  <2>2. CASE ~Keeps(p)
    <3>1. \A q \in Path \ (pathCache \cup {p}) : F[q] \cap Q \subseteq P
      BY <1>12
    <3>2. Tracked(paths, pathCache \cup {p}, F, Q)
      BY <1>11, <1>15, <3>1, TrackedCached
    <3> QED BY <1>2, <2>2, <3>2
  <2> QED BY <2>1, <2>2
<1>17. /\ DefaultPlaces' = F /\ Places("-l")' = Places("-l")
       /\ InOrder(libs, Places("-l"))
  BY <1>2, <1>7, PlacesStay DEF Ordered
<1>18. Tracked(paths, pathCache, DefaultPlaces, DefaultPassed)'
  <2>1. Tracked(paths', pathCache', DefaultPlaces', DefaultPassed')
    BY <1>7, <1>16, <1>17
  <2> HIDE DEF DefaultPlaces, DefaultPassed
  <2> QED BY <2>1 DEF Tracked, InOrder
<1>19. InOrder(libs, Places("-l"))'
  <2>1. libs' = libs
    BY <1>2
  <2> QED BY <1>17, <2>1 DEF InOrder
<1> QED BY <1>2, <1>18, <1>19 DEF Ordered

LEMMA AddPathOrders ==
  IInv /\ All /\ Position /\ Ordered /\ AddPath => (Position /\ Ordered)'
<1> SUFFICES ASSUME IInv, All, Position, Ordered, AddPath
             PROVE  (Position /\ Ordered)'
  OBVIOUS
<1>1. /\ Typed /\ Fixed /\ todo # <<>> /\ todo' = Tail(todo) /\ status \in {"options", "default"}
      /\ status' = status \/ status' = "aborted"
      /\ UNCHANGED inputs /\ UNCHANGED lines /\ UNCHANGED calls /\ UNCHANGED dirMode
  BY DEF IInv, All, AddPath
<1>2. Position'
  BY <1>1, TokenPosition
<1> QED BY <1>1, <1>2, AddOptionOrders, AddDefaultOrders

\* The default is looked at from its start, with nothing on its list yet.
LEMMA EndsOrder ==
  IInv /\ All /\ Position /\ Ordered /\ (ParseArgsEnds \/ DefaultEnds) => (Position /\ Ordered)'
<1> SUFFICES ASSUME IInv, All, Position, Ordered, ParseArgsEnds \/ DefaultEnds
             PROVE  (Position /\ Ordered)'
  OBVIOUS
<1>1. /\ Typed /\ Fixed /\ UNCHANGED inputs /\ UNCHANGED lines /\ UNCHANGED lists
      /\ calls = <<>> /\ calls' = calls
      /\ UNCHANGED <<paths, pathCache, libs, libCache, default>>
      /\ paths \in Seq(Path)
  BY DEF IInv, All, ParseArgsEnds, DefaultEnds, DefaultTaken, Kept, inputs, lists
<1>2. ~OnOptions' /\ (\A k \in 1..Len(calls') : k # Len(calls') => calls'[k].pass = "arguments")
  BY <1>1 DEF OnOptions, Position
<1>3. /\ Places("-p")' = Places("-p") /\ Places("-l")' = Places("-l")
      /\ DefaultPlaces' = DefaultPlaces /\ DirPlaces' = DirPlaces
  BY <1>1, PlacesStay
<1>4. CASE status' = "failed"
  BY <1>2, <1>4 DEF Position, Ordered
<1>5. CASE ParseArgsEnds /\ pathSeen /\ status' = "done"
  <2>1. DirPlaces = Places("-p")
    BY <1>5 DEF All, DefaultTaken, DirPlaces
  <2>2. InOrder(paths, Places("-p")) /\ InOrder(libs, Places("-l"))
    BY <1>5 DEF Ordered, Tracked, ParseArgsEnds
  <2> QED BY <1>1, <1>2, <1>3, <1>5, <2>1, <2>2 DEF Position, Ordered, InOrder
<1>6. CASE ParseArgsEnds /\ ~pathSeen /\ default # {} /\ status' = "default" /\ todo' \in default
  <2>1. status = "options" /\ ~PathGiven
    <3>1. status = "options"
      BY <1>6 DEF ParseArgsEnds
    <3> QED BY <1>1, <1>6, <3>1, NothingPending
  <2>2. paths = <<>>
    <3>1. ASSUME NEW x \in 1..Len(paths) PROVE FALSE
      <4>1. paths[x] \in pathCache
        BY DEF IInv, Kept
      <4>2. paths[x] \in NamedDirs
        BY <2>1, <4>1 DEF All, CacheAsked, DirAsked
      <4> QED BY <2>1, <4>2 DEF NamedDirs, TokensOf, PathGiven
    <3>2. Len(paths) \in Nat
      BY <1>1, LenProperties
    <3> QED BY <1>1, <3>1, <3>2, EmptySeq
  <2>3. PICK d : default = {d} /\ todo' = d /\ d \in Seq(Token)
    BY <1>1, <1>6 DEF Fixed, Typed
  <2>4. Position'
    <3>1. Len(d) \in Nat
      BY <2>3, LenProperties
    <3>2. EndOf(todo', d)
      BY <2>3, <3>1 DEF EndOf
    <3> QED BY <1>1, <1>2, <1>6, <2>3, <3>2 DEF Position
  <2>5. ASSUME NEW q \in Path PROVE DefaultPlaces[q] \cap DefaultPassed' = {}
    <3> SUFFICES ASSUME NEW u \in DefaultPlaces[q], u \in DefaultPassed' PROVE FALSE
      OBVIOUS
    <3>1. PICK j \in 1..Len(d) : u = <<0, 0, j>>
      BY <2>3, DefaultPlacesAre
    <3>2. Len(d) \in Nat /\ u[3] = j /\ u[3] <= Len(d) - Len(todo')
      BY <1>1, <2>3, <3>1, LenProperties DEF DefaultPassed
    <3> QED BY <2>3, <3>1, <3>2
  <2>6. Tracked(paths', pathCache', DefaultPlaces', DefaultPassed')
    <3>1. Len(paths') = 0
      BY <1>1, <2>2
    <3> HIDE DEF DefaultPlaces, DefaultPassed
    <3> QED BY <1>3, <2>5, <3>1 DEF Tracked, InOrder
  <2>7. InOrder(libs, Places("-l"))
    BY <2>1 DEF Ordered, Tracked
  <2>8. Tracked(paths, pathCache, DefaultPlaces, DefaultPassed)'
    <3> HIDE DEF DefaultPlaces, DefaultPassed
    <3> QED BY <2>6 DEF Tracked, InOrder
  <2>9. InOrder(libs, Places("-l"))'
    <3>1. libs' = libs
      BY <1>1
    <3> QED BY <1>3, <2>7, <3>1 DEF InOrder
  <2> QED BY <1>6, <2>4, <2>8, <2>9 DEF Ordered
<1>7. CASE DefaultEnds
  <2>1. status = "default" /\ status' = "done"
    BY <1>7 DEF DefaultEnds
  <2>2. DirPlaces = DefaultPlaces
    BY <2>1 DEF All, DefaultTaken, DirPlaces
  <2>3. InOrder(paths, DefaultPlaces) /\ InOrder(libs, Places("-l"))
    BY <2>1 DEF Ordered, Tracked
  <2> QED BY <1>1, <1>2, <1>3, <2>1, <2>2, <2>3 DEF Position, Ordered, InOrder
<1> QED BY <1>4, <1>5, <1>6, <1>7 DEF ParseArgsEnds

LEMMA InitOrders == Init => Position /\ Ordered
<1> SUFFICES ASSUME Init PROVE Position /\ Ordered
  OBVIOUS
<1>1. /\ argv \in CommandLine /\ input \in Seq(CommandLine) /\ lines = input
      /\ calls = <<Call(argv)>> /\ todo = <<>> /\ status = "options"
      /\ paths = <<>> /\ libs = <<>> /\ pathCache = {} /\ libCache = {}
  BY LinesAssumption DEF Init
<1>2. /\ Len(calls) = 1 /\ calls[1] = Call(argv) /\ Innermost = Call(argv)
      /\ Innermost.line = argv /\ Innermost.pass = "options" /\ PassedOption = 0
  BY <1>1 DEF Call, Innermost, Last, PassedOption
<1>3. Read = 0 /\ LineAt(Read) = argv
  <2>1. Len(input) \in Nat
    BY <1>1, LenProperties
  <2> QED BY <1>1, <2>1 DEF Read, LineAt
<1>4. OnOptions
  BY <1>1, <1>2 DEF OnOptions
<1>5. Position
  <2>1. \A k \in 1..1 : k = 1
    OBVIOUS
  <2> QED BY <1>1, <1>2, <1>3, <2>1 DEF Position
<1>6. ASSUME NEW b, NEW q \in Path PROVE Places(b)[q] \cap OptionsPassed = {}
  <2> SUFFICES ASSUME NEW u \in Places(b)[q], u \in OptionsPassed PROVE FALSE
    OBVIOUS
  <2>1. Typed /\ Fixed /\ Suffix
    BY InitHolds, InitTakes DEF IInv, All
  <2>2. u \in Place /\ u[1] \in 0..0 /\ u[2] \in 1..Len(LineAt(u[1]))
    BY <1>3, <2>1, PlaceParts
  <2>3. Behind(u, 0, 0, PassedTokens)
    BY <1>2, <1>3, <1>4 DEF OptionsPassed
  <2>4. u[2] \in Nat \ {0} /\ u[1] = 0
    BY <2>2 DEF Place
  <2> QED BY <2>3, <2>4 DEF Behind
<1>7. Ordered
  <2>1. Len(paths) = 0 /\ Len(libs) = 0
    BY <1>1
  <2>2. /\ Tracked(paths, pathCache, Places("-p"), OptionsPassed)
        /\ Tracked(libs, libCache, Places("-l"), OptionsPassed)
    BY <1>6, <2>1 DEF Tracked, InOrder
  <2> QED BY <1>1, <2>2 DEF Ordered
<1> QED BY <1>5, <1>7

LEMMA OrderAlways == Spec => [](Position /\ Ordered)
<1>1. IInv /\ All /\ Position /\ Ordered /\ [Next]_vars => (Position /\ Ordered)'
  <2> SUFFICES ASSUME IInv, All, Position, Ordered, [Next]_vars PROVE (Position /\ Ordered)'
    OBVIOUS
  <2>1. CASE Ended \/ UNCHANGED vars
    <3>1. UNCHANGED vars
      BY <2>1 DEF Ended
    <3>2. /\ UNCHANGED inputs /\ UNCHANGED lines /\ UNCHANGED lists
          /\ calls' = calls /\ todo' = todo /\ dirMode' = dirMode /\ status' = status
          /\ UNCHANGED <<default, paths, pathCache, libs, libCache>>
      BY <3>1 DEF vars, inputs, lists
    <3>3. /\ Read' = Read /\ (\A l : LineAt(l)' = LineAt(l))
          /\ Places("-p")' = Places("-p") /\ Places("-l")' = Places("-l")
          /\ DefaultPlaces' = DefaultPlaces /\ DirPlaces' = DirPlaces
      BY <3>2, PlacesStay
    <3>4. /\ Innermost' = Innermost /\ (OnOptions' <=> OnOptions)
          /\ PassedOption' = PassedOption /\ PassedTokens' = PassedTokens
      BY <3>2 DEF Innermost, OnOptions, PassedOption, PassedTokens
    <3>5. Position'
      BY <3>2, <3>3, <3>4 DEF Position
    <3>6. OptionsPassed' = OptionsPassed /\ DefaultPassed' = DefaultPassed
      BY <3>2, <3>3, <3>4 DEF OptionsPassed, DefaultPassed
    <3>7. /\ Tracked(paths, pathCache, Places("-p"), OptionsPassed)' <=>
               Tracked(paths, pathCache, Places("-p"), OptionsPassed)
          /\ Tracked(libs, libCache, Places("-l"), OptionsPassed)' <=>
               Tracked(libs, libCache, Places("-l"), OptionsPassed)
          /\ Tracked(paths, pathCache, DefaultPlaces, DefaultPassed)' <=>
               Tracked(paths, pathCache, DefaultPlaces, DefaultPassed)
      BY <3>2, <3>3, <3>6 DEF Tracked, InOrder
    <3>8. /\ InOrder(libs, Places("-l"))' <=> InOrder(libs, Places("-l"))
          /\ InOrder(paths, DirPlaces)' <=> InOrder(paths, DirPlaces)
      BY <3>2, <3>3 DEF InOrder
    <3>9. Ordered'
      BY <3>2, <3>7, <3>8 DEF Ordered
    <3> QED BY <3>5, <3>9
  <2> QED BY <2>1, OptionOrders, CallsOrder, ArgumentOrders, SkipEmptyOrders, AddPathOrders, EndsOrder
          DEF Next
<1> QED BY <1>1, AllAlways, InitOrders, PTL DEF Spec

-----------------------------------------------------------------------------
(* A line for each "-"                                                     *)

\* The second pass over the line of the call c is not past its argument i.
AheadOf(c, i) == c.pass = "options" \/ c.next <= i

\* Where a line has a "-", where those are that a call has not come to, and
\* those of all calls.
DashesIn(line) == {i \in 1..Len(line) : line[i].arg = "stdin"}
DashesLeft(c) == {i \in DashesIn(c.line) : AheadOf(c, i)}
DashesAhead == UNION {{k} \X DashesLeft(calls[k]) : k \in 1..Len(calls)}

JunkAhead(line, i) == \E k \in 1..Len(calls) : calls[k].line = line /\ AheadOf(calls[k], i)

Going == status \in {"options", "default", "done"}

\* Every line was asked for before it was read.
Asked == \A l \in 1..Read : Cardinality(Arguments("stdin", l - 1)) >= l

\* While the program goes on each "-" has had its line, but for those ahead.
Counted ==
  Going =>
    /\ IsFiniteSet(DashesAhead) /\ IsFiniteSet(Arguments("stdin", Read))
    /\ Cardinality(Arguments("stdin", Read)) = Read + Cardinality(DashesAhead)

\* And what would end it is ahead as well.
WellFormed ==
  Going =>
    /\ \A l \in 1..Read : input[l] # <<>>
    /\ \A line \in ReadLines : \A i \in 1..Len(line) :
         /\ line[i].arg = "usage" => Pending(line, i)
         /\ line[i].arg = "junk" => JunkAhead(line, i)

Explained == status = "failed" => IllFormed \/ LineMissing \/ (~PathGiven /\ default = {})

Accounted == Asked /\ Counted /\ WellFormed /\ Explained

LEMMA DashesFinite ==
  ASSUME NEW line, Len(line) \in Nat
  PROVE  IsFiniteSet(DashesIn(line))
<1>1. IsFiniteSet(1..Len(line))
  BY FS_Interval
<1>2. DashesIn(line) \in SUBSET (1..Len(line))
  BY DEF DashesIn
<1> QED BY <1>1, <1>2, FS_Subset

\* What a line or a call adds to what is counted.
LEMMA CountMore ==
  ASSUME NEW S, IsFiniteSet(S), NEW D, IsFiniteSet(D), NEW k, \A w \in S : w[1] # k
  PROVE  /\ IsFiniteSet(S \cup ({k} \X D))
         /\ Cardinality(S \cup ({k} \X D)) = Cardinality(S) + Cardinality(D)
         /\ Cardinality(S) \in Nat /\ Cardinality(D) \in Nat
<1> DEFINE T == {k} \X D
<1>1. Cardinality(S) \in Nat /\ Cardinality(D) \in Nat
  BY FS_CardinalityType
<1>2. IsFiniteSet({k}) /\ Cardinality({k}) = 1
  BY FS_Singleton
<1>3. IsFiniteSet(T) /\ Cardinality(T) = Cardinality({k}) * Cardinality(D)
  BY <1>2, FS_Product
<1>4. Cardinality(T) = Cardinality(D)
  BY <1>1, <1>2, <1>3
<1>5. S \cap T = {}
  OBVIOUS
<1>6. Cardinality(S \cap T) = 0
  BY <1>5, FS_EmptySet
<1> HIDE DEF T
<1>7. IsFiniteSet(S \cup T) /\ Cardinality(S \cup T) = Cardinality(S) + Cardinality(T) - Cardinality(S \cap T)
  BY <1>3, FS_Union
<1>8. IsFiniteSet(S \cup T) /\ Cardinality(S \cup T) = Cardinality(S) + Cardinality(D)
  BY <1>1, <1>4, <1>6, <1>7
<1> QED BY <1>1, <1>8 DEF T

LEMMA DashesAheadAre ==
  ASSUME NEW w
  PROVE  w \in DashesAhead <=> \E k \in 1..Len(calls) : \E i \in DashesLeft(calls[k]) : w = <<k, i>>
  BY DEF DashesAhead

DashesKnown ==
  \A w : w \in DashesAhead <=> \E k \in 1..Len(calls) : \E i \in DashesLeft(calls[k]) : w = <<k, i>>

LEMMA DashesKnownNow == DashesKnown
  BY DashesAheadAre DEF DashesKnown

LEMMA DashesKnownThen == DashesKnown'
  BY DashesKnownNow, PTL

\* The arguments of one more line.
LEMMA OneMoreLine ==
  ASSUME NEW n \in Nat
  PROVE  /\ Arguments("stdin", n + 1) = Arguments("stdin", n) \cup ({n + 1} \X DashesIn(LineAt(n + 1)))
         /\ \A w \in Arguments("stdin", n) : w[1] # n + 1
<1>1. 0..n + 1 = (0..n) \cup {n + 1}
  OBVIOUS
<1>2. \A l : \A o : o \in Arguments("stdin", l) <=>
        \E m \in 0..l : o \in {m} \X DashesIn(LineAt(m))
  BY DEF Arguments, DashesIn
<1>3. \A o : o \in Arguments("stdin", n + 1) <=>
        o \in Arguments("stdin", n) \/ o \in {n + 1} \X DashesIn(LineAt(n + 1))
  BY <1>1, <1>2
<1>4. \A w \in Arguments("stdin", n) : w[1] \in 0..n
  BY <1>2
<1>5. n + 1 \notin 0..n
  OBVIOUS
<1> QED BY <1>3, <1>4, <1>5

\* At the innermost call, and only there, "-" is passed.
LEMMA DashesReplaced ==
  ASSUME Typed, calls # <<>>, NEW c, calls' = ReplaceAt(calls, Len(calls), c),
         DashesLeft(c) = DashesLeft(Innermost)
  PROVE  DashesAhead' = DashesAhead
<1>1. /\ Len(calls) \in Nat \ {0} /\ Len(calls') = Len(calls)
      /\ Innermost = calls[Len(calls)] /\ calls'[Len(calls)] = c
      /\ \A k \in 1..Len(calls) : k # Len(calls) => calls'[k] = calls[k]
  BY ReplacedIs
<1>2. \A k \in 1..Len(calls) : DashesLeft(calls'[k]) = DashesLeft(calls[k])
  BY <1>1
<1> QED BY <1>1, <1>2 DEF DashesAhead, DashesLeft, DashesIn, AheadOf

LEMMA DashesFronted ==
  ASSUME Typed, calls # <<>>, calls' = Front(calls), DashesLeft(Innermost) = {}
  PROVE  DashesAhead' = DashesAhead
<1>1. /\ Len(calls) \in Nat \ {0} /\ Len(calls') = Len(calls) - 1
      /\ Innermost = calls[Len(calls)]
      /\ \A k \in 1..Len(calls) - 1 : calls'[k] = calls[k]
  BY FrontedIs
<1>2. \A w : w \in DashesAhead' <=>
        \E k \in 1..Len(calls') : \E i \in DashesLeft(calls'[k]) : w = <<k, i>>
  BY DashesKnownThen DEF DashesKnown, DashesLeft, DashesIn, AheadOf
<1>3. \A k \in 1..Len(calls') : k \in 1..Len(calls) /\ calls'[k] = calls[k]
  BY <1>1
<1>4. \A k \in 1..Len(calls) : k \in 1..Len(calls') \/ calls[k] = Innermost
  BY <1>1
<1>5. \A w : w \in DashesAhead <=>
        \E k \in 1..Len(calls) : \E i \in DashesLeft(calls[k]) : w = <<k, i>>
  BY DashesAheadAre
<1>6. \A w : w \in DashesAhead' <=> w \in DashesAhead
  BY <1>2, <1>3, <1>4, <1>5
<1> QED BY <1>6 DEF DashesAhead

\* A call that reads a line goes past one "-", and has those of the line ahead.
LEMMA DashesRead ==
  ASSUME Typed, calls # <<>>, IsFiniteSet(DashesAhead), NEW c, NEW e,
         NEW i \in DashesLeft(Innermost),
         DashesLeft(c) = DashesLeft(Innermost) \ {i},
         IsFiniteSet(DashesLeft(e)),
         Len(calls') = Len(calls) + 1,
         calls'[Len(calls) + 1] = e, calls'[Len(calls)] = c,
         \A k \in 1..Len(calls) : k # Len(calls) => calls'[k] = calls[k]
  PROVE  /\ IsFiniteSet(DashesAhead') /\ Cardinality(DashesAhead) \in Nat \ {0}
         /\ Cardinality(DashesLeft(e)) \in Nat
         /\ Cardinality(DashesAhead') = Cardinality(DashesAhead) - 1 + Cardinality(DashesLeft(e))
<1>1. PICK n : n = Len(calls)
  OBVIOUS
<1>2. n \in Nat \ {0} /\ Innermost = calls[n] /\ n \in 1..n
  BY <1>1, EmptySeq DEF Typed, Innermost, Last
<1>3. PICK S, T, E : S = DashesAhead /\ T = DashesAhead' /\ E = DashesLeft(e)
  OBVIOUS
<1>4. \A w : w \in S <=> \E k \in 1..n : \E j \in DashesLeft(calls[k]) : w = <<k, j>>
  BY <1>1, <1>3, DashesAheadAre
<1>5. \A w : w \in T <=> \E k \in 1..n + 1 : \E j \in DashesLeft(calls'[k]) : w = <<k, j>>
  BY <1>1, <1>3, DashesKnownThen DEF DashesKnown, DashesLeft, DashesIn, AheadOf
<1>6. PICK w0 : w0 = <<n, i>>
  OBVIOUS
<1>7. w0 \in S
  BY <1>2, <1>4, <1>6
<1>8. IsFiniteSet(S \ {w0}) /\ Cardinality(S \ {w0}) = Cardinality(S) - 1 /\ Cardinality(S) \in Nat
  BY <1>3, <1>7, FS_RemoveElement, FS_CardinalityType
<1>9. Cardinality(S) # 0
  BY <1>3, <1>7, FS_EmptySet
<1>10. \A w \in S \ {w0} : w[1] # n + 1
  BY <1>2, <1>4
<1>11. \A k \in 1..n + 1 : k = n + 1 \/ k = n \/ (k \in 1..n /\ k # n)
  BY <1>2
<1>12. ASSUME NEW w \in T PROVE w \in (S \ {w0}) \cup ({n + 1} \X E)
  <2>1. PICK k \in 1..n + 1 : \E j \in DashesLeft(calls'[k]) : w = <<k, j>>
    BY <1>5
  <2>2. PICK j \in DashesLeft(calls'[k]) : w = <<k, j>>
    BY <2>1
  <2>3. CASE k = n + 1
    BY <1>1, <1>3, <2>2, <2>3
  <2>4. CASE k = n
    <3>1. j \in DashesLeft(calls[n]) /\ j # i
      BY <1>1, <1>2, <2>2, <2>4
    <3>2. w \in S /\ w # w0
      BY <1>2, <1>4, <1>6, <2>2, <2>4, <3>1
    <3> QED BY <3>2
  <2>5. CASE k \in 1..n /\ k # n
    <3>1. j \in DashesLeft(calls[k])
      BY <1>1, <2>2, <2>5
    <3>2. w \in S /\ w # w0
      BY <1>4, <1>6, <2>2, <2>5, <3>1
    <3> QED BY <3>2
  <2> QED BY <1>11, <2>3, <2>4, <2>5
<1>13. ASSUME NEW w \in S, w # w0 PROVE w \in T
  <2>1. PICK k \in 1..n : \E j \in DashesLeft(calls[k]) : w = <<k, j>>
    BY <1>4
  <2>2. PICK j \in DashesLeft(calls[k]) : w = <<k, j>>
    BY <2>1
  <2>3. j \in DashesLeft(calls'[k])
    <3>1. CASE k = n
      BY <1>1, <1>2, <1>6, <1>13, <2>2, <3>1
    <3>2. CASE k # n
      BY <1>1, <2>2, <3>2
    <3> QED BY <3>1, <3>2
  <2>4. k \in 1..n + 1
    BY <1>2
  <2> QED BY <1>5, <2>2, <2>3, <2>4
<1>14. ASSUME NEW w \in {n + 1} \X E PROVE w \in T
  <2>1. PICK j \in E : w = <<n + 1, j>>
    OBVIOUS
  <2>2. n + 1 \in 1..n + 1 /\ j \in DashesLeft(calls'[n + 1])
    BY <1>1, <1>2, <1>3, <2>1
  <2> QED BY <1>5, <2>1, <2>2
<1>15. T = (S \ {w0}) \cup ({n + 1} \X E)
  BY <1>12, <1>13, <1>14
<1>16. /\ IsFiniteSet(T) /\ Cardinality(T) = Cardinality(S \ {w0}) + Cardinality(E)
       /\ Cardinality(E) \in Nat
  <2>1. PICK R : R = S \ {w0}
    OBVIOUS
  <2>2. IsFiniteSet(R) /\ IsFiniteSet(E) /\ (\A w \in R : w[1] # n + 1)
    BY <1>3, <1>8, <1>10, <2>1
  <2>3. /\ IsFiniteSet(R \cup ({n + 1} \X E))
        /\ Cardinality(R \cup ({n + 1} \X E)) = Cardinality(R) + Cardinality(E)
        /\ Cardinality(E) \in Nat
    BY <2>2, CountMore
  <2> QED BY <1>15, <2>1, <2>3
<1> QED BY <1>3, <1>8, <1>9, <1>16

LEMMA AdvanceIs ==
  ASSUME Typed, calls # <<>>
  PROVE  /\ Innermost.next \in Nat \ {0} /\ Innermost.next <= Len(Innermost.line) + 1
         /\ Advance.line = Innermost.line /\ Advance.pass = Innermost.pass
         /\ Advance.next = Innermost.next + 1
<1>1. Innermost \in [line : CommandLine, pass : {"options", "arguments"}, next : Nat \ {0}]
      /\ Innermost.next <= Len(Innermost.line) + 1
  BY InnermostIs DEF CallType
<1> QED BY <1>1 DEF Advance

\* What is counted in the lines that are read stays while none is read.
LEMMA CountsStay ==
  ASSUME UNCHANGED inputs, UNCHANGED lines
  PROVE  /\ Read' = Read /\ ReadLines' = ReadLines
         /\ Arguments("stdin", Read)' = Arguments("stdin", Read)
         /\ Asked => Asked'
         /\ IllFormed' = IllFormed /\ LineMissing' = LineMissing
         /\ PathGiven' = PathGiven /\ UNCHANGED <<input, default>>
<1>1. /\ UNCHANGED <<argv, input, default>> /\ ReadLines' = ReadLines /\ PathGiven' = PathGiven
      /\ Read' = Read /\ \A l : LineAt(l)' = LineAt(l)
  BY NothingRead, PlacesStay DEF inputs
<1>2. Arguments("stdin", Read)' = Arguments("stdin", Read)
  BY <1>1 DEF Arguments
<1>3. Asked => Asked'
  BY <1>1 DEF Asked, Arguments
<1> QED BY <1>1, <1>2, <1>3 DEF IllFormed, LineMissing

\* A step that reads no line and passes nothing that is counted.
LEMMA AccountedStays ==
  ASSUME Accounted, UNCHANGED inputs, UNCHANGED lines, Going' => Going,
         DashesAhead' = DashesAhead,
         \A line \in ReadLines : \A i \in 1..Len(line) :
           Going' => /\ line[i].arg = "usage" /\ Pending(line, i) => Pending(line, i)'
                     /\ line[i].arg = "junk" /\ JunkAhead(line, i) => JunkAhead(line, i)',
         status' = "failed" =>
           status = "failed" \/ IllFormed \/ LineMissing \/ (~PathGiven /\ default = {})
  PROVE  Accounted'
<1>1. /\ Read' = Read /\ ReadLines' = ReadLines
      /\ Arguments("stdin", Read)' = Arguments("stdin", Read)
      /\ Asked => Asked'
      /\ IllFormed' = IllFormed /\ LineMissing' = LineMissing
      /\ PathGiven' = PathGiven /\ UNCHANGED <<input, default>>
  BY CountsStay
<1>2. Counted'
  BY <1>1 DEF Accounted, Counted
<1>3. WellFormed'
  BY <1>1 DEF Accounted, WellFormed
<1>4. Explained'
  BY <1>1 DEF Accounted, Explained
<1> QED BY <1>1, <1>2, <1>3, <1>4 DEF Accounted

\* Nor one that leaves the calls alone.
LEMMA CallsAccounted ==
  ASSUME Accounted, UNCHANGED inputs, UNCHANGED lines, calls' = calls, Going' => Going,
         status' = "failed" =>
           status = "failed" \/ IllFormed \/ LineMissing \/ (~PathGiven /\ default = {})
  PROVE  Accounted'
<1>1. DashesAhead' = DashesAhead
  BY DEF DashesAhead, DashesLeft, DashesIn, AheadOf
<1>2. \A line, i : (Pending(line, i)' <=> Pending(line, i)) /\ (JunkAhead(line, i)' <=> JunkAhead(line, i))
  BY DEF Pending, Ahead, JunkAhead, AheadOf
<1> QED BY <1>1, <1>2, AccountedStays

\* Nor one that takes the innermost call from what is neither.
LEMMA ReplacedAccounted ==
  ASSUME Typed, Accounted, UNCHANGED inputs, UNCHANGED lines, calls # <<>>, Going,
         NEW c, calls' = ReplaceAt(calls, Len(calls), c), c.line = Innermost.line,
         DashesLeft(c) = DashesLeft(Innermost),
         \A i \in 1..Len(c.line) :
           Going' =>
             /\ c.line[i].arg = "usage" /\ Ahead(Innermost, c.line, i) => Ahead(c, c.line, i)
             /\ c.line[i].arg = "junk" /\ AheadOf(Innermost, i) => AheadOf(c, i),
         status' = "failed" => IllFormed
  PROVE  Accounted'
<1>1. DashesAhead' = DashesAhead
  BY DashesReplaced
<1>2. /\ Len(calls) \in Nat \ {0} /\ Len(calls') = Len(calls)
      /\ Innermost = calls[Len(calls)] /\ calls'[Len(calls)] = c
      /\ \A k \in 1..Len(calls) : k # Len(calls) => calls'[k] = calls[k]
  BY ReplacedIs
<1>3. ASSUME NEW line \in ReadLines, NEW i \in 1..Len(line), Going'
      PROVE  /\ line[i].arg = "usage" /\ Pending(line, i) => Pending(line, i)'
             /\ line[i].arg = "junk" /\ JunkAhead(line, i) => JunkAhead(line, i)'
  <2>1. ASSUME NEW k \in 1..Len(calls), Ahead(calls[k], line, i), line[i].arg = "usage"
        PROVE  Ahead(calls'[k], line, i)
    <3>1. CASE k = Len(calls)
      BY <1>2, <1>3, <2>1, <3>1 DEF Ahead
    <3>2. CASE k # Len(calls)
      BY <1>2, <2>1, <3>2
    <3> QED BY <3>1, <3>2
  <2>2. ASSUME NEW k \in 1..Len(calls), calls[k].line = line, AheadOf(calls[k], i), line[i].arg = "junk"
        PROVE  calls'[k].line = line /\ AheadOf(calls'[k], i)
    <3>1. CASE k = Len(calls)
      BY <1>2, <1>3, <2>2, <3>1
    <3>2. CASE k # Len(calls)
      BY <1>2, <2>2, <3>2
    <3> QED BY <3>1, <3>2
  <2>3. line[i].arg = "usage" /\ Pending(line, i) => Pending(line, i)'
    BY <1>2, <2>1 DEF Pending, Ahead
  <2>4. line[i].arg = "junk" /\ JunkAhead(line, i) => JunkAhead(line, i)'
    BY <1>2, <2>2 DEF JunkAhead, AheadOf
  <2> QED BY <2>3, <2>4
<1> QED BY <1>1, <1>3, AccountedStays

LEMMA ParseOptionAccounted == IInv /\ All /\ Accounted /\ ParseOption => Accounted'
<1> SUFFICES ASSUME IInv, All, Accounted, ParseOption PROVE Accounted'
  OBVIOUS
<1>1. /\ Typed /\ calls # <<>> /\ ~AtEnd /\ Innermost.pass = "options" /\ Going
      /\ UNCHANGED inputs /\ UNCHANGED lines
      /\ calls' = ReplaceAt(calls, Len(calls), Advance)
      /\ status' = IF Current.arg = "usage" THEN "failed" ELSE status
      /\ status = "options"
  BY DEF IInv, ParseOption, Parsing, SetInnermost, Going
<1>2. PICK c : c = Advance
  OBVIOUS
<1>3. /\ c.line = Innermost.line /\ c.pass = "options" /\ c.next = Innermost.next + 1
      /\ Innermost.next \in 1..Len(c.line)
  <2>1. Len(Innermost.line) \in Nat
    BY <1>1, InnermostIs
  <2> QED BY <1>1, <1>2, <2>1, AdvanceIs DEF AtEnd
<1>4. DashesLeft(c) = DashesLeft(Innermost)
  BY <1>1, <1>3 DEF DashesLeft, AheadOf
<1>5. status' = "failed" => IllFormed
  <2> SUFFICES ASSUME status' = "failed" PROVE IllFormed
    OBVIOUS
  <2>1. c.line[Innermost.next].arg = "usage"
    BY <1>1, <1>3 DEF Current
  <2>2. c.line \in ReadLines
    <3>1. Len(calls) \in 1..Len(calls) /\ Innermost = calls[Len(calls)]
      BY <1>1, EmptySeq, LenProperties DEF Typed, Innermost, Last
    <3> QED BY <1>3, <3>1 DEF All
  <2> QED BY <1>3, <2>1, <2>2 DEF IllFormed
<1>6. ASSUME NEW i \in 1..Len(c.line), Going'
      PROVE  /\ c.line[i].arg = "usage" /\ Ahead(Innermost, c.line, i) => Ahead(c, c.line, i)
             /\ c.line[i].arg = "junk" /\ AheadOf(Innermost, i) => AheadOf(c, i)
  <2>1. c.line[Innermost.next].arg # "usage"
    BY <1>1, <1>3, <1>6 DEF Current, Going
  <2>2. c.line[i].arg = "usage" /\ Innermost.next <= i => c.next <= i
    BY <1>3, <2>1
  <2> QED BY <1>3, <2>2 DEF Ahead, AheadOf
<1>7. calls' = ReplaceAt(calls, Len(calls), c)
  BY <1>1, <1>2
<1> QED BY <1>1, <1>3, <1>4, <1>5, <1>6, <1>7, ReplacedAccounted

LEMMA CallsEndAccounted == IInv /\ All /\ Accounted /\ (OptionsEnd \/ HelperReturns) => Accounted'
<1> SUFFICES ASSUME IInv, All, Accounted, OptionsEnd \/ HelperReturns PROVE Accounted'
  OBVIOUS
<1>1. /\ Typed /\ calls # <<>> /\ AtEnd /\ Going /\ status' = status /\ status = "options"
      /\ UNCHANGED inputs /\ UNCHANGED lines
  BY DEF IInv, OptionsEnd, HelperReturns, Parsing, Going
<1>2. /\ Len(Innermost.line) \in Nat /\ Innermost.next \in Nat /\ Innermost.next > Len(Innermost.line)
      /\ Innermost \in [line : CommandLine, pass : {"options", "arguments"}, next : Nat \ {0}]
  BY <1>1, InnermostIs, AdvanceIs DEF AtEnd, CallType
<1>3. ASSUME OptionsEnd PROVE Accounted'
  <2>1. PICK c : c = [Innermost EXCEPT !.pass = "arguments", !.next = 1]
    OBVIOUS
  <2>2. c.line = Innermost.line /\ c.pass = "arguments" /\ c.next = 1 /\ Innermost.pass = "options"
    BY <1>2, <1>3, <2>1 DEF OptionsEnd, Parsing
  <2>3. calls' = ReplaceAt(calls, Len(calls), c)
    BY <1>3, <2>1 DEF OptionsEnd, SetInnermost
  <2>4. \A i \in 1..Len(c.line) : AheadOf(c, i) /\ AheadOf(Innermost, i) /\ ~Ahead(Innermost, c.line, i)
    BY <1>2, <2>2 DEF AheadOf, Ahead
  <2>5. DashesLeft(c) = DashesLeft(Innermost)
    BY <2>2, <2>4 DEF DashesLeft, DashesIn
  <2> QED BY <1>1, <2>2, <2>3, <2>4, <2>5, ReplacedAccounted
<1>4. ASSUME HelperReturns PROVE Accounted'
  <2>1. calls' = Front(calls) /\ Innermost.pass = "arguments"
    BY <1>4 DEF HelperReturns, Parsing
  <2>2. \A i \in 1..Len(Innermost.line) : ~AheadOf(Innermost, i)
    BY <1>2, <2>1 DEF AheadOf
  <2>3. DashesLeft(Innermost) = {}
    BY <2>2 DEF DashesLeft, DashesIn
  <2>4. DashesAhead' = DashesAhead
    BY <1>1, <2>1, <2>3, DashesFronted
  <2>5. /\ Len(calls) \in Nat \ {0} /\ Len(calls') = Len(calls) - 1
        /\ Innermost = calls[Len(calls)]
        /\ \A k \in 1..Len(calls) - 1 : calls'[k] = calls[k]
    BY <1>1, <2>1, FrontedIs
  <2>6. \A k \in 1..Len(calls) : calls[k] = Innermost \/ (k \in 1..Len(calls') /\ calls'[k] = calls[k])
    BY <2>5
  <2>7. ASSUME NEW line \in ReadLines, NEW i \in 1..Len(line)
        PROVE  /\ Pending(line, i) => Pending(line, i)'
               /\ JunkAhead(line, i) => JunkAhead(line, i)'
    BY <2>1, <2>2, <2>6 DEF Pending, Ahead, JunkAhead, AheadOf
  <2> QED BY <1>1, <2>4, <2>7, AccountedStays
<1> QED BY <1>3, <1>4

\* A line is asked for when a "-" is ahead, and is one of those counted next.
LEMMA LineCounted ==
  ASSUME Typed, Fixed, Suffix, Asked, Counted, Going, UNCHANGED inputs,
         lines # <<>>, lines' = Tail(lines),
         Cardinality(DashesAhead) \in Nat \ {0}
  PROVE  /\ Asked' /\ Read' = Read + 1 /\ Read \in Nat
         /\ (\A l \in 1..Read' : input'[l] = input[l])
         /\ input[Read + 1] = Head(lines)
         /\ IsFiniteSet(Arguments("stdin", Read)')
         /\ Cardinality(Arguments("stdin", Read)') =
              Cardinality(Arguments("stdin", Read)) + Cardinality(DashesIn(Head(lines)))
         /\ Cardinality(DashesIn(Head(lines))) \in Nat
<1>1. PICK n : n = Read
  OBVIOUS
<1>2. /\ UNCHANGED <<argv, input>> /\ n \in Nat /\ Read' = n + 1 /\ \A l : LineAt(l)' = LineAt(l)
      /\ LineAt(n + 1) = Head(lines) /\ input[n + 1] = Head(lines)
  <2>1. /\ n \in Nat /\ Len(lines) \in Nat \ {0} /\ Len(input) \in Nat /\ n = Len(input) - Len(lines)
        /\ Len(lines') = Len(lines) - 1 /\ Head(lines) = lines[1]
    BY <1>1, LinesAre, HeadTailProperties, EmptySeq DEF Read, Typed
  <2>2. UNCHANGED <<argv, input>>
    BY DEF inputs
  <2>3. Read' = n + 1
    BY <2>1, <2>2 DEF Read
  <2>4. input[n + 1] = Head(lines)
    <3>1. 1 \in 1..Len(lines)
      BY <2>1
    <3> QED BY <2>1, <3>1 DEF Suffix
  <2>5. n \in Nat /\ n + 1 # 0
    <3>1. n \in Nat
      BY <2>1
    <3> QED BY <3>1
  <2> QED BY <2>1, <2>2, <2>3, <2>4, <2>5 DEF LineAt
<1>3. \A l : Arguments("stdin", l)' = Arguments("stdin", l)
  BY <1>2 DEF Arguments
<1>4. PICK S, D : S = Arguments("stdin", n) /\ D = DashesIn(Head(lines))
  OBVIOUS
<1>5. IsFiniteSet(S) /\ Cardinality(S) = n + Cardinality(DashesAhead)
  BY <1>1, <1>4 DEF Counted
<1>6. IsFiniteSet(D)
  <2>1. Len(Head(lines)) \in Nat
    BY Headed, LenProperties DEF Typed, CommandLine
  <2> QED BY <1>4, <2>1, DashesFinite
<1>7. Arguments("stdin", n + 1) = S \cup ({n + 1} \X D) /\ \A w \in S : w[1] # n + 1
  BY <1>2, <1>4, OneMoreLine
<1>8. /\ IsFiniteSet(S \cup ({n + 1} \X D))
      /\ Cardinality(S \cup ({n + 1} \X D)) = Cardinality(S) + Cardinality(D)
      /\ Cardinality(D) \in Nat
  BY <1>5, <1>6, <1>7, CountMore
<1>9. Arguments("stdin", Read)' = S \cup ({n + 1} \X D)
  <2>1. Arguments("stdin", Read)' = Arguments("stdin", n + 1)
    BY <1>2 DEF Arguments
  <2> QED BY <1>7, <2>1
<1>10. Asked'
  <2> SUFFICES ASSUME NEW l \in 1..n + 1 PROVE Cardinality(Arguments("stdin", l - 1)) >= l
    BY <1>2, <1>3 DEF Asked
  <2>1. CASE l \in 1..n
    BY <1>1, <2>1 DEF Asked
  <2>2. CASE l = n + 1
    <3>1. l - 1 = n
      BY <1>2, <2>2
    <3>2. Cardinality(S) >= l
      BY <1>2, <1>5, <2>2
    <3> QED BY <1>4, <3>1, <3>2
  <2> QED BY <1>2, <2>1, <2>2
<1> QED BY <1>1, <1>2, <1>4, <1>8, <1>9, <1>10

LEMMA ParseArgumentAccounted == IInv /\ All /\ Accounted /\ ParseArgument => Accounted'
<1> SUFFICES ASSUME IInv, All, Accounted, ParseArgument PROVE Accounted'
  OBVIOUS
<1>1. /\ Typed /\ Fixed /\ Suffix /\ calls # <<>> /\ ~AtEnd /\ Innermost.pass = "arguments" /\ Going
      /\ Asked /\ Counted /\ WellFormed /\ status = "options"
      /\ UNCHANGED inputs
  BY DEF IInv, All, Accounted, ParseArgument, Parsing, Going
<1>2. PICK c : c = Advance
  OBVIOUS
<1>3. PICK j : j = Innermost.next
  OBVIOUS
<1>4. /\ c.line = Innermost.line /\ c.pass = "arguments" /\ c.next = j + 1
      /\ j \in 1..Len(c.line) /\ j \in Nat /\ Current = c.line[j] /\ Len(c.line) \in Nat
  <2>1. Len(Innermost.line) \in Nat
    BY <1>1, InnermostIs
  <2> QED BY <1>1, <1>2, <1>3, <2>1, AdvanceIs DEF AtEnd, Current
<1>5. \A i \in 1..Len(c.line) : AheadOf(c, i) <=> AheadOf(Innermost, i) /\ i # j
  <2> SUFFICES ASSUME NEW i \in 1..Len(c.line)
               PROVE  AheadOf(c, i) <=> AheadOf(Innermost, i) /\ i # j
    OBVIOUS
  <2>1. c.pass # "options" /\ Innermost.pass # "options"
    BY <1>1, <1>4
  <2>2. j + 1 <= i <=> j <= i /\ i # j
    BY <1>4
  <2> QED BY <1>3, <1>4, <2>1, <2>2 DEF AheadOf
<1>6. AheadOf(Innermost, j)
  BY <1>3, <1>4 DEF AheadOf
<1>7. c.line \in ReadLines /\ Len(calls) \in 1..Len(calls) /\ Innermost = calls[Len(calls)]
  <2>1. Len(calls) \in 1..Len(calls) /\ Innermost = calls[Len(calls)]
    BY <1>1, EmptySeq, LenProperties DEF Typed, Innermost, Last
  <2> QED BY <1>4, <2>1 DEF All
<1>8. ASSUME Current.arg \in Options, calls' = ReplaceAt(calls, Len(calls), Advance),
             UNCHANGED lines, UNCHANGED status
      PROVE  Accounted'
  <2>1. c.line[j].arg # "stdin" /\ c.line[j].arg # "junk"
    BY <1>4, <1>8 DEF Options
  <2>2. DashesLeft(c) = DashesLeft(Innermost)
    BY <1>4, <1>5, <2>1 DEF DashesLeft, DashesIn
  <2>3. \A i \in 1..Len(c.line) :
          /\ ~Ahead(Innermost, c.line, i)
          /\ c.line[i].arg = "junk" /\ AheadOf(Innermost, i) => AheadOf(c, i)
    BY <1>1, <1>5, <2>1 DEF Ahead
  <2>4. calls' = ReplaceAt(calls, Len(calls), c) /\ status' # "failed"
    BY <1>1, <1>2, <1>8
  <2> QED BY <1>1, <1>4, <1>8, <2>2, <2>3, <2>4, ReplacedAccounted
<1>9. ASSUME Current.arg = "junk", UNCHANGED lines, status' = "failed", UNCHANGED calls
      PROVE  Accounted'
  <2>1. IllFormed
    BY <1>4, <1>7, <1>9 DEF IllFormed
  <2>2. ~Going'
    BY <1>9 DEF Going
  <2> QED BY <1>1, <1>9, <2>1, <2>2, CallsAccounted
<1>10. ASSUME Current.arg = "stdin"
       PROVE  /\ j \in DashesLeft(Innermost) /\ <<Len(calls), j>> \in DashesAhead
              /\ Cardinality(DashesAhead) \in Nat \ {0}
  <2>1. j \in DashesLeft(Innermost)
    BY <1>4, <1>6, <1>10 DEF DashesLeft, DashesIn
  <2>2. <<Len(calls), j>> \in DashesAhead
    BY <1>7, <2>1, DashesAheadAre
  <2>3. Cardinality(DashesAhead) \in Nat /\ Cardinality(DashesAhead) # 0
    BY <1>1, <2>2, FS_CardinalityType, FS_EmptySet DEF Counted
  <2> QED BY <2>1, <2>2, <2>3
<1>11. ASSUME Current.arg = "stdin", lines = <<>>, UNCHANGED lines, status' = "failed", UNCHANGED calls
       PROVE  Accounted'
  <2>1. LineMissing
    <3>1. Read \in Nat /\ Cardinality(Arguments("stdin", Read)) = Read + Cardinality(DashesAhead)
      BY <1>1, LinesAre DEF Counted
    <3> QED BY <1>10, <1>11, <3>1 DEF LineMissing
  <2>2. ~Going'
    BY <1>11 DEF Going
  <2> QED BY <1>1, <1>11, <2>1, <2>2, CallsAccounted
<1>12. ASSUME Current.arg = "stdin", lines # <<>>, Head(lines) = <<>>, lines' = Tail(lines),
              status' = "failed"
       PROVE  Accounted'
  <2>1. Asked' /\ Read' = Read + 1 /\ Read \in Nat /\ input' = input /\ input[Read + 1] = <<>>
    BY <1>1, <1>10, <1>12, LineCounted DEF inputs
  <2>2. Read + 1 \in 1..Read'
    BY <2>1
  <2>3. IllFormed'
    BY <2>1, <2>2 DEF IllFormed
  <2>4. ~Going'
    BY <1>12 DEF Going
  <2> QED BY <2>1, <2>3, <2>4 DEF Accounted, Counted, WellFormed, Explained
<1>13. ASSUME Current.arg = "stdin", lines # <<>>, Head(lines) # <<>>, lines' = Tail(lines),
              calls' = Append(ReplaceAt(calls, Len(calls), Advance), Call(Head(lines))),
              UNCHANGED status
       PROVE  Accounted'
  <2>1. PICK e : e = Call(Head(lines))
    OBVIOUS
  <2>2. e.line = Head(lines) /\ e.pass = "options" /\ e.next = 1 /\ e \in CallType /\ e.line \in CommandLine
    BY <1>1, <1>13, <2>1, Headed, CallIs DEF Call, Typed
  <2>3. PICK m : m = Len(calls)
    OBVIOUS
  <2>4. /\ m \in Nat \ {0} /\ Len(calls') = m + 1 /\ calls'[m + 1] = e /\ calls'[m] = c
        /\ \A k \in 1..m : k # m => calls'[k] = calls[k]
    <3>1. PICK moved : moved = ReplaceAt(calls, Len(calls), Advance)
      OBVIOUS
    <3>2. calls \in Seq(CallType) /\ m \in 1..m /\ m \in Nat \ {0} /\ c \in CallType
      BY <1>1, <1>2, <1>7, <2>3, InnermostIs DEF Typed
    <3>3. moved = [calls EXCEPT ![m] = c]
      BY <1>2, <2>3, <3>1 DEF ReplaceAt
    <3>4. /\ Len(moved) = m /\ moved \in Seq(CallType) /\ moved[m] = c
          /\ \A k \in 1..m : k # m => moved[k] = calls[k]
      BY <2>3, <3>2, <3>3, ExceptSeq
    <3>5. calls' = Append(moved, e)
      BY <1>13, <2>1, <3>1
    <3>6. /\ Len(calls') = m + 1 /\ calls'[m + 1] = e
          /\ \A k \in 1..m : calls'[k] = moved[k]
      BY <2>2, <3>4, <3>5, AppendProperties
    <3> QED BY <3>2, <3>4, <3>6
  <2>5. /\ Asked' /\ Read' = Read + 1 /\ Read \in Nat /\ input' = input
        /\ input[Read + 1] = Head(lines)
        /\ IsFiniteSet(Arguments("stdin", Read)')
        /\ Cardinality(Arguments("stdin", Read)') =
             Cardinality(Arguments("stdin", Read)) + Cardinality(DashesIn(Head(lines)))
    BY <1>1, <1>10, <1>13, LineCounted DEF inputs
  <2>6. DashesLeft(e) = DashesIn(Head(lines)) /\ IsFiniteSet(DashesLeft(e))
    <3>1. DashesLeft(e) = DashesIn(Head(lines))
      BY <2>2 DEF DashesLeft, AheadOf
    <3>2. Len(Head(lines)) \in Nat
      BY <2>2, LenProperties DEF CommandLine
    <3> QED BY <3>1, <3>2, DashesFinite
  <2>7. DashesLeft(c) = DashesLeft(Innermost) \ {j}
    BY <1>4, <1>5 DEF DashesLeft, DashesIn
  <2>8. /\ IsFiniteSet(DashesAhead') /\ Cardinality(DashesAhead) \in Nat \ {0}
        /\ Cardinality(DashesLeft(e)) \in Nat
        /\ Cardinality(DashesAhead') = Cardinality(DashesAhead) - 1 + Cardinality(DashesLeft(e))
    <3>1. IsFiniteSet(DashesAhead) /\ j \in DashesLeft(Innermost)
      BY <1>1, <1>10, <1>13 DEF Counted
    <3>2. /\ Len(calls') = Len(calls) + 1 /\ calls'[Len(calls) + 1] = e /\ calls'[Len(calls)] = c
          /\ \A k \in 1..Len(calls) : k # Len(calls) => calls'[k] = calls[k]
      BY <2>3, <2>4
    <3> QED BY <1>1, <2>6, <2>7, <3>1, <3>2, DashesRead
  <2>9. Counted'
    <3>1. Cardinality(Arguments("stdin", Read)) = Read + Cardinality(DashesAhead)
      BY <1>1 DEF Counted
    <3>2. Cardinality(Arguments("stdin", Read)') = Read' + Cardinality(DashesAhead')
      BY <2>5, <2>6, <2>8, <3>1
    <3> QED BY <2>5, <2>8, <3>2 DEF Counted
  <2>10. WellFormed'
    <3>1. ReadLines' = ReadLines \cup {Head(lines)}
      BY <1>1, <1>13, LineRead
    <3>2. \A l \in 1..Read' : input'[l] # <<>>
      <4>1. \A l \in 1..Read : input[l] # <<>>
        BY <1>1 DEF WellFormed
      <4>2. \A l \in 1..Read' : l \in 1..Read \/ l = Read + 1
        BY <2>5
      <4> QED BY <1>13, <2>5, <4>1, <4>2
    <3>3. ASSUME NEW line \in ReadLines', NEW i \in 1..Len(line)
          PROVE  /\ line[i].arg = "usage" => Pending(line, i)'
                 /\ line[i].arg = "junk" => JunkAhead(line, i)'
      <4>1. CASE line = Head(lines)
        <5>1. m + 1 \in 1..Len(calls') /\ calls'[m + 1] = e
          BY <2>4
        <5>2. Ahead(e, line, i) /\ AheadOf(e, i) /\ e.line = line
          BY <2>2, <4>1 DEF Ahead, AheadOf
        <5> QED BY <5>1, <5>2 DEF Pending, JunkAhead, Ahead, AheadOf
      <4>2. CASE line \in ReadLines
        <5>1. /\ line[i].arg = "usage" => Pending(line, i)
              /\ line[i].arg = "junk" => JunkAhead(line, i)
          BY <1>1, <4>2 DEF WellFormed
        <5>2. ASSUME Pending(line, i) PROVE Pending(line, i)'
          <6>1. PICK k \in 1..m : Ahead(calls[k], line, i)
            BY <2>3, <5>2 DEF Pending
          <6>2. k # m
            BY <1>1, <1>7, <2>3, <6>1 DEF Ahead
          <6>3. calls'[k] = calls[k] /\ k \in 1..Len(calls')
            BY <2>4, <6>2
          <6> QED BY <6>1, <6>3 DEF Pending, Ahead
        <5>3. ASSUME line[i].arg = "junk", JunkAhead(line, i) PROVE JunkAhead(line, i)'
          <6>1. PICK k \in 1..m : calls[k].line = line /\ AheadOf(calls[k], i)
            BY <2>3, <5>3 DEF JunkAhead
          <6>2. calls'[k].line = line /\ AheadOf(calls'[k], i)
            <7>1. CASE k = m
              <8>1. line = c.line /\ AheadOf(Innermost, i) /\ i # j
                BY <1>4, <1>7, <1>13, <2>3, <5>3, <6>1, <7>1
              <8> QED BY <1>5, <2>4, <7>1, <8>1
            <7>2. CASE k # m
              BY <2>4, <6>1, <7>2
            <7> QED BY <7>1, <7>2
          <6>3. k \in 1..Len(calls')
            BY <2>4
          <6> QED BY <6>2, <6>3 DEF JunkAhead, AheadOf
        <5> QED BY <5>1, <5>2, <5>3
      <4> QED BY <3>1, <3>3, <4>1, <4>2
    <3> QED BY <3>2, <3>3 DEF WellFormed
  <2>11. Explained'
    BY <1>1, <1>13 DEF Explained
  <2> QED BY <2>5, <2>9, <2>10, <2>11 DEF Accounted
<1> QED BY <1>8, <1>9, <1>11, <1>12, <1>13 DEF ParseArgument, SetInnermost

LEMMA EndsAccounted == IInv /\ All /\ Accounted /\ (ParseArgsEnds \/ DefaultEnds) => Accounted'
<1> SUFFICES ASSUME IInv, All, Accounted, ParseArgsEnds \/ DefaultEnds PROVE Accounted'
  OBVIOUS
<1>1. UNCHANGED inputs /\ UNCHANGED lines /\ calls' = calls /\ Going
  BY DEF ParseArgsEnds, DefaultEnds, Going
<1>2. status' = "failed" => ~PathGiven /\ default = {}
  <2> SUFFICES ASSUME status' = "failed" PROVE ~PathGiven /\ default = {}
    OBVIOUS
  <2>1. calls = <<>> /\ status = "options" /\ ~pathSeen /\ default = {}
    BY DEF ParseArgsEnds, DefaultEnds
  <2> QED BY <2>1, NothingPending
<1> QED BY <1>1, <1>2, CallsAccounted

LEMMA TokenAccounted == Accounted /\ (SkipEmpty \/ AddPath) => Accounted'
<1> SUFFICES ASSUME Accounted, SkipEmpty \/ AddPath PROVE Accounted'
  OBVIOUS
<1>1. /\ UNCHANGED inputs /\ UNCHANGED lines /\ calls' = calls /\ Going
      /\ status' # "failed"
  BY DEF SkipEmpty, AddPath, Going
<1> QED BY <1>1, CallsAccounted

LEMMA InitAccounted == Init => Accounted
<1> SUFFICES ASSUME Init PROVE Accounted
  OBVIOUS
<1>1. /\ argv \in CommandLine /\ input \in Seq(CommandLine) /\ lines = input
      /\ calls = <<Call(argv)>> /\ status = "options"
  BY LinesAssumption DEF Init
<1>2. Read = 0 /\ LineAt(0) = argv /\ ReadLines = {argv}
  <2>1. Len(input) \in Nat
    BY <1>1, LenProperties
  <2>2. Len(input) - Len(lines) = 0
    BY <1>1, <2>1
  <2> QED BY <2>2 DEF Read, LineAt, ReadLines
<1>3. PICK c : c = Call(argv)
  OBVIOUS
<1>4. Len(calls) = 1 /\ calls[1] = c /\ c.line = argv /\ c.pass = "options" /\ c.next = 1
  BY <1>1, <1>3 DEF Call
<1>5. PICK D : D = DashesIn(argv)
  OBVIOUS
<1>6. IsFiniteSet(D)
  <2>1. Len(argv) \in Nat
    BY <1>1, LenProperties DEF CommandLine
  <2> QED BY <1>5, <2>1, DashesFinite
<1>7. DashesAhead = {} \cup ({1} \X D)
  <2>1. DashesLeft(c) = D
    BY <1>4, <1>5 DEF DashesLeft, AheadOf
  <2>2. 1..Len(calls) = {1}
    BY <1>4
  <2> QED BY <1>4, <2>1, <2>2 DEF DashesAhead
<1>8. Arguments("stdin", Read) = {} \cup ({0} \X D)
  <2>1. 0..Read = {0}
    BY <1>2
  <2> QED BY <1>2, <1>5, <2>1 DEF Arguments, DashesIn
<1>9. ASSUME NEW k
      PROVE  /\ IsFiniteSet({} \cup ({k} \X D)) /\ Cardinality({} \cup ({k} \X D)) = Cardinality(D)
             /\ Cardinality(D) \in Nat
  <2>1. PICK S : S = {}
    OBVIOUS
  <2>2. IsFiniteSet(S) /\ Cardinality(S) = 0 /\ \A w \in S : w[1] # k
    BY <2>1, FS_EmptySet
  <2>3. /\ IsFiniteSet(S \cup ({k} \X D))
        /\ Cardinality(S \cup ({k} \X D)) = Cardinality(S) + Cardinality(D)
        /\ Cardinality(D) \in Nat
    BY <1>6, <2>2, CountMore
  <2> QED BY <2>1, <2>2, <2>3
<1>10. Counted
  <2>1. IsFiniteSet(DashesAhead) /\ Cardinality(DashesAhead) = Cardinality(D) /\ Cardinality(D) \in Nat
    BY <1>7, <1>9
  <2>2. /\ IsFiniteSet(Arguments("stdin", Read))
        /\ Cardinality(Arguments("stdin", Read)) = Cardinality(D)
    BY <1>8, <1>9
  <2> QED BY <1>2, <2>1, <2>2 DEF Counted
<1>11. Asked /\ Explained
  BY <1>1, <1>2 DEF Asked, Explained
<1>12. WellFormed
  <2>1. \A i \in 1..Len(argv) : Pending(argv, i) /\ JunkAhead(argv, i)
    <3>1. 1 \in 1..Len(calls)
      BY <1>4
    <3>2. \A i \in 1..Len(argv) : Ahead(c, argv, i) /\ AheadOf(c, i)
      BY <1>4 DEF Ahead, AheadOf
    <3> QED BY <1>4, <3>1, <3>2 DEF Pending, JunkAhead
  <2> QED BY <1>2, <2>1 DEF WellFormed
<1> QED BY <1>10, <1>11, <1>12 DEF Accounted

LEMMA AccountedAlways == Spec => []Accounted
<1>1. IInv /\ All /\ Accounted /\ [Next]_vars => Accounted'
  <2> SUFFICES ASSUME IInv, All, Accounted, [Next]_vars PROVE Accounted'
    OBVIOUS
  <2>1. CASE Ended \/ UNCHANGED vars
    <3>1. /\ UNCHANGED inputs /\ UNCHANGED lines /\ calls' = calls /\ status' = status
      BY <2>1 DEF Ended, vars, inputs
    <3>2. Going' => Going
      BY <3>1 DEF Going
    <3> QED BY <3>1, <3>2, CallsAccounted
  <2> QED BY <2>1, ParseOptionAccounted, CallsEndAccounted, ParseArgumentAccounted,
             TokenAccounted, EndsAccounted DEF Next
<1> QED BY <1>1, AllAlways, InitAccounted, PTL DEF Spec

-----------------------------------------------------------------------------
(* Parsing takes finitely many steps                                       *)

\* What a step uses up, the first of these that it changes: whether there is
\* still something to parse, the lines of stdin, the calls, and in the innermost
\* call its passes, its arguments and the tokens of the list that is added.
Phase == IF status = "options" THEN 2 ELSE IF status = "default" THEN 1 ELSE 0
PassesLeft == IF OnOptions THEN 1 ELSE 0
ArgumentsLeft == IF calls = <<>> THEN 0 ELSE Len(Innermost.line) + 1 - Innermost.next

LeftOver == <<Phase, Len(lines), Len(calls), PassesLeft, ArgumentsLeft, Len(todo)>>
Less(s, t) == \E n \in 1..6 : s[n] < t[n] /\ \A m \in 1..6 : m < n => s[m] = t[m]
LeftIsNatural == LeftOver \in Nat \X Nat \X Nat \X Nat \X Nat \X Nat
UsesUp == LeftIsNatural' /\ Less(LeftOver', LeftOver)

LEMMA LessWhen ==
  ASSUME NEW a, NEW b, NEW c, NEW d, NEW e, NEW f, NEW u, NEW v, NEW w, NEW x, NEW y, NEW z,
         \/ a < u
         \/ a = u /\ b < v
         \/ a = u /\ b = v /\ c < w
         \/ a = u /\ b = v /\ c = w /\ d < x
         \/ a = u /\ b = v /\ c = w /\ d = x /\ e < y
         \/ a = u /\ b = v /\ c = w /\ d = x /\ e = y /\ f < z
  PROVE  Less(<<a, b, c, d, e, f>>, <<u, v, w, x, y, z>>)
<1> DEFINE s == <<a, b, c, d, e, f>>
           t == <<u, v, w, x, y, z>>
<1>1. \A m \in 1..6 : m \in {1, 2, 3, 4, 5, 6}
  OBVIOUS
<1>2. /\ s[1] = a /\ s[2] = b /\ s[3] = c /\ s[4] = d /\ s[5] = e /\ s[6] = f
      /\ t[1] = u /\ t[2] = v /\ t[3] = w /\ t[4] = x /\ t[5] = y /\ t[6] = z
  OBVIOUS
<1> HIDE DEF s, t
<1>3. CASE a < u
  <2>1. 1 \in 1..6 /\ s[1] < t[1] /\ \A m \in 1..6 : m < 1 => s[m] = t[m]
    BY <1>2, <1>3
  <2> QED BY <2>1 DEF Less, s, t
<1>4. CASE a = u /\ b < v
  <2>1. 2 \in 1..6 /\ s[2] < t[2] /\ \A m \in 1..6 : m < 2 => s[m] = t[m]
    BY <1>1, <1>2, <1>4
  <2> QED BY <2>1 DEF Less, s, t
<1>5. CASE a = u /\ b = v /\ c < w
  <2>1. 3 \in 1..6 /\ s[3] < t[3] /\ \A m \in 1..6 : m < 3 => s[m] = t[m]
    BY <1>1, <1>2, <1>5
  <2> QED BY <2>1 DEF Less, s, t
<1>6. CASE a = u /\ b = v /\ c = w /\ d < x
  <2>1. 4 \in 1..6 /\ s[4] < t[4] /\ \A m \in 1..6 : m < 4 => s[m] = t[m]
    BY <1>1, <1>2, <1>6
  <2> QED BY <2>1 DEF Less, s, t
<1>7. CASE a = u /\ b = v /\ c = w /\ d = x /\ e < y
  <2>1. 5 \in 1..6 /\ s[5] < t[5] /\ \A m \in 1..6 : m < 5 => s[m] = t[m]
    BY <1>1, <1>2, <1>7
  <2> QED BY <2>1 DEF Less, s, t
<1>8. CASE a = u /\ b = v /\ c = w /\ d = x /\ e = y /\ f < z
  <2>1. 6 \in 1..6 /\ s[6] < t[6] /\ \A m \in 1..6 : m < 6 => s[m] = t[m]
    BY <1>1, <1>2, <1>8
  <2> QED BY <2>1 DEF Less, s, t
<1> QED BY <1>3, <1>4, <1>5, <1>6, <1>7, <1>8

LEMMA LeftTyped == IInv => LeftIsNatural
<1> SUFFICES ASSUME IInv PROVE LeftIsNatural
  OBVIOUS
<1>1. Len(lines) \in Nat /\ Len(calls) \in Nat /\ Len(todo) \in Nat
  BY LenProperties DEF IInv, Typed
<1>2. Phase \in Nat /\ PassesLeft \in Nat
  BY DEF Phase, PassesLeft
<1>3. ArgumentsLeft \in Nat
  <2>1. CASE calls = <<>>
    BY <2>1 DEF ArgumentsLeft
  <2>2. CASE calls # <<>>
    <3>1. /\ Innermost.next \in Nat \ {0} /\ Innermost.next <= Len(Innermost.line) + 1
          /\ Len(Innermost.line) \in Nat
      BY <2>2, InnermostIs, AdvanceIs DEF IInv
    <3> QED BY <2>2, <3>1 DEF ArgumentsLeft
  <2> QED BY <2>1, <2>2
<1> QED BY <1>1, <1>2, <1>3 DEF LeftIsNatural, LeftOver

\* It is enough that one goes down and those before it stay.
LEMMA LeftLess ==
  ASSUME \/ Phase' < Phase
         \/ Phase' = Phase /\ Len(lines') < Len(lines)
         \/ Phase' = Phase /\ Len(lines') = Len(lines) /\ Len(calls') < Len(calls)
         \/ Phase' = Phase /\ Len(lines') = Len(lines) /\ Len(calls') = Len(calls)
            /\ PassesLeft' < PassesLeft
         \/ Phase' = Phase /\ Len(lines') = Len(lines) /\ Len(calls') = Len(calls)
            /\ PassesLeft' = PassesLeft /\ ArgumentsLeft' < ArgumentsLeft
         \/ Phase' = Phase /\ Len(lines') = Len(lines) /\ Len(calls') = Len(calls)
            /\ PassesLeft' = PassesLeft /\ ArgumentsLeft' = ArgumentsLeft /\ Len(todo') < Len(todo)
  PROVE  Less(LeftOver', LeftOver)
<1> DEFINE s == <<Phase', Len(lines'), Len(calls'), PassesLeft', ArgumentsLeft', Len(todo')>>
           t == <<Phase, Len(lines), Len(calls), PassesLeft, ArgumentsLeft, Len(todo)>>
<1>1. Less(s, t)
  BY LessWhen
<1>2. s = LeftOver' /\ t = LeftOver
  BY DEF LeftOver
<1> HIDE DEF s, t
<1> QED BY <1>1, <1>2

\* Tokens are used up.
LEMMA TokenUsed == IInv /\ (SkipEmpty \/ AddPath) => Less(LeftOver', LeftOver)
<1> SUFFICES ASSUME IInv, SkipEmpty \/ AddPath PROVE Less(LeftOver', LeftOver)
  OBVIOUS
<1>1. /\ todo # <<>> /\ todo' = Tail(todo) /\ calls' = calls /\ lines' = lines
      /\ status \in {"options", "default"} /\ (status' = status \/ status' = "aborted")
      /\ todo \in Seq(Token)
  BY DEF IInv, Typed, SkipEmpty, AddPath
<1>2. CASE status' = "aborted"
  <2>1. Phase' < Phase
    BY <1>1, <1>2 DEF Phase
  <2> QED BY <2>1, LeftLess
<1>3. CASE status' = status
  <2>1. /\ Phase' = Phase /\ Len(lines') = Len(lines) /\ Len(calls') = Len(calls)
        /\ PassesLeft' = PassesLeft /\ ArgumentsLeft' = ArgumentsLeft
    BY <1>1, <1>3 DEF Phase, PassesLeft, OnOptions, ArgumentsLeft, Innermost
  <2>2. Len(todo') < Len(todo)
    <3>1. Len(todo) \in Nat /\ Len(todo') = Len(todo) - 1
      BY <1>1, HeadTailProperties, LenProperties
    <3> QED BY <3>1
  <2> QED BY <2>1, <2>2, LeftLess
<1> QED BY <1>1, <1>2, <1>3

\* The innermost call goes to its next argument or its second pass.
LEMMA InnermostUsed ==
  ASSUME IInv, calls # <<>>, NEW c, calls' = ReplaceAt(calls, Len(calls), c),
         c.line = Innermost.line, Phase' = Phase, lines' = lines,
         \/ c.pass = Innermost.pass /\ c.next = Innermost.next + 1
         \/ c.pass = "arguments" /\ Innermost.pass = "options"
  PROVE  Less(LeftOver', LeftOver)
<1>1. /\ Len(calls') = Len(calls) /\ Innermost' = c /\ calls' # <<>> /\ Len(lines') = Len(lines)
  <2>1. /\ Len(calls) \in Nat \ {0} /\ Len(calls') = Len(calls) /\ calls'[Len(calls)] = c
    BY ReplacedIs DEF IInv
  <2> QED BY <2>1 DEF Innermost, Last
<1>2. /\ Innermost.next \in Nat /\ Len(Innermost.line) \in Nat
  BY InnermostIs, AdvanceIs DEF IInv
<1>3. CASE c.pass = Innermost.pass /\ c.next = Innermost.next + 1
  <2>1. PassesLeft' = PassesLeft
    BY <1>1, <1>3 DEF PassesLeft, OnOptions
  <2>2. ArgumentsLeft' < ArgumentsLeft
    BY <1>1, <1>2, <1>3 DEF ArgumentsLeft
  <2> QED BY <1>1, <2>1, <2>2, LeftLess
<1>4. CASE c.pass = "arguments" /\ Innermost.pass = "options"
  <2>1. PassesLeft' < PassesLeft
    BY <1>1, <1>4 DEF PassesLeft, OnOptions
  <2> QED BY <1>1, <2>1, LeftLess
<1> QED BY <1>3, <1>4

LEMMA PassUsed ==
  IInv /\ (ParseOption \/ OptionsEnd \/ HelperReturns) => Less(LeftOver', LeftOver)
<1> SUFFICES ASSUME IInv, ParseOption \/ OptionsEnd \/ HelperReturns PROVE Less(LeftOver', LeftOver)
  OBVIOUS
<1>1. /\ Typed /\ calls # <<>> /\ status = "options" /\ lines' = lines
  BY DEF IInv, ParseOption, OptionsEnd, HelperReturns, Parsing
<1>2. CASE ParseOption
  <2>1. /\ calls' = ReplaceAt(calls, Len(calls), Advance) /\ Advance.line = Innermost.line
        /\ Advance.pass = Innermost.pass /\ Advance.next = Innermost.next + 1
        /\ status' \in {"options", "failed"}
    BY <1>1, <1>2, AdvanceIs DEF ParseOption, SetInnermost
  <2>2. CASE status' = "failed"
    <3>1. Phase' < Phase
      BY <1>1, <2>2 DEF Phase
    <3> QED BY <3>1, LeftLess
  <2>3. CASE status' = "options"
    <3>1. Phase' = Phase
      BY <1>1, <2>3 DEF Phase
    <3>2. PICK c : c = Advance
      OBVIOUS
    <3> QED BY <1>1, <2>1, <3>1, <3>2, InnermostUsed
  <2> QED BY <2>1, <2>2, <2>3
<1>3. CASE OptionsEnd
  <2>1. PICK c : c = [Innermost EXCEPT !.pass = "arguments", !.next = 1]
    OBVIOUS
  <2>2. /\ calls' = ReplaceAt(calls, Len(calls), c) /\ c.line = Innermost.line
        /\ c.pass = "arguments" /\ Innermost.pass = "options" /\ Phase' = Phase
    <3>1. Innermost \in [line : CommandLine, pass : {"options", "arguments"}, next : Nat \ {0}]
      BY <1>1, InnermostIs DEF CallType
    <3> QED BY <1>1, <1>3, <2>1, <3>1 DEF OptionsEnd, Parsing, SetInnermost, Phase
  <2> QED BY <1>1, <2>2, InnermostUsed
<1>4. CASE HelperReturns
  <2>1. Phase' = Phase /\ Len(lines') = Len(lines)
    BY <1>1, <1>4 DEF HelperReturns, Phase
  <2>2. Len(calls') < Len(calls)
    <3>1. calls' = Front(calls)
      BY <1>4 DEF HelperReturns
    <3>2. Len(calls) \in Nat /\ Len(calls') = Len(calls) - 1
      BY <1>1, <3>1, FrontedIs
    <3> QED BY <3>2
  <2> QED BY <2>1, <2>2, LeftLess
<1> QED BY <1>2, <1>3, <1>4

LEMMA ArgumentUsed == IInv /\ ParseArgument => Less(LeftOver', LeftOver)
<1> SUFFICES ASSUME IInv, ParseArgument PROVE Less(LeftOver', LeftOver)
  OBVIOUS
<1>1. Typed /\ calls # <<>> /\ status = "options"
  BY DEF IInv, ParseArgument, Parsing
<1>2. CASE status' = "failed"
  <2>1. Phase' < Phase
    BY <1>1, <1>2 DEF Phase
  <2> QED BY <2>1, LeftLess
<1>3. CASE status' = status /\ lines' = lines /\ calls' = ReplaceAt(calls, Len(calls), Advance)
  <2>1. PICK c : c = Advance
    OBVIOUS
  <2>2. /\ c.line = Innermost.line /\ c.pass = Innermost.pass /\ c.next = Innermost.next + 1
        /\ Phase' = Phase
    BY <1>1, <1>3, <2>1, AdvanceIs DEF Phase
  <2> QED BY <1>1, <1>3, <2>1, <2>2, InnermostUsed
<1>4. CASE status' = status /\ lines # <<>> /\ lines' = Tail(lines)
  <2>1. Len(lines) \in Nat /\ Len(lines') = Len(lines) - 1
    BY <1>1, <1>4, HeadTailProperties, LenProperties DEF Typed
  <2>2. Len(lines') < Len(lines) /\ Phase' = Phase
    BY <1>4, <2>1 DEF Phase
  <2> QED BY <2>2, LeftLess
<1> QED BY <1>2, <1>3, <1>4 DEF ParseArgument, SetInnermost

-----------------------------------------------------------------------------
(* The theorems                                                            *)

\* However deep stdin nests command lines, each call keeps its place in its
\* own command line, and the lists hold paths.
THEOREM TypeCorrect == Spec => []TypeOK
<1>1. IInv => TypeOK
  <2> SUFFICES ASSUME IInv PROVE TypeOK
    OBVIOUS
  <2>1. ASSUME NEW i \in 1..Len(calls)
        PROVE  /\ calls[i].line \in CommandLine
               /\ calls[i].pass \in {"options", "arguments"}
               /\ calls[i].next \in 1..(Len(calls[i].line) + 1)
    <3>1. calls[i] \in CallType
      BY ElementOfSeq DEF IInv, Typed
    <3>2. /\ calls[i].line \in CommandLine /\ calls[i].pass \in {"options", "arguments"}
          /\ calls[i].next \in Nat \ {0} /\ calls[i].next <= Len(calls[i].line) + 1
      BY <3>1 DEF CallType
    <3>3. Len(calls[i].line) \in Nat
      BY <3>2, LenProperties DEF CommandLine
    <3> QED BY <3>2, <3>3
  <2> QED BY <2>1 DEF IInv, Typed, Kept, TypeOK, Token
<1> QED BY <1>1, IInvAlways, PTL

\* The search is given every directory and every library that the options of
\* any command line name, each once, and nothing else, in whatever order the two
\* passes and the recursion come to them; the dynamic linker's search path is
\* added exactly when no command line has a -p.
THEOREM SearchIsGivenEachOnceAlways == Spec => []SearchIsGivenEachOnce
<1>1. IInv /\ All => SearchIsGivenEachOnce
  <2> SUFFICES ASSUME IInv, All PROVE SearchIsGivenEachOnce
    OBVIOUS
  <2>1. ASSUME status = "done"
        PROVE  /\ Range(paths) = {p \in AskedDirs : kind[p] = "directory"}
               /\ Range(libs) = {p \in AskedLibs : kind[p] = "file"}
    <3>1. pathCache = AskedDirs /\ libCache = AskedLibs
      BY <2>1, CachesAsked
    <3> QED BY <3>1 DEF All, Full
  <2> QED BY <2>1 DEF IInv, Kept, SearchIsGivenEachOnce
<1> QED BY <1>1, AllAlways, PTL

\* The search never starts without a path that it was asked for and that may
\* not be looked at, and only such a path ends the program that way.
THEOREM FaultEndsParsingAlways == Spec => []FaultEndsParsing
<1>1. IInv /\ All => FaultEndsParsing
  <2> SUFFICES ASSUME IInv, All PROVE FaultEndsParsing
    OBVIOUS
  <2> DEFINE denied == {p \in AskedDirs \cup AskedLibs : kind[p] = "denied"}
  <2>1. ASSUME status = "done" PROVE denied = {}
    <3>1. pathCache = AskedDirs /\ libCache = AskedLibs
      BY <2>1, CachesAsked
    <3> QED BY <2>1, <3>1 DEF All, FaultSeen
  <2>2. ASSUME status = "aborted" PROVE denied # {}
    <3>1. PICK p \in pathCache \cup libCache : kind[p] = "denied"
      BY <2>2 DEF All, FaultSeen
    <3>2. p \in AskedDirs \cup AskedLibs
      BY AskedOnly
    <3> QED BY <3>1, <3>2
  <2> QED BY <2>1, <2>2 DEF FaultEndsParsing
<1> QED BY <1>1, AllAlways, PTL

\* Every line of stdin that is read answers a "-" of its own in a line before
\* it.  When the program goes on, all it read was well formed, each "-" had its
\* line, and the lists are in the order in which the lines first name their
\* paths (parse_args.cxx:236-353); when it fails, a line is ill formed or
\* missing, or there is nowhere to search.
THEOREM ParsesEveryLineAlways == Spec => []ParsesEveryLine
<1>1. IInv /\ All /\ Ordered /\ Accounted => ParsesEveryLine
  <2> SUFFICES ASSUME IInv, All, Ordered, Accounted PROVE ParsesEveryLine
    OBVIOUS
  <2>1. ASSUME status = "done"
        PROVE  /\ ~IllFormed /\ Cardinality(Arguments("stdin", Read)) = Read
               /\ InOrder(paths, DirPlaces) /\ InOrder(libs, Places("-l"))
    <3>1. calls = <<>> /\ Going
      BY <2>1 DEF All, DefaultTaken, Going
    <3>2. DashesAhead = {} /\ (\A line, i : ~Pending(line, i) /\ ~JunkAhead(line, i))
      BY <3>1 DEF DashesAhead, Pending, JunkAhead
    <3>3. ~IllFormed
      BY <3>1, <3>2 DEF Accounted, WellFormed, IllFormed
    <3>4. Cardinality(Arguments("stdin", Read)) = Read
      <4>1. Cardinality(DashesAhead) = 0
        BY <3>2, FS_EmptySet
      <4>2. Read \in Nat
        BY LinesAre DEF IInv, All
      <4> QED BY <3>1, <4>1, <4>2 DEF Accounted, Counted
    <3> QED BY <2>1, <3>3, <3>4 DEF Ordered
  <2>2. \A l \in 1..Read : Cardinality(Arguments("stdin", l - 1)) >= l
    BY DEF Accounted, Asked
  <2>3. status = "failed" => IllFormed \/ LineMissing \/ (~PathGiven /\ default = {})
    BY DEF Accounted, Explained
  <2> QED BY <2>1, <2>2, <2>3 DEF ParsesEveryLine
<1> QED BY <1>1, AllAlways, OrderAlways, AccountedAlways, PTL

\* No step but one that changes nothing leaves as much to do as there was, and
\* what is left is made of natural numbers: however stdin nests command lines,
\* parse_args_helper and the loops of parse_paths and getopt
\* (parse_args.cxx:160-330) go round finitely often.
THEOREM UsesUpWhatIsLeft == Spec => [][UsesUp]_vars
<1>1. IInv /\ LeftIsNatural' /\ [Next]_vars => [UsesUp]_vars
  <2> SUFFICES ASSUME IInv, LeftIsNatural', Next PROVE UNCHANGED vars \/ UsesUp
    OBVIOUS
  <2>1. CASE Ended
    BY <2>1 DEF Ended
  <2>2. CASE ParseArgsEnds \/ DefaultEnds
    <3>1. Phase' < Phase
      BY <2>2 DEF ParseArgsEnds, DefaultEnds, Phase
    <3> QED BY <3>1, LeftLess DEF UsesUp
  <2>3. CASE ~Ended /\ ~ParseArgsEnds /\ ~DefaultEnds
    <3>1. Less(LeftOver', LeftOver)
      BY <2>3, TokenUsed, PassUsed, ArgumentUsed DEF Next
    <3> QED BY <3>1 DEF UsesUp
  <2> QED BY <2>1, <2>2, <2>3
<1> QED BY <1>1, IInvAlways, LeftTyped, PTL DEF Spec
=============================================================================
