------------------------- MODULE LibraryProbeProofs -------------------------
(***************************************************************************)
(* Theorems about the ifunc library and the look-up that may open it, for  *)
(* every set of libraries and every number of loads.                       *)
(*                                                                         *)
(* That handles are closed once is not inductive: it needs to be known how *)
(* far loading and unloading have come.  ShimIInv says it, step by step.   *)
(***************************************************************************)
EXTENDS LibraryProbe, TLAPS

-----------------------------------------------------------------------------
(* The ifunc library                                                       *)

\* What the orders are, without the sequences.
LEMMA Orders ==
  /\ DOMAIN LoadOrder = 1..3 /\ DOMAIN UnloadOrder = 1..4
  /\ \A i \in 1..3 : LoadOrder[i] \in DriverLib \ {"cudadebugger"}
  /\ \A l \in DriverLib \ {"cudadebugger"} : \E i \in 1..3 : l = LoadOrder[i]
  /\ \A i, j \in 1..3 : LoadOrder[i] = LoadOrder[j] => i = j
  /\ \A i \in 1..4 : UnloadOrder[i] \in DriverLib
  /\ \A l \in DriverLib : \E i \in 1..4 : l = UnloadOrder[i]
  BY DEF LoadOrder, UnloadOrder, DriverLib

States == {"unloaded", "searching", "loading", "rollback", "ready", "destructor", "ended"}

Control ==
  /\ shim \in States
  /\ step \in 1..5
  /\ handle \subseteq DriverLib \ {"cudadebugger"}

References ==
  /\ badCloses = {}
  /\ refs \in [DriverLib -> 0..1]
  /\ \A l \in DriverLib : refs[l] = IF l \in handle THEN 1 ELSE 0

Balanced == initialised = IF shim \in {"unloaded", "ended"} THEN 0 ELSE 1

\* How far load_driver_libs and unload_driver_libs have come.
Progress ==
  /\ shim \in {"unloaded", "searching", "ended"} => handle = {}
  /\ shim = "loading" =>
       /\ step \in 1..4
       /\ \A i \in 1..3 : i < step /\ missing = {} => LoadOrder[i] \in handle
       /\ \A i \in 1..3 : i >= step => LoadOrder[i] \notin handle
  /\ shim = "ready" => \A i \in 1..3 : LoadOrder[i] \in handle
  /\ shim \in {"rollback", "destructor"} =>
       \A i \in 1..4 : i < step => UnloadOrder[i] \notin handle

ShimIInv == Control /\ References /\ Balanced /\ Progress

LEMMA ShimInitHolds == ShimInit => ShimIInv
<1> SUFFICES ASSUME ShimInit PROVE ShimIInv
  OBVIOUS
<1>1. /\ shim = "unloaded" /\ step = 1 /\ handle = {}
      /\ refs = [l \in DriverLib |-> 0] /\ badCloses = {} /\ initialised = 0
  BY DEF ShimInit
<1>2. Control
  BY <1>1 DEF Control, States
<1>3. References
  <2>1. \A l \in DriverLib : refs[l] = 0 /\ l \notin handle
    BY <1>1
  <2> QED BY <1>1, <2>1 DEF References
<1>4. Balanced /\ Progress
  BY <1>1 DEF Balanced, Progress
<1> QED BY <1>2, <1>3, <1>4 DEF ShimIInv

\* The linker loads the library: its data is new.
LEMMA LoadsHolds == ShimIInv /\ ShimLoads => ShimIInv'
<1> SUFFICES ASSUME ShimIInv, ShimLoads PROVE ShimIInv'
  OBVIOUS
<1>1. /\ shim = "unloaded" /\ shim' = "searching" /\ step' = 1
      /\ handle = {} /\ handle' = {}
      /\ initialised = 0 /\ initialised' = initialised + 1
      /\ UNCHANGED <<refs, badCloses>>
  BY DEF ShimIInv, ShimLoads, Goto, Balanced, Progress
<1>2. Control' /\ Balanced' /\ Progress'
  BY <1>1 DEF Control, States, Balanced, Progress
<1>3. References'
  BY <1>1 DEF ShimIInv, References
<1> QED BY <1>2, <1>3 DEF ShimIInv

\* One dlopen: the library was not open before.
LEMMA LoadLibHolds == ShimIInv /\ LoadLib => ShimIInv'
<1> SUFFICES ASSUME ShimIInv, LoadLib PROVE ShimIInv'
  OBVIOUS
<1> DEFINE l == LoadOrder[step]
<1>1. shim = "loading" /\ step \in 1..3 /\ step' = step + 1
      /\ l \in DriverLib /\ l # "cudadebugger"
  BY Orders DEF LoadLib
<1>2. PICK opened \in BOOLEAN :
        /\ missing' = NotLoaded(l, opened)
        /\ handle' = IF opened THEN handle \cup {l} ELSE handle
        /\ refs' = [refs EXCEPT ![l] = IF opened THEN @ + 1 ELSE @]
  BY DEF LoadLib
<1>3. /\ shim' = shim
      /\ UNCHANGED <<badCloses, initialised>>
  BY DEF LoadLib
<1>4. l \notin handle /\ refs \in [DriverLib -> 0..1] /\ refs[l] = 0
  BY <1>1 DEF ShimIInv, Progress, References
<1>5. Control'
  BY <1>1, <1>2, <1>3 DEF ShimIInv, Control
<1>6. References'
  <2>1. refs' \in [DriverLib -> 0..1]
    BY <1>1, <1>2, <1>4
  <2>2. ASSUME NEW k \in DriverLib
        PROVE  refs'[k] = IF k \in handle' THEN 1 ELSE 0
    <3>1. refs[k] = IF k \in handle THEN 1 ELSE 0
      BY DEF ShimIInv, References
    <3> QED BY <1>1, <1>2, <1>4, <3>1
  <2> QED BY <1>3, <2>1, <2>2 DEF ShimIInv, References
<1>7. Balanced'
  BY <1>3 DEF ShimIInv, Balanced
<1>8. Progress'
  <2>1. ASSUME NEW i \in 1..3, i < step', missing' = {}
        PROVE  LoadOrder[i] \in handle'
    <3>1. opened /\ missing = {}
      BY <1>2, <2>1 DEF NotLoaded
    <3>2. CASE i = step
      BY <1>2, <3>1, <3>2
    <3>3. CASE i # step
      <4>1. i < step
        BY <1>1, <2>1, <3>3
      <4>2. LoadOrder[i] \in handle
        BY <1>1, <3>1, <4>1 DEF ShimIInv, Progress
      <4> QED BY <1>2, <4>2
    <3> QED BY <3>2, <3>3
  <2>2. ASSUME NEW i \in 1..3, i >= step'
        PROVE  LoadOrder[i] \notin handle'
    <3>1. i > step
      BY <1>1, <2>2
    <3>2. LoadOrder[i] \notin handle /\ LoadOrder[i] # l
      BY <1>1, <3>1, Orders DEF ShimIInv, Progress
    <3> QED BY <1>2, <3>2
  <2> QED BY <1>1, <1>3, <2>1, <2>2 DEF Progress
<1> QED BY <1>5, <1>6, <1>7, <1>8 DEF ShimIInv

\* One library of unload_driver_libs: a handle that is set is open, and is
\* cleared when it is closed.
LEMMA UnloadLibHolds == ShimIInv /\ UnloadLib => ShimIInv'
<1> SUFFICES ASSUME ShimIInv, UnloadLib PROVE ShimIInv'
  OBVIOUS
<1> DEFINE l == UnloadOrder[step]
<1>1. /\ shim \in {"rollback", "destructor"}
      /\ step \in 1..4 /\ step' = step + 1
      /\ l \in DriverLib
      /\ UNCHANGED <<shim, initialised>>
  BY Orders DEF UnloadLib
<1>2. /\ handle' = handle \ {l}
      /\ References'
  <2>1. CASE l \in handle
    <3>1. /\ handle' = handle \ {l}
          /\ refs' = [refs EXCEPT ![l] = IF @ > 0 THEN @ - 1 ELSE 0]
          /\ badCloses' = IF refs[l] = 0 THEN badCloses \cup {l} ELSE badCloses
      BY <2>1 DEF UnloadLib, Cleared
    <3>2. /\ badCloses = {} /\ refs \in [DriverLib -> 0..1] /\ refs[l] = 1
          /\ \A k \in DriverLib : refs[k] = IF k \in handle THEN 1 ELSE 0
      BY <1>1, <2>1 DEF ShimIInv, References
    <3>3. badCloses' = {} /\ refs' \in [DriverLib -> 0..1]
      BY <1>1, <3>1, <3>2
    <3>4. \A k \in DriverLib : refs'[k] = IF k \in handle' THEN 1 ELSE 0
      BY <1>1, <3>1, <3>2
    <3> QED BY <3>1, <3>3, <3>4 DEF References
  <2>2. CASE l \notin handle
    BY <2>2 DEF UnloadLib, ShimIInv, References
  <2> QED BY <2>1, <2>2
<1>3. Control' /\ Balanced'
  BY <1>1, <1>2 DEF ShimIInv, Control, Balanced
<1>4. ASSUME NEW i \in 1..4, i < step' PROVE UnloadOrder[i] \notin handle'
  <2>1. CASE i = step
    BY <1>2, <2>1
  <2>2. CASE i # step
    <3>1. i < step
      BY <1>1, <1>4, <2>2
    <3> QED BY <1>1, <1>2, <3>1 DEF ShimIInv, Progress
  <2> QED BY <2>1, <2>2
<1>5. Progress'
  BY <1>1, <1>4 DEF Progress
<1> QED BY <1>2, <1>3, <1>5 DEF ShimIInv

\* All of unload_driver_libs has run: nothing is open.
LEMMA UnloadedAll ==
  ASSUME ShimIInv, shim \in {"rollback", "destructor"}, step \notin DOMAIN UnloadOrder
  PROVE  handle = {}
<1>1. \A i \in 1..4 : i < step
  BY Orders DEF ShimIInv, Control
<1>2. \A i \in 1..4 : UnloadOrder[i] \notin handle
  BY <1>1 DEF ShimIInv, Progress
<1> QED BY <1>2, Orders DEF ShimIInv, Control

\* The steps from one part of the library's life to the next.
LEMMA PhasesHold ==
  ShimIInv /\ (Searched \/ Loaded \/ RolledBack \/ Destroyed \/ ShimCloses \/ ShimExits)
    => ShimIInv'
<1> SUFFICES ASSUME ShimIInv, Searched \/ Loaded \/ RolledBack \/ Destroyed
                                \/ ShimCloses \/ ShimExits
             PROVE  ShimIInv'
  OBVIOUS
<1> USE DEF ShimIInv, Control, States, References, Balanced, Progress, Goto
<1>1. CASE Searched
  BY <1>1 DEF Searched, Exit
<1>2. CASE Loaded
  BY <1>2, Orders DEF Loaded
<1>3. CASE RolledBack
  BY <1>3, UnloadedAll DEF RolledBack, Exit
<1>4. CASE Destroyed
  BY <1>4, UnloadedAll DEF Destroyed
<1>5. CASE ShimCloses \/ ShimExits
  BY <1>5 DEF ShimCloses, ShimExits, Exit
<1> QED BY <1>1, <1>2, <1>3, <1>4, <1>5

LEMMA StepHolds == ShimIInv /\ [Next]_vars => ShimIInv'
<1> SUFFICES ASSUME ShimIInv, [Next]_vars PROVE ShimIInv'
  OBVIOUS
<1>1. CASE UNCHANGED shimVars
  BY <1>1 DEF shimVars, ShimIInv, Control, References, Balanced, Progress
<1>2. CASE ShimLoads
  BY <1>2, LoadsHolds
<1>3. CASE ShimSteps \/ ShimCloses \/ ShimExits
  BY <1>3, LoadLibHolds, UnloadLibHolds, PhasesHold DEF ShimSteps
<1>4. UNCHANGED shimVars \/ ShimLoads \/ ShimSteps \/ ShimCloses \/ ShimExits
  BY DEF Next, vars, Call, Probe, Stat, Open, LookUpSymbols, GetVersion, Close, Closed,
         ShimRuns, Application, Idle
<1> QED BY <1>1, <1>2, <1>3, <1>4

LEMMA ShimIInvAlways == Spec => []ShimIInv
<1>1. Init => ShimIInv
  BY ShimInitHolds DEF Init
<1> QED BY <1>1, StepHolds, PTL DEF Spec

\* However often a program loads the ifunc library, whichever of its
\* libraries do not load, and whether its constructor, the program or the
\* helper's look-up ends it: no driver library is closed twice or left open.
THEOREM ClosedOnceAlways == Spec => []ClosedOnce
<1>1. ShimIInv => ClosedOnce
  BY DEF ShimIInv, References, Balanced, Progress, ClosedOnce
<1> QED BY <1>1, ShimIInvAlways, PTL

\* A program that runs with the ifunc library has libcuda.so.1 and the two
\* libraries it uses open, each once, and no other library of the driver.
THEOREM ReadyMeansLoadedAlways == Spec => []ReadyMeansLoaded
<1>1. ShimIInv => ReadyMeansLoaded
  <2> SUFFICES ASSUME ShimIInv, shim = "ready", NEW l \in DriverLib
               PROVE  refs[l] = IF l = "cudadebugger" THEN 0 ELSE 1
    BY DEF ReadyMeansLoaded
  <2>1. l \in handle <=> l # "cudadebugger"
    <3>1. \A i \in 1..3 : LoadOrder[i] \in handle
      BY DEF ShimIInv, Progress
    <3> QED BY <3>1, Orders DEF ShimIInv, Control
  <2> QED BY <2>1 DEF ShimIInv, References
<1> QED BY <1>1, ShimIInvAlways, PTL

-----------------------------------------------------------------------------
(* The look-up                                                             *)

\* What DriverSearch's operators come to for the library looked at.
LEMMA Reference ==
  ASSUME file \in File, This \in Library
  PROVE  /\ Search!GetApiVer(file) =
              IF This.kind = "absent" THEN -3
              ELSE IF This.kind = "directory" THEN -4
              ELSE IF before[This.inode] # NotCached THEN before[This.inode]
              ELSE ProbeOf(This)
         /\ Search!VerCacheAfter(file) =
              IF This.kind = "file" /\ before[This.inode] = NotCached
              THEN [before EXCEPT ![This.inode] = IF ProbeOf(This) = -2 THEN -1 ELSE ProbeOf(This)]
              ELSE before
<1>1. /\ Search!Libcuda(file) = This.kind
      /\ Search!LibInode(file) = This.inode
      /\ Search!Probe(file) = ProbeOf(This)
  BY DEF Search!Libcuda, Search!LibInode, Search!Probe, This
<1>2. This.kind \in {"file", "directory", "absent"}
  BY DEF Library
<1> QED BY <1>1, <1>2 DEF Search!GetApiVer, Search!VerCacheAfter, Search!Remembered,
                         Search!NotCached, NotCached

LookupType ==
  /\ library \in [File -> Library]
  /\ pc \in {"idle", "stat", "open", "symbols", "version", "close", "unloading", "returned"}
  /\ pc # "idle" => file \in File
  /\ verCache \in [Inode -> Int]
  /\ before \in [Inode -> Int]
  /\ opens \in [Inode -> Nat]
  /\ mapped = IF pc \in {"symbols", "version", "close"} THEN {file} ELSE {}

\* How far the look-up has come, against the cache it found.
LookupProgress ==
  /\ pc = "stat" => verCache = before
  /\ pc \in {"open", "symbols", "version"} =>
       /\ This.kind = "file"
       /\ before[This.inode] = NotCached
       /\ verCache = [before EXCEPT ![This.inode] = -1]
  /\ pc \in {"symbols", "version"} => This.loads
  /\ pc = "version" => Lacks = {}
  /\ pc \in {"close", "unloading", "returned"} =>
       /\ result = Search!GetApiVer(file)
       /\ verCache = Search!VerCacheAfter(file)

\* A file that was opened is in the cache.
OpenedCached ==
  \A i \in Inode :
    /\ opens[i] <= 1
    /\ verCache[i] = NotCached => opens[i] = 0
    /\ pc = "open" /\ i = This.inode => opens[i] = 0

LookupIInv == LookupType /\ LookupProgress /\ OpenedCached

LEMMA LookupInitHolds == Init => LookupIInv
<1> SUFFICES ASSUME Init PROVE LookupIInv
  OBVIOUS
<1>1. /\ pc = "idle" /\ mapped = {} /\ library \in [File -> Library]
      /\ verCache = [i \in Inode |-> NotCached] /\ before = verCache
      /\ opens = [i \in Inode |-> 0]
  BY LibrariesAssumption DEF Init
<1>2. LookupType
  BY <1>1 DEF LookupType, NotCached
<1>3. LookupProgress /\ OpenedCached
  BY <1>1 DEF LookupProgress, OpenedCached
<1> QED BY <1>2, <1>3 DEF LookupIInv

LEMMA ThisType ==
  ASSUME LookupIInv, pc # "idle"
  PROVE  This \in Library /\ This.inode \in Inode
  BY DEF LookupIInv, LookupType, This, Library

LEMMA CallHolds == LookupIInv /\ Call => LookupIInv'
<1> SUFFICES ASSUME LookupIInv, Call PROVE LookupIInv'
  OBVIOUS
<1>1. /\ pc \in {"idle", "returned"} /\ pc' = "stat" /\ file' \in File /\ before' = verCache
      /\ UNCHANGED <<library, verCache, mapped, opens>>
  BY DEF Call
<1>2. LookupType'
  BY <1>1 DEF LookupIInv, LookupType
<1>3. LookupProgress' /\ OpenedCached'
  BY <1>1 DEF LookupIInv, LookupProgress, OpenedCached
<1> QED BY <1>2, <1>3 DEF LookupIInv

LEMMA StatHolds == LookupIInv /\ Stat => LookupIInv'
<1> SUFFICES ASSUME LookupIInv, Stat PROVE LookupIInv'
  OBVIOUS
<1>1. /\ pc = "stat" /\ verCache = before /\ mapped = {} /\ file \in File
      /\ UNCHANGED <<library, file, before, mapped, opens>>
      /\ This' = This
  BY DEF Stat, LookupIInv, LookupType, LookupProgress, This
<1>2. This \in Library /\ This.inode \in Inode
  BY <1>1, ThisType
<1>3. CASE pc' = "returned" /\ verCache' = verCache
  <2>1. result' = Search!GetApiVer(file) /\ verCache = Search!VerCacheAfter(file)
    BY <1>1, <1>2, <1>3, Reference DEF Stat, Return
  <2>2. Search!GetApiVer(file)' = Search!GetApiVer(file)
        /\ Search!VerCacheAfter(file)' = Search!VerCacheAfter(file)
    BY <1>1 DEF Search!GetApiVer, Search!VerCacheAfter, Search!Libcuda, Search!LibInode,
               Search!Probe
  <2>3. LookupType' /\ OpenedCached'
    BY <1>1, <1>3 DEF LookupIInv, LookupType, OpenedCached
  <2> QED BY <1>3, <2>1, <2>2, <2>3 DEF LookupIInv, LookupProgress
<1>4. CASE /\ pc' = "open"
           /\ This.kind = "file" /\ verCache[This.inode] = NotCached
           /\ verCache' = [verCache EXCEPT ![This.inode] = -1]
  <2>1. LookupType'
    BY <1>1, <1>2, <1>4 DEF LookupIInv, LookupType
  <2>2. LookupProgress'
    BY <1>1, <1>4 DEF LookupProgress
  <2>3. OpenedCached'
    BY <1>1, <1>2, <1>4 DEF LookupIInv, LookupType, OpenedCached, NotCached
  <2> QED BY <2>1, <2>2, <2>3 DEF LookupIInv
<1> QED BY <1>1, <1>3, <1>4 DEF Stat, Return

\* The reference does not depend on what the steps of the look-up change.
LEMMA ReferenceFixed ==
  ASSUME UNCHANGED <<library, file, before>>
  PROVE  /\ Search!GetApiVer(file)' = Search!GetApiVer(file)
         /\ Search!VerCacheAfter(file)' = Search!VerCacheAfter(file)
  BY DEF Search!GetApiVer, Search!VerCacheAfter, Search!Libcuda, Search!LibInode, Search!Probe

\* The entry is there before the library is opened.
LEMMA OpenHolds == LookupIInv /\ Open => LookupIInv'
<1> SUFFICES ASSUME LookupIInv, Open PROVE LookupIInv'
  OBVIOUS
<1>1. /\ pc = "open" /\ mapped = {} /\ file \in File
      /\ This.kind = "file" /\ before[This.inode] = NotCached
      /\ verCache = [before EXCEPT ![This.inode] = -1]
      /\ opens' = [opens EXCEPT ![This.inode] = @ + 1]
      /\ UNCHANGED <<library, file, before, verCache>>
      /\ This' = This
  BY DEF Open, LookupIInv, LookupType, LookupProgress, This
<1>2. This \in Library /\ This.inode \in Inode
  BY <1>1, ThisType
<1>3. OpenedCached'
  <2>1. opens[This.inode] = 0 /\ verCache[This.inode] = -1 /\ opens \in [Inode -> Nat]
    BY <1>1, <1>2 DEF LookupIInv, LookupType, OpenedCached
  <2>2. pc' # "open"
    BY <1>1 DEF Open, Return
  <2> QED BY <1>1, <1>2, <2>1, <2>2 DEF LookupIInv, OpenedCached, NotCached
<1>4. CASE ~This.loads /\ pc' = "returned" /\ result' = -1 /\ mapped' = mapped
  <2>1. -1 = Search!GetApiVer(file) /\ verCache = Search!VerCacheAfter(file)
    BY <1>1, <1>2, <1>4, Reference DEF ProbeOf
  <2>2. LookupType'
    BY <1>1, <1>2, <1>4 DEF LookupIInv, LookupType
  <2> QED BY <1>1, <1>3, <1>4, <2>1, <2>2, ReferenceFixed DEF LookupIInv, LookupProgress
<1>5. CASE This.loads /\ pc' = "symbols" /\ mapped' = mapped \cup {file}
  <2>1. LookupType'
    BY <1>1, <1>2, <1>5 DEF LookupIInv, LookupType
  <2>2. LookupProgress'
    BY <1>1, <1>5 DEF LookupProgress
  <2> QED BY <1>3, <2>1, <2>2 DEF LookupIInv
<1> QED BY <1>1, <1>4, <1>5 DEF Open, Return

\* Why the look-up gives up a library is why the search does.
LEMMA LacksIsProbe ==
  ASSUME This \in Library, This.loads
  PROVE  /\ \A reason \in Lacks : reason = ProbeOf(This) /\ reason \in {-1, -2}
         /\ Lacks = {} => ProbeOf(This) = This.version
<1>1. Symbol = {"cuda_autocompat_version", "cuGetErrorName", "cuGetErrorString",
                "cuDriverGetVersion"}
  BY DEF Symbol, Symbols
<1>2. /\ Symbols[1] = "cuda_autocompat_version" /\ Symbols[2] = "cuGetErrorName"
      /\ Symbols[3] = "cuGetErrorString" /\ Symbols[4] = "cuDriverGetVersion"
  BY DEF Symbols
<1>3. (\E k \in 2..4 : Symbols[k] \notin This.exports)
        <=> ~ (Symbol \ {"cuda_autocompat_version"} \subseteq This.exports)
  <2>1. (\E k \in 2..4 : Symbols[k] \notin This.exports)
          <=> \/ "cuGetErrorName" \notin This.exports
              \/ "cuGetErrorString" \notin This.exports
              \/ "cuDriverGetVersion" \notin This.exports
    BY <1>2
  <2> QED BY <1>1, <2>1
<1> QED BY <1>2, <1>3 DEF Lacks, ProbeOf

LEMMA LookUpSymbolsHolds == LookupIInv /\ LookUpSymbols => LookupIInv'
<1> SUFFICES ASSUME LookupIInv, LookUpSymbols PROVE LookupIInv'
  OBVIOUS
<1>1. /\ pc = "symbols" /\ mapped = {file} /\ file \in File /\ This.loads
      /\ This.kind = "file" /\ before[This.inode] = NotCached
      /\ verCache = [before EXCEPT ![This.inode] = -1]
      /\ UNCHANGED <<library, file, before, verCache, mapped, opens>>
      /\ This' = This
  BY DEF LookUpSymbols, LookupIInv, LookupType, LookupProgress, This
<1>2. This \in Library /\ This.inode \in Inode
  BY <1>1, ThisType
<1>3. CASE pc' = "close" /\ \E reason \in Lacks : result' = reason
  <2>1. result' = ProbeOf(This) /\ ProbeOf(This) \in {-1, -2}
    BY <1>1, <1>2, <1>3, LacksIsProbe
  <2>2. result' = Search!GetApiVer(file) /\ verCache = Search!VerCacheAfter(file)
    BY <1>1, <1>2, <2>1, Reference
  <2>3. LookupType' /\ OpenedCached'
    BY <1>1, <1>3 DEF LookupIInv, LookupType, OpenedCached
  <2> QED BY <1>1, <1>3, <2>2, <2>3, ReferenceFixed DEF LookupIInv, LookupProgress
<1>4. CASE pc' = "version" /\ Lacks = {}
  <2>1. Lacks' = Lacks
    BY <1>1 DEF Lacks
  <2>2. LookupType' /\ OpenedCached'
    BY <1>1, <1>4 DEF LookupIInv, LookupType, OpenedCached
  <2>3. LookupProgress'
    BY <1>1, <1>4, <2>1 DEF LookupProgress
  <2> QED BY <2>2, <2>3 DEF LookupIInv
<1> QED BY <1>1, <1>3, <1>4 DEF LookUpSymbols, Return

LEMMA GetVersionHolds == LookupIInv /\ GetVersion => LookupIInv'
<1> SUFFICES ASSUME LookupIInv, GetVersion PROVE LookupIInv'
  OBVIOUS
<1>1. /\ pc = "version" /\ mapped = {file} /\ file \in File /\ This.loads /\ Lacks = {}
      /\ This.kind = "file" /\ before[This.inode] = NotCached
      /\ before \in [Inode -> Int]
      /\ verCache = [before EXCEPT ![This.inode] = -1]
      /\ verCache' = [verCache EXCEPT ![This.inode] =
                        IF This.version = -1 THEN @ ELSE This.version]
      /\ pc' = "close" /\ result' = verCache'[This.inode]
      /\ UNCHANGED <<library, file, before, mapped, opens>>
      /\ This' = This
  BY DEF GetVersion, Return, LookupIInv, LookupType, LookupProgress, This
<1>2. This \in Library /\ This.inode \in Inode /\ This.version \in Nat \cup {-1}
  BY <1>1, ThisType DEF Library
<1>3. verCache' = [before EXCEPT ![This.inode] = This.version] /\ result' = This.version
  BY <1>1, <1>2
<1>4. result' = Search!GetApiVer(file) /\ verCache' = Search!VerCacheAfter(file)
  <2>1. ProbeOf(This) = This.version
    BY <1>1, <1>2, LacksIsProbe
  <2> QED BY <1>1, <1>2, <1>3, <2>1, Reference
<1>5. LookupType'
  BY <1>1, <1>2, <1>3 DEF LookupIInv, LookupType
<1>6. OpenedCached'
  BY <1>1, <1>2, <1>3 DEF LookupIInv, LookupType, OpenedCached, NotCached
<1> QED BY <1>1, <1>4, <1>5, <1>6, ReferenceFixed DEF LookupIInv, LookupProgress

\* DlLibrary's destructor, and the return of the library's own.
LEMMA CloseHolds == LookupIInv /\ (Close \/ Closed) => LookupIInv'
<1> SUFFICES ASSUME LookupIInv, Close \/ Closed PROVE LookupIInv'
  OBVIOUS
<1>1. /\ pc \in {"close", "unloading"} /\ pc' \in {"unloading", "returned"}
      /\ mapped' = {} /\ This' = This
      /\ UNCHANGED <<library, file, before, verCache, opens, result>>
  BY DEF Close, Closed, LookupIInv, LookupType, This
<1>2. LookupType' /\ OpenedCached'
  BY <1>1 DEF LookupIInv, LookupType, OpenedCached
<1> QED BY <1>1, <1>2, ReferenceFixed DEF LookupIInv, LookupProgress

\* What the ifunc library or the application does is no step of the look-up.
LEMMA LookupUntouched ==
  ASSUME LookupIInv, UNCHANGED <<library, pc, file, verCache, before, mapped, opens, result>>
  PROVE  LookupIInv'
<1>1. This' = This /\ Lacks' = Lacks
  BY DEF This, Lacks
<1>2. LookupType' /\ OpenedCached'
  BY <1>1 DEF LookupIInv, LookupType, OpenedCached
<1>3. LookupProgress'
  BY <1>1, ReferenceFixed DEF LookupIInv, LookupProgress
<1> QED BY <1>2, <1>3 DEF LookupIInv

LEMMA LookupIInvAlways == Spec => []LookupIInv
<1>1. LookupIInv /\ [Next]_vars => LookupIInv'
  <2> SUFFICES ASSUME LookupIInv, [Next]_vars PROVE LookupIInv'
    OBVIOUS
  <2>1. CASE Call
    BY <2>1, CallHolds
  <2>2. CASE Probe
    BY <2>2, StatHolds, OpenHolds, LookUpSymbolsHolds, GetVersionHolds, CloseHolds DEF Probe
  <2>3. CASE ShimRuns \/ Application \/ Idle \/ UNCHANGED vars
    BY <2>3, LookupUntouched DEF ShimRuns, Application, Idle, vars, probeVars
  <2> QED BY <2>1, <2>2, <2>3 DEF Next
<1> QED BY <1>1, LookupInitHolds, PTL DEF Spec

\* Between entry and return, get_libcuda_api_ver comes to the one step the
\* search is modelled with, whatever lies at the paths and however many paths
\* lead to one library.
THEOREM LookupIsAtomicAlways == Spec => []LookupIsAtomic
<1>1. LookupIInv => LookupIsAtomic
  BY DEF LookupIInv, LookupProgress, LookupIsAtomic
<1> QED BY <1>1, LookupIInvAlways, PTL

\* The entry made before dlopen keeps every library from a second dlopen.
THEOREM OpenedOnceAlways == Spec => []OpenedOnce
<1>1. LookupIInv => OpenedOnce
  BY DEF LookupIInv, OpenedCached, OpenedOnce
<1> QED BY <1>1, LookupIInvAlways, PTL

-----------------------------------------------------------------------------
(* The look-up and the library it may open                                 *)

\* The helper's look-up waits for the ifunc library's constructor and
\* destructor; it opens it when it is not loaded and closes it when it is ready.
Coupled ==
  /\ image = "application" => pc = "idle"
  /\ shim \in {"unloaded", "searching", "loading", "rollback", "ready"} => ~exiting
  /\ image = "helper" =>
       /\ pc \in {"idle", "stat", "open", "returned"} => shim = "unloaded"
       /\ pc \in {"symbols", "version", "close"} /\ ~This.ifunc => shim = "unloaded"
       /\ pc \in {"version", "close"} /\ This.ifunc => shim = "ready"
       /\ pc = "unloading" => shim \in {"unloaded", "destructor"} /\ ~exiting

Counted ==
  /\ image \in {"helper", "application"}
  /\ missing \subseteq DriverLib
  /\ loads \in 0..MaxLoads
  /\ result \in Int

CoupledIInv == ShimIInv /\ LookupIInv /\ Coupled /\ Counted

LEMMA ShimStepsCoupled ==
  ASSUME Coupled, ShimRuns \/ Application
  PROVE  Coupled'
<1>1. This' = This /\ UNCHANGED <<image, pc>>
  BY DEF This, ShimRuns, Application, probeVars
<1> USE DEF Coupled, Goto
<1>2. CASE ShimRuns
  <2>1. CASE Searched
    BY <1>1, <2>1 DEF Searched, Exit
  <2>2. CASE LoadLib \/ UnloadLib
    BY <1>1, <2>2 DEF LoadLib, UnloadLib
  <2>3. CASE Loaded
    BY <1>1, <2>3 DEF Loaded
  <2>4. CASE RolledBack
    BY <1>1, <2>4 DEF RolledBack, Exit
  <2>5. CASE Destroyed
    BY <1>1, <2>5 DEF Destroyed
  <2> QED BY <1>2, <2>1, <2>2, <2>3, <2>4, <2>5 DEF ShimRuns, ShimSteps
<1>3. CASE Application
  BY <1>1, <1>3 DEF Application, ShimLoads, ShimCloses, ShimExits, Exit
<1> QED BY <1>2, <1>3

LEMMA ProbeCoupled ==
  ASSUME LookupIInv, Coupled, Call \/ Probe
  PROVE  Coupled'
<1>1. CASE Call
  BY <1>1 DEF Call, Coupled, shimVars
<1>2. CASE Stat
  <2>1. This' = This /\ UNCHANGED shimVars /\ UNCHANGED image /\ pc = "stat"
        /\ pc' \in {"open", "returned"}
    BY <1>2 DEF Stat, Return, This, LookupIInv, LookupType
  <2> QED BY <2>1 DEF Coupled, shimVars
<1>3. CASE Open
  <2>1. This' = This /\ UNCHANGED image /\ pc = "open" /\ mapped = {}
    BY <1>3 DEF Open, This, LookupIInv, LookupType
  <2>2. \/ pc' = "returned" /\ UNCHANGED shimVars
        \/ pc' = "symbols" /\ IF This.ifunc THEN ShimLoads ELSE UNCHANGED shimVars
    BY <1>3, <2>1 DEF Open, Return
  <2> QED BY <2>1, <2>2 DEF Coupled, shimVars, ShimLoads, Goto
<1>4. CASE LookUpSymbols \/ GetVersion
  <2>1. This' = This /\ UNCHANGED shimVars /\ UNCHANGED image
        /\ pc \in {"symbols", "version"} /\ pc' \in {"version", "close"}
        /\ (pc = "symbols" /\ This.ifunc => shim = "ready")
    BY <1>4 DEF LookUpSymbols, GetVersion, Opened, Return, This, LookupIInv, LookupType
  <2> QED BY <2>1 DEF Coupled, shimVars
<1>5. CASE Close
  <2>1. This' = This /\ UNCHANGED image /\ pc = "close"
        /\ pc' = (IF This.ifunc THEN "unloading" ELSE "returned")
        /\ IF This.ifunc THEN ShimCloses ELSE UNCHANGED shimVars
    BY <1>5 DEF Close, This
  <2> QED BY <2>1 DEF Coupled, shimVars, ShimCloses, Goto
<1>6. CASE Closed
  BY <1>6 DEF Closed, Coupled, shimVars
<1> QED BY <1>1, <1>2, <1>3, <1>4, <1>5, <1>6 DEF Probe

LEMMA StepCounted ==
  ASSUME ShimIInv, LookupIInv, Counted, [Next]_vars
  PROVE  Counted'
<1>1. image' = image
  BY DEF Next, vars, probeVars, Call, Probe, Stat, Open, LookUpSymbols, GetVersion, Close,
         Closed, ShimRuns, Application, Idle
<1>2. missing' \subseteq DriverLib /\ loads' \in 0..MaxLoads
  <2>1. CASE UNCHANGED shimVars
    BY <2>1 DEF shimVars, Counted
  <2>2. CASE ShimLoads
    BY <2>2, MaxLoadsAssumption DEF ShimLoads, Counted
  <2>3. CASE LoadLib
    <3>1. LoadOrder[step] \in DriverLib
      BY <2>3, Orders DEF LoadLib
    <3> QED BY <2>3, <3>1 DEF LoadLib, NotLoaded, Counted
  <2>4. CASE Searched \/ Loaded \/ UnloadLib \/ RolledBack \/ Destroyed \/ ShimCloses \/ ShimExits
    BY <2>4 DEF Searched, Loaded, UnloadLib, RolledBack, Destroyed, ShimCloses, ShimExits, Counted
  <2>5. UNCHANGED shimVars \/ ShimLoads \/ ShimSteps \/ ShimCloses \/ ShimExits
    BY DEF Next, vars, Call, Probe, Stat, Open, LookUpSymbols, GetVersion, Close, Closed,
           ShimRuns, Application, Idle
  <2> QED BY <2>1, <2>2, <2>3, <2>4, <2>5 DEF ShimSteps
<1>3. result' \in Int
  <2>1. CASE UNCHANGED result
    BY <2>1 DEF Counted
  <2>2. CASE Stat
    <3>1. This.inode \in Inode /\ verCache \in [Inode -> Int]
      BY <2>2, ThisType DEF Stat, LookupIInv, LookupType
    <3> QED BY <2>1, <2>2, <3>1 DEF Stat, Return
  <2>3. CASE Open
    BY <2>1, <2>3 DEF Open, Return
  <2>4. CASE LookUpSymbols
    <3>1. This \in Library /\ This.loads
      BY <2>4, ThisType DEF LookUpSymbols, LookupIInv, LookupProgress
    <3>2. \A reason \in Lacks : reason \in Int
      BY <3>1, LacksIsProbe
    <3> QED BY <2>1, <2>4, <3>2 DEF LookUpSymbols, Return
  <2>5. CASE GetVersion
    <3>1. This.inode \in Inode /\ This.version \in Int /\ verCache \in [Inode -> Int]
      BY <2>5, ThisType DEF GetVersion, LookupIInv, LookupType, Library
    <3>2. result' = verCache'[This.inode]
          /\ verCache' = [verCache EXCEPT ![This.inode] = IF This.version = -1 THEN @ ELSE This.version]
      BY <2>5 DEF GetVersion, Return
    <3> QED BY <3>1, <3>2
  <2> QED BY <2>1, <2>2, <2>3, <2>4, <2>5
       DEF Next, vars, probeVars, Call, Probe, Close, Closed, ShimRuns, Application, Idle
<1> QED BY <1>1, <1>2, <1>3 DEF Counted

LEMMA CoupledAlways == Spec => []CoupledIInv
<1>1. Init => Coupled /\ Counted
  BY MaxLoadsAssumption DEF Init, ShimInit, Coupled, Counted
<1>2. Coupled /\ LookupIInv /\ [Next]_vars => Coupled'
  <2> SUFFICES ASSUME Coupled, LookupIInv, [Next]_vars PROVE Coupled'
    OBVIOUS
  <2>1. CASE Idle \/ UNCHANGED vars
    BY <2>1 DEF Idle, vars, shimVars, probeVars, Coupled, This
  <2> QED BY <2>1, ShimStepsCoupled, ProbeCoupled DEF Next
<1> QED BY <1>1, <1>2, StepCounted, ShimIInvAlways, LookupIInvAlways, PTL DEF CoupledIInv, Spec

\* The two state machines stay in step: between two look-ups the helper has
\* nothing open and the ifunc library is not loaded, whatever its constructor
\* did, and at most one candidate is ever open.
THEOREM TypeCorrect == Spec => []TypeOK
<1>1. CoupledIInv => TypeOK
  <2> SUFFICES ASSUME CoupledIInv PROVE TypeOK
    OBVIOUS
  <2>1. Len(UnloadOrder) = 4
    BY DEF UnloadOrder
  <2>2. ShimTypeOK
    BY <2>1 DEF CoupledIInv, Counted, ShimIInv, Control, States, References, Balanced, ShimTypeOK
  <2> QED BY <2>2 DEF CoupledIInv, Counted, Coupled, LookupIInv, LookupType, TypeOK
<1> QED BY <1>1, CoupledAlways, PTL
=============================================================================
