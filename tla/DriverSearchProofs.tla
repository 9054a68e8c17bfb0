------------------------ MODULE DriverSearchProofs --------------------------
(***************************************************************************)
(* Theorems about DriverSearch for every file system and every arguments.  *)
(*                                                                         *)
(* The inductive invariant is the conjunction of the type invariant and    *)
(* the three safety invariants: that the result is the best of what was    *)
(* checked needs the caches to agree with the file system, since a         *)
(* directory that is skipped is dominated only because the cache entry it  *)
(* was skipped for stands for the same directory.                          *)
(***************************************************************************)
EXTENDS DriverSearch, TLAPS

IInv == TypeOK /\ CachesAgree /\ FoundIsUsable /\ BestOfChecked

-----------------------------------------------------------------------------
(* Lemmas about get_libcuda_api_ver and update_libcuda                     *)

\* get_libcuda_api_ver returns a number, and what it leaves in ver_cache is
\* a version or -1.
LEMMA GetApiVerType ==
  ASSUME TypeOK, NEW p \in Path
  PROVE  /\ GetApiVer(p) \in Int
         /\ Probe(p) \in Nat \cup {-1, -2}
         /\ VerCacheAfter(p) \in [Inode -> Nat \cup {-1, NotCached}]
<1>1. fs \in FileSystem /\ verCache \in [Inode -> Nat \cup {-1, NotCached}]
  BY DEF TypeOK
<1>2. Probe(p) \in Nat \cup {-1, -2} /\ LibInode(p) \in Inode
  BY <1>1 DEF FileSystem, Probe, LibInode
<1>3. GetApiVer(p) \in Int
  BY <1>1, <1>2 DEF GetApiVer, NotCached, FileSystem, Entry, Libcuda
<1>4. Remembered(Probe(p)) \in Nat \cup {-1}
  BY <1>2 DEF Remembered
<1>5. VerCacheAfter(p) \in [Inode -> Nat \cup {-1, NotCached}]
  BY <1>1, <1>2, <1>4 DEF VerCacheAfter
<1> QED BY <1>2, <1>3, <1>5

\* update_libcuda keeps the types, whatever it decides.
LEMMA UpdateType ==
  ASSUME TypeOK, NEW p \in Path, UpdateLibcuda(p)
  PROVE  /\ found' \subseteq [version : Nat, dir : Path]
         /\ \A r, s \in found' : r = s
         /\ dirPathCache' \subseteq Path
         /\ dirInodeCache' \subseteq Inode
         /\ verCache' \in [Inode -> Nat \cup {-1, NotCached}]
<1>1. GetApiVer(p) \in Int /\ VerCacheAfter(p) \in [Inode -> Nat \cup {-1, NotCached}]
  BY GetApiVerType
<1>2. DirInode(p) \in Inode
  BY DEF TypeOK, FileSystem, DirInode
<1>3. Improves(p) => [version |-> GetApiVer(p), dir |-> p] \in [version : Nat, dir : Path]
  BY <1>1 DEF Improves, Accepted, HasDriver
<1>4. /\ found' \subseteq [version : Nat, dir : Path]
      /\ \A r, s \in found' : r = s
  <2>1. CASE Improves(p)
    BY <1>3, <2>1 DEF UpdateLibcuda
  <2>2. CASE ~Improves(p)
    BY <2>2 DEF UpdateLibcuda, TypeOK
  <2> QED BY <2>1, <2>2
<1>5. dirPathCache' \subseteq Path /\ dirInodeCache' \subseteq Inode
  BY <1>2 DEF UpdateLibcuda, TypeOK
<1>6. verCache' \in [Inode -> Nat \cup {-1, NotCached}]
  BY <1>1 DEF UpdateLibcuda, TypeOK
<1> QED BY <1>4, <1>5, <1>6

\* Every step of the program leaves the inputs alone and either calls
\* update_libcuda once or leaves the search state alone.
LEMMA StepShape ==
  ASSUME TypeOK, [Next]_vars
  PROVE  /\ UNCHANGED inputs
         /\ \/ UNCHANGED searchState
            \/ \E p \in Path : UpdateLibcuda(p)
<1> USE DEF inputs, searchState
<1>1. /\ \A i \in 1..Len(args.libs) : args.libs[i].dir \in Path
      /\ \A i \in 1..Len(args.home) : args.home[i] \in Path
      /\ \A i \in 1..Len(args.paths) : args.paths[i] \in Path
  <2>1. args.libs \in Seq(Library) /\ args.home \in Seq(Path) /\ args.paths \in Seq(Path)
    BY DEF TypeOK, Argument
  <2>2. \A i \in 1..Len(args.libs) : args.libs[i] \in Library
    BY <2>1
  <2> QED BY <2>1, <2>2 DEF Library
<1>2. \A p \in Path, k \in Soname : fs.cudart[p][k].compat \in Path
  BY DEF TypeOK, FileSystem, Runtime
<1>3. ASSUME NEW p \in Path, OfferExisting(p)
      PROVE  UNCHANGED searchState \/ UpdateLibcuda(p)
  BY <1>3 DEF OfferExisting, Offer, Skip
<1>4. CASE SearchLibrariesLibcuda
  BY <1>1, <1>4 DEF SearchLibrariesLibcuda, Skip, Offer
<1>5. CASE SearchLibrariesLibcudart
  BY <1>1, <1>5 DEF SearchLibrariesLibcudart, Skip, Offer
<1>6. CASE SearchCudaHome
  BY <1>1, <1>3, <1>6 DEF SearchCudaHome
<1>7. CASE SearchPathsLibcudart
  BY <1>1, <1>2, <1>3, <1>7 DEF SearchPathsLibcudart, Skip
<1>8. CASE SearchPathsLibcuda
  BY <1>1, <1>3, <1>8 DEF SearchPathsLibcuda
<1>9. CASE AfterLoaded \/ AfterSearch \/ Report
  BY <1>9 DEF AfterLoaded, AfterSearch, Report, Enter
<1>10. CASE Ended \/ UNCHANGED vars
  BY <1>10 DEF Ended, vars
<1> QED BY <1>4, <1>5, <1>6, <1>7, <1>8, <1>9, <1>10 DEF Next

\* Every step keeps the phase and the loop index well typed.
LEMMA ControlType ==
  ASSUME TypeOK, [Next]_vars
  PROVE  phase' \in Searching \cup Terminal /\ next' \in Nat \ {0}
<1>1. phase \in Searching \cup Terminal /\ next \in Nat \ {0}
  BY DEF TypeOK
<1>2. Len(args.libs) \in Nat
  BY DEF TypeOK, Argument
<1> USE <1>1 DEF Searching, Terminal
<1>3. ASSUME NEW p, Offer(p) \/ OfferExisting(p) \/ Skip
      PROVE  phase' \in Searching \cup Terminal /\ next' \in Nat \ {0}
  BY <1>3 DEF Offer, OfferExisting, Skip, Continue, Abort
<1>4. CASE SearchLibrariesLibcuda
  BY <1>2, <1>3, <1>4 DEF SearchLibrariesLibcuda
<1>5. CASE SearchLibrariesLibcudart
  BY <1>3, <1>5 DEF SearchLibrariesLibcudart
<1>6. CASE SearchCudaHome
  BY <1>3, <1>6 DEF SearchCudaHome
<1>7. CASE SearchPathsLibcudart
  BY <1>3, <1>7 DEF SearchPathsLibcudart, Abort
<1>8. CASE SearchPathsLibcuda
  BY <1>3, <1>8 DEF SearchPathsLibcuda
<1>9. CASE AfterLoaded \/ AfterSearch \/ Report
  BY <1>9 DEF AfterLoaded, AfterSearch, Report, Enter, Following
<1>10. CASE Ended \/ UNCHANGED vars
  BY <1>10 DEF Ended, vars
<1> QED BY <1>4, <1>5, <1>6, <1>7, <1>8, <1>9, <1>10 DEF Next

-----------------------------------------------------------------------------
(* The type invariant                                                      *)

LEMMA InitType == Init => TypeOK
  BY FileSystemsAssumption, ArgumentsAssumption
     DEF Init, TypeOK, Searching, NotCached

LEMMA StepType == TypeOK /\ [Next]_vars => TypeOK'
<1> SUFFICES ASSUME TypeOK, [Next]_vars PROVE TypeOK'
  OBVIOUS
<1>1. UNCHANGED inputs
  BY StepShape
<1>2. phase' \in Searching \cup Terminal /\ next' \in Nat \ {0}
  BY ControlType
<1>3. CASE UNCHANGED searchState
  BY <1>1, <1>2, <1>3 DEF TypeOK, inputs, searchState
<1>4. CASE \E p \in Path : UpdateLibcuda(p)
  BY <1>1, <1>2, <1>4, UpdateType DEF TypeOK, inputs
<1> QED BY <1>3, <1>4, StepShape

\* The variables of the search always have their types: whatever the file
\* system answers, state.found holds at most one result and the caches hold
\* inodes and versions.
THEOREM TypeCorrect == Spec => []TypeOK
  BY InitType, StepType, PTL DEF Spec

-----------------------------------------------------------------------------
(* The safety invariants                                                   *)

\* With inode numbers that tell everything apart and caches that agree with
\* the file system, update_libcuda accepts a directory exactly when it is
\* usable and new, and by the version of its own driver.
LEMMA AcceptedIsUsable ==
  ASSUME TypeOK, CachesAgree, OneDevice, NEW p \in Path
  PROVE  /\ Accepted(p) <=> Fresh(p) /\ Usable(p)
         /\ Accepted(p) => GetApiVer(p) = Probe(p)
<1>1. Probe(p) \in Nat \cup {-1, -2} /\ fs.lib[fs.at[p]] \in Lib /\ Libcuda(p) \in Entry
  BY DEF TypeOK, FileSystem, Probe, Libcuda
<1>2. verCache[LibInode(p)] # NotCached => verCache[LibInode(p)] = Remembered(Probe(p))
  BY <1>1 DEF CachesAgree, LibInode, Probe
<1>3. Libcuda(p) = "file" => GetApiVer(p) \in {Probe(p), Remembered(Probe(p))}
  BY <1>2 DEF GetApiVer
<1>4. Libcuda(p) # "file" => GetApiVer(p) \in {-3, -4}
  BY <1>1 DEF GetApiVer, Entry
<1>5. Remembered(Probe(p)) = IF Probe(p) = -2 THEN -1 ELSE Probe(p)
  BY DEF Remembered
<1>6. GetApiVer(p) >= 0 <=> Libcuda(p) = "file" /\ Probe(p) >= 0
  BY <1>1, <1>3, <1>4, <1>5
<1>7. GetApiVer(p) >= 0 => GetApiVer(p) = Probe(p)
  BY <1>1, <1>3, <1>4, <1>5
<1> QED BY <1>6, <1>7 DEF Accepted, HasDriver, Fresh, Usable

\* update_libcuda keeps the caches in agreement with the file system.
LEMMA UpdateCaches ==
  ASSUME TypeOK, CachesAgree, OneDevice, NEW p \in Path, UpdateLibcuda(p), UNCHANGED fs
  PROVE  CachesAgree'
<1>1. OneDevice' /\ fs \in FileSystem /\ verCache \in [Inode -> Nat \cup {-1, NotCached}]
  BY DEF OneDevice, TypeOK
<1>2. ASSUME NEW l \in Lib, verCache'[fs.libInode[l]] # NotCached
      PROVE  verCache'[fs.libInode[l]] = Remembered(fs.probe[l])
  <2>1. CASE verCache' = verCache
    BY <1>2, <2>1 DEF CachesAgree
  <2>2. CASE verCache' = [verCache EXCEPT ![LibInode(p)] = Remembered(Probe(p))]
    <3>1. fs.lib[fs.at[p]] \in Lib /\ fs.libInode[l] \in Inode /\ LibInode(p) \in Inode
      BY <1>1 DEF FileSystem, LibInode
    <3>2. CASE fs.libInode[l] = LibInode(p)
      <4>1. l = fs.lib[fs.at[p]]
        BY <3>1, <3>2 DEF OneDevice, LibInode
      <4> QED BY <1>1, <2>2, <3>1, <3>2, <4>1 DEF Probe
    <3>3. CASE fs.libInode[l] # LibInode(p)
      BY <1>1, <1>2, <2>2, <3>1, <3>3 DEF CachesAgree
    <3> QED BY <3>2, <3>3
  <2> QED BY <2>1, <2>2 DEF UpdateLibcuda, VerCacheAfter
<1>3. dirInodeCache' =
        {DirInode(q) : q \in {r \in dirPathCache' : fs.kind[r] = "directory"}}
  <2>1. dirInodeCache =
          {DirInode(q) : q \in {r \in dirPathCache : fs.kind[r] = "directory"}}
    BY DEF CachesAgree
  <2>2. dirPathCache' = dirPathCache \cup {p}
    BY DEF UpdateLibcuda
  <2>3. CASE Fresh(p)
    BY <2>1, <2>2, <2>3 DEF UpdateLibcuda, Fresh
  <2>4. CASE ~Fresh(p)
    BY <2>1, <2>2, <2>4 DEF UpdateLibcuda, Fresh
  <2> QED BY <2>3, <2>4
<1> QED BY <1>2, <1>3 DEF CachesAgree, DirInode

\* update_libcuda keeps the result usable and its version true.
LEMMA UpdateFound ==
  ASSUME IInv, OneDevice, NEW p \in Path, UpdateLibcuda(p), UNCHANGED fs
  PROVE  FoundIsUsable'
<1> USE DEF IInv
<1>1. dirPathCache' = dirPathCache \cup {p}
  BY DEF UpdateLibcuda
<1>2. \A q : Usable(q)' = Usable(q) /\ Probe(q)' = Probe(q)
  BY DEF Usable, Probe, Libcuda
<1>3. CASE Improves(p)
  <2>1. Usable(p) /\ GetApiVer(p) = Probe(p)
    BY <1>3, AcceptedIsUsable DEF Improves
  <2> QED BY <1>1, <1>2, <1>3, <2>1 DEF UpdateLibcuda, FoundIsUsable
<1>4. CASE ~Improves(p)
  BY <1>1, <1>2, <1>4 DEF UpdateLibcuda, FoundIsUsable
<1> QED BY <1>3, <1>4

\* update_libcuda keeps the result at least as new as everything checked.
LEMMA UpdateBest ==
  ASSUME IInv, OneDevice, NEW p \in Path, UpdateLibcuda(p), UNCHANGED fs
  PROVE  BestOfChecked'
<1> USE DEF IInv
<1> DEFINE new == [version |-> GetApiVer(p), dir |-> p]
<1>1. dirPathCache' = dirPathCache \cup {p} /\ dirPathCache \subseteq Path
  BY DEF UpdateLibcuda, TypeOK
<1>2. \A q : Usable(q)' = Usable(q) /\ Probe(q)' = Probe(q)
  BY DEF Usable, Probe, Libcuda
<1>3. /\ \A q \in Path : Probe(q) \in Int
      /\ \A r \in found : r.version \in Int
      /\ \A r, s \in found : r = s
  BY DEF TypeOK, FileSystem, Probe
\* The result never gets older.
<1>4. ASSUME NEW r \in found
      PROVE  \E s \in found' : s.version >= r.version
  <2>1. CASE Improves(p)
    <3>1. new \in found' /\ new.version = GetApiVer(p)
      BY <2>1 DEF UpdateLibcuda
    <3>2. GetApiVer(p) > r.version /\ GetApiVer(p) \in Int
      BY <2>1, GetApiVerType DEF Improves
    <3> QED BY <1>3, <3>1, <3>2
  <2>2. CASE ~Improves(p)
    BY <1>3, <2>2 DEF UpdateLibcuda
  <2> QED BY <2>1, <2>2
<1>5. \A r \in found' : r.version \in Int
  BY UpdateType
<1>6. ASSUME NEW q \in dirPathCache, Usable(q)
      PROVE  \E s \in found' : s.version >= Probe(q)
  <2>1. PICK r \in found : r.version >= Probe(q)
    BY <1>6 DEF BestOfChecked
  <2>2. PICK s \in found' : s.version >= r.version
    BY <1>4
  <2> QED BY <1>1, <1>3, <1>5, <2>1, <2>2
<1>7. ASSUME Usable(p)
      PROVE  \E s \in found' : s.version >= Probe(p)
  <2>1. CASE p \in dirPathCache
    BY <1>6, <1>7, <2>1
  \* Skipped for its inode: the directory was checked by another name.
  <2>2. CASE p \notin dirPathCache /\ DirInode(p) \in dirInodeCache
    <3>1. PICK q \in dirPathCache : fs.kind[q] = "directory" /\ DirInode(q) = DirInode(p)
      BY <2>2 DEF CachesAgree
    <3>2. fs.at[q] = fs.at[p]
      BY <1>1, <3>1 DEF OneDevice, DirInode, TypeOK, FileSystem
    <3>3. Usable(q) /\ Probe(q) = Probe(p)
      BY <1>7, <3>1, <3>2 DEF Usable, Probe, Libcuda
    <3> QED BY <1>6, <3>3
  <2>3. CASE Fresh(p)
    <3>1. Accepted(p) /\ GetApiVer(p) = Probe(p)
      BY <1>7, <2>3, AcceptedIsUsable
    <3>2. CASE Improves(p)
      <4>1. new \in found' /\ new.version = Probe(p)
        BY <3>1, <3>2 DEF UpdateLibcuda
      <4> QED BY <1>3, <4>1
    <3>3. CASE ~Improves(p)
      BY <1>3, <3>1, <3>3 DEF UpdateLibcuda, Improves
    <3> QED BY <3>2, <3>3
  <2> QED BY <1>7, <2>1, <2>2, <2>3 DEF Fresh, Usable
<1> QED BY <1>1, <1>2, <1>6, <1>7 DEF BestOfChecked

LEMMA InitInvariant == Init => IInv
<1> SUFFICES ASSUME Init PROVE IInv
  OBVIOUS
<1>1. TypeOK
  BY InitType
<1>2. \A l \in Lib : verCache[fs.libInode[l]] = NotCached
  BY <1>1 DEF Init, TypeOK, FileSystem
<1> QED BY <1>1, <1>2 DEF Init, IInv, CachesAgree, FoundIsUsable, BestOfChecked

LEMMA StepInvariant == IInv /\ [Next]_vars => IInv'
<1> SUFFICES ASSUME IInv, [Next]_vars PROVE IInv'
  OBVIOUS
<1>1. TypeOK /\ TypeOK'
  BY StepType DEF IInv
<1>2. UNCHANGED fs
  BY <1>1, StepShape DEF inputs
<1>3. OneDevice' <=> OneDevice
  BY <1>2 DEF OneDevice
<1>4. CASE ~OneDevice
  BY <1>1, <1>3, <1>4 DEF IInv, CachesAgree, FoundIsUsable, BestOfChecked
<1>5. CASE UNCHANGED searchState
  <2>1. CachesAgree'
    BY <1>1, <1>2, <1>3, <1>5 DEF IInv, CachesAgree, searchState, DirInode, Usable, Probe, Libcuda
  <2>2. FoundIsUsable'
    BY <1>1, <1>2, <1>3, <1>5 DEF IInv, FoundIsUsable, searchState, Usable, Probe, Libcuda
  <2>3. BestOfChecked'
    BY <1>1, <1>2, <1>3, <1>5 DEF IInv, BestOfChecked, searchState, Usable, Probe, Libcuda
  <2> QED BY <1>1, <2>1, <2>2, <2>3 DEF IInv
<1>6. CASE OneDevice /\ \E p \in Path : UpdateLibcuda(p)
  <2>1. PICK p \in Path : UpdateLibcuda(p)
    BY <1>6
  <2>2. CachesAgree'
    BY <1>2, <1>6, <2>1, UpdateCaches DEF IInv
  <2>3. FoundIsUsable'
    BY <1>2, <1>6, <2>1, UpdateFound
  <2>4. BestOfChecked'
    BY <1>2, <1>6, <2>1, UpdateBest
  <2> QED BY <1>1, <2>2, <2>3, <2>4 DEF IInv
<1> QED BY <1>1, <1>4, <1>5, <1>6, StepShape

THEOREM Invariant == Spec => []IInv
  BY InitInvariant, StepInvariant, PTL DEF Spec

\* The three caches never disagree with the file system they summarise, for
\* every file system on one device.
THEOREM CachesAgreeAlways == Spec => []CachesAgree
<1>1. IInv => CachesAgree
  BY DEF IInv
<1> QED BY <1>1, Invariant, PTL

\* Whatever the file system holds, the helper never has a result that is not
\* a whole driver, nor one chosen by another library's version.
THEOREM FoundIsUsableAlways == Spec => []FoundIsUsable
<1>1. IInv => FoundIsUsable
  BY DEF IInv
<1> QED BY <1>1, Invariant, PTL

\* At every moment, for every file system and every arguments, no usable
\* driver that was checked or skipped is newer than the result.
THEOREM BestOfCheckedAlways == Spec => []BestOfChecked
<1>1. IInv => BestOfChecked
  BY DEF IInv
<1> QED BY <1>1, Invariant, PTL

-----------------------------------------------------------------------------
(* What a step may do                                                      *)

\* What is left to do: the searches, and the elements of the current one.
PhasesLeft ==
  CASE phase = "libraries_libcuda" -> 6
    [] phase = "libraries_libcudart" -> 5
    [] phase = "cuda_home" -> 4
    [] phase = "paths_libcudart" -> 3
    [] phase = "paths_libcuda" -> 2
    [] phase = "report" -> 1
    [] OTHER -> 0
InLoop == phase \in Searching \ {"report"} /\ next <= LoopLength[phase]
LoopLeft == IF InLoop THEN LoopLength[phase] + 1 - next ELSE 0

Advances ==
  /\ PhasesLeft' \in Nat /\ LoopLeft' \in Nat
  /\ PhasesLeft' < PhasesLeft \/ (PhasesLeft' = PhasesLeft /\ LoopLeft' < LoopLeft)

\* A result is only replaced by a newer one, and what is cached stays so.
OnlyImproves ==
  /\ \A r \in found : r \in found' \/ \E s \in found' : s.version > r.version
  /\ dirPathCache \subseteq dirPathCache' /\ dirInodeCache \subseteq dirInodeCache'
  /\ \A i \in Inode : verCache[i] # NotCached => verCache'[i] = verCache[i]

LEMMA LeftAre ==
  /\ PhasesLeft \in Nat
  /\ TypeOK => LoopLeft \in Nat
<1>1. PhasesLeft \in Nat
  BY DEF PhasesLeft
<1>2. ASSUME TypeOK, InLoop PROVE LoopLength[phase] + 1 - next \in Nat
  <2>1. Len(args.libs) \in Nat /\ Len(args.home) \in Nat /\ Len(args.paths) \in Nat
    BY <1>2 DEF TypeOK, Argument
  <2>2. LoopLength[phase] \in Nat
    BY <1>2, <2>1 DEF InLoop, Searching, LoopLength
  <2>3. next \in Nat /\ next <= LoopLength[phase]
    BY <1>2 DEF InLoop, TypeOK
  <2> QED BY <2>2, <2>3
<1> QED BY <1>1, <1>2 DEF LoopLeft

LeftIsNatural == PhasesLeft \in Nat /\ LoopLeft \in Nat

\* One element of a loop is done, or all of them are, or the program ends.
LEMMA LoopAdvances ==
  ASSUME TypeOK, UNCHANGED inputs, LeftIsNatural', InLoop,
         \/ phase' = phase /\ next' > next /\ next' \in Nat
         \/ phase' = "aborted"
  PROVE  Advances
<1>1. CASE phase' = "aborted"
  <2>1. PhasesLeft' = 0 /\ PhasesLeft > 0
    BY <1>1 DEF PhasesLeft, InLoop, Searching
  <2> QED BY <2>1 DEF Advances, LeftIsNatural
<1>2. CASE phase' = phase /\ next' > next /\ next' \in Nat
  <2>1. PICK n : n = LoopLength[phase]
    OBVIOUS
  <2>2. LoopLength' = LoopLength
    BY DEF LoopLength, inputs
  <2>3. n \in Nat /\ next \in Nat /\ next <= n
    <3>1. Len(args.libs) \in Nat /\ Len(args.home) \in Nat /\ Len(args.paths) \in Nat
      BY DEF TypeOK, Argument
    <3>2. n \in Nat
      BY <2>1, <3>1 DEF InLoop, Searching, LoopLength
    <3> QED BY <2>1, <3>2 DEF InLoop, TypeOK
  <2>4. LoopLeft = n + 1 - next
    BY <2>1 DEF LoopLeft
  <2>5. LoopLeft' = IF next' <= n THEN n + 1 - next' ELSE 0
    BY <1>2, <2>1, <2>2 DEF LoopLeft, InLoop
  <2>6. LoopLeft' < LoopLeft
    <3>1. PICK m : m = next'
      OBVIOUS
    <3>2. PICK o : o = next
      OBVIOUS
    <3>3. m \in Nat /\ o \in Nat /\ n \in Nat /\ o < m /\ o <= n
      BY <1>2, <2>3, <3>1, <3>2
    <3>4. (IF m <= n THEN n + 1 - m ELSE 0) < n + 1 - o
      BY <3>3
    <3> QED BY <2>4, <2>5, <3>1, <3>2, <3>4
  <2>7. PhasesLeft' = PhasesLeft
    BY <1>2 DEF PhasesLeft
  <2> QED BY <2>6, <2>7 DEF Advances, LeftIsNatural
<1> QED BY <1>1, <1>2

LEMMA StepAdvances == TypeOK /\ LeftIsNatural' /\ [Next]_vars => [Advances]_vars
<1> SUFFICES ASSUME TypeOK, LeftIsNatural', Next PROVE UNCHANGED vars \/ Advances
  OBVIOUS
<1>1. UNCHANGED inputs /\ next \in Nat
  BY StepShape DEF TypeOK
<1>2. Len(args.libs) \in Nat /\ Len(args.home) \in Nat /\ Len(args.paths) \in Nat
  BY DEF TypeOK, Argument
<1>3. ASSUME NEW p, Offer(p) \/ OfferExisting(p) \/ Skip
      PROVE  \/ phase' = phase /\ next' > next /\ next' \in Nat
             \/ phase' = "aborted"
  BY <1>1, <1>3 DEF Offer, OfferExisting, Skip, Continue, Abort
<1>4. CASE SearchLibrariesLibcuda
  <2>1. InLoop
    BY <1>2, <1>4 DEF SearchLibrariesLibcuda, InLoop, LoopLength, Searching
  <2>2. \/ phase' = phase /\ next' > next /\ next' \in Nat
        \/ phase' = "aborted"
    <3>1. next' = Len(args.libs) + 1 /\ phase' = phase => next' > next /\ next' \in Nat
      BY <1>2, <1>4 DEF SearchLibrariesLibcuda
    <3> QED BY <1>3, <1>4, <3>1 DEF SearchLibrariesLibcuda
  <2> QED BY <1>1, <2>1, <2>2, LoopAdvances
<1>5. CASE SearchLibrariesLibcudart \/ SearchCudaHome \/ SearchPathsLibcudart \/ SearchPathsLibcuda
  <2>1. InLoop
    <3>1. CASE SearchLibrariesLibcudart
      BY <1>2, <3>1 DEF SearchLibrariesLibcudart, InLoop, LoopLength, Searching
    <3>2. CASE SearchCudaHome
      BY <1>2, <3>2 DEF SearchCudaHome, InLoop, LoopLength, Searching
    <3>3. CASE SearchPathsLibcudart \/ SearchPathsLibcuda
      BY <1>2, <3>3 DEF SearchPathsLibcudart, SearchPathsLibcuda, InLoop, LoopLength, Searching
    <3> QED BY <1>5, <3>1, <3>2, <3>3
  <2>2. \/ phase' = phase /\ next' > next /\ next' \in Nat
        \/ phase' = "aborted"
    <3>1. CASE SearchLibrariesLibcudart \/ SearchPathsLibcudart
      BY <1>3, <3>1 DEF SearchLibrariesLibcudart, SearchPathsLibcudart, Abort
    <3>2. CASE SearchCudaHome
      BY <1>3, <3>2 DEF SearchCudaHome, Abort
    <3>3. CASE SearchPathsLibcuda
      BY <1>3, <3>3 DEF SearchPathsLibcuda, Abort
    <3> QED BY <1>5, <3>1, <3>2, <3>3
  <2> QED BY <1>1, <2>1, <2>2, LoopAdvances
<1>6. CASE AfterLoaded \/ AfterSearch \/ Report
  <2>1. PhasesLeft' < PhasesLeft
    BY <1>6 DEF AfterLoaded, AfterSearch, Report, Enter, Following, PhasesLeft
  <2> QED BY <2>1 DEF Advances, LeftIsNatural
<1>7. CASE Ended
  BY <1>7 DEF Ended
<1> QED BY <1>4, <1>5, <1>6, <1>7 DEF Next

LEMMA UpdateImproves ==
  ASSUME TypeOK, NEW p \in Path, UpdateLibcuda(p)
  PROVE  OnlyImproves
<1>1. \A r \in found : r \in found' \/ \E s \in found' : s.version > r.version
  <2>1. CASE Improves(p)
    <3>1. PICK s : s = [version |-> GetApiVer(p), dir |-> p]
      OBVIOUS
    <3>2. s \in found' /\ s.version = GetApiVer(p)
      BY <2>1, <3>1 DEF UpdateLibcuda
    <3> QED BY <2>1, <3>2 DEF Improves
  <2>2. CASE ~Improves(p)
    BY <2>2 DEF UpdateLibcuda
  <2> QED BY <2>1, <2>2
<1>2. \A i \in Inode : verCache[i] # NotCached => verCache'[i] = verCache[i]
  BY DEF UpdateLibcuda, VerCacheAfter, TypeOK
<1> QED BY <1>1, <1>2 DEF OnlyImproves, UpdateLibcuda

\* The search never goes back: every step goes on in its loop or to a later
\* part of main(), whatever the caches and the file system hold, so that a
\* search has finitely many steps (main.cxx:64-83, the loops of search.cxx).
THEOREM SearchAdvances == Spec => [][Advances]_vars
<1>1. TypeOK => LeftIsNatural
  BY LeftAre DEF LeftIsNatural
<1> QED BY <1>1, StepAdvances, TypeCorrect, PTL DEF Spec

\* On any number of devices, also where the inode caches confuse directories
\* or libraries: update_libcuda only replaces the result by one it takes to be
\* newer, the directories it has seen stay seen, and a version that is cached
\* stays as it is (search.cxx:35-194).
THEOREM ResultOnlyImproves == Spec => [][OnlyImproves]_vars
<1>1. TypeOK /\ [Next]_vars => [OnlyImproves]_vars
  <2> SUFFICES ASSUME TypeOK, Next PROVE OnlyImproves
    OBVIOUS
  <2>1. CASE UNCHANGED searchState
    BY <2>1 DEF OnlyImproves, searchState
  <2>2. CASE \E p \in Path : UpdateLibcuda(p)
    BY <2>2, UpdateImproves
  <2> QED BY <2>1, <2>2, StepShape
<1> QED BY <1>1, TypeCorrect, PTL DEF Spec
=============================================================================
