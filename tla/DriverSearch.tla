---------------------------- MODULE DriverSearch ----------------------------
(***************************************************************************)
(* The search of cuda-autocompat-search: main() and search.cxx.            *)
(*                                                                         *)
(* The helper receives the libraries the application links to and a list  *)
(* of library directories, and runs five searches one after the other.     *)
(* Each of them comes across directories that may hold a driver            *)
(* (libcuda.so.1 and its three companion libraries) and hands them to      *)
(* update_libcuda, which keeps the newest one.  Three caches, by path of   *)
(* the directory, by inode of the directory and by inode of the library,   *)
(* keep it from looking at the same thing twice.                           *)
(*                                                                         *)
(* A path here is a directory path as the program spells it; several paths *)
(* may name one directory, and several directories may hold one library    *)
(* (a symbolic link).  Inode numbers are what stat(2) reports without the  *)
(* device, so two directories of different devices may share one.  The     *)
(* file system does not change during a search.                            *)
(***************************************************************************)
EXTENDS Integers, Sequences

CONSTANTS
  Path,         \* directory paths
  Dir,          \* directories
  Lib,          \* files a libcuda.so.1 may resolve to
  Inode,        \* inode numbers
  FileSystems,  \* file systems the search may run on
  Arguments     \* what parse_args and CUDA_HOME may give it

NotCached == -5        \* ver_cache has no entry for the inode

Entry == {"file", "directory", "absent", "denied"}
Soname == 1..3         \* libcudart.so.11, libcudart.so.12, libcudart.so.13

(***************************************************************************)
(* A file system.  kind: what stat(2) says of a directory path ("absent"   *)
(* includes a path that is not a directory, "denied" is any error that is  *)
(* not a missing file).  libcuda: what it says of libcuda.so.1 in that     *)
(* directory.  companions: the first of the three companion libraries that *)
(* is not a regular file decides.  probe: what loading the library and     *)
(* calling cuDriverGetVersion gives, -2 for a library that exports         *)
(* cuda_autocompat_version, -1 for one that does not load or lacks the     *)
(* driver API.  cudart: the libcudart sonames of a directory, "toolkit"    *)
(* when the file resolves into a toolkit's library directory, whose compat *)
(* directory is then "compat"; one that is missing or lies elsewhere is    *)
(* "absent".                                                               *)
(***************************************************************************)
Runtime == [file : {"absent", "denied", "toolkit"}, compat : Path]

FileSystem ==
  [kind : [Path -> {"directory", "absent", "denied"}],
   at : [Path -> Dir],
   inode : [Dir -> Inode],
   libcuda : [Dir -> Entry],
   lib : [Dir -> Lib],
   libInode : [Lib -> Inode],
   probe : [Lib -> Nat \cup {-1, -2}],
   companions : [Dir -> {"file", "absent", "denied"}],
   cudart : [Path -> [Soname -> Runtime]]]

\* A library the application links to: a driver, which lies in "dir", a CUDA
\* runtime of a toolkit, whose compat directory is "dir", or anything else.
Library == [kind : {"driver", "toolkit", "other"}, dir : Path]

Argument == [libs : Seq(Library), home : Seq(Path), paths : Seq(Path)]

ASSUME FileSystemsAssumption == FileSystems \subseteq FileSystem
ASSUME ArgumentsAssumption == Arguments \subseteq Argument

VARIABLES
  fs,             \* the file system, fixed for the run
  args,           \* the arguments, fixed for the run
  phase,          \* the search function that runs, or how the program ended
  next,           \* index of the next element of that function's loop
  found,          \* state.found, as a set of at most one result
  dirPathCache,   \* state.dir_path_cache
  dirInodeCache,  \* state.dir_inode_cache
  verCache        \* state.ver_cache

inputs == <<fs, args>>
searchState == <<found, dirPathCache, dirInodeCache, verCache>>
vars == <<fs, args, phase, next, found, dirPathCache, dirInodeCache, verCache>>

Searching == {"libraries_libcuda", "libraries_libcudart", "cuda_home",
              "paths_libcudart", "paths_libcuda", "report"}
Terminal == {"success", "failure", "aborted"}

(***************************************************************************)
(* parse_args keeps search directories that are directories and libraries  *)
(* that are regular files, each of them once.  A library given without a   *)
(* directory has the empty parent path, which stat does not find.          *)
(***************************************************************************)
Parsed(f, a) ==
  /\ \A i \in 1..Len(a.libs) : a.libs[i].kind = "driver" =>
       LET p == a.libs[i].dir IN
       \/ f.kind[p] = "directory" /\ f.libcuda[f.at[p]] = "file"
       \/ f.kind[p] = "absent"
  /\ \A i \in 1..Len(a.paths) : f.kind[a.paths[i]] = "directory"
  /\ \A i, j \in 1..Len(a.paths) : i # j => a.paths[i] # a.paths[j]
  /\ \A i, j \in 1..Len(a.libs) : i # j /\ a.libs[i].kind = "driver" =>
       a.libs[i] # a.libs[j]
  /\ Len(a.home) <= 1

Init ==
  /\ fs \in FileSystems
  /\ args \in Arguments
  /\ Parsed(fs, args)
  /\ phase = "libraries_libcuda"
  /\ next = 1
  /\ found = {}
  /\ dirPathCache = {}
  /\ dirInodeCache = {}
  /\ verCache = [i \in Inode |-> NotCached]

-----------------------------------------------------------------------------
(* check_file_exists(p / "libcuda.so.1"): std::filesystem::status throws   *)
(* on every error other than a missing file, and nothing catches it.       *)

Libcuda(p) == fs.libcuda[fs.at[p]]
LibcudaExists(p) == fs.kind[p] = "directory" /\ Libcuda(p) = "file"
StatusThrows(p) ==
  \/ fs.kind[p] = "denied"
  \/ fs.kind[p] = "directory" /\ Libcuda(p) = "denied"

-----------------------------------------------------------------------------
(* get_libcuda_api_ver and update_libcuda                                  *)

DirInode(p) == fs.inode[fs.at[p]]
LibInode(p) == fs.libInode[fs.lib[fs.at[p]]]
Probe(p) == fs.probe[fs.lib[fs.at[p]]]

\* ver_cache.emplace(inode, -1) is overwritten only by cuDriverGetVersion.
Remembered(v) == IF v = -2 THEN -1 ELSE v

GetApiVer(p) ==
  CASE Libcuda(p) \in {"absent", "denied"} -> -3
    [] Libcuda(p) = "directory" -> -4
    [] Libcuda(p) = "file" /\ verCache[LibInode(p)] # NotCached -> verCache[LibInode(p)]
    [] OTHER -> Probe(p)

\* Mutant of VerCacheAfter: the version is never written back.
VerCacheKeepsError(p) ==
  IF Libcuda(p) = "file" /\ verCache[LibInode(p)] = NotCached
  THEN [verCache EXCEPT ![LibInode(p)] = -1]
  ELSE verCache

VerCacheAfter(p) ==
  IF Libcuda(p) = "file" /\ verCache[LibInode(p)] = NotCached
  THEN [verCache EXCEPT ![LibInode(p)] = Remembered(Probe(p))]
  ELSE verCache

\* The path and the inode of the directory are both seen for the first time.
Fresh(p) ==
  /\ p \notin dirPathCache
  /\ fs.kind[p] = "directory"
  /\ DirInode(p) \notin dirInodeCache

HasDriver(p) == Fresh(p) /\ GetApiVer(p) >= 0
Throws(p) == HasDriver(p) /\ fs.companions[fs.at[p]] = "denied"

\* Mutant of Accepted: the companion libraries are not looked at.
AcceptedAlone(p) == HasDriver(p) /\ fs.companions[fs.at[p]] # "denied"

Accepted(p) == HasDriver(p) /\ fs.companions[fs.at[p]] = "file"

\* Mutants of Improves: the first result stays; the last of equals wins.
FirstResultStays(p) == Accepted(p) /\ found = {}
LastOfEqualsWins(p) == Accepted(p) /\ \A r \in found : GetApiVer(p) >= r.version

\* The first result, or a newer one than the result so far.
Improves(p) == Accepted(p) /\ \A r \in found : GetApiVer(p) > r.version

\* Mutant of UpdateLibcuda: the old result is not replaced.
UpdateKeepsBoth(p) ==
  /\ dirPathCache' = dirPathCache \cup {p}
  /\ dirInodeCache' = IF Fresh(p) THEN dirInodeCache \cup {DirInode(p)}
                                  ELSE dirInodeCache
  /\ verCache' = IF Fresh(p) THEN VerCacheAfter(p) ELSE verCache
  /\ found' = found \cup {[version |-> GetApiVer(q), dir |-> q] : q \in {r \in {p} : Improves(r)}}

UpdateLibcuda(p) ==
  /\ dirPathCache' = dirPathCache \cup {p}
  /\ dirInodeCache' = IF Fresh(p) THEN dirInodeCache \cup {DirInode(p)}
                                  ELSE dirInodeCache
  /\ verCache' = IF Fresh(p) THEN VerCacheAfter(p) ELSE verCache
  /\ found' = IF Improves(p) THEN {[version |-> GetApiVer(p), dir |-> p]}
                             ELSE found

-----------------------------------------------------------------------------
(* The five searches, one element of their loop at a time                  *)

Continue ==
  /\ next' = next + 1
  /\ UNCHANGED phase

Abort ==
  /\ phase' = "aborted"
  /\ UNCHANGED next

Skip ==
  /\ Continue
  /\ UNCHANGED searchState

\* update_libcuda whose result the caller ignores.
Offer(p) ==
  /\ UpdateLibcuda(p)
  /\ IF Throws(p) THEN Abort ELSE Continue

\* A path that check_file_exists guards before update_libcuda.
OfferExisting(p) ==
  \/ StatusThrows(p) /\ Abort /\ UNCHANGED searchState
  \/ LibcudaExists(p) /\ Offer(p)
  \/ ~StatusThrows(p) /\ ~LibcudaExists(p) /\ Skip

SearchLibrariesLibcuda ==
  /\ phase = "libraries_libcuda"
  /\ next \in 1..Len(args.libs)
  /\ LET lib == args.libs[next]
     IN \/ lib.kind # "driver" /\ Skip
        \/ lib.kind = "driver" /\ ~Accepted(lib.dir) /\ Offer(lib.dir)
        \/ /\ lib.kind = "driver"
           /\ Accepted(lib.dir)
           /\ UpdateLibcuda(lib.dir)
           /\ next' = Len(args.libs) + 1
           /\ UNCHANGED phase
  /\ UNCHANGED inputs

SearchLibrariesLibcudart ==
  /\ phase = "libraries_libcudart"
  /\ next \in 1..Len(args.libs)
  /\ LET lib == args.libs[next]
     IN \/ lib.kind # "toolkit" /\ Skip
        \/ lib.kind = "toolkit" /\ Offer(lib.dir)
  /\ UNCHANGED inputs

SearchCudaHome ==
  /\ phase = "cuda_home"
  /\ next \in 1..Len(args.home)
  /\ OfferExisting(args.home[next])
  /\ UNCHANGED inputs

\* The first soname of a directory whose check throws, or that belongs to a
\* toolkit, is the last one looked at.
Stop(p, k) ==
  /\ fs.cudart[p][k].file # "absent"
  /\ \A j \in Soname : j < k => fs.cudart[p][j].file = "absent"

SearchPathsLibcudart ==
  /\ phase = "paths_libcudart"
  /\ next \in 1..Len(args.paths)
  /\ LET p == args.paths[next]
     IN \/ (\A k \in Soname : ~Stop(p, k)) /\ Skip
        \/ \E k \in Soname :
             /\ Stop(p, k)
             /\ \/ /\ fs.cudart[p][k].file = "denied"
                   /\ Abort
                   /\ UNCHANGED searchState
                \/ /\ fs.cudart[p][k].file = "toolkit"
                   /\ OfferExisting(fs.cudart[p][k].compat)
  /\ UNCHANGED inputs

SearchPathsLibcuda ==
  /\ phase = "paths_libcuda"
  /\ next \in 1..Len(args.paths)
  /\ OfferExisting(args.paths[next])
  /\ UNCHANGED inputs

-----------------------------------------------------------------------------
(* main()                                                                  *)

LoopLength ==
  [libraries_libcuda |-> Len(args.libs),
   libraries_libcudart |-> Len(args.libs),
   cuda_home |-> Len(args.home),
   paths_libcudart |-> Len(args.paths),
   paths_libcuda |-> Len(args.paths)]

Enter(ph) ==
  /\ phase' = ph
  /\ next' = 1
  /\ UNCHANGED <<inputs, searchState>>

\* Mutant of AfterLoaded: the loaded driver does not end the search.
SearchAnyway ==
  /\ phase = "libraries_libcuda"
  /\ next > LoopLength[phase]
  /\ Enter("libraries_libcudart")

AfterLoaded ==
  /\ phase = "libraries_libcuda"
  /\ next > LoopLength[phase]
  /\ \/ found # {} /\ Enter("report")
     \/ found = {} /\ Enter("libraries_libcudart")

\* Mutant of Following: the library directories are not searched for a driver.
FollowingWithoutPaths ==
  [libraries_libcudart |-> "cuda_home",
   cuda_home |-> "paths_libcudart",
   paths_libcudart |-> "report"]

Following ==
  [libraries_libcudart |-> "cuda_home",
   cuda_home |-> "paths_libcudart",
   paths_libcudart |-> "paths_libcuda",
   paths_libcuda |-> "report"]

AfterSearch ==
  /\ phase \in DOMAIN Following
  /\ next > LoopLength[phase]
  /\ Enter(Following[phase])

Report ==
  /\ phase = "report"
  /\ \/ found # {} /\ Enter("success")
     \/ found = {} /\ Enter("failure")

\* The process has ended; stutter, so that TLC reports real deadlocks only.
Ended ==
  /\ phase \in Terminal
  /\ UNCHANGED vars

Next ==
  \/ SearchLibrariesLibcuda
  \/ AfterLoaded
  \/ SearchLibrariesLibcudart
  \/ SearchCudaHome
  \/ SearchPathsLibcudart
  \/ SearchPathsLibcuda
  \/ AfterSearch
  \/ Report
  \/ Ended

\* A sequential process that is scheduled and whose calls return.
Spec == Init /\ [][Next]_vars /\ WF_vars(Next)

-----------------------------------------------------------------------------
(* Properties                                                              *)

\* Inode numbers tell the directories, and the libraries, apart: everything
\* the search reaches lies on one device.
OneDevice ==
  /\ \A d, e \in Dir : fs.inode[d] = fs.inode[e] => d = e
  /\ \A l, m \in Lib : fs.libInode[l] = fs.libInode[m] => l = m

\* What a driver directory must have, whatever the search has seen so far.
Usable(p) ==
  /\ fs.kind[p] = "directory"
  /\ Libcuda(p) = "file"
  /\ Probe(p) >= 0
  /\ fs.companions[fs.at[p]] = "file"

\* The type invariant: state.found holds one result at most, the caches hold
\* inodes and versions, and the loop index stays within its loop.
TypeOK ==
  /\ fs \in FileSystem
  /\ args \in Argument
  /\ phase \in Searching \cup Terminal
  /\ next \in Nat \ {0}
  /\ found \subseteq [version : Nat, dir : Path]
  /\ \A r, s \in found : r = s
  /\ dirPathCache \subseteq Path
  /\ dirInodeCache \subseteq Inode
  /\ verCache \in [Inode -> Nat \cup {-1, NotCached}]

\* The inode caches say nothing that the file system does not: ver_cache
\* holds what probing the library gave, although an autocompat library is
\* reported by -2 once and by -1 from the cache ever after, and
\* dir_inode_cache holds exactly the directories behind dir_path_cache.
CachesAgree ==
  OneDevice =>
    /\ \A l \in Lib : verCache[fs.libInode[l]] # NotCached =>
         verCache[fs.libInode[l]] = Remembered(fs.probe[l])
    /\ dirInodeCache = {DirInode(p) : p \in {q \in dirPathCache : fs.kind[q] = "directory"}}

\* What the helper prints is a directory that holds a whole driver, the
\* shim under LD_AUDIT relies on it for all four libraries, and the version
\* it was chosen by is the driver's own, not another library's cache entry.
FoundIsUsable ==
  OneDevice =>
    \A r \in found :
      /\ r.dir \in dirPathCache
      /\ Usable(r.dir)
      /\ r.version = Probe(r.dir)

\* At every moment the result is at least as new as every usable driver the
\* search has come across, also those it skipped because a cache knew them.
BestOfChecked ==
  OneDevice =>
    \A p \in dirPathCache : Usable(p) => \E r \in found : r.version >= Probe(p)

(***************************************************************************)
(* What the search comes across, as <<search, element, path>>, computed    *)
(* from the inputs alone.                                                  *)
(***************************************************************************)
Loaded ==
  {<<0, i, args.libs[i].dir>> :
     i \in {j \in 1..Len(args.libs) : args.libs[j].kind = "driver"}}

Discovered ==
  {<<1, i, args.libs[i].dir>> :
     i \in {j \in 1..Len(args.libs) : args.libs[j].kind = "toolkit"}}
  \cup {<<2, i, args.home[i]>> : i \in 1..Len(args.home)}
  \cup {<<3, x[1], fs.cudart[args.paths[x[1]]][x[2]].compat>> :
          x \in {y \in (1..Len(args.paths)) \X Soname :
                  /\ Stop(args.paths[y[1]], y[2])
                  /\ fs.cudart[args.paths[y[1]]][y[2]].file = "toolkit"}}
  \cup {<<4, i, args.paths[i]>> : i \in 1..Len(args.paths)}

Before(c, d) == c[1] < d[1] \/ (c[1] = d[1] /\ c[2] < d[2])

Reference ==
  LET loaded == {c \in Loaded : Usable(c[3])}
      others == {c \in Discovered : Usable(c[3])}
      Winner(c) == IF loaded # {}
                   THEN c \in loaded /\ \A d \in loaded : ~Before(d, c)
                   ELSE \A d \in others \ {c} :
                          \/ Probe(c[3]) > Probe(d[3])
                          \/ Probe(c[3]) = Probe(d[3]) /\ Before(c, d)
  IN {[version |-> Probe(c[3]), dir |-> c[3]] :
        c \in {d \in loaded \cup others : Winner(d)}}

\* When the search runs to its end, the caches, the skips and the order of
\* the five searches have not changed the answer: it is the first usable
\* driver the application links to, else the newest driver there is, the
\* first of those with the same version; and it fails only without any.
SearchFindsBest ==
  OneDevice /\ phase \in {"success", "failure"} => found = Reference

\* The detailed search implements the promise of BestDriver: nothing but
\* libraries the application links to is looked at before they are all
\* found unusable, and no directory a search comes across is left out.
Promise ==
  INSTANCE BestDriver WITH
    verOf <- [p \in Path |-> IF Usable(p) THEN Probe(p) ELSE -1],
    loaded <- {c[3] : c \in Loaded},
    others <- {c[3] : c \in {d \in Discovered : d[1] = 1 \/ LibcudaExists(d[3])}},
    faulty <- \E p \in Path :
                \/ StatusThrows(p)
                \/ fs.companions[fs.at[p]] = "denied"
                \/ \E k \in Soname : fs.cudart[p][k].file = "denied",
    offered <- dirPathCache,
    best <- {r.dir : r \in found},
    status <- CASE phase = "success" -> "found"
                [] phase = "failure" -> "none"
                [] phase = "aborted" -> "crashed"
                [] OTHER -> "searching"

RefinesBestDriver == Promise!Spec

\* If any candidate is usable and the file system denies nothing, the search
\* ends, and ends with a result.
EventuallySucceeds ==
  ( /\ \E c \in Loaded \cup Discovered : Usable(c[3])
    /\ OneDevice
    /\ \A p \in Path :
         /\ ~StatusThrows(p)
         /\ fs.companions[fs.at[p]] # "denied"
         /\ \A k \in Soname : fs.cudart[p][k].file # "denied" )
  ~> (phase = "success")

\* README.md:51, "dynamically scans the system for _all available_ driver
\* runtime libraries": a search that ends without an application driver is
\* at least as new as the driver of every toolkit with a runtime in a
\* library directory.
EveryToolkitCounts ==
  phase = "success" /\ OneDevice /\ (\A c \in Loaded : ~Usable(c[3])) =>
    \A i \in 1..Len(args.paths), k \in Soname :
      LET rt == fs.cudart[args.paths[i]][k] IN
      rt.file = "toolkit" /\ Usable(rt.compat) =>
        \E r \in found : r.version >= Probe(rt.compat)

\* README.md:57, "The best compatible driver stack is always used": the
\* result is at least as new as every usable directory that was checked,
\* also when directories of different devices have the same inode number.
BestOnAllDevices ==
  phase = "success" =>
    \A p \in dirPathCache : Usable(p) => \E r \in found : r.version >= Probe(p)

\* README.md:51: one directory the helper may not read does not keep it from
\* reporting a driver it has already found.
ResultSurvivesFaults == phase = "aborted" => found = {}
=============================================================================
