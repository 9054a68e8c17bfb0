---------------------------- MODULE LibraryProbe ----------------------------
(***************************************************************************)
(* get_libcuda_api_ver of src/search/search.cxx one system call at a time, *)
(* with the DlLibrary it opens a candidate with (utils/cpp/dl_library.cxx).*)
(* DriverSearch takes a look at a library in one step; here it is stat,    *)
(* the entry in the cache, dlopen, four dlsym, cuDriverGetVersion and      *)
(* dlclose, and opening a library runs its constructor.                    *)
(*                                                                         *)
(* A candidate may be the ifunc library of IfuncShim: it is recognised by  *)
(* a symbol, and that only after its constructor has run in the helper,    *)
(* where it may call exit.  The other program that loads the ifunc library *)
(* is the application it is made for.                                      *)
(***************************************************************************)
EXTENDS IfuncShim

CONSTANTS
  File,       \* paths of candidates
  Inode,      \* inode numbers
  Libraries,  \* what may be at the paths, see Library
  MaxCalls    \* bound: how many candidates the helper looks at

NotCached == -5
Symbols == <<"cuda_autocompat_version", "cuGetErrorName", "cuGetErrorString",
             "cuDriverGetVersion">>
Symbol == {Symbols[k] : k \in DOMAIN Symbols}

\* kind and inode: what stat(2) says; loads: whether dlopen succeeds; exports:
\* its symbols; version: what cuDriverGetVersion writes, -1 if it does not;
\* ifunc: whether it is the ifunc library.
Library ==
  [kind : {"file", "directory", "absent"}, inode : Inode, loads : BOOLEAN,
   exports : SUBSET Symbol, version : Nat \cup {-1}, ifunc : BOOLEAN]

ASSUME LibrariesAssumption == Libraries \subseteq [File -> Library]
ASSUME MaxCallsAssumption == MaxCalls \in Nat

VARIABLES
  image,     \* the program: "helper" or "application"
  library,   \* the library at each path, fixed
  pc,        \* where get_libcuda_api_ver is
  file,      \* its argument
  verCache,  \* state.ver_cache
  before,    \* ver_cache when it was called
  mapped,    \* candidates the linker has open
  opens,     \* how often each inode was opened
  result,    \* what it returned last
  calls      \* how often it was called

probeVars == <<image, library, pc, file, verCache, before, mapped, opens, result, calls>>
vars == <<shimVars, probeVars>>

Init ==
  /\ ShimInit
  /\ image \in {"helper", "application"}
  /\ library \in Libraries
  /\ pc = "idle"
  /\ file = CHOOSE f \in File : TRUE
  /\ verCache = [i \in Inode |-> NotCached]
  /\ before = verCache
  /\ mapped = {}
  /\ opens = [i \in Inode |-> 0]
  /\ result = 0
  /\ calls = 0

-----------------------------------------------------------------------------

This == library[file]

Return(value) ==
  /\ result' = value
  /\ pc' = IF mapped = {} THEN "returned" ELSE "close"

\* update_libcuda calls; every path leads to a library it has not looked at,
\* or to one it has.
Call ==
  /\ image = "helper"
  /\ pc \in {"idle", "returned"}
  /\ calls < MaxCalls
  /\ calls' = calls + 1
  /\ file' \in File
  /\ before' = verCache
  /\ pc' = "stat"
  /\ UNCHANGED <<shimVars, image, library, verCache, mapped, opens, result>>

\* Mutant of Stat: the entry is made when the version is known.
StatWithoutEntry ==
  /\ pc = "stat"
  /\ \/ This.kind = "absent" /\ Return(-3)
     \/ This.kind = "directory" /\ Return(-4)
     \/ This.kind = "file" /\ verCache[This.inode] # NotCached /\ Return(verCache[This.inode])
     \/ This.kind = "file" /\ verCache[This.inode] = NotCached /\ pc' = "open" /\ UNCHANGED result
  /\ UNCHANGED <<shimVars, image, library, file, verCache, before, mapped, opens, calls>>

\* stat, and ver_cache.emplace of -1.
Stat ==
  /\ pc = "stat"
  /\ \/ This.kind = "absent" /\ Return(-3) /\ UNCHANGED verCache
     \/ This.kind = "directory" /\ Return(-4) /\ UNCHANGED verCache
     \/ /\ This.kind = "file"
        /\ verCache[This.inode] # NotCached
        /\ Return(verCache[This.inode])
        /\ UNCHANGED verCache
     \/ /\ This.kind = "file"
        /\ verCache[This.inode] = NotCached
        /\ verCache' = [verCache EXCEPT ![This.inode] = -1]
        /\ pc' = "open"
        /\ UNCHANGED result
  /\ UNCHANGED <<shimVars, image, library, file, before, mapped, opens, calls>>

\* DlLibrary's constructor: dlopen, in which the library's own constructor
\* runs.
Open ==
  /\ pc = "open"
  /\ opens' = [opens EXCEPT ![This.inode] = @ + 1]
  /\ \/ ~This.loads /\ Return(-1) /\ UNCHANGED <<shimVars, mapped>>
     \/ /\ This.loads
        /\ mapped' = mapped \cup {file}
        /\ pc' = "symbols"
        /\ IF This.ifunc THEN ShimLoads ELSE UNCHANGED shimVars
        /\ UNCHANGED result
  /\ UNCHANGED <<image, library, file, verCache, before, calls>>

\* The constructor has returned.
Opened == This.ifunc => shim = "ready"

\* Mutant of Lacks: the driver's symbols are looked for first.
LacksFirst ==
  IF \E k \in 2..4 : Symbols[k] \notin This.exports THEN {-1}
  ELSE IF Symbols[1] \in This.exports THEN {-2} ELSE {}

\* The reason to give up the library, if any: the symbol of autocompat's own
\* libraries comes first.
Lacks ==
  IF Symbols[1] \in This.exports THEN {-2}
  ELSE IF \E k \in 2..4 : Symbols[k] \notin This.exports THEN {-1} ELSE {}

LookUpSymbols ==
  /\ pc = "symbols"
  /\ Opened
  /\ \/ \E reason \in Lacks : Return(reason)
     \/ Lacks = {} /\ pc' = "version" /\ UNCHANGED result
  /\ UNCHANGED <<shimVars, image, library, file, verCache, before, mapped, opens, calls>>

\* cuDriverGetVersion writes into the cache; its own result is only logged.
GetVersion ==
  /\ pc = "version"
  /\ verCache' = [verCache EXCEPT ![This.inode] = IF This.version = -1 THEN @ ELSE This.version]
  /\ Return(verCache'[This.inode])
  /\ UNCHANGED <<shimVars, image, library, file, before, mapped, opens, calls>>

\* Mutant of Close: a library that is given up stays open.
CloseUsable ==
  /\ pc = "close"
  /\ mapped' = IF result >= 0 THEN mapped \ {file} ELSE mapped
  /\ pc' = "returned"
  /\ UNCHANGED <<shimVars, image, library, file, verCache, before, opens, result, calls>>

\* DlLibrary's destructor, on every path out of the function.
Close ==
  /\ pc = "close"
  /\ mapped' = mapped \ {file}
  /\ pc' = IF This.ifunc THEN "unloading" ELSE "returned"
  /\ IF This.ifunc THEN ShimCloses ELSE UNCHANGED shimVars
  /\ UNCHANGED <<image, library, file, verCache, before, opens, result, calls>>

\* The library's destructor has returned.
Closed ==
  /\ pc = "unloading"
  /\ shim = "unloaded"
  /\ pc' = "returned"
  /\ UNCHANGED <<shimVars, image, library, file, verCache, before, mapped, opens, result, calls>>

ShimRuns == ShimSteps /\ UNCHANGED probeVars

\* The application opens its libcuda.so.1, closes it, or exits.
Application ==
  /\ image = "application"
  /\ ShimLoads \/ ShimCloses \/ ShimExits
  /\ UNCHANGED probeVars

\* The program ends, or does something else.
Idle ==
  /\ \/ shim = "ended"
     \/ image = "application" /\ shim \in {"unloaded", "ready"}
     \/ image = "helper" /\ pc \in {"idle", "returned"}
  /\ UNCHANGED vars

Probe == Stat \/ Open \/ LookUpSymbols \/ GetVersion \/ Close \/ Closed

Next == Call \/ Probe \/ ShimRuns \/ Application \/ Idle

\* The program runs; autocompat_search and the linker return.
Spec == Init /\ [][Next]_vars /\ WF_vars(Probe \/ ShimRuns)

-----------------------------------------------------------------------------
(* Properties                                                              *)

\* The type invariant; at most one candidate is open, and none between calls.
TypeOK ==
  /\ ShimTypeOK
  /\ pc \in {"idle", "stat", "open", "symbols", "version", "close", "unloading",
             "returned"}
  /\ verCache \in [Inode -> Int]
  /\ result \in Int
  /\ mapped \subseteq {file}
  /\ pc \in {"idle", "stat", "returned"} => mapped = {}
  /\ image = "helper" /\ mapped = {} => shim \in {"unloaded", "destructor"}

\* What DriverSearch is told of a library.
ProbeOf(lib) ==
  IF ~lib.loads THEN -1
  ELSE IF "cuda_autocompat_version" \in lib.exports THEN -2
  ELSE IF Symbol \ {"cuda_autocompat_version"} \subseteq lib.exports THEN lib.version
  ELSE -1

\* The search over these libraries, each in a directory of its own, with the
\* cache as it was when the function was called.
Search ==
  INSTANCE DriverSearch WITH
    Path <- File, Dir <- File, Lib <- File, FileSystems <- {}, Arguments <- {},
    args <- [libs |-> <<>>, home |-> <<>>, paths |-> <<>>],
    phase <- "report", next <- 1, found <- {}, dirPathCache <- {}, dirInodeCache <- {},
    verCache <- before,
    fs <- [kind |-> [f \in File |-> "directory"],
           at |-> [f \in File |-> f],
           libcuda |-> [f \in File |-> library[f].kind],
           lib |-> [f \in File |-> f],
           libInode |-> [f \in File |-> library[f].inode],
           probe |-> [f \in File |-> ProbeOf(library[f])]]

\* The many steps come to the one of DriverSearch: the same answer and the
\* same cache, although the entry is made before the library is opened and
\* is written to by the library.
LookupIsAtomic ==
  pc = "returned" => result = Search!GetApiVer(file) /\ verCache = Search!VerCacheAfter(file)

\* No file is opened a second time: neither one that did not load, nor the
\* ifunc library, whose constructor searches and opens a driver, nor one
\* under another path.
OpenedOnce == \A i \in Inode : opens[i] <= 1

\* Looking at a library ends, with an answer or with the program; and an
\* ifunc library that is loaded gets its program to run, or ends it.
LookupEnds ==
  /\ pc = "stat" ~> pc = "returned" \/ shim = "ended"
  /\ shim = "searching" ~> shim \in {"ready", "ended"}
=============================================================================
