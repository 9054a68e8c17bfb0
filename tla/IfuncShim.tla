----------------------------- MODULE IfuncShim ------------------------------
(***************************************************************************)
(* The ifunc library (src/ifunc/libcuda.c), which stands in for            *)
(* libcuda.so.1 in a program: its constructor searches for a driver and    *)
(* opens the driver's libraries, its destructor closes them.               *)
(*                                                                         *)
(* A constructor that fails calls exit, which runs the destructor of the   *)
(* library that is just being loaded; so the handles are closed twice over *)
(* in one life, and a program may load the library again after it has been *)
(* unloaded.  No build file mentions the library; autocompat_init,         *)
(* autocompat_search and autocompat_destroy, of which nothing is in the    *)
(* repository, appear by how they are called.                              *)
(***************************************************************************)
EXTENDS Integers, Sequences

CONSTANT MaxLoads   \* bound: how often the program loads the library

ASSUME MaxLoadsAssumption == MaxLoads \in Nat \ {0}

VARIABLES
  shim,         \* where the library's life is
  step,         \* the next library to open or to close
  missing,      \* libraries that did not load: ret of load_driver_libs
  handle,       \* the handles that are not NULL
  refs,         \* references the dynamic linker counts for each library
  badCloses,    \* libraries of which a handle was closed that was not open
  initialised,  \* autocompat_init without autocompat_destroy
  exiting,      \* exit runs the destructors
  loads         \* how often the library was loaded

shimVars == <<shim, step, missing, handle, refs, badCloses, initialised, exiting, loads>>

DriverLib == {"libcuda", "nvvm", "ptxjitcompiler", "cudadebugger"}

\* load_driver_libs: opening the debugger's library is commented out.
LoadOrder == <<"libcuda", "nvvm", "ptxjitcompiler">>
UnloadOrder == <<"cudadebugger", "ptxjitcompiler", "nvvm", "libcuda">>

ShimInit ==
  /\ shim = "unloaded"
  /\ step = 1
  /\ missing = {}
  /\ handle = {}
  /\ refs = [l \in DriverLib |-> 0]
  /\ badCloses = {}
  /\ initialised = 0
  /\ exiting = FALSE
  /\ loads = 0

-----------------------------------------------------------------------------

Goto(label) ==
  /\ shim' = label
  /\ step' = 1

\* The linker maps the library and its data, and libcuda_ctor begins.
ShimLoads ==
  /\ shim = "unloaded"
  /\ loads < MaxLoads
  /\ loads' = loads + 1
  /\ handle' = {}
  /\ missing' = {}
  /\ initialised' = initialised + 1
  /\ Goto("searching")
  /\ UNCHANGED <<refs, badCloses, exiting>>

\* exit(EXIT_FAILURE): the destructor runs, then the process ends.
Exit ==
  /\ exiting' = TRUE
  /\ Goto("destructor")

\* autocompat_search returns 0, or 1 for no driver, or another error.
Searched ==
  /\ shim = "searching"
  /\ \/ Goto("loading") /\ UNCHANGED exiting
     \/ Exit
  /\ UNCHANGED <<missing, handle, refs, badCloses, initialised, loads>>

\* Mutant of NotLoaded: the last dlopen decides alone.
NotLoadedLast(l, opened) == IF opened THEN {} ELSE {l}

\* ret stays 1 when a later library loads.
NotLoaded(l, opened) == IF opened THEN missing ELSE missing \cup {l}

\* One dlopen of load_driver_libs; the next one follows if it fails, too.
LoadLib ==
  /\ shim = "loading"
  /\ step \in DOMAIN LoadOrder
  /\ \E opened \in BOOLEAN :
       /\ missing' = NotLoaded(LoadOrder[step], opened)
       /\ handle' = IF opened THEN handle \cup {LoadOrder[step]} ELSE handle
       /\ refs' = [refs EXCEPT ![LoadOrder[step]] = IF opened THEN @ + 1 ELSE @]
  /\ step' = step + 1
  /\ UNCHANGED <<shim, badCloses, initialised, exiting, loads>>

Loaded ==
  /\ shim = "loading"
  /\ step \notin DOMAIN LoadOrder
  /\ Goto(IF missing # {} THEN "rollback" ELSE "ready")
  /\ UNCHANGED <<missing, handle, refs, badCloses, initialised, exiting, loads>>

\* Mutant of Cleared: the handle keeps its value.
ClearedNot(l) == handle

Cleared(l) == handle \ {l}

\* One library of unload_driver_libs, from the constructor or the destructor.
UnloadLib ==
  /\ shim \in {"rollback", "destructor"}
  /\ step \in DOMAIN UnloadOrder
  /\ LET l == UnloadOrder[step]
     IN \/ /\ l \in handle
           /\ handle' = Cleared(l)
           /\ refs' = [refs EXCEPT ![l] = IF @ > 0 THEN @ - 1 ELSE 0]
           /\ badCloses' = IF refs[l] = 0 THEN badCloses \cup {l} ELSE badCloses
        \/ /\ l \notin handle
           /\ UNCHANGED <<handle, refs, badCloses>>
  /\ step' = step + 1
  /\ UNCHANGED <<shim, missing, initialised, exiting, loads>>

\* Mutant of RolledBack: the constructor tries again.
RolledBackToSearch ==
  /\ shim = "rollback"
  /\ step \notin DOMAIN UnloadOrder
  /\ Goto("searching")
  /\ UNCHANGED <<missing, handle, refs, badCloses, initialised, exiting, loads>>

RolledBack ==
  /\ shim = "rollback"
  /\ step \notin DOMAIN UnloadOrder
  /\ Exit
  /\ UNCHANGED <<missing, handle, refs, badCloses, initialised, loads>>

\* libcuda_dtor ends with autocompat_destroy.
Destroyed ==
  /\ shim = "destructor"
  /\ step \notin DOMAIN UnloadOrder
  /\ initialised' = initialised - 1
  /\ Goto(IF exiting THEN "ended" ELSE "unloaded")
  /\ UNCHANGED <<missing, handle, refs, badCloses, exiting, loads>>

\* The program's last dlclose of the library.
ShimCloses ==
  /\ shim = "ready"
  /\ Goto("destructor")
  /\ UNCHANGED <<missing, handle, refs, badCloses, initialised, exiting, loads>>

\* The program exits while the library is loaded.
ShimExits ==
  /\ shim = "ready"
  /\ Exit
  /\ UNCHANGED <<missing, handle, refs, badCloses, initialised, loads>>

\* What goes on inside the library once the linker has called it.
ShimSteps == Searched \/ LoadLib \/ Loaded \/ UnloadLib \/ RolledBack \/ Destroyed

-----------------------------------------------------------------------------
(* Properties                                                              *)

ShimTypeOK ==
  /\ shim \in {"unloaded", "searching", "loading", "rollback", "ready",
               "destructor", "ended"}
  /\ step \in 1..Len(UnloadOrder) + 1
  /\ missing \subseteq DriverLib
  /\ handle \subseteq DriverLib
  /\ refs \in [DriverLib -> 0..1]
  /\ initialised \in 0..1
  /\ loads \in 0..MaxLoads

\* No driver library is closed twice although a failed constructor is
\* followed by the destructor, none stays open when the library is gone, and
\* each autocompat_init has its autocompat_destroy.
ClosedOnce ==
  /\ badCloses = {}
  /\ \A l \in DriverLib : refs[l] = IF l \in handle THEN 1 ELSE 0
  /\ shim \in {"unloaded", "ended"} => handle = {} /\ initialised = 0

\* A program that runs with the library has libcuda.so.1 and the two libraries
\* it uses open, each once, whatever opening the libraries before and after
\* one that failed gave and however often it loads the library; and never the
\* debugger's, although a directory without that one is no driver to the
\* search (search.cxx:157): it is closed, but not opened.
ReadyMeansLoaded ==
  shim = "ready" => \A l \in DriverLib : refs[l] = IF l = "cudadebugger" THEN 0 ELSE 1
=============================================================================
