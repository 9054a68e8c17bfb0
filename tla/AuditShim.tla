----------------------------- MODULE AuditShim ------------------------------
(***************************************************************************)
(* The audit library (src/rtld-audit/audit.c) in the programs that run it. *)
(*                                                                         *)
(* The dynamic linker loads the shim into every program whose environment  *)
(* names it in LD_AUDIT and calls la_version before anything else runs.    *)
(* la_version starts the search helper through a shell, and both inherit   *)
(* the environment: without taking its own entry out of LD_AUDIT first the *)
(* shim would start the helper, which would start the helper, and so on.   *)
(* The programs that wait for each other form a stack; the application is  *)
(* at its bottom and may replace itself by another one.                    *)
(*                                                                         *)
(* What find_libcuda returns is the subject of SearchHelper, what the      *)
(* helper prints that of DriverSearch; here a helper that runs looks at    *)
(* the directories once, and prints one with a whole driver or fails.      *)
(* Drivers come, go and are replaced meanwhile, also in their directory.   *)
(* The shim's entries are at most PATH_MAX bytes long: PathUtils shows     *)
(* what becomes of a program with a longer one.                            *)
(***************************************************************************)
EXTENDS Integers, SequencesExt

CONSTANTS
  Dir,           \* paths of directories that may hold a driver
  DirLength,     \* the length of each, a slash at its end not counted
  FirstLine,     \* each up to its first newline; one that begins with a
                 \* newline is no answer of the helper's
  Relative,      \* those that depend on the working directory
  Beside,        \* <<d, e, s>>: path d begins with the path of e's library s
  Driver,        \* what a directory's four libraries can be at a moment, a
                 \* half-done upgrade being one more
  NoDriver,      \* or one of them is missing
  Installations, \* what the directories hold at first
  PathMax,       \* PATH_MAX
  SizeMax,       \* SIZE_MAX
  Environments,  \* values of LD_AUDIT the first application is started with
  MaxChanges,    \* bounds: how often what the directories hold changes,
  MaxPrograms,   \*   how many programs the application runs,
  MaxOpened      \*   and how many libraries each of them opens

Contents == Driver \cup {NoDriver}

(***************************************************************************)
(* LD_AUDIT as next_token sees it: slots that end with the delimiter or,   *)
(* the last one only, with the string.  "self" is an entry with the shim's *)
(* file name in whatever directory, the others are other audit libraries.  *)
(***************************************************************************)
Slot == [name : {"self", "audit1", "audit2", "empty"}, delim : BOOLEAN]

LdAudit ==
  {e \in Seq(Slot) :
     \A i \in 1..Len(e) :
       /\ i < Len(e) => e[i].delim
       /\ e[i].name = "empty" => e[i].delim}

\* The four libraries of a driver and the lengths of their names.
SonameLength ==
  [libcuda |-> 12, nvvm |-> 19, ptxjitcompiler |-> 29, cudadebugger |-> 20]
Soname == DOMAIN SonameLength

\* What the dynamic linker may be asked for: one of the four libraries, a
\* name that has libcuda.so.1 as a proper prefix, or anything else.
Name == Soname \cup {"libcuda_longer", "unrelated"}

ASSUME DirAssumption == DirLength \in [Dir -> Nat \ {0}]
ASSUME FirstLineAssumption ==
  /\ FirstLine \in [Dir -> Dir]
  /\ \A d \in Dir : DirLength[FirstLine[d]] <= DirLength[d]
ASSUME PathsAssumption == Relative \subseteq Dir /\ Beside \subseteq Dir \X Dir \X Soname
ASSUME DriverAssumption == NoDriver \notin Driver /\ Installations \subseteq [Dir -> Contents]
ASSUME SizeAssumption == PathMax \in Nat \ {0} /\ SizeMax \in Nat /\ SizeMax >= PathMax
ASSUME EnvironmentsAssumption == Environments \subseteq LdAudit
ASSUME BoundsAssumption ==
  {MaxChanges, MaxOpened} \subseteq Nat /\ MaxPrograms \in Nat \ {0}

VARIABLES
  setup,      \* selfKnown: dladdr finds the shim's path; helper: whether
              \* find_search_helper finds the helper then; fixed
  configured, \* the LD_AUDIT the first application was started with
  stack,      \* the programs, each waiting for the one above it
  contents,   \* what each directory holds now
  changed,    \* directories where that has changed since a helper looked
  changes,    \* how often it has
  programs,   \* how many programs the application has run
  opened      \* libraries the application's program has opened

vars == <<setup, configured, stack, contents, changed, changes, programs, opened>>

\* A program: its image, the LD_AUDIT it was started with and has now, what
\* the helper has found for it (or, for a helper, it has found itself), the
\* directory la_version got and the libraries whose path it could set.
Program(image, env) ==
  [image |-> image, original |-> env, env |-> env, pc |-> "start",
   found |-> {}, dir |-> {}, paths |-> {}]

Top == Last(stack)
SetTop(p) == stack' = ReplaceAt(stack, Len(stack), p)

Init ==
  /\ setup \in [selfKnown : BOOLEAN, helper : BOOLEAN]
  /\ configured \in Environments
  /\ stack = <<Program("app", configured)>>
  /\ contents \in Installations
  /\ changed = {}
  /\ changes = 0
  /\ programs = 1
  /\ opened = {}

-----------------------------------------------------------------------------
(* sanitize_ld_audit and restore_ld_audit                                  *)

SelfSlots(env) == {i \in 1..Len(env) : env[i].name = "self"}
Audited(env) == SelfSlots(env) # {}

\* Mutants of Sanitized: nothing is taken out; the rest is lost with it.
NotSanitized(env) == env
SanitizedToEnd(env) ==
  IF Audited(env) /\ setup.selfKnown THEN SubSeq(env, 1, Min(SelfSlots(env)) - 1) ELSE env

\* The first slot with the shim's name goes, with its delimiter.
Sanitized(env) ==
  IF Audited(env) /\ setup.selfKnown THEN RemoveAt(env, Min(SelfSlots(env))) ELSE env

\* backup->slot, 0 for NULL: sanitize_ld_audit ends by clearing it on every
\* path, the one that has filled the backup included.
BackupSlot(env) == 0

Restored(env, original) ==
  IF BackupSlot(original) # 0
  THEN InsertAt(env, BackupSlot(original), original[BackupSlot(original)])
  ELSE env

-----------------------------------------------------------------------------
(* la_version                                                              *)

\* Mutant of JoinFits: path_join counts the terminating nul twice.
JoinFitsLess(d, s) == DirLength[d] + 1 + SonameLength[s] < PathMax - 1

JoinedLength(d, s) == DirLength[d] + 1 + SonameLength[s]

\* path_join2 succeeds for this library: the joined path and a nul fit.
JoinFits(d, s) == JoinedLength(d, s) < PathMax

LoadShim ==
  /\ Top.pc = "start"
  /\ Audited(Top.env)
  /\ LET env == Sanitized(Top.env)
     IN \/ /\ setup.selfKnown /\ setup.helper
           /\ stack' = Append(ReplaceAt(stack, Len(stack),
                                        [Top EXCEPT !.env = env, !.pc = "pclose"]),
                              Program("shell", env))
        \/ /\ ~(setup.selfKnown /\ setup.helper)
           /\ SetTop([Top EXCEPT !.env = Restored(env, Top.env), !.pc = "main"])
  /\ UNCHANGED <<setup, configured, contents, changed, changes, programs, opened>>

\* LD_AUDIT does not name the shim: the program starts without it.
StartPlain ==
  /\ Top.pc = "start"
  /\ ~Audited(Top.env)
  /\ SetTop([Top EXCEPT !.pc = "main"])
  /\ UNCHANGED <<setup, configured, contents, changed, changes, programs, opened>>

\* Mutant of ExecHelper: the shell starts the helper and does not wait.
ForkHelper ==
  /\ Top.image = "shell"
  /\ Top.pc = "main"
  /\ stack' = Append(stack, Program("helper", Top.env))
  /\ UNCHANGED <<setup, configured, contents, changed, changes, programs, opened>>

\* The shell replaces itself by the helper, which inherits its environment.
ExecHelper ==
  /\ Top.image = "shell"
  /\ Top.pc = "main"
  /\ SetTop(Program("helper", Top.env))
  /\ UNCHANGED <<setup, configured, contents, changed, changes, programs, opened>>

\* Mutant of Answers: a directory that is remembered but gone.
AnswersEver == {d \in Dir : \A s \in Soname : JoinedLength(d, s) < PathMax}

\* The directories the helper may print: stat(2) has accepted the path of
\* each of the four libraries, which is shorter than PATH_MAX.
Answers ==
  {d \in Dir : contents[d] # NoDriver /\ \A s \in Soname : JoinedLength(d, s) < PathMax}

\* The helper looks for drivers, and prints where it has found one, if any.
HelperSearches ==
  /\ Top.image = "helper"
  /\ Top.pc = "main"
  /\ \E found \in {{}} \cup {{[path |-> d, driver |-> contents[d]]} : d \in Answers} :
       SetTop([Top EXCEPT !.found = found, !.pc = "exit"])
  /\ changed' = {}
  /\ UNCHANGED <<setup, configured, contents, changes, programs, opened>>

\* pclose returns in the waiting la_version.  What has been read is cut at its
\* first newline: the helper prints none, but a directory's path may have one.
Answered(p, found) ==
  LET dirs == {FirstLine[f.path] : f \in found}
  IN [p EXCEPT !.found = found,
               !.dir = dirs,
               !.paths = {s \in Soname : \E d \in dirs : JoinFits(d, s)},
               !.env = Restored(p.env, p.original),
               !.pc = "main"]

\* Mutant of HelperEnds: a helper that fails is waited for forever.
HelperSucceeds ==
  /\ Top.pc = "exit"
  /\ Top.found # {}
  /\ LET waiting == Front(stack)
     IN stack' = ReplaceAt(waiting, Len(waiting), Answered(Last(waiting), Top.found))
  /\ UNCHANGED <<setup, configured, contents, changed, changes, programs, opened>>

HelperEnds ==
  /\ Top.pc = "exit"
  /\ LET waiting == Front(stack)
     IN stack' = ReplaceAt(waiting, Len(waiting), Answered(Last(waiting), Top.found))
  /\ UNCHANGED <<setup, configured, contents, changed, changes, programs, opened>>

-----------------------------------------------------------------------------
(* la_objsearch and la_objopen                                             *)

\* strcmp2 compares as many characters as the library's name has.
Matches(name, s) == name = s \/ (name = "libcuda_longer" /\ s = "libcuda")

\* Mutant of Redirects: the last comparison is missing.
RedirectsThree(p, name) ==
  "libcuda" \in p.paths /\ \E s \in Soname \ {"cudadebugger"} : Matches(name, s)

\* la_objsearch: the path it redirects a name to, if any.  Whether the paths
\* are set is decided by libcuda's alone.
Redirects(p, name) == "libcuda" \in p.paths /\ \E s \in Soname : Matches(name, s)

\* The directory the paths of p are in, for a program that has one.
ChosenDir(p) == CHOOSE d \in p.dir : TRUE

\* Mutant of PathLen: the lengths of unset paths are 0.
PathLenOrZero(p, s) == IF s \in p.paths THEN JoinedLength(ChosenDir(p), s) ELSE 0

\* libcuda_path_len and the lengths of the other paths, -1 for an unset one.
PathLen(p, s) == IF s \in p.paths THEN JoinedLength(ChosenDir(p), s) ELSE -1

\* An int where a size_t is expected.
AsSize(n) == IF n < 0 THEN SizeMax + (n + 1) ELSE n

\* The file of directory d begins with the path of library s.
Begins(d, file, p, s) ==
  \/ d = ChosenDir(p) /\ Matches(file, s)
  \/ <<d, ChosenDir(p), s>> \in Beside

\* The characters from the first on in which l_name and the path agree, at
\* most: none with an empty buffer, and all only if l_name begins with it.
Common(d, file, p, s) ==
  CASE s \notin p.paths -> 0
    [] s \in p.paths /\ Begins(d, file, p, s) -> JoinedLength(ChosenDir(p), s)
    [] OTHER -> JoinedLength(ChosenDir(p), s) - 1

\* la_objopen: the linker binds symbols through the shim where strncmp finds
\* no difference within the length of one of the four paths.
Bound(d, file, p) == \E s \in Soname : Common(d, file, p, s) >= AsSize(PathLen(p, s))

\* A library was asked for, by its name or by a path, and the linker has tried
\* a file of directory d, which is there if the driver is; la_objopen is
\* called for one that is.
Opened(name, file, d, byName, redirected) ==
  [name |-> name, dir |-> d, byName |-> byName, redirected |-> redirected,
   driver |-> contents[d],
   bound |-> contents[d] # NoDriver /\ Bound(d, file, Top)]

CanOpen == Top.image = "app" /\ Top.pc = "main" /\ Cardinality(opened) < MaxOpened

\* The application is linked to a library, or opens it, by its name.  Where
\* the shim does not redirect it the linker finds it in any directory.
OpenByName(name) ==
  /\ CanOpen
  /\ \/ /\ Redirects(Top, name)
        /\ \E s \in Top.paths :
             /\ Matches(name, s)
             /\ opened' = opened \cup {Opened(name, s, ChosenDir(Top), TRUE, TRUE)}
     \/ /\ ~Redirects(Top, name)
        /\ \E d \in Dir :
             /\ contents[d] # NoDriver
             /\ opened' = opened \cup {Opened(name, name, d, TRUE, FALSE)}
  /\ UNCHANGED <<setup, configured, stack, contents, changed, changes, programs>>

\* The application opens a library by its path, which is none of the names
\* la_objsearch knows.
OpenByPath(d, name) ==
  /\ CanOpen
  /\ contents[d] # NoDriver
  /\ opened' = opened \cup {Opened(name, name, d, FALSE, FALSE)}
  /\ UNCHANGED <<setup, configured, stack, contents, changed, changes, programs>>

-----------------------------------------------------------------------------

\* The application runs another program in its place.
Exec ==
  /\ Top.image = "app"
  /\ Top.pc = "main"
  /\ programs < MaxPrograms
  /\ programs' = programs + 1
  /\ SetTop(Program("app", Top.env))
  /\ opened' = {}
  /\ UNCHANGED <<setup, configured, contents, changed, changes>>

\* What the directories dirs hold becomes anything else.
Change(dirs) ==
  /\ changes < MaxChanges
  /\ changes' = changes + 1
  /\ \E new \in [dirs -> Contents] :
       contents' = [d \in Dir |-> IF d \in dirs THEN new[d] ELSE contents[d]]
  /\ contents' # contents
  /\ changed' = changed \cup dirs
  /\ UNCHANGED <<setup, configured, stack, programs, opened>>

\* A driver is installed, removed, or replaced in its directory, where an
\* upgrade writes its libraries one by one.
Upgrade == \E d \in Dir : Change({d})

\* The application changes its working directory, and relative paths name
\* other directories.
Chdir == Top.image = "app" /\ Top.pc = "main" /\ Change(Relative)

\* The application computes.
Run ==
  /\ Top.image = "app"
  /\ Top.pc = "main"
  /\ UNCHANGED vars

Launch == LoadShim \/ StartPlain \/ ExecHelper \/ HelperSearches \/ HelperEnds

Next ==
  \/ Launch
  \/ \E name \in Name : OpenByName(name)
  \/ \E d \in Dir, name \in Name : OpenByPath(d, name)
  \/ Exec
  \/ Upgrade
  \/ Chdir
  \/ Run

\* The programs of a launch are scheduled, and the helper ends.
Spec == Init /\ [][Next]_vars /\ WF_vars(Launch)

-----------------------------------------------------------------------------
(* Properties                                                              *)

\* The type invariant: the stack is an application with at most one waiting
\* chain of shells and helpers above it.
TypeOK ==
  /\ configured \in LdAudit
  /\ stack # <<>>
  /\ \A i \in 1..Len(stack) :
       /\ stack[i].image = "app" <=> i = 1
       /\ stack[i].image \in {"app", "shell", "helper"}
       /\ stack[i].env \in LdAudit
       /\ stack[i].original \in LdAudit
       /\ stack[i].pc \in {"start", "pclose", "main", "exit"}
       /\ stack[i].pc = "pclose" <=> i < Len(stack)
       /\ stack[i].pc = "exit" => stack[i].image = "helper"
       /\ stack[i].found \in SUBSET [path : Dir, driver : Contents]
       /\ stack[i].dir \in SUBSET Dir
       /\ stack[i].paths \in SUBSET Soname
  /\ contents \in [Dir -> Contents]
  /\ changed \in SUBSET Dir
  /\ changes \in 0..MaxChanges
  /\ programs \in 1..MaxPrograms

SelfCount(env) == Cardinality(SelfSlots(env))

\* The helper is not started for itself without end: there are never more
\* programs waiting for each other than LD_AUDIT had entries for the shim,
\* although the shell and the helper inherit every entry but the first.
RecursionBounded == Len(stack) <= 1 + SelfCount(configured)

\* rest has the slots of env in their order, without some of the shim's own.
Keeps(env, rest) ==
  \E at \in [1..Len(rest) -> 1..Len(env)] :
    /\ \A i, j \in 1..Len(rest) : i < j => at[i] < at[j]
    /\ \A i \in 1..Len(rest) : rest[i] = env[at[i]]
    /\ \A k \in 1..Len(env) \ SelfSlots(env) : \E i \in 1..Len(rest) : at[i] = k

\* Editing LD_AUDIT in place loses no other audit library, cuts or copies no
\* entry and keeps their order, in every program that inherits it.
OtherAuditorsKept == \A i \in 1..Len(stack) : Keeps(configured, stack[i].env)

\* audit.c:184, "All lib paths will be set or none of them will be set": the
\* four joins have different lengths, so this rests on the helper refusing
\* every directory for which one of the four paths is too long.
AllOrNone == \A i \in 1..Len(stack) : stack[i].paths \in {{}, Soname}

DriverLibraries == {o \in opened : o.byName /\ o.name # "unrelated"}

\* A program does not mix two drivers when another one is installed or a
\* better one comes while it runs: once the shim has redirected one driver
\* library it opens by name, all are redirected, to one directory, and they
\* are of one driver as long as the one in that directory is not replaced.
\* Replacing it there is the one way to mix two: the shim remembers a
\* directory, not a driver.
OneDriverPerProgram ==
  \A o, u \in DriverLibraries :
    o.redirected =>
      /\ u.redirected /\ u.dir = o.dir
      /\ u.driver = o.driver \/ o.dir \in changed

\* What the shim redirects to is the driver the helper has seen, whatever has
\* happened elsewhere between its look and the opening, unless that driver
\* itself was replaced (or the program has changed its directory, for a
\* relative path), or the directory's name was cut at a newline of its own.
RedirectedIsFound ==
  \A o \in opened : o.redirected =>
    \E f \in Top.found :
      \/ o.driver = f.driver /\ f.driver # NoDriver
      \/ f.path \in changed
      \/ FirstLine[f.path] # f.path

\* la_objsearch and la_objopen agree although one compares names and the other
\* as many characters as an int, taken as a size_t, says: symbols are bound
\* through the shim for every library it has redirected, for no library of a
\* program without a driver, and otherwise only for libraries in the chosen
\* directory or in one whose path begins with that of a chosen library.
RedirectedIsBound ==
  \A o \in opened :
    /\ o.redirected /\ o.driver # NoDriver => o.bound
    /\ o.bound => \E d \in Top.dir :
                    o.dir = d \/ \E s \in Soname : <<o.dir, d, s>> \in Beside

\* Every program that starts gets to run: la_version ends whatever LD_AUDIT
\* and the helper do.
EveryProgramRuns ==
  Len(stack) = 1 /\ Top.pc = "start" ~> Len(stack) = 1 /\ Top.pc = "main"

\* audit.c:131, "make room for the original slot and then copy the backed up
\* slot into it's original location": once la_version has returned, the
\* application, and what it runs, have the LD_AUDIT they were started with.
LdAuditRestored ==
  Len(stack) = 1 /\ Top.pc = "main" => Top.env = configured
=============================================================================
