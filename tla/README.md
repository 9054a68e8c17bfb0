# CUDA Auto-Compat in TLA+

A verification project for CUDA Auto-Compat: the helper executable that looks
for the newest usable CUDA driver on a system, and the audit library that asks
the helper and redirects an application to that driver. Paths below are
relative to the repository.

## The system

| Part | Source | State it keeps | Operations |
|---|---|---|---|
| Driver search | `src/search/search.cxx`, `main.cxx`, `search.h` | `SearchState`: the result so far, caches by directory path, directory inode and library inode | five `search_*` functions in a row, all of which hand candidates to `update_libcuda` |
| Arguments | `src/search/parse_args.cxx` | lists of directories and libraries with a cache each, getopt's global position, `arg_search_path_seen` | `parse_args`, recursive over lines of stdin; `add_path` |
| Asking the helper | `src/utils/c/search_helper.c` | `out_path`, the position in it, a pipe and a child process | `find_search_helper`, `find_libcuda` |
| Audit library | `src/rtld-audit/audit.c` | four library paths with lengths, `LD_AUDIT` in the environment, its backup | `la_version`, `la_objsearch`, `la_objopen` |
| Path utilities | `src/utils/c/path_utils.c` | none (`get_path_to_self` caches a pointer) | `next_token`, `path_prefix`, `path_join`, `path_filename` |
| Ifunc library | `src/ifunc/libcuda.c` | four library handles | constructor, destructor, loading with roll-back, unloading; not built, its headers do not exist |
| `dlopen` wrapper | `src/utils/cpp/dl_library.cxx` | the handle of an open library | open, close, look up a symbol |
| Rest | `src/utils/cpp/logging.*`, `src/utils/version`, examples, tests, CMake | | logging, the symbol that marks the project's own libraries, stub drivers |

How they interact: the dynamic linker calls `la_version` in every program whose
`LD_AUDIT` names the shim. `la_version` takes its own entry out of `LD_AUDIT`
(the shell and the helper it is about to start inherit the environment and
would load the shim again), finds the helper, starts it with `popen`, and reads
one directory from the pipe. The helper parses its arguments, searches, prints
and exits; its exit status decides whether the shim believes it. Afterwards the
linker asks `la_objsearch` for every library the program opens, at start or
much later, and `la_objopen` for every object it has mapped. To learn a driver's
version the helper opens it; what it opens may be the ifunc library, whose
constructor runs inside the helper and may end it.

What is hard here: results taken from caches instead of the file system; five
searches whose order decides who wins; a call that throws in the middle;
recursion over stdin with a global position; a child process that may die
between two writes or wait on a pipe nobody reads; nested launches through an
inherited environment; a string that is edited while it is walked over; paths
chosen at program start and used after a driver upgrade; a constructor whose
failure runs the destructor on half of what it opened. `PROJECT.json` lists
these hazards at their lines.

What makes each part correct:

- search: the result is usable, at least as new as everything looked at, and in
  the end the best there is, with the drivers the application already links to
  in front; it ends, and finds something if there is something;
- arguments: every command line is read once, in order, and the lists are what
  the search relies on;
- asking the helper: the whole answer or none, no child left behind, no
  deadlock;
- audit library: launches end, other audit libraries survive, a program does not
  mix two drivers when others come and go, and the two linker callbacks agree;
- path utilities: editing `LD_AUDIT` in place loses nothing else, and what is
  joined is either the right path or reported as too long;
- ifunc library and `dlopen` wrapper: what is opened is closed once, whatever
  fails, and a program that runs has the three libraries it opens.

## Modules

| Module | What it is |
|---|---|
| `BestDriver` | abstract specification of the search: candidates are offered, the best is kept |
| `DriverSearch` | the program: `main()` and `search.cxx`; implements `BestDriver` |
| `DriverSearchProofs` | its caches and its result so far, proved |
| `SearchOutcomeProofs` | its final result and the implementation of `BestDriver`, proved |
| `ParseArgs` | `parse_args.cxx` |
| `ParseArgsProofs` | what the search is given, proved |
| `SearchHelper` | `search_helper.c` with a helper process that prints anything, and the pipe |
| `SearchHelperProofs` | the buffer, the whole answer, no child left, proved |
| `HelperQuery` | abstract specification of asking the helper: one question, the best driver or nothing |
| `Launch` | `SearchHelper` and `DriverSearch` with the pipe between them; implements `HelperQuery` |
| `LaunchProofs` | the answer end to end and the implementation of `HelperQuery`, proved |
| `AuditShim` | `audit.c` in the application, the shell and the helper |
| `AuditShimProofs` | its nesting, the other audit libraries and what it redirects to, proved |
| `PathUtils` | `path_utils.c` on characters, in the `la_version` that uses it |
| `PathUtilsProofs` | what its strings name, proved |
| `IfuncShim` | `libcuda.c`: constructor, destructor and the handles |
| `LibraryProbe` | `get_libcuda_api_ver` one call at a time over the `dlopen` wrapper, and applications, with `IfuncShim` as a library they open |
| `LibraryProbeProofs` | its types, handles closed once, the look-up as one step, proved |
| `MC*` | instances for TLC |

### DriverSearch

One action is one element of the loop of one `search_*` function, including all
of `update_libcuda` (the program is sequential, nothing can come in between);
the actions `AfterLoaded`, `AfterSearch` and `Report` are the lines of `main()`
between them. `found`, `dirPathCache`, `dirInodeCache` and `verCache` are the
fields of `SearchState`; a `verCache` entry that is not there is `NotCached`.
`phase = "aborted"` is the uncaught exception of `std::filesystem::status`.

The file system is a record that `Init` picks and no step changes. It says, per
directory path, which directory it names and whether `stat` finds it, per
directory what its `libcuda.so.1`, its companions and its inode are, and per
library what loading it gives. So aliases (two paths of one directory), shared
libraries (two directories, one file) and inode numbers that collide are all in
the model. Four things are data here and not computed: the resolution of a
`libcudart` to its toolkit's compat directory (`weakly_canonical` and
`check_path_ends_with`), the order in which the symbols of a library are looked
up, the first of the three companions that is not a regular file, and all error
numbers other than a missing file ("denied").

`Parsed` restricts the arguments to what `parse_args` produces; the run
`parse_args` checks that it does.

### ParseArgs

`calls` is the recursion of `parse_args_helper`, each call with its command
line, its pass (getopt's options first, then the other arguments) and its
position; `lines` is what is left of stdin, `todo` what is left of the list
`parse_paths` walks through. What the whole should come to is said twice. As
sets: `ReadLines` are the command lines that have been read, `AskedDirs` and
`AskedLibs` the paths their options and the default name, and `SearchIsGivenEachOnce`
says that the lists are just what there is of those. As
places: a path is named at a line, an argument of it and a token of that, `Places` are all
that name it, and `ParsesEveryLine` says that the lists are in the order of the first
of them, although a line is read from the middle of another. It also counts: a line of
stdin is read only when there is a `-` for it in a line before it, and when parsing is
done there are just as many of both. `status = "aborted"` is the
exception of `exists()` for a path that may not be looked at
(`parse_args.cxx:157`); `FaultEndsParsing` says that it never passes unnoticed,
nor comes from a path nobody asked for. Tokens are names, not characters;
getopt's abbreviations and `--` are left out.

### SearchHelper

Two processes. The shim's `pc` walks through `find_search_helper` (a candidate
is the position it was built from, `outPath`, so that a stale one is seen as
such) and `find_libcuda`; `fread` is a loop of its own that collects bytes until
it has all it asked for or the writer is gone. The helper writes byte by byte
when the pipe has room, exits with or without success, or is killed at any
moment. `helper = "searching"` is a helper that has printed nothing yet, and
`HelperPrints` fixes what it is going to print. `install.reaped` is an
application that ignores SIGCHLD.

### Launch and HelperQuery

`Launch` has the variables of `DriverSearch` and of `SearchHelper` and nothing
else. The search runs while the helper is `"searching"`; its end fixes the
helper's output, its exception kills the helper, and anything may kill it at any
other moment. `find_libcuda` starts the helper without arguments
(`search_helper.c:86`), so `NoArgumentsAssumption` gives the search no libraries
of the application, only `CUDA_HOME` and the linker's search path, which
`parse_args` may also fail to get (`NoSearchPath`). `Spelling` is the bytes of a
directory's path; one with a newline in it is cut by the shim, which the
refinement shows as `FirstLine`. A path that begins with a newline is cut to
nothing: the helper succeeds, prints an empty line, and the driver is not used,
although nothing was lost. `NothingOnlyWhenLost` names this case.

`HelperQuery` is what `la_version` may rely on: one step from the question to an
answer that is the best driver or nothing. `AuditShim` uses as much of it as its
properties need: its `HelperSearches` takes any directory that holds a driver then, or
none, and its `HelperEnds` gives it to the shim later, cut at a newline.

### AuditShim

`stack` holds the programs that wait for each other: the application, and above
it the shell or the helper of a running `la_version`, each with its own
environment and its own copy of the shim's paths. `LD_AUDIT` is a sequence of
slots, exactly the tokens with their delimiters that `next_token` walks over, so
taking one out is what the `memmove` does. Directory paths have lengths, since
`path_join` may overflow for a long library name and not for a short one.
`contents` is what each directory holds now, one driver or another or none, and
`found` what the helper saw there when it looked. Drivers are installed, removed and
replaced in their own directory at any moment (`Upgrade`, between the helper's look and
its answer too), and `Chdir` changes what relative paths name; `changed` are the
directories where this has happened since a helper looked. A driver that is being
replaced library by library is a driver of its own, which mixes with the next one as
any other does. That the linker loads the shim once into a program whose `LD_AUDIT`
names it, and that the shell replaces itself by the helper, is assumed.

The shim remembers a directory, not a driver, and the properties say how far that
goes. `OneDriverPerProgram`: a program's driver libraries come from one directory, and
are of one driver unless the one there is replaced, in which case the code does mix
the two. `RedirectedIsFound`: between the helper's look and the opening nothing but a change
of that very directory, or a newline in its path, puts another driver in the place of the
one the helper has seen. `RedirectedIsBound` compares the callbacks. `la_objsearch` looks
at a library's name; `la_objopen` compares as many characters of `l_name` as an `int`
says that is passed as a `size_t`, so -1 for an unset path becomes the largest number
(`AsSize`) and can match nothing, and a path that merely begins with a chosen library's
(`Beside`) is bound as well. The applications open libraries by their names and by
paths (`OpenByName`, `OpenByPath`).

The module assumes that the shim's own entries fit the backup of `sanitize_ld_audit`;
`PathUtils` has what happens otherwise.

### PathUtils

One `la_version`, on characters: the walk of `sanitize_ld_audit` with
`next_token` over the string that it edits when it finds its own entry, the walk
of `path_prefix` over the shim's path, and the two `path_join`s, of the helper's
path and of a library's. A name is a few characters long, `"l"` stands for a
component that begins with `lib`, and an unset `LD_AUDIT` is the empty string.

The code walks over delimiters; the properties speak of the names between them.
`Runs(s, delim)` is the set of these, each as its first and last position, so
that "the names of this string are the first names of that one and behind them
those of another, moved" (`Joins`) says for a list of audit libraries and for a
path alike that nothing is cut, merged, left over or out of order. `Parts` leaves
out the names `.`, as the kernel does.

What the run shows about the code, as it is: `restore_ld_audit` is never called
with a backup (see `ld_audit`), but the backup that is taken would suffice to
undo every edit (`RestoreUndoes`); an own entry longer than the `PATH_MAX` bytes of the
backup ends the program before anything is edited (`SanitizeOverflows`, the state
`"crashed"`; nothing else leads there); the helper of a shim in a library directory
of the root is looked for relative to the working directory, since its empty
prefix is joined as `.`; and a relative path whose first component is the library
directory gives `match` the value that means no match. `SiblingFound` states
these two cases beside the intended one.

### IfuncShim and LibraryProbe

`shim` is where the library's life is, `step` the next library `load_driver_libs`
or `unload_driver_libs` deals with, `handle` the handles that are not `NULL`,
`refs` what the linker counts. A constructor that fails calls `exit`, which runs
the destructor (`exiting`). The library is not built by any `CMakeLists.txt`, and
`autocompat_init`, `autocompat_search` and `autocompat_destroy` are declared
nowhere, so they appear by how they are called: the search gives a driver or not.

`LibraryProbe` is the helper or an application that opens libraries. In the
helper it is `get_libcuda_api_ver`: `stat`, the `ver_cache` entry of -1,
`DlLibrary`'s `dlopen` in which a constructor may run, the symbols in their order,
`cuDriverGetVersion` writing through the cache entry, and the destructor on each
way out. `before` is `ver_cache` at the call; `LookupIsAtomic` compares the many
steps with the one step `GetApiVer`/`VerCacheAfter` of `DriverSearch`, which is
what justifies it there.

## Runs

| Run | Shows |
|---|---|
| `driver_search` | type invariant, agreement of the caches, the result is usable and the best of what was checked, the final result equals `Reference` (computed from the inputs alone), the search implements `BestDriver` and succeeds when it can |
| `parse_args` | the final lists hold, in the order of the lines, all that any line asked for, directories and files only, each once; a path that may not be looked at never goes unnoticed; parsing ends |
| `search_helper` | whole answer or none in every interleaving, no child left, usable helper, no deadlock; the buffer keeps room for its nul |
| `audit_shim` | bounded nesting, other audit libraries kept in order, all paths or none, one driver per program unless it is replaced in its directory, what is redirected is what the helper has seen and is bound through the shim, every program gets to run |
| `launch` | end to end: the directory `la_version` gets is the best driver or nothing, nothing only when the helper was lost; implements `HelperQuery`, so that an answer always comes |
| `path_utils` | the edited `LD_AUDIT` names what it named before but for one own entry, which is kept whole or ends the program, the helper is the sibling of the library directory, a library's path is in the answered directory, all walks end |
| `library_probe` | handles closed once in every order of failures and loads, a running program has the three libraries it opens, each once (`libcuda.c` has a handle for `libcudadebugger` but never opens it), the look-up is one step to the search, no file is opened twice, look-ups end |
| `search_toolkits` | violated: a second toolkit in one directory is never looked at (`search.cxx:279`) |
| `search_devices` | violated: inode numbers without the device (`search.cxx:48`, `:125`) |
| `search_faults` | violated: one path that may not be looked at ends a search that had a result (`search.cxx:99`) |
| `helper_path` | violated: the helper in `PATH` is not found (`search_helper.c:63`) |
| `ld_audit` | violated: `LD_AUDIT` is not put back (`audit.c:116`) |

Each property of a passing run has a mutant in its module, a slip the code could
have, that the run reports; the mutants are marked in the modules and used by no
specification.

### Bounds, and why they are enough

- `driver_search`: four paths, three directories (two paths name the first one),
  three libraries. Two paths are the least for an alias, two directories for a
  shared library, a third of each is the driver these are compared with; versions
  are 1 and 2 (3 in `Faults`), so that ties and both orders occur. The arguments
  make each search find something, nothing, or something a former one has seen.
- `parse_args`: three paths, lists of up to three tokens, up to three lines of
  stdin, which nest to depth three and return to callers with arguments left.
- `search_helper`: a buffer of three bytes behind a pipe of two; outputs shorter
  than, equal to and longer than the buffer and than both together, terminators
  at the start, inside and after each other; every `PATH` of two entries.
- `audit_shim`: up to three entries in `LD_AUDIT`, two of them the shim's, in
  different positions; six directories: paths of 20, 4065 and 4066 characters, the last
  of which leaves room for three of the four names only, one that a newline cuts to
  the first, one that begins with the path of a library in the first, and a relative
  one; two drivers in two first installations, so that one can replace the other, or
  come to a directory that had none;
  one change, two programs, two opened libraries each: two libraries and one change
  between them are the least for a mix. `MaxChanges`, `MaxPrograms` and `MaxOpened`
  bound counters of the environment only, and the theorems hold for all of them.
  `SIZE_MAX` is 65535, which is all that matters more than `PATH_MAX`.
- `launch`: three directories, one whose path fits the pipe at once and begins
  with a newline, and two that fill the buffer, one of them with a newline inside;
  three assignments of versions, with a driver that is unusable, incomplete or may
  not be looked at; the buffer and the pipe of `search_helper`.
- `path_utils`: every `LD_AUDIT` of up to six characters out of `:`, `/` and `x`,
  with two shims; every path of a shim of up to six characters out of `/`, `l` and
  `x`, with three `LD_AUDIT`s. Six characters are two entries with a directory
  each and an empty one between them, or four components; `PATH_MAX` is 9, and
  directories and prefixes are such that joins come out at 8 and at 9. Longer
  `LD_AUDIT`s have own entries of 7 to 10 characters, alone, with a delimiter, and
  behind or before others, so that slots come out on both sides of `PATH_MAX`.
- `library_probe`: two paths of one library of every sort (whole, incomplete,
  autocompat's own, the ifunc library, one that does not load) beside a third
  library, four calls, so that every path can be looked at and one again, and two
  loads of the ifunc library.

### Fairness

All of it is weak fairness of a process that is scheduled: the sequential
helper (`DriverSearch`, `ParseArgs`), the shim and the helper, each of its own
(`SearchHelper`, `Launch`), the programs of a launch (`AuditShim`), `la_version`
(`PathUtils`), a look-up and a constructor once they have begun (`LibraryProbe`).
It assumes that system calls and
`dlopen` return and that stdin does not block. Nothing is assumed of upgrades,
of signals, or of what the application opens or runs.

## Proofs

All theorems hold for every value of the constants under the assumptions named
in the modules, which say that the sets of inputs are of their types and that
bounds are numbers, and where more is needed what they stand for: the shim's path
ends in a file name, `lib` and the libraries' names have no slash, the
helper's begins with one (`PathUtils`), a directory's path is a path and not
empty, and its first line no longer than it, `SIZE_MAX` is no less than `PATH_MAX`
(`AuditShim`), and the helper is started without arguments (`Launch`). `PROJECT.json`
lists the theorems with the properties they state. All invariants that the
passing runs check are theorems, and so are the initial states and the steps of both
refinements.

### The search

`DriverSearchProofs` proves `TypeOK`, `CachesAgree`, `FoundIsUsable` and
`BestOfChecked`. The inductive invariant is the conjunction of the four. None of
the safety invariants is inductive alone: a directory that is skipped because its
inode is in the cache is dominated by the result only if the entry stands for the
same directory (`CachesAgree`), and a directory that is accepted is usable only
if the version in `verCache` is the library's own. `StepShape` reduces every
action to one call of `update_libcuda` or none, so that each invariant has one
lemma about `UpdateLibcuda`.

`SearchOutcomeProofs` goes on to what the search comes to: `SearchFindsBest`, the
final result equals `Reference`, and `ImplementsBestDriver`, the safety part of
`RefinesBestDriver`. A candidate is a triple of search function, loop element and
path, and `Behind` the usable ones behind the current position. The invariant
`Outcome` says that the result leads everything behind the position (in the order
`Beats`, which is total), that the later searches only run without a usable
application driver, and that every candidate behind the position was offered or
an application driver has ended the search. The key lemma is `ImprovesWhen`:
given the first four invariants, `update_libcuda` takes a directory exactly when
it is usable and newer than the result, so that caches and skips drop out of the
rest of the argument. `StepLooks` maps the five search functions to passing over,
offering and failing; the refinement then has one lemma for each.

These properties are conditional on `OneDevice`: without it they are false
(`search_devices`). `ImplementsBestDriver` has it as a hypothesis. What is left
without it is `ResultOnlyImproves`: the result is only replaced by one that
`update_libcuda` takes to be newer, and the caches only grow. `SearchAdvances` says,
also without it, that every step goes on in its loop or to a later part of `main`.

### The arguments

`ParseArgsProofs` proves `TypeOK`, `SearchIsGivenEachOnce`, `FaultEndsParsing` and
`ParsesEveryLine`, for every command line and every stdin. That a list has no
path twice is not inductive; that whatever it holds is also in its cache is what
makes it so (`Kept`), over all command lines that share the two.

That nothing is left out is said of the end of parsing only and has to be said of
every state. In the invariant `All`, every option of a line that was read is
either still ahead of a call that is in its first pass over that line
(`Pending`), or each of its tokens is in its cache or in the list that is being
added (`OptionTaken`); nothing is in a cache or in that list that was not asked
for (`CacheAsked`); and a list holds just what its cache has of its kind
(`Full`). Once all calls have returned nothing is pending, so that `pathSeen`
says whether any line has a `-p` (`NothingPending`), which is when the default
counts. `FaultSeen` makes the exception equivalent to a cached path that may not
be looked at. `Suffix`, that `lines` is the end of `input`, is there to know that
the line that is read next is the next one of `ReadLines`.

The order of the lists (`Ordered`) is a matter of what has been passed.
`OptionsPassed` are the places that are not ahead of the innermost call while it is at
its options, and all places once it is not; the paths on a list were each named at a
passed place, and a path named at one is in the cache (`Tracked`). A path that
is put on the list is not in the cache, so that all its places are ahead, behind each
place the paths before it were taken from (`TrackedMore`). That needs `Position`:
only the innermost call is at its options, its line is the one read last, and `todo` is
the end of the list of the option it has passed. A line that is read puts places behind
all others, which by then are passed (`ReadOrders`).

The lines are counted (`Counted`): while the program goes on, the lines read have one
`-` for each of them and those that some call has ahead (`DashesAhead`).
Reading a line passes one, and adds what the line has to both sides. So the line was asked for
(`Asked`); a `-` without a line is one too many (`LineMissing`); and once no call is
left the two are equal. What would end the program is ahead as well (`WellFormed`), so
that nothing ill formed is left when no call is, and each failing step has met its
reason (`Explained`).

`UsesUpWhatIsLeft` is about steps: each that changes anything lowers `LeftOver`, six natural
numbers in lexicographic order, which are the phase, the lines of stdin, the calls,
and in the innermost call its passes, its arguments and the tokens of the list
that is added. A `-` adds a call and uses up a line; a return takes a call away and leaves the
arguments of another, which is why calls come before arguments.

### Asking the helper

`SearchHelperProofs` proves `TypeOK` (the buffer keeps room for its nul),
`ResultIsWholeAnswer`, `NoChildLeft` and `StartsUsableHelper`, for every size of
the buffer and of the pipe and everything the helper may print. The invariant is
a conservation law, `Stream`: every byte the helper has written is in the buffer,
in the chunk `fread` has collected, or in the pipe, in this order. From it follows
that a buffer that has met the end of the stream or of a line is the answer
(`Answer`), and that a helper which could not write all of it does not exit with
success.

### The audit library

`AuditShimProofs` proves `TypeOK`, `RecursionBounded`, `OtherAuditorsKept`,
`AllOrNone`, `OneDriverPerProgram`, `RedirectedIsFound` and `RedirectedIsBound`, for
every `LD_AUDIT`, all lengths and every number of programs and upgrades. The nesting is bounded
because each waiting program pays with one entry for the shim: in `Good`, the
depth of a program plus the own entries that are left in its `LD_AUDIT` is at most
one more than those configured. `SanitizedCount` shows the payment with an
injection of the slots that are left into those before. `Good` also has
`OtherAuditorsKept`, in the form `Keeps`: the slots of a program's `LD_AUDIT` are
slots of the configured one, in order, and no slot of another library is missing.
It composes along the stack, since taking a slot out is itself such a map.
`Seen` says that what a helper has found is still in its directory, or that the
directory has changed since. `OpenedOK` relates what an application has opened to the
directory its paths were made from and, through `Seen`, to what was found there; two
libraries of that directory were opened with one driver in it or with a change between
them. That `la_objopen` matches an unset path by nothing is arithmetic: the characters
two strings have in common are fewer than `SIZE_MAX`, and a set path has a positive
length, at least as long as which only a path that begins with it agrees.

### The ifunc library and the look-up

`LibraryProbeProofs` proves `TypeOK`, `ClosedOnce`, `ReadyMeansLoaded`,
`LookupIsAtomic` and `OpenedOnce`. `ShimIInv` keeps the linker's count of each
library equal to the handles that are not `NULL`, through roll-back and a
destructor that runs after a roll-back; `LookupIInv` says at each step of the
look-up what the cache holds beyond `before`, and that what was opened is
cached.

### The whole query

`LaunchProofs` proves `AnswerIsBest`, `NothingOnlyWhenLost` and
`ImplementsHelperQuery`, the safety part of `RefinesHelperQuery`. It proves
nothing about the search or the pipe again: the two are instances of
`SearchOutcomeProofs` and `SearchHelperProofs`, whose step lemmas are stated
without `Spec`, and every step of `Launch` is a step of one of them or leaves
its variables alone. The new part of the invariant is `Link`: what a helper
prints is the spelling of the search's result, or nothing when the search failed
or did not start. With `SearchFindsBest` the output is the best directory, with
`ResultIsWholeAnswer` the answer is the output's first line, and with what the
pipe conserves a helper that ended well has had all of it read.

### The characters

`PathUtilsProofs` proves `TypeOK`, `SlotRemoved`, `RestoreUndoes`, `SiblingFound`
and `LibraryInDir`, for every `LD_AUDIT`, every path of the shim, every answer and
every `PATH_MAX`. The invariant adds two facts about the walks: in
`sanitize_ld_audit` the string is unedited, the cursor is at the start of an
entry, and no entry before it is the shim's (`Sanitizing`); in `path_prefix` the
cursor is at the start of a component and `match` belongs to the last library
directory before it (`Prefixing`). All three edits of a string are the front of
one string, delimiters or nothing, and the end of another; `RunsOfJoin` says when
the names in such a string are those of its two parts, and each property is an
application of it but `RestoreUndoes`. That one follows from what the walk knows when it
finds an entry: the slot it measures is the first own entry with its delimiter, so that
one that does not fit the backup is longer than `PATH_MAX` (`SlotLength`). The lemma's case of an empty middle needs one of the two parts to have
a delimiter where they meet, which is what `path_join`'s look at the separator and
`next_token`'s step over it see to. `WalksAdvance` says that each step of the two loops
goes to a later place of a string that does not change, and not beyond its end; an
empty entry is passed with its delimiter (`NextIsBehind`).

### Model-checked only

- Liveness everywhere (`EventuallySucceeds`, `ParsingEnds`, `ShimReturns`,
  `EveryProgramRuns`, `WalksEnd`, `LookupEnds`, and the fairness part of
  `RefinesBestDriver` and `RefinesHelperQuery`); the prover does not cover it.
  `SearchAdvances`, `UsesUpWhatIsLeft` and `WalksAdvance` prove the part of
  `EventuallySucceeds`, `ParsingEnds` and `WalksEnd` that is about single steps,
  that there are finitely many; that the next one is always enabled, and taken,
  is checked by TLC.

## Not modelled

- `ParseArgs`: the syntax of options (getopt's abbreviations and `--`), the
  splitting of a line of stdin into words, usage text.
- The shell that `popen` starts: that it finds the words of the helper's path and
  replaces itself by it is assumed.
- A file system that changes during a search; drivers that change between the
  search and their use are in `AuditShim`.
- `AuditShim`: two paths of one directory change in two steps and not in one, which is
  more than happens.
- How the dynamic linker walks the `LD_AUDIT` string while `la_version` edits
  it; this is not in the repository.
- What `autocompat_search` of the ifunc library would do, since it is declared
  and defined nowhere; its calls through function pointers are not written yet.
- The version printed in the log (`main.cxx:41`), logging, examples, the stub
  drivers and the build files: no state, or no decision depends on it.

## Plan

1. Done: `DriverSearch` with `BestDriver`, `ParseArgs`, `SearchHelper`,
   `AuditShim`.
2. Done: `PathUtils`, `IfuncShim`, `LibraryProbe`; `Launch` with `HelperQuery`.
3. Done: the proofs of all safety invariants, and of the implementation of
   `BestDriver` and of `HelperQuery`.
