----------------------------- MODULE ParseArgs ------------------------------
(***************************************************************************)
(* The arguments of cuda-autocompat-search: parse_args.cxx.                *)
(*                                                                         *)
(* getopt hands over the options of a command line in order and leaves the *)
(* other arguments for later.  Each of those must be "-", which reads one  *)
(* line of stdin as a further command line and parses it recursively; the  *)
(* lists, their caches and the -p flag are shared by all of them, and so   *)
(* is getopt's position in the command line.  A -p list keeps directories, *)
(* a -l list regular files, each path once.  Without any -p the dynamic    *)
(* linker's search path is added.  A path is an opaque name; the empty     *)
(* name is the empty token of a colon-separated list.                      *)
(***************************************************************************)
EXTENDS Integers, SequencesExt

CONSTANTS
  Path,        \* the paths that lists may name
  Empty,       \* the empty token
  Here,        \* the path "." the empty token of a -p list stands for
  FileKinds,   \* what the paths may be, see Init
  CommandLines,\* command lines the program may be started with
  Inputs,      \* what stdin may hold, as sequences of command lines
  DefaultPaths \* search paths of the dynamic linker

Kind == {"directory", "file", "absent", "denied"}

\* A getopt option with its list, "usage" for -h and for what getopt reports
\* as an error, "stdin" for the argument "-", "junk" for any other argument.
Argument ==
  [arg : {"-p", "-l", "usage", "stdin", "junk"}, list : Seq(Path \cup {Empty})]
CommandLine == Seq(Argument)
Options == {"-p", "-l", "usage"}

ASSUME HereAssumption == Here \in Path /\ Empty \notin Path
ASSUME KindsAssumption == FileKinds \subseteq [Path -> Kind]
ASSUME LinesAssumption ==
  CommandLines \subseteq CommandLine /\ Inputs \subseteq Seq(CommandLine)
ASSUME DefaultsAssumption == DefaultPaths \subseteq Seq(Path \cup {Empty})

VARIABLES
  kind,       \* what each path is, fixed
  argv,       \* the command line of the program, fixed
  input,      \* stdin at the start, fixed
  default,    \* the dynamic linker's search path, fixed; {} if it fails
  calls,      \* the calls of parse_args_helper, the innermost one last
  lines,      \* what is left of stdin
  todo,       \* tokens of the list that is being added
  dirMode,    \* whether they are directories
  paths, pathCache, libs, libCache,
  pathSeen,   \* arg_search_path_seen
  status      \* "options", "default" or "done", "failed", "aborted"

inputs == <<kind, argv, input, default>>
lists == <<paths, pathCache, libs, libCache>>
vars == <<kind, argv, input, default, calls, lines, todo, dirMode,
          paths, pathCache, libs, libCache, pathSeen, status>>

\* A call: its command line, the pass over it and the position in it.
Call(line) == [line |-> line, pass |-> "options", next |-> 1]

Init ==
  /\ kind \in FileKinds
  /\ argv \in CommandLines
  /\ input \in Inputs
  /\ default \in {{d} : d \in DefaultPaths} \cup {{}}
  /\ calls = <<Call(argv)>>
  /\ lines = input
  /\ todo = <<>>
  /\ dirMode = TRUE
  /\ paths = <<>>
  /\ pathCache = {}
  /\ libs = <<>>
  /\ libCache = {}
  /\ pathSeen = FALSE
  /\ status = "options"

Innermost == Last(calls)
\* Mutant of Advance: an option's list is passed over twice.
AdvanceTwice == [Innermost EXCEPT !.next = @ + 2]
Advance == [Innermost EXCEPT !.next = @ + 1]
SetInnermost(c) == calls' = ReplaceAt(calls, Len(calls), c)

-----------------------------------------------------------------------------
(* add_path, for the tokens parse_paths finds                              *)

Wanted == IF dirMode THEN "directory" ELSE "file"
Cache == IF dirMode THEN pathCache ELSE libCache
Named(token) == IF token = Empty THEN Here ELSE token

\* Mutant of Keeps: whatever exists is kept.
KeepsExisting(p) == p \notin Cache /\ kind[p] \in {"directory", "file"}

\* The path is new, exists and is what the list is for.
Keeps(p) == p \notin Cache /\ kind[p] = Wanted

\* Mutant of SkipEmpty: the position does not move past the empty token.
SkipEmptyStays ==
  /\ todo # <<>>
  /\ Head(todo) = Empty /\ ~dirMode
  /\ status = "options"
  /\ UNCHANGED vars

SkipEmpty ==
  /\ todo # <<>>
  /\ Head(todo) = Empty /\ ~dirMode
  /\ status = "options"
  /\ todo' = Tail(todo)
  /\ UNCHANGED <<inputs, calls, lines, dirMode, lists, pathSeen, status>>

\* Mutant of Faults: exists() is given an error code to set.
FaultsNever(p) == FALSE

\* exists() throws for a path that may not be looked at.
Faults(p) == p \notin Cache /\ kind[p] = "denied"

AddPath ==
  /\ todo # <<>>
  /\ Head(todo) # Empty \/ dirMode
  /\ status \in {"options", "default"}
  /\ LET p == Named(Head(todo)) IN
     /\ IF dirMode
        THEN /\ pathCache' = pathCache \cup {p}
             /\ paths' = IF Keeps(p) THEN Append(paths, p) ELSE paths
             /\ UNCHANGED <<libs, libCache>>
        ELSE /\ libCache' = libCache \cup {p}
             /\ libs' = IF Keeps(p) THEN Append(libs, p) ELSE libs
             /\ UNCHANGED <<paths, pathCache>>
     /\ status' = IF Faults(p) THEN "aborted" ELSE status
  /\ todo' = Tail(todo)
  /\ UNCHANGED <<inputs, calls, lines, dirMode, pathSeen>>

-----------------------------------------------------------------------------
(* parse_args_helper                                                       *)

Parsing(pass) ==
  /\ status = "options"
  /\ todo = <<>>
  /\ calls # <<>>
  /\ Innermost.pass = pass

Current == Innermost.line[Innermost.next]
AtEnd == Innermost.next > Len(Innermost.line)

\* getopt leaves what is no option to the second pass.
ParseOption ==
  /\ Parsing("options")
  /\ ~AtEnd
  /\ SetInnermost(Advance)
  /\ IF Current.arg \in {"-p", "-l"}
     THEN /\ todo' = Current.list
          /\ dirMode' = (Current.arg = "-p")
     ELSE UNCHANGED <<todo, dirMode>>
  /\ pathSeen' = (pathSeen \/ Current.arg = "-p")
  /\ status' = IF Current.arg = "usage" THEN "failed" ELSE status
  /\ UNCHANGED <<inputs, lines, lists>>

OptionsEnd ==
  /\ Parsing("options")
  /\ AtEnd
  /\ SetInnermost([Innermost EXCEPT !.pass = "arguments", !.next = 1])
  /\ UNCHANGED <<inputs, lines, todo, dirMode, lists, pathSeen, status>>

\* An argument that is not "-", and a line that is missing or has no words,
\* end the program.
ParseArgument ==
  /\ Parsing("arguments")
  /\ ~AtEnd
  /\ \/ /\ Current.arg \in Options
        /\ SetInnermost(Advance)
        /\ UNCHANGED <<lines, status>>
     \/ /\ \/ Current.arg = "junk" /\ UNCHANGED lines
           \/ Current.arg = "stdin" /\ lines = <<>> /\ UNCHANGED lines
           \/ /\ Current.arg = "stdin"
              /\ lines # <<>>
              /\ Head(lines) = <<>>
              /\ lines' = Tail(lines)
        /\ status' = "failed"
        /\ UNCHANGED calls
     \/ /\ Current.arg = "stdin"
        /\ lines # <<>>
        /\ Head(lines) # <<>>
        /\ lines' = Tail(lines)
        /\ calls' = Append(ReplaceAt(calls, Len(calls), Advance), Call(Head(lines)))
        /\ UNCHANGED status
  /\ UNCHANGED <<inputs, todo, dirMode, lists, pathSeen>>

\* Mutant of HelperReturns: the caller's loop uses getopt's position, which
\* the recursive call has moved, and ends as well.
HelperReturnsTwice ==
  /\ Parsing("arguments")
  /\ AtEnd
  /\ calls' = IF Len(calls) > 1 THEN Front(Front(calls)) ELSE <<>>
  /\ UNCHANGED <<inputs, lines, todo, dirMode, lists, pathSeen, status>>

\* The caller goes on with the arguments it had when it made the call.
HelperReturns ==
  /\ Parsing("arguments")
  /\ AtEnd
  /\ calls' = Front(calls)
  /\ UNCHANGED <<inputs, lines, todo, dirMode, lists, pathSeen, status>>

-----------------------------------------------------------------------------
(* parse_args                                                              *)

ParseArgsEnds ==
  /\ status = "options"
  /\ todo = <<>>
  /\ calls = <<>>
  /\ \/ pathSeen /\ status' = "done" /\ UNCHANGED <<todo, dirMode>>
     \/ ~pathSeen /\ default = {} /\ status' = "failed" /\ UNCHANGED <<todo, dirMode>>
     \/ /\ ~pathSeen
        /\ default # {}
        /\ status' = "default"
        /\ todo' \in default
        /\ dirMode' = TRUE
  /\ UNCHANGED <<inputs, calls, lines, lists, pathSeen>>

DefaultEnds ==
  /\ status = "default"
  /\ todo = <<>>
  /\ status' = "done"
  /\ UNCHANGED <<inputs, calls, lines, todo, dirMode, lists, pathSeen>>

Ended == status \in {"done", "failed", "aborted"} /\ UNCHANGED vars

Next ==
  \/ SkipEmpty \/ AddPath
  \/ ParseOption \/ OptionsEnd \/ ParseArgument \/ HelperReturns
  \/ ParseArgsEnds \/ DefaultEnds
  \/ Ended

\* A sequential process that is scheduled; stdin does not block.
Spec == Init /\ [][Next]_vars /\ WF_vars(Next)

-----------------------------------------------------------------------------
(* Properties                                                              *)

\* The type invariant.
TypeOK ==
  /\ \A i \in 1..Len(calls) :
       /\ calls[i].line \in CommandLine
       /\ calls[i].pass \in {"options", "arguments"}
       /\ calls[i].next \in 1..(Len(calls[i].line) + 1)
  /\ lines \in Seq(CommandLine)
  /\ todo \in Seq(Path \cup {Empty})
  /\ dirMode \in BOOLEAN
  /\ paths \in Seq(Path) /\ libs \in Seq(Path)
  /\ pathCache \in SUBSET Path /\ libCache \in SUBSET Path
  /\ pathSeen \in BOOLEAN
  /\ status \in {"options", "default", "done", "failed", "aborted"}

\* The command lines that are read: the program's and those from stdin.
ReadLines == {argv} \cup {input[i] : i \in 1..Len(input) - Len(lines)}

\* The tokens of their options a.
TokensOf(a) ==
  {t \in Path \cup {Empty} :
     \E line \in ReadLines : \E i \in 1..Len(line) :
       line[i].arg = a /\ t \in Range(line[i].list)}

PathGiven == \E line \in ReadLines : \E i \in 1..Len(line) : line[i].arg = "-p"
DefaultTokens == UNION {Range(d) : d \in default}

\* The paths the search is to look at.
AskedDirs == {Named(t) : t \in IF PathGiven THEN TokensOf("-p") ELSE DefaultTokens}
AskedLibs == TokensOf("-l") \ {Empty}

\* What the search relies on: it is given every directory and every library
\* that any command line names, at whatever depth and in whatever part of it, and
\* no other; each is there, is what its list says, and is searched once, however
\* often it was named.  The dynamic linker's search path counts exactly when no
\* command line has a -p, which only the last one read may have
\* (parse_args.cxx:344).
SearchIsGivenEachOnce ==
  /\ \A i \in 1..Len(paths) : kind[paths[i]] = "directory"
  /\ \A i \in 1..Len(libs) : kind[libs[i]] = "file"
  /\ IsInjective(paths) /\ IsInjective(libs)
  /\ status = "done" =>
       /\ Range(paths) = {p \in AskedDirs : kind[p] = "directory"}
       /\ Range(libs) = {p \in AskedLibs : kind[p] = "file"}

\* The search never starts with a list from which a path was left out because
\* it may not be looked at (parse_args.cxx:157 throws), and the program is
\* not ended by a path that no command line it has read and no default that
\* counts asked for.
FaultEndsParsing ==
  LET denied == {p \in AskedDirs \cup AskedLibs : kind[p] = "denied"}
  IN /\ status = "done" => denied = {}
     /\ status = "aborted" => denied # {}

\* How many lines of stdin have been read; line l of them, and line 0, the
\* program's own; where the arguments a are in the first l lines.
Read == Len(input) - Len(lines)
LineAt(l) == IF l = 0 THEN argv ELSE input[l]
Arguments(a, l) ==
  UNION {{m} \X {i \in 1..Len(LineAt(m)) : LineAt(m)[i].arg = a} : m \in 0..l}

\* Where the lists of options a name a path: line, argument, token.
ListAt(o) == LineAt(o[1])[o[2]].list
Names(a, t) == IF a = "-p" THEN Named(t) ELSE t
Places(a) ==
  [p \in Path |->
     UNION {{o[1]} \X {o[2]} \X {j \in 1..Len(ListAt(o)) : Names(a, ListAt(o)[j]) = p} :
              o \in Arguments(a, Read)}]
DefaultPlaces ==
  [p \in Path |->
     UNION {{0} \X {0} \X {j \in 1..Len(d) : Named(d[j]) = p} : d \in default}]
DirPlaces == IF PathGiven THEN Places("-p") ELSE DefaultPlaces

Before(u, v) ==
  \/ u[1] < v[1]
  \/ u[1] = v[1] /\ u[2] < v[2]
  \/ u[1] = v[1] /\ u[2] = v[2] /\ u[3] < v[3]

\* A path is listed before another when it is named before it for the first time.
InOrder(list, places) ==
  \A x, y \in 1..Len(list) :
    x < y => \E u \in places[list[x]] : \A v \in places[list[y]] : Before(u, v)

\* A read line that ends the program.
IllFormed ==
  \/ \E line \in ReadLines : \E i \in 1..Len(line) : line[i].arg \in {"usage", "junk"}
  \/ \E l \in 1..Read : input[l] = <<>>
LineMissing == lines = <<>> /\ Cardinality(Arguments("stdin", Read)) > Read

\* A line of stdin is read only for a "-" of a line before it, one line for
\* each.  The program goes on exactly when every command line it read is well
\* formed and every "-" had its line, and then with lists in the order in which
\* the command lines first name their paths, line after line although the calls
\* are nested; the search walks them in that order.  It ends in failure only for
\* a line that is ill formed or missing, or for want of a search path.
ParsesEveryLine ==
  /\ \A l \in 1..Read : Cardinality(Arguments("stdin", l - 1)) >= l
  /\ status = "done" =>
       /\ ~IllFormed
       /\ Cardinality(Arguments("stdin", Read)) = Read
       /\ InOrder(paths, DirPlaces) /\ InOrder(libs, Places("-l"))
  /\ status = "failed" => IllFormed \/ LineMissing \/ (~PathGiven /\ default = {})

\* Parsing ends, whatever stdin asks to be read from stdin.
ParsingEnds == <>(status \in {"done", "failed", "aborted"})
=============================================================================
