---------------------------- MODULE SearchHelper ----------------------------
(***************************************************************************)
(* How the shim asks the helper for a driver directory: find_search_helper *)
(* and find_libcuda of src/utils/c/search_helper.c.                        *)
(*                                                                         *)
(* Two processes and a pipe: the shim looks for the helper next to itself  *)
(* and then in PATH, starts it with popen, reads what it prints and waits  *)
(* for it with pclose; the helper prints the directory, or nothing, and    *)
(* may be killed at any moment.  A path is the position it was built from  *)
(* and a byte is "newline", "nul" or one of Chars; the buffer and the pipe *)
(* hold a few bytes.                                                       *)
(***************************************************************************)
EXTENDS Integers, Sequences

CONSTANTS
  BufferSize,   \* PATH_MAX - 1, the bytes out_path has room for
  Chars,        \* the bytes that end nothing
  PipeSize,     \* what the pipe holds before a writer has to wait
  Outputs,      \* the directories the helper may print, as byte sequences
  Installs      \* where the helper may be, see Install

Byte == Chars \cup {"newline", "nul"}

ASSUME SizesAssumption == BufferSize \in Nat \ {0} /\ PipeSize \in Nat \ {0}
ASSUME CharsAssumption == Chars \cap {"newline", "nul"} = {}
ASSUME OutputsAssumption == Outputs \subseteq Seq(Byte) \ {<<>>}

(***************************************************************************)
(* An installation.  prefix: what path_prefix finds in the shim's own path *)
(* ("too_long" when joining libexec to it overflows).  sibling: whether    *)
(* the helper in that libexec may be executed.  path: the entries of PATH, *)
(* each with whether the joined path fits and whether there is a helper    *)
(* that may be executed; pathSet is whether PATH is set.  reaped: SIGCHLD  *)
(* is ignored by the application, so pclose finds no child to wait for.    *)
(***************************************************************************)
PathEntry == [fits : BOOLEAN, usable : BOOLEAN]

Install ==
  [prefix : {"found", "missing", "too_long"},
   sibling : BOOLEAN,
   pathSet : BOOLEAN,
   path : Seq(PathEntry),
   reaped : BOOLEAN]

ASSUME InstallsAssumption == Installs \subseteq Install

Cleared == -1     \* out_path holds the empty string
Sibling == 0      \* out_path holds <prefix>/libexec/cuda-autocompat-search
                  \* and i > 0: the helper's name joined to entry i of PATH

VARIABLES
  install,    \* the installation, fixed for the run
  pc,         \* where the shim is
  entry,      \* index of the next entry of PATH
  outPath,    \* the candidate find_search_helper has written last
  chunk,      \* bytes fread has read so far and not yet returned
  buffer,     \* bytes of out_path up to buf_cur
  output,     \* what the helper prints, if it is not killed; empty before
  pipe,       \* bytes in the pipe
  written,    \* how many bytes of output the helper has written
  readOpen,   \* whether the shim's end of the pipe is open
  helper      \* "none", "searching" and then "printing", or how it ended:
              \* "success", "failure", "killed"

shim == <<pc, entry, outPath, chunk, buffer>>
child == <<output, pipe, written, readOpen, helper>>
vars == <<install, pc, entry, outPath, chunk, buffer,
          output, pipe, written, readOpen, helper>>

Init ==
  /\ install \in Installs
  /\ pc = "sibling"
  /\ entry = 1
  /\ outPath = Cleared
  /\ chunk = <<>>
  /\ buffer = <<>>
  /\ output = <<>>
  /\ pipe = <<>>
  /\ written = 0
  /\ readOpen = FALSE
  /\ helper = "none"

-----------------------------------------------------------------------------
(* find_search_helper                                                      *)

\* access(out_path, R_OK | X_OK) == 0
Usable(loc) ==
  \/ loc = Sibling /\ install.sibling
  \/ loc > 0 /\ install.path[loc].usable

Goto(label) ==
  /\ pc' = label
  /\ UNCHANGED <<install, entry, chunk, buffer, child>>

NoHelper ==
  /\ outPath' = Cleared
  /\ Goto("returned")

SearchSibling ==
  /\ pc = "sibling"
  /\ \/ install.prefix # "found" /\ NoHelper
     \/ /\ install.prefix = "found"
        /\ \/ install.sibling /\ outPath' = Sibling /\ Goto("popen")
           \/ ~install.sibling /\ ~install.pathSet /\ NoHelper
           \/ ~install.sibling /\ install.pathSet /\ outPath' = Sibling /\ Goto("path")

\* Mutant of SearchPathEntry: the candidate is taken without access().
TakePathEntry ==
  /\ pc = "path"
  /\ entry <= Len(install.path)
  /\ install.path[entry].fits
  /\ outPath' = entry
  /\ entry' = entry + 1
  /\ pc' = "popen"
  /\ UNCHANGED <<install, chunk, buffer, child>>

\* The candidate of this entry is written only when it fits, and looked at
\* only when it does not: access then sees the candidate written before.
SearchPathEntry ==
  /\ pc = "path"
  /\ entry <= Len(install.path)
  /\ \/ /\ install.path[entry].fits
        /\ outPath' = entry
        /\ entry' = entry + 1
        /\ pc' = pc
     \/ /\ ~install.path[entry].fits
        /\ Usable(outPath)
        /\ pc' = "popen"
        /\ UNCHANGED <<entry, outPath>>
     \/ /\ ~install.path[entry].fits
        /\ ~Usable(outPath)
        /\ entry' = entry + 1
        /\ UNCHANGED <<pc, outPath>>
  /\ UNCHANGED <<install, chunk, buffer, child>>

PathExhausted ==
  /\ pc = "path"
  /\ entry > Len(install.path)
  /\ NoHelper

-----------------------------------------------------------------------------
(* find_libcuda                                                            *)

Popen ==
  /\ pc = "popen"
  /\ \/ Goto("returned") /\ UNCHANGED outPath
     \/ /\ pc' = "fread"
        /\ helper' = "searching"
        /\ readOpen' = TRUE
        /\ UNCHANGED <<install, entry, outPath, chunk, buffer, output, pipe, written>>

Alive == helper \in {"searching", "printing"}

\* Mutant of Remaining: no room is left for the terminating nul.
RemainingWithNul == BufferSize + 1 - Len(buffer)

Remaining == BufferSize - Len(buffer)

\* fread keeps reading until it has all it was asked for or sees the end.
FreadSome ==
  /\ pc = "fread"
  /\ pipe # <<>>
  /\ Len(chunk) < Remaining
  /\ chunk' = Append(chunk, Head(pipe))
  /\ pipe' = Tail(pipe)
  /\ UNCHANGED <<install, pc, entry, outPath, buffer, output, written, readOpen, helper>>

\* Mutant of AtEnd: a helper that fails never ends the stream.
AtEndOfSuccess == pipe = <<>> /\ helper = "success"

AtEnd == pipe = <<>> /\ ~Alive

\* memchr for a nul in the whole chunk first, then for a newline.
Positions(b) == {i \in 1..Len(chunk) : chunk[i] = b}
EndOfData == IF Positions("nul") # {} THEN Positions("nul") ELSE Positions("newline")

\* Mutant of Clean: the path is cut at the last terminator.
CleanToLast(i) == \A j \in EndOfData : i >= j

Clean(i) == \A j \in EndOfData : i <= j

FreadReturns ==
  /\ pc = "fread"
  /\ Len(chunk) = Remaining \/ AtEnd
  /\ \/ /\ chunk # <<>>
        /\ EndOfData = {}
        /\ buffer' = buffer \o chunk
        /\ pc' = IF Len(chunk) = Remaining THEN "pclose" ELSE "fread"
     \/ /\ EndOfData # {}
        /\ \E i \in EndOfData : Clean(i) /\ buffer' = buffer \o SubSeq(chunk, 1, i - 1)
        /\ pc' = "pclose"
     \/ /\ chunk = <<>>
        /\ pc' = "pclose"
        /\ UNCHANGED buffer
  /\ chunk' = <<>>
  /\ UNCHANGED <<install, entry, outPath, child>>

\* pclose closes the shim's end of the pipe and waits for the helper.
Pclose ==
  /\ pc = "pclose"
  /\ readOpen' = FALSE
  /\ pc' = "wait"
  /\ UNCHANGED <<install, entry, outPath, chunk, buffer, output, pipe, written, helper>>

\* Mutant of Wait: the helper is not waited for and its status is ignored.
WaitNot ==
  /\ pc = "wait"
  /\ pc' = "returned"
  /\ UNCHANGED <<install, entry, outPath, chunk, buffer, child>>

Wait ==
  /\ pc = "wait"
  /\ ~Alive
  /\ pc' = "returned"
  /\ buffer' = IF helper = "success" /\ ~install.reaped THEN buffer ELSE <<>>
  /\ UNCHANGED <<install, entry, outPath, chunk, child>>

Shim ==
  \/ SearchSibling \/ SearchPathEntry \/ PathExhausted
  \/ Popen \/ FreadSome \/ FreadReturns \/ Pclose \/ Wait

-----------------------------------------------------------------------------
(* The helper, seen from its pipe: DriverSearch says what it prints.       *)

\* Its search is over: it prints one of Outputs and succeeds, or prints
\* nothing and fails.
HelperPrints ==
  /\ helper = "searching"
  /\ output' \in Outputs \cup {<<>>}
  /\ helper' = "printing"
  /\ UNCHANGED <<install, shim, pipe, written, readOpen>>

HelperWrite ==
  /\ helper = "printing"
  /\ written < Len(output)
  /\ \/ /\ readOpen
        /\ Len(pipe) < PipeSize
        /\ pipe' = Append(pipe, output[written + 1])
        /\ written' = written + 1
        /\ UNCHANGED helper
     \/ /\ ~readOpen                      \* SIGPIPE
        /\ helper' = "killed"
        /\ UNCHANGED <<pipe, written>>
  /\ UNCHANGED <<install, shim, output, readOpen>>

HelperExit ==
  /\ helper = "printing"
  /\ written = Len(output)
  /\ helper' = IF output # <<>> THEN "success" ELSE "failure"
  /\ UNCHANGED <<install, shim, output, pipe, written, readOpen>>

\* The helper aborts, or something kills it.
HelperKilled ==
  /\ Alive
  /\ helper' = "killed"
  /\ UNCHANGED <<install, shim, output, pipe, written, readOpen>>

Helper == HelperPrints \/ HelperWrite \/ HelperExit

Ended == pc = "returned" /\ UNCHANGED vars

Next == Shim \/ Helper \/ HelperKilled \/ Ended

\* Both processes are scheduled; nothing has to kill the helper.
Spec == Init /\ [][Next]_vars /\ WF_vars(Shim) /\ WF_vars(Helper)

-----------------------------------------------------------------------------
(* Properties                                                              *)

\* The type invariant; what has been read never exceeds out_path, of which
\* one byte stays for the terminating nul.
TypeOK ==
  /\ install \in Install
  /\ pc \in {"sibling", "path", "popen", "fread", "pclose", "wait", "returned"}
  /\ entry \in 1..(Len(install.path) + 1)
  /\ outPath \in {Cleared, Sibling} \cup 1..Len(install.path)
  /\ chunk \in Seq(Byte)
  /\ buffer \in Seq(Byte)
  /\ Len(buffer) + Len(chunk) <= BufferSize
  /\ output \in Outputs \cup {<<>>}
  /\ pipe \in Seq(Byte)
  /\ Len(pipe) <= PipeSize
  /\ written \in 0..Len(output)
  /\ readOpen \in BOOLEAN
  /\ helper \in {"none", "searching", "printing", "success", "failure", "killed"}

\* What cuda-autocompat-search can print: a path that stat(2) accepted.
IsPath(o) == Len(o) <= BufferSize /\ \A i \in 1..Len(o) : o[i] # "nul"

\* The part of the output in front of the first newline.
FirstLine(o) ==
  LET ends == {i \in 1..Len(o) : o[i] = "newline"} IN
  IF ends = {} THEN o
  ELSE SubSeq(o, 1, (CHOOSE i \in ends : \A j \in ends : i <= j) - 1)

\* find_libcuda returns the line the helper printed, and only after the
\* helper has exited successfully: however the output is cut into reads, a
\* helper that is killed half way, also after its last write, leaves no
\* directory behind, and an answer is lost only if the child was reaped.
ResultIsWholeAnswer ==
  pc = "returned" /\ IsPath(output) =>
    buffer = IF helper = "success" /\ ~install.reaped THEN FirstLine(output) ELSE <<>>

\* la_version returns only when the helper is gone: the shim leaves no child
\* behind that the application does not know of.
NoChildLeft == pc = "returned" => ~Alive

\* Only a helper that access() allows is started, although out_path still
\* holds an older candidate when joining the next one overflows, and the one
\* next to the shim wins over PATH.
StartsUsableHelper ==
  pc \in {"popen", "fread", "pclose", "wait"} =>
    /\ Usable(outPath)
    /\ install.sibling => outPath = Sibling

\* The shim always returns: it does not wait for a helper that waits for it,
\* also when the helper prints more than the pipe holds or the shim reads.
ShimReturns == <>(pc = "returned")

\* search_helper.c:52, "Couldn't find it in libexec so we need to search
\* PATH": the search gives up only when no entry of PATH has the helper.
PathIsSearched ==
  pc = "returned" /\ outPath = Cleared /\ install.prefix = "found" /\ install.pathSet =>
    \A i \in 1..Len(install.path) : ~(install.path[i].fits /\ install.path[i].usable)
=============================================================================
