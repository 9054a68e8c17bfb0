------------------------------- MODULE Launch -------------------------------
(***************************************************************************)
(* One call of find_libcuda from end to end: the shim of SearchHelper, the *)
(* pipe, and behind it the search of DriverSearch in place of a helper     *)
(* that prints anything.  The shim starts the helper without arguments, so *)
(* the search is given no libraries, and the dynamic linker's own search   *)
(* path; the helper searches while the shim already waits for its first    *)
(* byte, and either of them may find the other one gone.                   *)
(***************************************************************************)
EXTENDS Integers, Sequences

CONSTANTS
  Path, Dir, Lib, Inode, FileSystems, Arguments,   \* see DriverSearch
  BufferSize, PipeSize, Chars, Installs,           \* see SearchHelper
  Spelling      \* the bytes of each path

VARIABLES
  fs, args, phase, next, found, dirPathCache, dirInodeCache, verCache,
  install, pc, entry, outPath, chunk, buffer,
  output, pipe, written, readOpen, helper

searchVars == <<fs, args, phase, next, found, dirPathCache, dirInodeCache, verCache>>
shimVars == <<install, pc, entry, outPath, chunk, buffer,
              output, pipe, written, readOpen, helper>>
vars == <<searchVars, shimVars>>

Search == INSTANCE DriverSearch
Shim == INSTANCE SearchHelper WITH Outputs <- {Spelling[p] : p \in Path}

ASSUME SearchAssumption ==
  FileSystems \subseteq Search!FileSystem /\ Arguments \subseteq Search!Argument
ASSUME ShimAssumption ==
  /\ BufferSize \in Nat \ {0} /\ PipeSize \in Nat \ {0}
  /\ Chars \cap {"newline", "nul"} = {}
  /\ Installs \subseteq Shim!Install
ASSUME SpellingAssumption ==
  \A p \in Path : /\ Spelling[p] \in Seq(Shim!Byte) \ {<<>>}
                 /\ Shim!IsPath(Spelling[p])
ASSUME NoArgumentsAssumption == \A a \in Arguments : a.libs = <<>>

Init == Search!Init /\ Shim!Init

-----------------------------------------------------------------------------

\* main() of the helper, from the end of parse_args to the result.
HelperSearches ==
  /\ helper = "searching"
  /\ phase \in Search!Searching
  /\ Search!Next
  /\ UNCHANGED shimVars

Printed ==
  IF phase = "success" THEN Spelling[(CHOOSE r \in found : TRUE).dir] ELSE <<>>

HelperPrints ==
  /\ phase \in {"success", "failure"}
  /\ Shim!HelperPrints
  /\ output' = Printed
  /\ UNCHANGED searchVars

\* The dynamic linker does not tell its search path: parse_args fails.
NoSearchPath ==
  /\ phase = "libraries_libcuda"
  /\ Shim!HelperPrints
  /\ output' = <<>>
  /\ UNCHANGED searchVars

\* std::terminate after an exception that nothing catches.
HelperAborts ==
  /\ phase = "aborted"
  /\ Shim!HelperKilled
  /\ UNCHANGED searchVars

HelperWrites ==
  /\ Shim!HelperWrite \/ Shim!HelperExit
  /\ UNCHANGED searchVars

\* Something kills the helper, in its search or while it prints.
HelperKilled ==
  /\ Shim!HelperKilled
  /\ UNCHANGED searchVars

ShimSteps ==
  /\ Shim!Shim
  /\ UNCHANGED searchVars

Helper == HelperSearches \/ HelperPrints \/ NoSearchPath \/ HelperAborts \/ HelperWrites

Ended == pc = "returned" /\ UNCHANGED vars

Next == ShimSteps \/ Helper \/ HelperKilled \/ Ended

\* Both processes are scheduled; nothing has to kill the helper.
Spec == Init /\ [][Next]_vars /\ WF_vars(ShimSteps) /\ WF_vars(Helper)

-----------------------------------------------------------------------------
(* Properties                                                              *)

Returned == pc = "returned"
Answer == IF Returned /\ buffer # <<>> THEN {buffer} ELSE {}
Best == {Shim!FirstLine(Spelling[r.dir]) : r \in Search!Reference}

\* Whatever la_version joins library names to is the directory of the best
\* driver there is: no driver of a search that was cut short, that crashed
\* after a first result or that was killed while it printed, and none that
\* another helper's or another library's bytes have got into.  A directory
\* whose path has a newline is cut there, and one whose path begins with it
\* is no answer.
AnswerIsBest == Search!OneDevice => Answer \subseteq Best

\* A usable driver is lost to the application only when the helper could not
\* be found, started or waited for, when it did not come to its end, or when
\* the dynamic linker's search path is unknown: neither the caches nor the
\* pipe ever lose one.  Of a directory whose path begins with a newline the
\* helper prints an empty line, which is no answer although nothing was lost.
Lost ==
  \/ helper = "none"
  \/ helper = "killed"
  \/ helper = "failure" /\ phase = "libraries_libcuda"
  \/ install.reaped

NothingOnlyWhenLost ==
  Search!OneDevice /\ Returned /\ Answer = {} /\ Best \ {<<>>} # {} => Lost

\* The two processes implement the one question of HelperQuery: the answer
\* comes in one step, once, is the best driver or nothing, and comes.
Query ==
  INSTANCE HelperQuery WITH
    Line <- {Shim!FirstLine(Spelling[p]) : p \in Path},
    best <- Best,
    status <- IF Returned THEN "answered" ELSE "asked",
    answer <- Answer

RefinesHelperQuery == Query!Spec
=============================================================================
