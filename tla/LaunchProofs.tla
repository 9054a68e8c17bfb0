---------------------------- MODULE LaunchProofs ----------------------------
(***************************************************************************)
(* Theorems about Launch: for every file system on one device, every       *)
(* arguments, every installation, every buffer and every pipe, the two     *)
(* processes answer the one question of HelperQuery.                       *)
(*                                                                         *)
(* Nothing of the search or of the pipe is proved again: the invariants of *)
(* SearchOutcomeProofs and SearchHelperProofs hold of the composition,     *)
(* because each of its steps is a step of theirs or one they do not see.   *)
(* What is new is Link, which ties the bytes in the pipe to the result the *)
(* search has come to.                                                     *)
(***************************************************************************)
EXTENDS Launch, TLAPS

S == INSTANCE SearchOutcomeProofs
H == INSTANCE SearchHelperProofs WITH Outputs <- {Spelling[p] : p \in Path}

-----------------------------------------------------------------------------
(* The components of Launch are the modules the proofs are about           *)

LEMMA SameSearch ==
  /\ Search!Init <=> S!Init
  /\ Search!Next <=> S!Next
  BY DEF Search!Next, S!Next, Search!vars, S!vars, Search!Init, S!Init,
         Search!Ended, S!Ended, Search!Report, S!Report,
         Search!AfterSearch, S!AfterSearch, Search!Following, S!Following,
         Search!LoopLength, S!LoopLength, Search!Enter, S!Enter,
         Search!AfterLoaded, S!AfterLoaded,
         Search!SearchPathsLibcuda, S!SearchPathsLibcuda,
         Search!SearchPathsLibcudart, S!SearchPathsLibcudart,
         Search!SearchCudaHome, S!SearchCudaHome,
         Search!SearchLibrariesLibcudart, S!SearchLibrariesLibcudart,
         Search!SearchLibrariesLibcuda, S!SearchLibrariesLibcuda, Search!Stop, S!Stop,
         Search!OfferExisting, S!OfferExisting, Search!Offer, S!Offer,
         Search!Skip, S!Skip, Search!Abort, S!Abort, Search!Continue, S!Continue,
         Search!UpdateLibcuda, S!UpdateLibcuda, Search!Improves, S!Improves,
         Search!Accepted, S!Accepted, Search!Throws, S!Throws,
         Search!HasDriver, S!HasDriver, Search!Fresh, S!Fresh,
         Search!VerCacheAfter, S!VerCacheAfter, Search!GetApiVer, S!GetApiVer,
         Search!Remembered, S!Remembered, Search!Probe, S!Probe,
         Search!LibInode, S!LibInode, Search!DirInode, S!DirInode,
         Search!StatusThrows, S!StatusThrows, Search!LibcudaExists, S!LibcudaExists,
         Search!Libcuda, S!Libcuda, Search!Parsed, S!Parsed,
         Search!Searching, S!Searching, Search!Terminal, S!Terminal,
         Search!searchState, S!searchState, Search!inputs, S!inputs,
         Search!NotCached, S!NotCached, Search!Soname, S!Soname

LEMMA SameResult ==
  /\ Search!OneDevice <=> S!OneDevice
  /\ Search!Reference = S!Reference
  BY DEF Search!OneDevice, S!OneDevice, Search!Reference, S!Reference,
         Search!Loaded, S!Loaded, Search!Discovered, S!Discovered,
         Search!Before, S!Before, Search!Usable, S!Usable, Search!Probe, S!Probe,
         Search!Libcuda, S!Libcuda, Search!Stop, S!Stop, Search!Soname, S!Soname

\* The assumptions of DriverSearch hold of the constants of Launch.
LEMMA SearchInstance ==
  FileSystems \subseteq S!FileSystem /\ Arguments \subseteq S!Argument
  BY SearchAssumption
     DEF Search!FileSystem, S!FileSystem, Search!Argument, S!Argument,
         Search!Entry, S!Entry, Search!Runtime, S!Runtime, Search!Soname, S!Soname,
         Search!Library, S!Library

LEMMA SameShim ==
  /\ Shim!Init <=> H!Init
  /\ Shim!Shim <=> H!Shim
  /\ Shim!HelperPrints <=> H!HelperPrints
  /\ Shim!HelperWrite <=> H!HelperWrite
  /\ Shim!HelperExit <=> H!HelperExit
  /\ Shim!HelperKilled <=> H!HelperKilled
  /\ \A o : Shim!FirstLine(o) = H!FirstLine(o)
  /\ \A o : Shim!IsPath(o) <=> H!IsPath(o)
  BY DEF Shim!Init, H!Init, Shim!Shim, H!Shim, Shim!HelperPrints, H!HelperPrints,
         Shim!HelperWrite, H!HelperWrite, Shim!HelperExit, H!HelperExit,
         Shim!HelperKilled, H!HelperKilled, Shim!SearchSibling, H!SearchSibling,
         Shim!SearchPathEntry, H!SearchPathEntry, Shim!PathExhausted, H!PathExhausted,
         Shim!Popen, H!Popen, Shim!FreadSome, H!FreadSome,
         Shim!FreadReturns, H!FreadReturns, Shim!Pclose, H!Pclose, Shim!Wait, H!Wait,
         Shim!NoHelper, H!NoHelper, Shim!Goto, H!Goto, Shim!Usable, H!Usable,
         Shim!Remaining, H!Remaining, Shim!AtEnd, H!AtEnd, Shim!Alive, H!Alive,
         Shim!Positions, H!Positions, Shim!EndOfData, H!EndOfData, Shim!Clean, H!Clean,
         Shim!Cleared, H!Cleared, Shim!Sibling, H!Sibling, Shim!shim, H!shim,
         Shim!child, H!child, Shim!FirstLine, H!FirstLine, Shim!IsPath, H!IsPath

\* The assumptions of SearchHelper hold of the constants of Launch.
LEMMA ShimInstance ==
  /\ BufferSize \in Nat \ {0} /\ PipeSize \in Nat \ {0}
  /\ Chars \cap {"newline", "nul"} = {}
  /\ {Spelling[p] : p \in Path} \subseteq Seq(H!Byte) \ {<<>>}
  /\ Installs \subseteq H!Install
<1>1. Shim!Byte = H!Byte /\ Shim!Install = H!Install
  BY DEF Shim!Byte, H!Byte, Shim!Install, H!Install, Shim!PathEntry, H!PathEntry
<1>2. BufferSize \in Nat \ {0} /\ PipeSize \in Nat \ {0} /\ Chars \cap {"newline", "nul"} = {}
  BY ShimAssumption
<1>3. Installs \subseteq H!Install
  BY <1>1, ShimAssumption
<1>4. \A p \in Path : Spelling[p] \in Seq(H!Byte) \ {<<>>}
  BY <1>1, SpellingAssumption
<1> QED BY <1>2, <1>3, <1>4

-----------------------------------------------------------------------------
(* Each step is one of the search, one of the shim or the helper's pipe,   *)
(* or both of them stay                                                    *)

LEMMA StepOfSearch == [Next]_vars => [S!Next]_(S!vars)
<1> SUFFICES ASSUME [Next]_vars PROVE S!Next \/ UNCHANGED S!vars
  OBVIOUS
<1>1. CASE HelperSearches
  BY <1>1, SameSearch DEF HelperSearches
<1>2. CASE ~HelperSearches
  <2>1. UNCHANGED searchVars
    BY <1>2 DEF Next, vars, Ended, ShimSteps, Helper, HelperPrints, NoSearchPath,
                HelperAborts, HelperWrites, HelperKilled
  <2> QED BY <2>1 DEF searchVars, S!vars
<1> QED BY <1>1, <1>2

LEMMA StepOfShim == [Next]_vars => [H!Next]_(H!vars)
<1> SUFFICES ASSUME [Next]_vars PROVE H!Next \/ UNCHANGED H!vars
  OBVIOUS
<1>1. CASE HelperSearches \/ Ended \/ UNCHANGED vars
  <2>1. UNCHANGED shimVars
    BY <1>1 DEF HelperSearches, Ended, vars
  <2> QED BY <2>1 DEF shimVars, H!vars
<1>2. CASE ShimSteps \/ HelperPrints \/ NoSearchPath \/ HelperAborts \/ HelperWrites \/ HelperKilled
  BY <1>2, SameShim
     DEF ShimSteps, HelperPrints, NoSearchPath, HelperAborts, HelperWrites, HelperKilled,
         H!Next, H!Helper
<1> QED BY <1>1, <1>2 DEF Next, Helper

-----------------------------------------------------------------------------
(* The inductive invariant                                                 *)

\* What the helper prints is what its search has come to, and how it ends
\* says whether it has printed anything.
Link ==
  /\ phase = "success" => found # {}
  /\ phase = "failure" => found = {}
  /\ helper \in {"printing", "success", "failure"} =>
       \/ phase = "success" /\ output = Printed
       \/ phase = "failure" /\ output = <<>>
       \/ phase = "libraries_libcuda" /\ output = <<>>
  /\ helper = "success" => output # <<>>
  /\ helper = "failure" => output = <<>>

IInv == S!IInv /\ (S!OneDevice => S!Outcome) /\ H!IInv /\ Link

LEMMA InitHolds == Init => IInv
<1> SUFFICES ASSUME Init PROVE IInv
  OBVIOUS
<1>1. S!Init /\ H!Init
  BY SameSearch, SameShim DEF Init
<1>2. S!IInv /\ (S!OneDevice => S!Outcome)
  BY <1>1, S!InitSearched, SearchInstance
<1>3. H!IInv
  BY <1>1, H!InitHolds, ShimInstance
<1>4. Link
  BY <1>1 DEF S!Init, H!Init, Link
<1> QED BY <1>2, <1>3, <1>4 DEF IInv

\* Only Report makes the search succeed or fail.
LEMMA SearchLinks ==
  ASSUME Link, S!Next, helper = "searching", helper' = helper
  PROVE  Link'
<1>1. CASE S!Report
  BY <1>1 DEF S!Report, S!Enter, S!searchState, Link
<1>2. CASE S!Ended
  BY <1>2 DEF S!Ended, S!vars, Link
<1>3. CASE S!AfterLoaded \/ S!AfterSearch
  <2>1. phase' \notin {"success", "failure"}
    BY <1>3 DEF S!AfterLoaded, S!AfterSearch, S!Following, S!Enter
  <2> QED BY <2>1 DEF Link
<1>4. CASE \/ S!SearchLibrariesLibcuda \/ S!SearchLibrariesLibcudart \/ S!SearchCudaHome
           \/ S!SearchPathsLibcudart \/ S!SearchPathsLibcuda
  <2>1. phase \notin {"success", "failure"}
    BY <1>4 DEF S!SearchLibrariesLibcuda, S!SearchLibrariesLibcudart, S!SearchCudaHome,
                S!SearchPathsLibcudart, S!SearchPathsLibcuda
  <2>2. phase' = phase \/ phase' = "aborted"
    BY <1>4 DEF S!SearchLibrariesLibcuda, S!SearchLibrariesLibcudart, S!SearchCudaHome,
                S!SearchPathsLibcudart, S!SearchPathsLibcuda,
                S!Skip, S!Offer, S!OfferExisting, S!Continue, S!Abort
  <2> QED BY <2>1, <2>2 DEF Link
<1> QED BY <1>1, <1>2, <1>3, <1>4 DEF S!Next

LEMMA StepLinks == Link /\ [Next]_vars => Link'
<1> SUFFICES ASSUME Link, [Next]_vars PROVE Link'
  OBVIOUS
<1>1. CASE HelperSearches
  BY <1>1, SearchLinks, SameSearch DEF HelperSearches, shimVars
<1>2. CASE HelperPrints
  BY <1>2 DEF HelperPrints, Shim!HelperPrints, searchVars, Link, Printed
<1>3. CASE NoSearchPath
  BY <1>3 DEF NoSearchPath, Shim!HelperPrints, searchVars, Link
<1>4. CASE HelperWrites
  BY <1>4 DEF HelperWrites, Shim!HelperWrite, Shim!HelperExit, searchVars, Link, Printed
<1>5. CASE HelperAborts \/ HelperKilled
  BY <1>5 DEF HelperAborts, HelperKilled, Shim!HelperKilled, searchVars, Link
<1>6. CASE ShimSteps
  <2>1. UNCHANGED <<phase, found, output>>
    BY <1>6
       DEF ShimSteps, searchVars, Shim!Shim, Shim!SearchSibling, Shim!SearchPathEntry,
           Shim!PathExhausted, Shim!NoHelper, Shim!Goto, Shim!Popen, Shim!FreadSome,
           Shim!FreadReturns, Shim!Pclose, Shim!Wait, Shim!child
  <2>2. helper' = helper \/ helper' = "searching"
    BY <1>6
       DEF ShimSteps, Shim!Shim, Shim!SearchSibling, Shim!SearchPathEntry,
           Shim!PathExhausted, Shim!NoHelper, Shim!Goto, Shim!Popen, Shim!FreadSome,
           Shim!FreadReturns, Shim!Pclose, Shim!Wait, Shim!child
  <2> QED BY <2>1, <2>2 DEF Link, Printed
<1>7. CASE Ended \/ UNCHANGED vars
  BY <1>7 DEF Ended, vars, searchVars, shimVars, Link, Printed
<1> QED BY <1>1, <1>2, <1>3, <1>4, <1>5, <1>6, <1>7 DEF Next, Helper

LEMMA StepHolds == IInv /\ [Next]_vars => IInv'
<1> SUFFICES ASSUME IInv, [Next]_vars PROVE IInv'
  OBVIOUS
<1>1. S!IInv' /\ (S!OneDevice => S!Outcome)'
  BY S!StepSearched, StepOfSearch, SearchInstance DEF IInv
<1>2. H!IInv'
  BY H!StepHolds, StepOfShim, ShimInstance DEF IInv
<1>3. Link'
  BY StepLinks DEF IInv
<1> QED BY <1>1, <1>2, <1>3 DEF IInv

LEMMA IInvAlways == Spec => []IInv
  BY InitHolds, StepHolds, PTL DEF Spec

-----------------------------------------------------------------------------
(* The answer                                                              *)

\* A helper that succeeds has printed the one driver Reference names, and one
\* that fails before its search could begin or after it names none.
LEMMA HelperSaysReference ==
  ASSUME IInv, Search!OneDevice
  PROVE  /\ helper = "success" =>
              \E r \in Search!Reference : Search!Reference = {r} /\ output = Spelling[r.dir]
         /\ helper = "failure" => phase = "libraries_libcuda" \/ Search!Reference = {}
<1>1. S!TypeOK /\ S!SearchFindsBest /\ S!OneDevice /\ Link
  BY S!SearchedIsReference, SearchInstance, SameResult DEF IInv, S!IInv
<1>2. \A r, s \in found : r = s
  BY <1>1 DEF S!TypeOK
<1>3. phase \in {"success", "failure"} => found = Search!Reference
  BY <1>1, SameResult DEF S!SearchFindsBest
<1>4. ASSUME helper = "success"
      PROVE  \E r \in Search!Reference : Search!Reference = {r} /\ output = Spelling[r.dir]
  <2>1. phase = "success" /\ output = Printed /\ found # {}
    BY <1>1, <1>4 DEF Link
  <2> DEFINE r == CHOOSE x \in found : TRUE
  <2>2. r \in found /\ output = Spelling[r.dir]
    BY <2>1 DEF Printed
  <2>3. found = {r}
    BY <1>2, <2>2
  <2> QED BY <1>3, <2>1, <2>2, <2>3
<1>5. ASSUME helper = "failure" PROVE phase = "libraries_libcuda" \/ Search!Reference = {}
  <2>1. CASE phase = "success"
    <3>1. output = Printed /\ found # {} /\ output = <<>>
      BY <1>1, <1>5, <2>1 DEF Link
    <3>2. PICK r \in found : output = Spelling[r.dir]
      BY <2>1, <3>1 DEF Printed
    <3>3. r.dir \in Path
      BY <1>1, <3>2 DEF S!TypeOK
    <3> QED BY <3>1, <3>2, <3>3, SpellingAssumption
  <2>2. CASE phase = "failure"
    BY <1>1, <1>3, <2>2 DEF Link
  <2> QED BY <1>1, <1>5, <2>1, <2>2 DEF Link
<1> QED BY <1>4, <1>5

\* What the shim returns, by how the helper ended.
LEMMA ReturnedBuffer ==
  ASSUME IInv, Returned
  PROVE  /\ helper \in {"none", "success", "failure", "killed"}
         /\ buffer = IF helper = "success" /\ ~install.reaped
                     THEN Shim!FirstLine(output) ELSE <<>>
<1>1. H!TypeOK /\ H!Control /\ H!ResultIsWholeAnswer
  BY DEF IInv, H!IInv, H!Answer
<1>2. helper \in {"none", "success", "failure", "killed"}
  BY <1>1 DEF H!TypeOK, H!Control, H!Alive, Returned
<1>3. Shim!IsPath(output)
  <2>1. CASE output = <<>>
    BY <2>1, ShimAssumption DEF Shim!IsPath
  <2>2. CASE output # <<>>
    BY <1>1, <2>2, SpellingAssumption DEF H!TypeOK
  <2> QED BY <2>1, <2>2
<1>4. H!IsPath(output)
  BY <1>3, SameShim
<1>5. buffer = IF helper = "success" /\ ~install.reaped THEN H!FirstLine(output) ELSE <<>>
  BY <1>1, <1>4 DEF H!ResultIsWholeAnswer, Returned
<1>6. Shim!FirstLine(output) = H!FirstLine(output)
  BY SameShim
<1> QED BY <1>2, <1>5, <1>6

LEMMA AnswerHolds == IInv => AnswerIsBest
<1> SUFFICES ASSUME IInv, Search!OneDevice, NEW a \in Answer PROVE a \in Best
  BY DEF AnswerIsBest
<1>1. Returned /\ a = buffer /\ buffer # <<>>
  BY DEF Answer
<1>2. helper = "success" /\ a = Shim!FirstLine(output)
  BY <1>1, ReturnedBuffer
<1>3. PICK r \in Search!Reference : output = Spelling[r.dir]
  BY <1>2, HelperSaysReference
<1> QED BY <1>2, <1>3 DEF Best

LEMMA NothingHolds == IInv => NothingOnlyWhenLost
<1> SUFFICES ASSUME IInv, Search!OneDevice, Returned, Answer = {}, Best \ {<<>>} # {}, ~Lost
             PROVE  FALSE
  BY DEF NothingOnlyWhenLost
<1>1. ~install.reaped /\ helper \in {"success", "failure"} /\ buffer = <<>>
  BY ReturnedBuffer DEF Lost, Answer
<1>2. PICK r \in Search!Reference : Shim!FirstLine(Spelling[r.dir]) # <<>>
  BY DEF Best
<1>3. CASE helper = "success"
  <2>1. output = Spelling[r.dir]
    BY <1>2, <1>3, HelperSaysReference
  <2> QED BY <1>1, <1>2, <1>3, <2>1, ReturnedBuffer
<1>4. CASE helper = "failure"
  BY <1>2, <1>4, HelperSaysReference DEF Lost
<1> QED BY <1>1, <1>3, <1>4

\* Whatever the file system on one device, the installation and the moment
\* at which the helper is killed: la_version gets the directory of the best
\* driver, up to a newline in it, or nothing.
THEOREM AnswerIsBestAlways == Spec => []AnswerIsBest
  BY IInvAlways, AnswerHolds, PTL

\* It gets nothing only if there is no driver, if the helper did not run to
\* its end or was not waited for, or if the search path is unknown.
THEOREM NothingOnlyWhenLostAlways == Spec => []NothingOnlyWhenLost
  BY IInvAlways, NothingHolds, PTL

-----------------------------------------------------------------------------
(* The two processes implement HelperQuery                                 *)

\* What is to be found depends on the inputs of the search only.
LEMMA BestStays == UNCHANGED <<fs, args>> => Best' = Best /\ Search!OneDevice' = Search!OneDevice
<1> SUFFICES ASSUME UNCHANGED <<fs, args>>
             PROVE  Best' = Best /\ Search!OneDevice' = Search!OneDevice
  OBVIOUS
<1>1. Search!Reference' = Search!Reference
  BY DEF Search!Reference, Search!Loaded, Search!Discovered, Search!Before, Search!Usable,
         Search!Probe, Search!Libcuda, Search!Stop
<1> QED BY <1>1 DEF Best, Search!OneDevice, Shim!FirstLine

\* Reference names at most one driver, so there is one line to be printed.
LEMMA BestIsOne ==
  ASSUME S!TypeOK
  PROVE  Best \in {{}} \cup {{line} : line \in {Shim!FirstLine(Spelling[p]) : p \in Path}}
<1>1. \A r, s \in Search!Reference : r = s
  BY S!ReferenceIsOne, SearchInstance, SameResult
<1>2. CASE Search!Reference = {}
  BY <1>2 DEF Best
<1>3. CASE Search!Reference # {}
  <2>1. PICK r \in Search!Reference : Search!Reference = {r}
    BY <1>1, <1>3
  <2>2. Best = {Shim!FirstLine(Spelling[r.dir])}
    BY <2>1 DEF Best
  <2>3. r.dir \in Path
    <3>1. PICK c \in S!Candidates : r = [version |-> S!Probe(c[3]), dir |-> c[3]]
      BY <2>1, SameResult DEF S!Reference, S!Candidates
    <3> QED BY <3>1, S!CandidateType, SearchInstance
  <2> QED BY <2>2, <2>3
<1> QED BY <1>2, <1>3

\* For every file system on one device: a step of the two processes is either
\* the one reply, which is the best driver or nothing, or nothing the caller
\* of find_libcuda sees.
THEOREM ImplementsHelperQuery ==
  Spec /\ Search!OneDevice => Query!Init /\ [][Query!Reply]_(Query!vars)
<1>1. Init => Query!Init
  <2> SUFFICES ASSUME Init PROVE Query!Init
    OBVIOUS
  <2>1. IInv
    BY InitHolds
  <2>2. Best \in {{}} \cup {{line} : line \in {Shim!FirstLine(Spelling[p]) : p \in Path}}
    BY <2>1, BestIsOne DEF IInv, S!IInv
  <2>3. ~Returned
    BY DEF Init, Shim!Init, Returned
  <2> QED BY <2>2, <2>3 DEF Query!Init, Answer
<1>2. IInv /\ IInv' /\ Search!OneDevice /\ [Next]_vars => [Query!Reply]_(Query!vars)
  <2> SUFFICES ASSUME IInv, IInv', Search!OneDevice, [Next]_vars
               PROVE  Query!Reply \/ UNCHANGED Query!vars
    OBVIOUS
  <2>1. UNCHANGED <<fs, args>>
    BY StepOfSearch, S!StepShape, SearchInstance DEF IInv, S!IInv, S!inputs
  <2>2. Best' = Best /\ Search!OneDevice'
    BY <2>1, BestStays
  <2>3. CASE Returned
    <3>1. Returned' /\ buffer' = buffer
      BY <2>3 DEF Next, vars, Ended, ShimSteps, Helper, HelperPrints, NoSearchPath, HelperAborts,
              HelperWrites, HelperKilled, HelperSearches, searchVars, shimVars, Returned,
              Shim!Shim, Shim!SearchSibling, Shim!SearchPathEntry, Shim!PathExhausted, Shim!Popen,
              Shim!FreadSome, Shim!FreadReturns, Shim!Pclose, Shim!Wait, Shim!HelperPrints,
              Shim!HelperWrite, Shim!HelperExit, Shim!HelperKilled, Shim!shim
    <3> QED BY <2>2, <2>3, <3>1 DEF Query!vars, Answer
  <2>4. CASE ~Returned /\ ~Returned'
    BY <2>2, <2>4 DEF Query!vars, Answer
  <2>5. CASE ~Returned /\ Returned'
    <3>1. AnswerIsBest'
      BY AnswerHolds, PTL
    <3>2. Answer' \subseteq Best
      BY <2>2, <3>1 DEF AnswerIsBest
    <3>3. Answer' \in {Best, {}}
      <4>1. \A x, y \in Best : x = y
        BY BestIsOne DEF IInv, S!IInv
      <4> QED BY <3>2, <4>1
    <3> QED BY <2>2, <2>5, <3>3 DEF Query!Reply
  <2> QED BY <2>3, <2>4, <2>5
<1>3. IInv /\ Search!OneDevice /\ [Next]_vars => Search!OneDevice'
  <2> SUFFICES ASSUME IInv, Search!OneDevice, [Next]_vars PROVE Search!OneDevice'
    OBVIOUS
  <2>1. UNCHANGED <<fs, args>>
    BY StepOfSearch, S!StepShape, SearchInstance DEF IInv, S!IInv, S!inputs
  <2> QED BY <2>1, BestStays
<1> QED BY <1>1, <1>2, <1>3, IInvAlways, PTL DEF Spec
=============================================================================
