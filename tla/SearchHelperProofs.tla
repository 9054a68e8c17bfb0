------------------------- MODULE SearchHelperProofs -------------------------
(***************************************************************************)
(* Theorems about SearchHelper, for every size of the buffer and the pipe, *)
(* every installation and everything the helper may print.                 *)
(*                                                                         *)
(* That find_libcuda returns the whole answer rests on the bytes being in  *)
(* one place each: Stream says that what the helper has written is the     *)
(* buffer, what fread has collected and the pipe, in that order.           *)
(***************************************************************************)
EXTENDS SearchHelper, SequenceTheorems, TLAPS

-----------------------------------------------------------------------------
(* The inductive invariant                                                 *)

\* What the shim knows at each point, and what the helper has printed.
Control ==
  /\ pc \in {"sibling", "path", "popen"} => helper = "none" /\ buffer = <<>>
  /\ pc # "fread" => chunk = <<>>
  /\ pc \in {"fread", "pclose", "wait"} => helper # "none"
  /\ pc = "returned" => ~Alive
  /\ helper = "none" => pipe = <<>>
  /\ helper \in {"none", "searching"} => output = <<>> /\ written = 0
  /\ helper = "success" => written = Len(output)

\* The helper that is taken in libexec is not looked for in PATH.
Candidate ==
  /\ pc = "path" => ~install.sibling
  /\ StartsUsableHelper

\* Every byte the helper has written is in one place.
Stream ==
  pc = "fread" =>
    /\ Len(buffer) + Len(chunk) + Len(pipe) = written
    /\ \A i \in 1..Len(buffer) : buffer[i] = output[i]
    /\ \A i \in 1..Len(chunk) : chunk[i] = output[Len(buffer) + i]
    /\ \A i \in 1..Len(pipe) : pipe[i] = output[Len(buffer) + Len(chunk) + i]
    /\ Len(buffer) < BufferSize
    /\ \A i \in 1..Len(buffer) : buffer[i] \notin {"newline", "nul"}

\* When the shim stops reading, the buffer is the answer already, or the
\* helper will not have succeeded.
Answer ==
  /\ pc \in {"pclose", "wait"} /\ IsPath(output) =>
       \/ helper # "searching" /\ buffer = FirstLine(output)
       \/ helper \in {"failure", "killed"}
  /\ ResultIsWholeAnswer

IInv == TypeOK /\ Control /\ Candidate /\ Stream /\ Answer

-----------------------------------------------------------------------------
(* Types                                                                   *)

LEMMA InitType == Init => TypeOK
<1> SUFFICES ASSUME Init PROVE TypeOK
  OBVIOUS
<1>1. install \in Install /\ Len(install.path) \in Nat
  BY InstallsAssumption, LenProperties DEF Init, Install
<1>2. <<>> \in Seq(Byte) /\ Len(<<>>) = 0
  BY EmptySeq
<1>3. /\ chunk \in Seq(Byte) /\ Len(chunk) = 0
      /\ buffer \in Seq(Byte) /\ Len(buffer) = 0
      /\ pipe \in Seq(Byte) /\ Len(pipe) = 0
      /\ output = <<>> /\ Len(output) = 0
  BY <1>2 DEF Init
<1>4. Len(buffer) + Len(chunk) <= BufferSize /\ Len(pipe) <= PipeSize
  BY <1>3, SizesAssumption
<1>5. entry \in 1..Len(install.path) + 1 /\ written \in 0..Len(output)
  BY <1>1, <1>3 DEF Init
<1> QED BY <1>1, <1>3, <1>4, <1>5 DEF Init, TypeOK

\* The steps that read nothing and write nothing.
LEMMA ControlType ==
  TypeOK /\ (SearchSibling \/ SearchPathEntry \/ PathExhausted \/ Popen \/ Pclose
               \/ Ended \/ UNCHANGED vars)
    => TypeOK'
<1> SUFFICES ASSUME TypeOK, SearchSibling \/ SearchPathEntry \/ PathExhausted \/ Popen
                              \/ Pclose \/ Ended \/ UNCHANGED vars
             PROVE  TypeOK'
  OBVIOUS
<1> USE DEF TypeOK, Cleared, Sibling, Goto, child
<1>1. Len(install.path) \in Nat
  BY LenProperties DEF Install
<1>2. CASE SearchSibling
  BY <1>2 DEF SearchSibling, NoHelper
<1>3. CASE SearchPathEntry
  <2>1. /\ pc' \in {pc, "popen"}
        /\ entry <= Len(install.path) /\ entry' \in {entry, entry + 1}
        /\ outPath' \in {outPath, entry}
        /\ UNCHANGED <<install, chunk, buffer, child>>
    BY <1>3 DEF SearchPathEntry
  <2>2. entry' \in 1..Len(install.path) + 1
    BY <1>1, <2>1
  <2>3. outPath' \in {Cleared, Sibling} \cup 1..Len(install.path)
    BY <1>1, <2>1
  <2> QED BY <2>1, <2>2, <2>3
<1>4. CASE PathExhausted
  BY <1>4 DEF PathExhausted, NoHelper
<1>5. CASE Popen
  BY <1>5 DEF Popen
<1>6. CASE Pclose
  BY <1>6 DEF Pclose
<1>7. CASE Ended \/ UNCHANGED vars
  BY <1>7 DEF Ended, vars
<1> QED BY <1>2, <1>3, <1>4, <1>5, <1>6, <1>7

\* A byte moves from the pipe into a chunk that has room for it.
LEMMA FreadSomeType == TypeOK /\ FreadSome => TypeOK'
<1> SUFFICES ASSUME TypeOK, FreadSome PROVE TypeOK'
  OBVIOUS
<1>1. /\ pipe \in Seq(Byte) /\ pipe # <<>> /\ chunk \in Seq(Byte) /\ buffer \in Seq(Byte)
      /\ Len(chunk) < BufferSize - Len(buffer)
      /\ chunk' = Append(chunk, Head(pipe)) /\ pipe' = Tail(pipe)
  BY DEF TypeOK, FreadSome, Remaining
<1>2. /\ chunk' \in Seq(Byte) /\ Len(chunk') = Len(chunk) + 1
      /\ pipe' \in Seq(Byte) /\ Len(pipe') = Len(pipe) - 1
  BY <1>1, HeadTailProperties, AppendProperties
<1>3. /\ Len(buffer) \in Nat /\ Len(chunk) \in Nat /\ Len(pipe) \in Nat
  BY <1>1, LenProperties
<1>4. Len(buffer') + Len(chunk') <= BufferSize /\ Len(pipe') <= PipeSize
  BY <1>1, <1>2, <1>3, SizesAssumption DEF TypeOK, FreadSome
<1> QED BY <1>2, <1>4 DEF TypeOK, FreadSome

LEMMA EndOfDataType ==
  ASSUME TypeOK PROVE EndOfData \subseteq 1..Len(chunk)
  BY DEF EndOfData, Positions

LEMMA FreadReturnsType == TypeOK /\ FreadReturns => TypeOK'
<1> SUFFICES ASSUME TypeOK, FreadReturns PROVE TypeOK'
  OBVIOUS
<1>1. /\ chunk \in Seq(Byte) /\ buffer \in Seq(Byte)
      /\ Len(chunk) \in Nat /\ Len(buffer) \in Nat
      /\ Len(buffer) + Len(chunk) <= BufferSize
  BY LenProperties DEF TypeOK
<1>2. chunk' = <<>> /\ chunk' \in Seq(Byte) /\ Len(chunk') = 0
  BY EmptySeq DEF FreadReturns
<1>3. buffer' \in Seq(Byte) /\ Len(buffer') <= Len(buffer) + Len(chunk) /\ Len(buffer') \in Nat
  <2>1. CASE buffer' = buffer \o chunk
    BY <1>1, <2>1, ConcatProperties
  <2>2. CASE \E i \in EndOfData : buffer' = buffer \o SubSeq(chunk, 1, i - 1)
    <3>1. PICK i \in 1..Len(chunk) : buffer' = buffer \o SubSeq(chunk, 1, i - 1)
      BY <2>2, EndOfDataType
    <3>2. SubSeq(chunk, 1, i - 1) \in Seq(Byte) /\ Len(SubSeq(chunk, 1, i - 1)) = i - 1
      BY <1>1, <3>1, SubSeqProperties
    <3> QED BY <1>1, <3>1, <3>2, ConcatProperties
  <2>3. CASE buffer' = buffer
    BY <1>1, <2>3
  <2> QED BY <2>1, <2>2, <2>3 DEF FreadReturns
<1>4. Len(buffer') + Len(chunk') <= BufferSize
  BY <1>1, <1>2, <1>3, SizesAssumption
<1>5. pc' \in {"fread", "pclose"} /\ UNCHANGED <<install, entry, outPath, child>>
  BY DEF FreadReturns
<1> QED BY <1>2, <1>3, <1>4, <1>5 DEF TypeOK, child

LEMMA WaitType == TypeOK /\ Wait => TypeOK'
<1> SUFFICES ASSUME TypeOK, Wait PROVE TypeOK'
  OBVIOUS
<1>1. buffer' \in Seq(Byte) /\ Len(buffer') <= Len(buffer)
  <2>1. buffer' = buffer \/ buffer' = <<>>
    BY DEF Wait
  <2>2. buffer \in Seq(Byte) /\ Len(buffer) \in Nat
    BY LenProperties DEF TypeOK
  <2>3. <<>> \in Seq(Byte) /\ Len(<<>>) = 0
    BY EmptySeq
  <2>4. CASE buffer' = buffer
    BY <2>2, <2>4
  <2>5. CASE buffer' = <<>>
    BY <2>2, <2>3, <2>5
  <2> QED BY <2>1, <2>4, <2>5
<1>2. Len(buffer') + Len(chunk) <= BufferSize
  <2>1. Len(buffer') \in Nat /\ Len(buffer) \in Nat /\ Len(chunk) \in Nat
    BY <1>1, LenProperties DEF TypeOK
  <2> QED BY <1>1, <2>1, SizesAssumption DEF TypeOK
<1>3. pc' = "returned" /\ UNCHANGED <<install, entry, outPath, chunk, child>>
  BY DEF Wait
<1> QED BY <1>1, <1>2, <1>3 DEF TypeOK, child

LEMMA HelperType == TypeOK /\ Control /\ (Helper \/ HelperKilled) => TypeOK'
<1> SUFFICES ASSUME TypeOK, Control, Helper \/ HelperKilled PROVE TypeOK'
  OBVIOUS
<1>1. CASE HelperPrints
  <2>1. output' \in Outputs \cup {<<>>} /\ Len(output') \in Nat
    BY <1>1, OutputsAssumption, EmptySeq, LenProperties DEF HelperPrints
  <2>2. written' = 0 /\ written' \in 0..Len(output')
    BY <1>1, <2>1 DEF HelperPrints, Control
  <2> QED BY <1>1, <2>1, <2>2 DEF HelperPrints, TypeOK, shim
<1>2. CASE HelperWrite
  <2>1. output \in Seq(Byte) /\ Len(output) \in Nat
    BY OutputsAssumption, EmptySeq, LenProperties DEF TypeOK
  <2>2. CASE /\ Len(pipe) < PipeSize
             /\ pipe' = Append(pipe, output[written + 1])
             /\ written' = written + 1
             /\ UNCHANGED helper
    <3>1. written + 1 \in 1..Len(output)
      BY <1>2, <2>1 DEF HelperWrite, TypeOK
    <3>2. output[written + 1] \in Byte
      BY <2>1, <3>1, ElementOfSeq
    <3>3. pipe' \in Seq(Byte) /\ Len(pipe') = Len(pipe) + 1
      BY <2>2, <3>2, AppendProperties DEF TypeOK
    <3>4. Len(pipe') <= PipeSize
      BY <2>2, <3>3, LenProperties, SizesAssumption DEF TypeOK
    <3> QED BY <1>2, <2>2, <3>1, <3>3, <3>4 DEF HelperWrite, TypeOK, shim
  <2>3. CASE helper' = "killed" /\ UNCHANGED <<pipe, written>>
    BY <1>2, <2>3 DEF HelperWrite, TypeOK, shim
  <2> QED BY <1>2, <2>2, <2>3 DEF HelperWrite
<1>3. CASE HelperExit \/ HelperKilled
  BY <1>3 DEF HelperExit, HelperKilled, TypeOK, shim
<1> QED BY <1>1, <1>2, <1>3 DEF Helper

LEMMA StepType == TypeOK /\ Control /\ [Next]_vars => TypeOK'
  BY ControlType, FreadSomeType, FreadReturnsType, WaitType, HelperType DEF Next, Shim

-----------------------------------------------------------------------------
(* Control                                                                 *)

LEMMA InitControl == Init => Control /\ Candidate
  BY DEF Init, Control, Candidate, StartsUsableHelper

LEMMA StepControl == TypeOK /\ Control /\ [Next]_vars => Control'
<1> SUFFICES ASSUME TypeOK, Control, [Next]_vars PROVE Control'
  OBVIOUS
<1> USE DEF Control, Alive
<1>1. CASE SearchSibling \/ SearchPathEntry \/ PathExhausted
  <2>1. /\ pc \in {"sibling", "path"} /\ pc' \in {"path", "popen", "returned"}
        /\ UNCHANGED <<chunk, buffer, child>>
    BY <1>1 DEF SearchSibling, SearchPathEntry, PathExhausted, NoHelper, Goto
  <2> QED BY <2>1 DEF child
<1>2. CASE Popen
  BY <1>2 DEF Popen, Goto, child
<1>3. CASE FreadSome \/ FreadReturns \/ Pclose \/ Wait
  BY <1>3 DEF FreadSome, FreadReturns, Pclose, Wait, child
<1>4. CASE Helper \/ HelperKilled
  BY <1>4 DEF Helper, HelperPrints, HelperWrite, HelperExit, HelperKilled, shim
<1>5. CASE Ended \/ UNCHANGED vars
  BY <1>5 DEF Ended, vars
<1> QED BY <1>1, <1>2, <1>3, <1>4, <1>5 DEF Next, Shim

\* access() has allowed the candidate the shim stops at, the stale one that
\* is looked at when a join overflows included.
LEMMA StepCandidate == TypeOK /\ Candidate /\ [Next]_vars => Candidate'
<1> SUFFICES ASSUME TypeOK, Candidate, [Next]_vars PROVE Candidate'
  OBVIOUS
<1> USE DEF Candidate, StartsUsableHelper, Usable, Goto
<1>1. CASE SearchSibling
  BY <1>1 DEF SearchSibling, NoHelper
<1>2. CASE SearchPathEntry
  BY <1>2 DEF SearchPathEntry
<1>3. CASE PathExhausted
  BY <1>3 DEF PathExhausted, NoHelper
<1>4. CASE Popen \/ FreadSome \/ FreadReturns \/ Pclose \/ Wait
  <2>1. /\ pc \in {"popen", "fread", "pclose", "wait"}
        /\ pc' \in {"fread", "pclose", "wait", "returned"}
        /\ UNCHANGED <<install, outPath>>
    BY <1>4 DEF Popen, FreadSome, FreadReturns, Pclose, Wait
  <2> QED BY <2>1
<1>5. CASE Helper \/ HelperKilled \/ Ended \/ UNCHANGED vars
  <2>1. UNCHANGED <<install, pc, outPath>>
    BY <1>5 DEF Helper, HelperPrints, HelperWrite, HelperExit, HelperKilled, Ended, shim, vars
  <2> QED BY <2>1
<1> QED BY <1>1, <1>2, <1>3, <1>4, <1>5 DEF Next, Shim

-----------------------------------------------------------------------------
(* The bytes                                                               *)

\* The bytes of the first three sequences and the room for them, as numbers.
LEMMA Lengths ==
  ASSUME TypeOK
  PROVE  /\ chunk \in Seq(Byte) /\ Len(chunk) \in Nat
         /\ buffer \in Seq(Byte) /\ Len(buffer) \in Nat
         /\ pipe \in Seq(Byte) /\ Len(pipe) \in Nat
         /\ output \in Seq(Byte) /\ Len(output) \in Nat
         /\ written \in 0..Len(output)
         /\ Len(buffer) + Len(chunk) <= BufferSize /\ BufferSize \in Nat \ {0}
  BY OutputsAssumption, SizesAssumption, EmptySeq, LenProperties DEF TypeOK

\* Reading one byte moves it from the pipe to the chunk.
LEMMA FreadSomeStream == TypeOK /\ Stream /\ FreadSome => Stream'
<1> SUFFICES ASSUME TypeOK, Stream, FreadSome PROVE Stream'
  OBVIOUS
<1>1. /\ chunk \in Seq(Byte) /\ Len(chunk) \in Nat
      /\ Len(buffer) \in Nat /\ Len(pipe) \in Nat
      /\ pipe \in Seq(Byte) /\ pipe # <<>>
      /\ chunk' = Append(chunk, Head(pipe)) /\ pipe' = Tail(pipe)
      /\ UNCHANGED <<buffer, output, written>>
  BY Lengths DEF FreadSome
<1>2. /\ Len(pipe) > 0 /\ Head(pipe) = pipe[1] /\ Head(pipe) \in Byte
      /\ Len(pipe') = Len(pipe) - 1
      /\ \A i \in 1..Len(pipe') : pipe'[i] = pipe[i + 1]
  BY <1>1, HeadTailProperties
<1>3. /\ Len(chunk') = Len(chunk) + 1
      /\ \A i \in 1..Len(chunk) : chunk'[i] = chunk[i]
      /\ chunk'[Len(chunk) + 1] = pipe[1]
  BY <1>1, <1>2, AppendProperties
<1>4. pc = "fread"
  BY DEF FreadSome
<1>5. \A i \in 1..Len(chunk') : chunk'[i] = output[Len(buffer) + i]
  <2> SUFFICES ASSUME NEW i \in 1..Len(chunk') PROVE chunk'[i] = output[Len(buffer) + i]
    OBVIOUS
  <2>1. CASE i \in 1..Len(chunk)
    BY <1>3, <1>4, <2>1 DEF Stream
  <2>2. CASE i = Len(chunk) + 1
    <3>1. pipe[1] = output[Len(buffer) + Len(chunk) + 1]
      BY <1>1, <1>2, <1>4 DEF Stream
    <3> QED BY <1>1, <1>3, <2>2, <3>1
  <2> QED BY <1>1, <1>3, <2>1, <2>2
<1>6. \A i \in 1..Len(pipe') : pipe'[i] = output[Len(buffer) + Len(chunk') + i]
  <2> SUFFICES ASSUME NEW i \in 1..Len(pipe')
               PROVE  pipe'[i] = output[Len(buffer) + Len(chunk') + i]
    OBVIOUS
  <2>1. i + 1 \in 1..Len(pipe)
    BY <1>1, <1>2
  <2>2. pipe[i + 1] = output[Len(buffer) + Len(chunk) + (i + 1)]
    BY <1>4, <2>1 DEF Stream
  <2>3. Len(buffer) + Len(chunk) + (i + 1) = Len(buffer) + Len(chunk') + i
    BY <1>1, <1>3, <2>1
  <2> QED BY <1>2, <2>2, <2>3
<1>7. Len(buffer') + Len(chunk') + Len(pipe') = written'
  BY <1>1, <1>2, <1>3, <1>4 DEF Stream
<1> QED BY <1>1, <1>4, <1>5, <1>6, <1>7 DEF Stream

\* A chunk without a terminator is appended to the buffer.
LEMMA FreadReturnsStream == TypeOK /\ Stream /\ FreadReturns => Stream'
<1> SUFFICES ASSUME TypeOK, Stream, FreadReturns, pc' = "fread" PROVE Stream'
  BY DEF Stream
<1>1. /\ pc = "fread" /\ EndOfData = {} /\ Len(chunk) # Remaining
      /\ buffer' = buffer \o chunk /\ chunk' = <<>>
      /\ UNCHANGED <<output, pipe, written>>
  BY DEF FreadReturns, child
<1>2. /\ chunk \in Seq(Byte) /\ Len(chunk) \in Nat
      /\ buffer \in Seq(Byte) /\ Len(buffer) \in Nat
      /\ Len(pipe) \in Nat
      /\ Len(buffer) + Len(chunk) <= BufferSize /\ BufferSize \in Nat
  BY Lengths
<1>3. /\ Len(buffer') = Len(buffer) + Len(chunk)
      /\ \A i \in 1..Len(buffer') :
           buffer'[i] = IF i <= Len(buffer) THEN buffer[i] ELSE chunk[i - Len(buffer)]
  BY <1>1, <1>2, ConcatProperties
<1>4. Len(chunk') = 0
  BY <1>1, EmptySeq
<1>5. \A i \in 1..Len(chunk) : chunk[i] \notin {"newline", "nul"}
  BY <1>1 DEF EndOfData, Positions
<1>6. \A i \in 1..Len(buffer') :
        buffer'[i] = output[i] /\ buffer'[i] \notin {"newline", "nul"}
  <2> SUFFICES ASSUME NEW i \in 1..Len(buffer')
               PROVE  buffer'[i] = output[i] /\ buffer'[i] \notin {"newline", "nul"}
    OBVIOUS
  <2>1. CASE i <= Len(buffer)
    BY <1>1, <1>2, <1>3, <2>1 DEF Stream
  <2>2. CASE i > Len(buffer)
    <3>1. i - Len(buffer) \in 1..Len(chunk) /\ Len(buffer) + (i - Len(buffer)) = i
      BY <1>2, <1>3, <2>2
    <3>2. buffer'[i] = chunk[i - Len(buffer)]
      BY <1>2, <1>3, <2>2
    <3>3. chunk[i - Len(buffer)] = output[i]
      BY <1>1, <3>1 DEF Stream
    <3> QED BY <1>5, <3>1, <3>2, <3>3
  <2> QED BY <1>2, <1>3, <2>1, <2>2
<1>7. Len(buffer') < BufferSize
  <2>1. Len(chunk) # BufferSize - Len(buffer)
    BY <1>1 DEF Remaining
  <2>2. Len(buffer') = Len(buffer) + Len(chunk)
    BY <1>3
  <2> HIDE <1>1
  <2> QED BY <1>2, <2>1, <2>2
<1>8. /\ Len(buffer') + Len(chunk') + Len(pipe') = written'
      /\ \A i \in 1..Len(pipe') : pipe'[i] = output'[Len(buffer') + Len(chunk') + i]
  BY <1>1, <1>2, <1>3, <1>4 DEF Stream
<1> QED BY <1>1, <1>4, <1>6, <1>7, <1>8 DEF Stream

\* The helper's write appends the next byte of its output to the pipe.
LEMMA HelperWriteStream == TypeOK /\ Stream /\ HelperWrite => Stream'
<1> SUFFICES ASSUME TypeOK, Stream, HelperWrite, pc = "fread" PROVE Stream'
  BY DEF Stream, HelperWrite, shim
<1>1. UNCHANGED <<pc, chunk, buffer, output>>
  BY DEF HelperWrite, shim
<1>2. CASE UNCHANGED <<pipe, written>>
  BY <1>1, <1>2 DEF Stream
<1>3. CASE pipe' = Append(pipe, output[written + 1]) /\ written' = written + 1
  <2>1. /\ Len(chunk) \in Nat /\ Len(buffer) \in Nat
        /\ pipe \in Seq(Byte) /\ Len(pipe) \in Nat
        /\ output \in Seq(Byte) /\ Len(output) \in Nat /\ written \in Nat
        /\ Len(buffer) + Len(chunk) + Len(pipe) = written
        /\ written < Len(output)
    BY Lengths DEF HelperWrite, Stream
  <2>2. output[written + 1] \in Byte
    BY <2>1, ElementOfSeq
  <2>3. /\ Len(pipe') = Len(pipe) + 1
        /\ \A i \in 1..Len(pipe) : pipe'[i] = pipe[i]
        /\ pipe'[Len(pipe) + 1] = output[written + 1]
    BY <1>3, <2>1, <2>2, AppendProperties
  <2>4. ASSUME NEW i \in 1..Len(pipe')
        PROVE  pipe'[i] = output[Len(buffer) + Len(chunk) + i]
    <3>1. CASE i \in 1..Len(pipe)
      BY <2>3, <3>1 DEF Stream
    <3>2. CASE i = Len(pipe) + 1
      <4>1. Len(buffer) + Len(chunk) + i = written + 1
        BY <2>1, <3>2
      <4> QED BY <2>3, <3>2, <4>1
    <3> QED BY <2>1, <2>3, <3>1, <3>2
  <2>5. Len(buffer) + Len(chunk) + Len(pipe') = written'
    BY <1>3, <2>1, <2>3
  <2> QED BY <1>1, <2>4, <2>5 DEF Stream
<1> QED BY <1>2, <1>3 DEF HelperWrite

LEMMA StepStream == TypeOK /\ Control /\ Stream /\ [Next]_vars => Stream'
<1> SUFFICES ASSUME TypeOK, Control, Stream, [Next]_vars PROVE Stream'
  OBVIOUS
<1>1. CASE SearchSibling \/ SearchPathEntry \/ PathExhausted \/ Pclose \/ Wait
  BY <1>1 DEF SearchSibling, SearchPathEntry, PathExhausted, Pclose, Wait, NoHelper, Goto,
              Stream
<1>2. CASE Popen
  <2> SUFFICES ASSUME pc' = "fread" PROVE Stream'
    BY DEF Stream
  <2>1. /\ buffer' = <<>> /\ chunk' = <<>> /\ pipe' = <<>> /\ written' = 0
    BY <1>2 DEF Popen, Goto, Control
  <2> QED BY <2>1, EmptySeq, SizesAssumption DEF Stream
<1>3. CASE HelperPrints
  <2> SUFFICES ASSUME pc = "fread" PROVE Stream'
    BY <1>3 DEF Stream, HelperPrints, shim
  <2>1. /\ written = 0 /\ UNCHANGED <<pc, chunk, buffer, pipe, written>>
    BY <1>3 DEF HelperPrints, shim, Control
  <2>2. Len(buffer) = 0 /\ Len(chunk) = 0 /\ Len(pipe) = 0
    BY <2>1, Lengths DEF Stream
  <2> QED BY <2>1, <2>2, SizesAssumption DEF Stream
<1>4. CASE HelperExit \/ HelperKilled \/ Ended \/ UNCHANGED vars
  <2>1. UNCHANGED <<pc, chunk, buffer, output, pipe, written>>
    BY <1>4 DEF HelperExit, HelperKilled, Ended, shim, vars
  <2> QED BY <2>1 DEF Stream
<1> QED BY <1>1, <1>2, <1>3, <1>4, FreadSomeStream, FreadReturnsStream, HelperWriteStream
        DEF Next, Shim, Helper

-----------------------------------------------------------------------------
(* The answer                                                              *)

\* The first line ends where the first newline is.
LEMMA FirstLineEnds ==
  ASSUME NEW o, NEW i \in 1..Len(o), o[i] = "newline", Len(o) \in Nat,
         \A j \in 1..Len(o) : j < i => o[j] # "newline"
  PROVE  FirstLine(o) = SubSeq(o, 1, i - 1)
<1> DEFINE ends == {k \in 1..Len(o) : o[k] = "newline"}
<1>1. i \in ends /\ \A j \in ends : i <= j
  OBVIOUS
<1>2. \A k \in ends : (\A j \in ends : k <= j) => k = i
  BY <1>1
<1>3. (CHOOSE k \in ends : \A j \in ends : k <= j) = i
  BY <1>1, <1>2
<1> QED BY <1>1, <1>3 DEF FirstLine

LEMMA FirstLineWhole ==
  ASSUME NEW o, \A j \in 1..Len(o) : o[j] # "newline"
  PROVE  FirstLine(o) = o
  BY DEF FirstLine

\* The chunk fills the buffer: the answer is as long as the buffer.
LEMMA FullChunk ==
  ASSUME TypeOK, Control, Stream, pc = "fread", IsPath(output),
         EndOfData = {}, Len(chunk) = Remaining
  PROVE  helper # "searching" /\ buffer \o chunk = FirstLine(output)
<1>1. /\ chunk \in Seq(Byte) /\ Len(chunk) \in Nat
      /\ buffer \in Seq(Byte) /\ Len(buffer) \in Nat
      /\ output \in Seq(Byte) /\ Len(output) \in Nat
      /\ Len(pipe) \in Nat /\ written \in 0..Len(output)
      /\ BufferSize \in Nat \ {0} /\ Len(output) <= BufferSize
  BY Lengths DEF IsPath
<1>2. /\ buffer \o chunk \in Seq(Byte)
      /\ Len(buffer \o chunk) = Len(buffer) + Len(chunk)
      /\ \A i \in 1..Len(buffer) + Len(chunk) :
           (buffer \o chunk)[i] = IF i <= Len(buffer) THEN buffer[i] ELSE chunk[i - Len(buffer)]
  BY <1>1, ConcatProperties
<1>3. Len(buffer) + Len(chunk) = BufferSize /\ Len(buffer) + Len(chunk) + Len(pipe) = written
  BY <1>1 DEF Stream, Remaining
<1>4. Len(buffer \o chunk) = Len(output) /\ written > 0
  BY <1>1, <1>2, <1>3
<1>5. \A i \in 1..Len(output) : (buffer \o chunk)[i] = output[i] /\ output[i] # "newline"
  <2> SUFFICES ASSUME NEW i \in 1..Len(output)
               PROVE  (buffer \o chunk)[i] = output[i] /\ output[i] # "newline"
    OBVIOUS
  <2>1. CASE i <= Len(buffer)
    BY <1>1, <1>2, <1>4, <2>1 DEF Stream
  <2>2. CASE i > Len(buffer)
    <3>1. i - Len(buffer) \in 1..Len(chunk) /\ Len(buffer) + (i - Len(buffer)) = i
      BY <1>1, <1>2, <1>4, <2>2
    <3>2. chunk[i - Len(buffer)] = output[i] /\ chunk[i - Len(buffer)] # "newline"
      BY <3>1 DEF Stream, EndOfData, Positions
    <3> QED BY <1>1, <1>2, <1>4, <2>2, <3>2
  <2>3. i <= Len(buffer) \/ i > Len(buffer)
    BY <1>1
  <2> QED BY <2>1, <2>2, <2>3
<1>6. buffer \o chunk = output
  BY <1>1, <1>2, <1>4, <1>5, SeqEqual
<1>7. FirstLine(output) = output
  BY <1>5, FirstLineWhole
<1> QED BY <1>4, <1>6, <1>7 DEF Control

\* The chunk holds the end of the line.
LEMMA EndInChunk ==
  ASSUME TypeOK, Control, Stream, pc = "fread", IsPath(output),
         NEW i \in EndOfData, Clean(i)
  PROVE  helper # "searching" /\ buffer \o SubSeq(chunk, 1, i - 1) = FirstLine(output)
<1>1. /\ chunk \in Seq(Byte) /\ Len(chunk) \in Nat
      /\ buffer \in Seq(Byte) /\ Len(buffer) \in Nat
      /\ output \in Seq(Byte) /\ Len(output) \in Nat
      /\ Len(pipe) \in Nat /\ written \in 0..Len(output)
      /\ i \in 1..Len(chunk)
  BY Lengths, EndOfDataType
<1>2. Len(buffer) + Len(chunk) + Len(pipe) = written
  BY DEF Stream
<1>3. \A j \in 1..Len(chunk) : chunk[j] = output[Len(buffer) + j] /\ Len(buffer) + j \in 1..Len(output)
  BY <1>1, <1>2 DEF Stream
<1>4. Positions("nul") = {}
  BY <1>3 DEF Positions, IsPath
<1>5. EndOfData = Positions("newline")
  BY <1>4 DEF EndOfData
<1>6. /\ chunk[i] = "newline"
      /\ \A j \in 1..Len(chunk) : j < i => chunk[j] # "newline"
  BY <1>1, <1>5 DEF Positions, Clean
<1> DEFINE e == Len(buffer) + i
           head == SubSeq(chunk, 1, i - 1)
<1>7. e \in 1..Len(output) /\ output[e] = "newline"
  BY <1>1, <1>3, <1>6
<1>8. \A j \in 1..Len(output) : j < e => output[j] # "newline"
  <2> SUFFICES ASSUME NEW j \in 1..Len(output), j < e PROVE output[j] # "newline"
    OBVIOUS
  <2>1. CASE j <= Len(buffer)
    <3>1. j \in 1..Len(buffer)
      BY <1>1, <2>1
    <3>2. buffer[j] = output[j] /\ buffer[j] # "newline"
      BY <3>1 DEF Stream
    <3> QED BY <3>2
  <2>2. CASE j > Len(buffer)
    <3>1. j - Len(buffer) \in 1..Len(chunk) /\ j - Len(buffer) < i
          /\ Len(buffer) + (j - Len(buffer)) = j
      BY <1>1, <2>2
    <3> QED BY <1>3, <1>6, <3>1
  <2> QED BY <1>1, <2>1, <2>2
<1>9. FirstLine(output) = SubSeq(output, 1, e - 1)
  <2> HIDE DEF e
  <2> QED BY <1>1, <1>7, <1>8, FirstLineEnds
<1>10. /\ SubSeq(output, 1, e - 1) \in Seq(Byte) /\ Len(SubSeq(output, 1, e - 1)) = e - 1
       /\ \A j \in 1..e - 1 : SubSeq(output, 1, e - 1)[j] = output[j]
  <2>1. 1 \in 1..Len(output) + 1 /\ e - 1 \in 0..Len(output)
    BY <1>1, <1>7
  <2> HIDE DEF e
  <2>2. /\ SubSeq(output, 1, e - 1) \in Seq(Byte)
        /\ Len(SubSeq(output, 1, e - 1)) = IF 1 <= e - 1 THEN e - 1 - 1 + 1 ELSE 0
        /\ \A j \in 1..e - 1 - 1 + 1 : SubSeq(output, 1, e - 1)[j] = output[1 + j - 1]
    BY <1>1, <2>1, SubSeqProperties
  <2> QED BY <1>1, <2>1, <2>2
<1>11. /\ head \in Seq(Byte) /\ Len(head) = i - 1
       /\ \A j \in 1..i - 1 : head[j] = chunk[j]
  <2>1. 1 \in 1..Len(chunk) + 1 /\ i - 1 \in 0..Len(chunk)
    BY <1>1
  <2>2. /\ head \in Seq(Byte)
        /\ Len(head) = IF 1 <= i - 1 THEN i - 1 - 1 + 1 ELSE 0
        /\ \A j \in 1..i - 1 - 1 + 1 : head[j] = chunk[1 + j - 1]
    BY <1>1, <2>1, SubSeqProperties
  <2> QED BY <1>1, <2>1, <2>2
<1>12. /\ buffer \o head \in Seq(Byte)
       /\ Len(buffer \o head) = Len(buffer) + (i - 1)
       /\ \A j \in 1..Len(buffer) + (i - 1) :
            (buffer \o head)[j] = IF j <= Len(buffer) THEN buffer[j] ELSE head[j - Len(buffer)]
  <2> HIDE DEF head
  <2>1. /\ buffer \o head \in Seq(Byte)
        /\ Len(buffer \o head) = Len(buffer) + Len(head)
        /\ \A j \in 1..Len(buffer) + Len(head) :
             (buffer \o head)[j] = IF j <= Len(buffer) THEN buffer[j] ELSE head[j - Len(buffer)]
    BY <1>1, <1>11, ConcatProperties
  <2> QED BY <1>11, <2>1
<1>13. \A j \in 1..e - 1 : (buffer \o head)[j] = output[j]
  <2> SUFFICES ASSUME NEW j \in 1..e - 1 PROVE (buffer \o head)[j] = output[j]
    OBVIOUS
  <2>0. j \in 1..Len(buffer) + (i - 1)
    BY <1>1
  <2>1. CASE j <= Len(buffer)
    <3>1. (buffer \o head)[j] = buffer[j]
      BY <1>12, <2>0, <2>1
    <3>2. buffer[j] = output[j]
      BY <1>1, <2>0, <2>1 DEF Stream
    <3> QED BY <3>1, <3>2
  <2>2. CASE j > Len(buffer)
    <3>1. /\ j - Len(buffer) \in 1..i - 1 /\ j - Len(buffer) \in 1..Len(chunk)
          /\ Len(buffer) + (j - Len(buffer)) = j /\ ~(j <= Len(buffer))
      BY <1>1, <2>0, <2>2
    <3>2. (buffer \o head)[j] = head[j - Len(buffer)]
      BY <1>12, <2>0, <3>1
    <3> QED BY <1>3, <1>11, <3>1, <3>2
  <2> QED BY <1>1, <2>0, <2>1, <2>2
<1>14. buffer \o head = SubSeq(output, 1, e - 1)
  <2>1. e - 1 = Len(buffer) + (i - 1) /\ e - 1 \in Nat
    BY <1>1
  <2> HIDE DEF e, head
  <2> QED BY <1>10, <1>12, <1>13, <2>1, SeqEqual
<1>15. written > 0
  BY <1>1, <1>2
<1>16. helper # "searching"
  BY <1>15 DEF Control
<1> QED BY <1>9, <1>14, <1>16

\* The helper is gone and has left nothing in the pipe.
LEMMA EndOfStream ==
  ASSUME TypeOK, Control, Stream, pc = "fread", IsPath(output), chunk = <<>>, AtEnd
  PROVE  \/ helper # "searching" /\ buffer = FirstLine(output)
         \/ helper \in {"failure", "killed"}
<1>1. /\ buffer \in Seq(Byte) /\ Len(buffer) \in Nat
      /\ output \in Seq(Byte) /\ Len(output) \in Nat
      /\ Len(chunk) = 0 /\ Len(pipe) = 0
  BY Lengths, EmptySeq DEF AtEnd
<1>2. Len(buffer) = written
  BY <1>1 DEF Stream
<1>3. helper \in {"success", "failure", "killed"}
  BY DEF AtEnd, Alive, TypeOK, Control
<1>4. CASE helper = "success"
  <2>1. written = Len(output)
    BY <1>4 DEF Control
  <2>2. \A i \in 1..Len(output) : buffer[i] = output[i] /\ output[i] # "newline"
    BY <1>2, <2>1 DEF Stream
  <2>3. buffer = output
    BY <1>1, <1>2, <2>1, <2>2, SeqEqual
  <2>4. FirstLine(output) = output
    BY <2>2, FirstLineWhole
  <2> QED BY <1>4, <2>3, <2>4
<1> QED BY <1>3, <1>4

LEMMA StepAnswer == IInv /\ [Next]_vars => Answer'
<1> SUFFICES ASSUME IInv, [Next]_vars PROVE Answer'
  OBVIOUS
<1> USE DEF IInv
<1>1. CASE SearchSibling \/ SearchPathEntry \/ PathExhausted \/ Popen
  <2>1. /\ pc \in {"sibling", "path", "popen"} /\ pc' \in {"path", "popen", "fread", "returned"}
        /\ pc' = "returned" => helper' = helper
        /\ UNCHANGED <<install, buffer, output>>
    BY <1>1 DEF SearchSibling, SearchPathEntry, PathExhausted, Popen, NoHelper, Goto, child
  <2>2. pc' = "returned" => helper' = "none" /\ buffer' = <<>>
    BY <2>1 DEF Control
  <2> QED BY <2>1, <2>2 DEF Answer, ResultIsWholeAnswer
<1>2. CASE FreadSome
  BY <1>2 DEF FreadSome, Answer, ResultIsWholeAnswer
<1>3. CASE FreadReturns
  <2>1. /\ pc = "fread" /\ pc' \in {"fread", "pclose"}
        /\ UNCHANGED <<output, helper>>
    BY <1>3 DEF FreadReturns, child
  <2>2. ASSUME pc' = "pclose", IsPath(output)
        PROVE  \/ helper # "searching" /\ buffer' = FirstLine(output)
               \/ helper \in {"failure", "killed"}
    <3>1. CASE EndOfData = {} /\ Len(chunk) = Remaining /\ buffer' = buffer \o chunk
      BY <2>1, <2>2, <3>1, FullChunk
    <3>2. CASE \E i \in EndOfData : Clean(i) /\ buffer' = buffer \o SubSeq(chunk, 1, i - 1)
      BY <2>1, <2>2, <3>2, EndInChunk
    <3>3. CASE chunk = <<>> /\ buffer' = buffer
      <4>1. Len(chunk) # Remaining
        <5>1. Len(chunk) = 0 /\ Len(buffer) < BufferSize /\ Len(buffer) \in Nat
          BY <2>1, <3>3, Lengths, EmptySeq DEF Stream
        <5> QED BY <5>1, SizesAssumption DEF Remaining
      <4>2. AtEnd
        BY <1>3, <4>1 DEF FreadReturns
      <4> QED BY <2>1, <2>2, <3>3, <4>2, EndOfStream
    <3> QED BY <1>3, <2>2, <3>1, <3>2, <3>3 DEF FreadReturns
  <2>3. IsPath(output)' = IsPath(output) /\ FirstLine(output)' = FirstLine(output)
    BY <2>1 DEF IsPath, FirstLine
  <2> QED BY <2>1, <2>2, <2>3 DEF Answer, ResultIsWholeAnswer
<1>4. CASE Pclose
  <2>1. /\ pc = "pclose" /\ pc' = "wait"
        /\ UNCHANGED <<buffer, output, helper>>
    BY <1>4 DEF Pclose
  <2>2. IsPath(output)' = IsPath(output) /\ FirstLine(output)' = FirstLine(output)
    BY <2>1 DEF IsPath, FirstLine
  <2> QED BY <2>1, <2>2 DEF Answer, ResultIsWholeAnswer
<1>5. CASE Wait
  <2>1. /\ pc = "wait" /\ pc' = "returned" /\ ~Alive
        /\ buffer' = IF helper = "success" /\ ~install.reaped THEN buffer ELSE <<>>
        /\ UNCHANGED <<install, output, helper>>
    BY <1>5 DEF Wait, child
  <2>2. IsPath(output)' = IsPath(output) /\ FirstLine(output)' = FirstLine(output)
    BY <2>1 DEF IsPath, FirstLine
  <2>3. IsPath(output) /\ helper = "success" => buffer = FirstLine(output)
    BY <2>1 DEF Answer
  <2> QED BY <2>1, <2>2, <2>3 DEF Answer, ResultIsWholeAnswer
<1>6. CASE HelperPrints
  <2>1. /\ helper = "searching" /\ output = <<>>
        /\ UNCHANGED pc
    BY <1>6 DEF HelperPrints, shim, Control
  <2>2. IsPath(output)
    BY <2>1, SizesAssumption, EmptySeq DEF IsPath
  <2>3. pc \notin {"pclose", "wait", "returned"}
    BY <2>1, <2>2 DEF Answer, Control, Alive
  <2> QED BY <2>1, <2>3 DEF Answer, ResultIsWholeAnswer
<1>7. CASE HelperWrite \/ HelperExit \/ HelperKilled
  <2>1. /\ helper \in {"searching", "printing"} /\ helper' # "searching"
        /\ helper' # helper \/ helper = "printing"
        /\ helper = "searching" => helper' = "killed"
        /\ UNCHANGED <<pc, buffer, output>>
    BY <1>7 DEF HelperWrite, HelperExit, HelperKilled, Alive, shim
  <2>2. pc # "returned"
    BY <2>1 DEF Control, Alive
  <2>3. IsPath(output)' = IsPath(output) /\ FirstLine(output)' = FirstLine(output)
    BY <2>1 DEF IsPath, FirstLine
  <2> QED BY <2>1, <2>2, <2>3 DEF Answer, ResultIsWholeAnswer
<1>8. CASE Ended \/ UNCHANGED vars
  <2>1. UNCHANGED <<install, pc, buffer, output, helper>>
    BY <1>8 DEF Ended, vars
  <2>2. IsPath(output)' = IsPath(output) /\ FirstLine(output)' = FirstLine(output)
    BY <2>1 DEF IsPath, FirstLine
  <2> QED BY <2>1, <2>2 DEF Answer, ResultIsWholeAnswer
<1> QED BY <1>1, <1>2, <1>3, <1>4, <1>5, <1>6, <1>7, <1>8 DEF Next, Shim, Helper

-----------------------------------------------------------------------------
(* The theorems                                                            *)

LEMMA InitHolds == Init => IInv
<1> SUFFICES ASSUME Init PROVE IInv
  OBVIOUS
<1>1. Stream /\ Answer
  BY DEF Init, Stream, Answer, ResultIsWholeAnswer
<1> QED BY <1>1, InitType, InitControl DEF IInv

LEMMA StepHolds == IInv /\ [Next]_vars => IInv'
  BY StepType, StepControl, StepCandidate, StepStream, StepAnswer DEF IInv

LEMMA IInvAlways == Spec => []IInv
  BY InitHolds, StepHolds, PTL DEF Spec

\* Whatever the helper prints and however it is cut into reads, find_libcuda
\* never writes past out_path and its terminating nul.
THEOREM BufferSuffices == Spec => []TypeOK
<1>1. IInv => TypeOK
  BY DEF IInv
<1> QED BY <1>1, IInvAlways, PTL

\* find_libcuda returns the whole first line of a helper that succeeded, or
\* nothing, for every size of the buffer and the pipe.
THEOREM WholeAnswerAlways == Spec => []ResultIsWholeAnswer
<1>1. IInv => ResultIsWholeAnswer
  BY DEF IInv, Answer
<1> QED BY <1>1, IInvAlways, PTL

\* find_libcuda does not return before its child is gone.
THEOREM NoChildLeftAlways == Spec => []NoChildLeft
<1>1. IInv => NoChildLeft
  BY DEF IInv, Control, NoChildLeft
<1> QED BY <1>1, IInvAlways, PTL

\* find_search_helper finds a helper that access() allows, the one next to the
\* shim if there is one, for every PATH and whichever of its entries overflow.
THEOREM StartsUsableHelperAlways == Spec => []StartsUsableHelper
<1>1. IInv => StartsUsableHelper
  BY DEF IInv, Candidate
<1> QED BY <1>1, IInvAlways, PTL
=============================================================================
