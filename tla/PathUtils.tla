----------------------------- MODULE PathUtils ------------------------------
(***************************************************************************)
(* The characters of la_version: how the shim finds its own entry in       *)
(* LD_AUDIT and moves the rest over it (src/rtld-audit/audit.c), where it  *)
(* looks for the helper and what it appends a library's name to            *)
(* (search_helper.c), with next_token, path_prefix, path_join and the file *)
(* name functions of src/utils/c/path_utils.c.                             *)
(*                                                                         *)
(* A string is a sequence of characters without its terminating nul; a     *)
(* pointer into it is a position.  Names are a few characters long: "l"    *)
(* stands for a name that begins with "lib".  LD_AUDIT not being set is    *)
(* the empty string, which the walk treats alike.                          *)
(***************************************************************************)
EXTENDS Integers, SequencesExt

CONSTANTS
  Char,      \* the characters of a string
  Inputs,    \* the shim's own path and LD_AUDIT: [self, ldAudit]
  Dirs,      \* directories the helper may answer
  PathMax,   \* PATH_MAX
  Prefix,    \* the first characters of a library directory, "lib"
  Helper,    \* "/libexec/cuda-autocompat-search"
  Soname     \* the name of a library

Byte == Char \cup {"nul"}

ASSUME CharAssumption == {"/", ".", ":"} \subseteq Char /\ "nul" \notin Char
ASSUME PathMaxAssumption == PathMax \in Nat \ {0}
\* The shim is a file: its path does not end in a slash.
ASSUME InputsAssumption ==
  /\ Inputs \subseteq [self : Seq(Char) \ {<<>>}, ldAudit : Seq(Char)]
  /\ \A input \in Inputs : Last(input.self) # "/"
ASSUME NamesAssumption ==
  /\ Dirs \subseteq Seq(Char) \ {<<>>}
  /\ Prefix \in Seq(Char) \ {<<>>} /\ \A i \in 1..Len(Prefix) : Prefix[i] # "/"
  /\ Helper \in Seq(Char) \ {<<>>} /\ Head(Helper) = "/"
  /\ Soname \in Seq(Char) \ {<<>>, <<".">>} /\ \A i \in 1..Len(Soname) : Soname[i] # "/"

VARIABLES
  self,      \* the shim's path, as the linker opened it
  original,  \* LD_AUDIT the program was started with
  env,       \* the bytes LD_AUDIT had then
  pc,        \* where la_version is
  cursor,    \* next_token's cursor
  backup,    \* what sanitize_ld_audit keeps of the entry it takes out
  match,     \* path_prefix: length of the prefix, -1 for none
  outPath,   \* the helper's path, empty for none
  dir,       \* the helper's answer, empty for none
  library    \* the library's path, empty for none

vars == <<self, original, env, pc, cursor, backup, match, outPath, dir, library>>

NoBackup == [slot |-> 0, data |-> <<>>, trailing |-> 0]

Init ==
  /\ \E input \in Inputs : self = input.self /\ original = input.ldAudit
  /\ env = original
  /\ pc = "sanitize"
  /\ cursor = 1
  /\ backup = NoBackup
  /\ match = -1
  /\ outPath = <<>>
  /\ dir = <<>>
  /\ library = <<>>

-----------------------------------------------------------------------------
(* path_utils.c                                                            *)

More(s, from) == from <= Len(s) /\ s[from] # "nul"

\* next_token: the position behind the token at from.
TokenEnd(s, from, delim) ==
  CHOOSE end \in from..Len(s) + 1 :
    /\ end <= Len(s) => s[end] \in {delim, "nul"}
    /\ \A i \in from..end - 1 : s[i] \notin {delim, "nul"}

Delimited(s, end, delim) == end <= Len(s) /\ s[end] = delim

\* Mutant of NextToken: the delimiter is left to the next token.
NextTokenAtEnd(s, end, delim) == end

\* next_token: the start of the next token, behind the delimiter if any.
NextToken(s, end, delim) == IF Delimited(s, end, delim) THEN end + 1 ELSE end

Slashes(s) == {i \in 1..Len(s) : s[i] = "/"}

\* path_filename, path_filename2: what is behind the last slash.
FileName(s) == SubSeq(s, Max({0} \cup Slashes(s)) + 1, Len(s))

Parent(s) == IF s = <<>> THEN <<".">> ELSE s

\* Mutant of PathJoin: the parent's own separator is not looked at.
PathJoinTwice(parent, child) ==
  Parent(parent) \o (IF Head(child) = "/" THEN <<>> ELSE <<"/">>) \o child

\* path_join, without its limit.
PathJoin(parent, child) ==
  LET sep == IF Last(Parent(parent)) = "/" \/ Head(child) = "/" THEN <<>> ELSE <<"/">>
  IN Parent(parent) \o sep \o child

\* Mutant of Fits: the terminating nul is forgotten.
FitsWithoutNul(path) == Len(path) <= PathMax

Fits(path) == Len(path) < PathMax

\* What path_join writes: nothing when it fails.
Joined(parent, child) ==
  LET path == PathJoin(parent, child) IN IF Fits(path) THEN path ELSE <<>>

-----------------------------------------------------------------------------
(* sanitize_ld_audit, restore_ld_audit                                     *)

Nuls(n) == [i \in 1..n |-> "nul"]

\* Mutant of Moved: the slot is cleared behind what was moved into it only.
MovedShort(slot, next) ==
  LET trailing == SubSeq(env, next, Len(env))
  IN SubSeq(env, 1, slot - 1) \o trailing \o SubSeq(env, slot + Len(trailing), Len(env))

\* The bytes behind the slot move over it, nul bytes follow.
Moved(slot, next) ==
  SubSeq(env, 1, slot - 1) \o SubSeq(env, next, Len(env)) \o Nuls(next - slot)

\* The backup holds PATH_MAX bytes: what is left of them behind the slot is
\* cleared, and its number must not be negative.
FitsBackup(slot, next) == next - slot <= PathMax

\* Mutant of Backup: the slot without its delimiter.
BackupOfToken(slot, next) ==
  [slot |-> slot, trailing |-> Len(env) - next + 1,
   data |-> SubSeq(env, slot, TokenEnd(env, slot, ":") - 1)]

Backup(slot, next) ==
  [slot |-> slot, trailing |-> Len(env) - next + 1, data |-> SubSeq(env, slot, next - 1)]

SanitizeToken ==
  /\ pc = "sanitize"
  /\ More(env, cursor)
  /\ LET end == TokenEnd(env, cursor, ":")
         next == NextToken(env, end, ":")
         own == FileName(SubSeq(env, cursor, end - 1)) = FileName(self)
     IN \/ /\ ~own
           /\ cursor' = next
           /\ UNCHANGED <<env, backup, pc>>
        \/ /\ own
           /\ FitsBackup(cursor, next)
           /\ backup' = Backup(cursor, next)
           /\ env' = Moved(cursor, next)
           /\ cursor' = 1
           /\ pc' = "prefix"
  /\ UNCHANGED <<self, original, match, outPath, dir, library>>

\* The entry is longer than the backup: memcpy writes behind the buffer, and
\* memset is given a negative number of bytes, which is more than the program
\* has.  LD_AUDIT is not edited before that.
SanitizeOverflows ==
  /\ pc = "sanitize"
  /\ More(env, cursor)
  /\ LET end == TokenEnd(env, cursor, ":")
     IN /\ FileName(SubSeq(env, cursor, end - 1)) = FileName(self)
        /\ ~FitsBackup(cursor, NextToken(env, end, ":"))
  /\ pc' = "crashed"
  /\ UNCHANGED <<self, original, env, cursor, backup, match, outPath, dir, library>>

\* The string is walked through without an entry that is the shim.
SanitizeEnds ==
  /\ pc = "sanitize"
  /\ ~More(env, cursor)
  /\ cursor' = 1
  /\ pc' = "prefix"
  /\ UNCHANGED <<self, original, env, backup, match, outPath, dir, library>>

\* restore_ld_audit, were backup->slot still set: the entry's bytes return
\* and the trailing ones move back behind them.
Restored ==
  SubSeq(env, 1, backup.slot - 1) \o backup.data
    \o SubSeq(env, backup.slot, backup.slot + backup.trailing - 1)

-----------------------------------------------------------------------------
(* find_search_helper with path_prefix, and the joins of la_version        *)

StartsWith(s, from, end) ==
  /\ end - from >= Len(Prefix)
  /\ SubSeq(s, from, from + Len(Prefix) - 1) = Prefix

\* component - 1 - path
MatchAt(from) == from - 2

\* Mutant of PrefixComponent: the file name counts as a directory.
PrefixAnyComponent ==
  /\ pc = "prefix"
  /\ More(self, cursor)
  /\ LET end == TokenEnd(self, cursor, "/")
     IN /\ cursor' = NextToken(self, end, "/")
        /\ match' = IF StartsWith(self, cursor, end) THEN MatchAt(cursor) ELSE match
        /\ pc' = IF Delimited(self, end, "/") THEN pc ELSE "join"
  /\ UNCHANGED <<self, original, env, backup, outPath, dir, library>>

PrefixComponent ==
  /\ pc = "prefix"
  /\ More(self, cursor)
  /\ LET end == TokenEnd(self, cursor, "/")
     IN \/ /\ Delimited(self, end, "/")
           /\ cursor' = NextToken(self, end, "/")
           /\ match' = IF StartsWith(self, cursor, end) THEN MatchAt(cursor) ELSE match
           /\ pc' = pc
        \/ /\ ~Delimited(self, end, "/")
           /\ pc' = "join"
           /\ UNCHANGED <<cursor, match>>
  /\ UNCHANGED <<self, original, env, backup, outPath, dir, library>>

JoinHelper ==
  /\ pc = "join"
  /\ outPath' = IF match = -1 THEN <<>> ELSE Joined(SubSeq(self, 1, match), Helper)
  /\ pc' = "answer"
  /\ UNCHANGED <<self, original, env, cursor, backup, match, dir, library>>

\* The helper names a directory, which la_version joins the library's name to.
JoinLibrary ==
  /\ pc = "answer"
  /\ outPath # <<>>
  /\ \E d \in Dirs : dir' = d /\ library' = Joined(d, Soname)
  /\ pc' = "done"
  /\ UNCHANGED <<self, original, env, cursor, backup, match, outPath>>

\* There is no helper, or it fails.
NoLibrary ==
  /\ pc = "answer"
  /\ pc' = "done"
  /\ UNCHANGED <<self, original, env, cursor, backup, match, outPath, dir, library>>

Ended == pc \in {"done", "crashed"} /\ UNCHANGED vars

Steps ==
  \/ SanitizeToken
  \/ SanitizeOverflows
  \/ SanitizeEnds
  \/ PrefixComponent
  \/ JoinHelper
  \/ JoinLibrary
  \/ NoLibrary

Next == Steps \/ Ended

\* The program is sequential and runs.
Spec == Init /\ [][Next]_vars /\ WF_vars(Steps)

-----------------------------------------------------------------------------
(* Properties                                                              *)

\* The type invariant; what is joined leaves room for its terminating nul,
\* LD_AUDIT keeps its bytes' number and what is kept of it fits the backup.
TypeOK ==
  /\ self \in Seq(Char) /\ original \in Seq(Char) /\ env \in Seq(Byte)
  /\ pc \in {"sanitize", "prefix", "join", "answer", "done", "crashed"}
  /\ Len(env) = Len(original)
  /\ Len(backup.data) <= PathMax
  /\ cursor \in 1..Len(env) + 1 \/ cursor \in 1..Len(self) + 1
  /\ match \in -1..Len(self)
  /\ outPath \in Seq(Char) /\ Len(outPath) < PathMax
  /\ dir \in {<<>>} \cup Dirs
  /\ library \in Seq(Char) /\ Len(library) < PathMax

\* The names between the delimiters of a list or a path, each as its first and
\* its last position; an empty one is none.
Runs(s, delim) ==
  {run \in (1..Len(s)) \X (1..Len(s)) :
     /\ run[1] <= run[2]
     /\ \A i \in run[1]..run[2] : s[i] # delim
     /\ run[1] > 1 => s[run[1] - 1] = delim
     /\ run[2] < Len(s) => s[run[2] + 1] = delim}

Text(s, run) == SubSeq(s, run[1], run[2])
Shifted(run, by) == <<run[1] + by, run[2] + by>>

\* The names "runs" of s are the names "as" of a where they were, and behind
\* them the names "bs" of b, all moved by the same distance: none is missing,
\* cut, changed, merged with its neighbour or out of its order.
Joins(s, runs, a, as, b, bs) ==
  \E by \in -Len(b)..Len(s) :
    /\ runs = as \cup {Shifted(run, by) : run \in bs}
    /\ \A run \in as : Text(s, run) = Text(a, run)
    /\ \A run \in bs : Text(s, Shifted(run, by)) = Text(b, run)
    /\ \A x \in as, y \in bs : x[2] < y[1] + by

\* The last n characters of s are its file name.
HasFileName(s, n) ==
  /\ n <= Len(s)
  /\ \A i \in Len(s) - n + 1..Len(s) : s[i] # "/"
  /\ n < Len(s) => s[Len(s) - n] = "/"

\* An entry with the shim's file name.
Own(entry) ==
  \E n \in 0..Len(self) :
    /\ HasFileName(self, n) /\ HasFileName(entry, n)
    /\ \A i \in 0..n - 1 : entry[Len(entry) - i] = self[Len(self) - i]

OwnEntries == {run \in Runs(original, ":") : Own(Text(original, run))}

\* LD_AUDIT, edited in place, names the audit libraries it named, in their
\* order, but for the first that has the shim's file name: no entry is cut,
\* merged with its neighbour or left in part, and no byte behind the
\* terminating nul is anything but nul.
SlotRemoved ==
  pc \notin {"sanitize", "crashed"} =>
    \/ OwnEntries = {} /\ env = original
    \/ \E own \in OwnEntries, end \in 0..Len(env) :
         /\ \A other \in OwnEntries : own[1] <= other[1]
         /\ \A i \in 1..Len(env) : env[i] = "nul" <=> i > end
         /\ LET names == SubSeq(env, 1, end)
            IN Joins(names, Runs(names, ":"),
                     original, {run \in Runs(original, ":") : run[2] < own[1]},
                     original, {run \in Runs(original, ":") : run[1] > own[2]})

\* The bytes of an entry and of the delimiter behind it.
SlotLength(s, run) == run[2] - run[1] + (IF run[2] = Len(s) THEN 1 ELSE 2)

\* What sanitize_ld_audit keeps is enough to undo its edit: restore_ld_audit,
\* which backup->slot being cleared keeps from being called, would put back
\* every byte (audit.c:131).  Only an own entry which with its delimiter is
\* longer than PATH_MAX cannot be kept: it ends the program, before anything
\* of LD_AUDIT is changed (audit.c:103).
RestoreUndoes ==
  /\ backup # NoBackup => Restored = original
  /\ pc = "crashed" =>
       /\ env = original
       /\ \E own \in OwnEntries :
            /\ \A other \in OwnEntries : own[1] <= other[1]
            /\ SlotLength(original, own) > PathMax

\* A path as the kernel walks it: whether it is absolute, and its names.
Absolute(path) == Head(path) = "/"
Parts(path) == {run \in Runs(path, "/") : Text(path, run) # <<".">>}

\* The library directories in the shim's path.
LibraryDirs ==
  {run \in Runs(self, "/") : run[2] < Len(self) /\ IsPrefix(Prefix, Text(self, run))}

\* The helper is looked for in libexec beside the last library directory of
\* the shim's own path, as path_utils.h:73 says.  Nowhere, if there is no
\* such directory, if it is the first name of a relative path (match is then
\* the error value), or if the path is too long; and relative to the working
\* directory if it is in the root, whose empty prefix is joined as ".".
SiblingFound ==
  pc \in {"answer", "done"} =>
    \/ outPath = <<>> /\ \A lib \in LibraryDirs : lib[1] = 1
    \/ \E lib \in LibraryDirs :
         /\ lib[1] > 1
         /\ \A other \in LibraryDirs : other[1] <= lib[1]
         /\ \/ /\ outPath = <<>>
               /\ (IF lib[1] = 2 THEN 1 ELSE lib[1] - 2) + Len(Helper) >= PathMax
            \/ /\ outPath # <<>>
               /\ Joins(outPath, Parts(outPath),
                        self, {part \in Parts(self) : part[2] < lib[1]},
                        Helper, Parts(Helper))
               /\ Absolute(outPath) <=> Absolute(self) /\ lib[1] # 2

\* The library's path names the library in the directory the helper answered,
\* or is empty because no spelling of it that appends to it would fit.
LibraryInDir ==
  dir # <<>> /\ pc = "done" =>
    \/ /\ library = <<>>
       /\ Len(dir) + Len(Soname) + (IF Last(dir) = "/" THEN 0 ELSE 1) >= PathMax
    \/ /\ library # <<>>
       /\ Joins(library, Parts(library), dir, Parts(dir), Soname, {<<1, Len(Soname)>>})
       /\ Absolute(library) <=> Absolute(dir)

\* la_version ends, or the program does: both walks come to the end of their
\* strings, the first although it changes the string it walks over.
WalksEnd == <>(pc \in {"done", "crashed"})
=============================================================================
