---------------------------- MODULE MCAuditShim -----------------------------
(***************************************************************************)
(* Instances of AuditShim for TLC: LD_AUDIT with up to three entries, of   *)
(* which up to two are the shim's, and six directories: one with a short   *)
(* path, two around the length where the longest library name still fits,  *)
(* one whose name has a newline behind the short path, one whose path      *)
(* begins with that of a library in the short one, and a relative one.     *)
(***************************************************************************)
EXTENDS AuditShim

CONSTANTS short, longest, overlong, newline, beside, relative, old, new

MCDirLength ==
  short :> 20 @@ longest :> 4065 @@ overlong :> 4066 @@ newline :> 24 @@ beside :> 35
    @@ relative :> 8

MCFirstLine == [d \in Dir |-> IF d = newline THEN short ELSE d]
MCBeside == {<<beside, short, "libcuda">>}

\* Where old drivers are at first, and where a new one.
Holding(olds, news) ==
  [d \in Dir |-> IF d \in olds THEN old ELSE IF d \in news THEN new ELSE NoDriver]

MCInstallations ==
  {Holding({short}, {relative}), Holding({newline}, {longest})}

Slots(names, delim) ==
  [i \in 1..Len(names) |-> [name |-> names[i], delim |-> i < Len(names) \/ delim]]

MCEnvironments ==
  {Slots(<<"self">>, FALSE), Slots(<<"audit1", "audit2">>, FALSE),
   Slots(<<"audit1", "self", "audit2">>, TRUE), Slots(<<"self", "audit1", "self">>, TRUE),
   Slots(<<"empty", "self", "self">>, FALSE)}
=============================================================================
