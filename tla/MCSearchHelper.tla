--------------------------- MODULE MCSearchHelper ---------------------------
(***************************************************************************)
(* Instances of SearchHelper for TLC: a buffer of three bytes behind a     *)
(* pipe of two, outputs that fit, that fill the buffer, that overflow both *)
(* and that have terminators, and every PATH of at most two entries.       *)
(***************************************************************************)
EXTENDS SearchHelper, SequencesExt

MCOutputs ==
  {<<"a">>, <<"a", "b", "c">>, <<"b", "a", "c", "d">>,
   <<"a", "b", "c", "d", "a", "c">>, <<"newline", "c">>,
   <<"a", "newline", "newline">>, <<"b", "newline", "a", "c", "d">>,
   <<"a", "newline", "nul">>}

MCInstalls ==
  [prefix : {"found"}, sibling : {FALSE}, pathSet : {TRUE},
   path : SeqOf(PathEntry, 2), reaped : {FALSE}]
  \cup
  [prefix : {"found"}, sibling : BOOLEAN, pathSet : BOOLEAN,
   path : {<<>>, <<[fits |-> TRUE, usable |-> TRUE], [fits |-> FALSE, usable |-> FALSE]>>},
   reaped : BOOLEAN]
  \cup
  [prefix : {"missing", "too_long"}, sibling : {FALSE}, pathSet : BOOLEAN,
   path : {<<>>}, reaped : {FALSE}]
=============================================================================
