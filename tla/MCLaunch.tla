------------------------------ MODULE MCLaunch ------------------------------
(***************************************************************************)
(* Instances of Launch for TLC: three directories, one with a path the     *)
(* pipe holds at once and that begins with a newline, and two that fill    *)
(* the buffer, one of these with a newline inside, and drivers of equal    *)
(* and of different versions behind them.                                  *)
(***************************************************************************)
EXTENDS Launch, TLC

CONSTANTS sys, compat, odd, d1, d2, d3, l1, l2, l3

MCSpelling == sys :> <<"newline", "a">> @@ compat :> <<"b", "c", "a">> @@ odd :> <<"c", "newline", "a">>

NoRuntime == [file |-> "absent", compat |-> sys]
Toolkit == [file |-> "toolkit", compat |-> compat]

Base ==
  [kind |-> [p \in Path |-> "directory"],
   at |-> (sys :> d1 @@ compat :> d2 @@ odd :> d3),
   inode |-> (d1 :> 1 @@ d2 :> 2 @@ d3 :> 3),
   libcuda |-> [d \in Dir |-> "file"],
   lib |-> (d1 :> l1 @@ d2 :> l2 @@ d3 :> l3),
   libInode |-> (l1 :> 1 @@ l2 :> 2 @@ l3 :> 3),
   probe |-> [l \in Lib |-> 1],
   companions |-> [d \in Dir |-> "file"],
   cudart |-> [p \in Path |-> IF p = odd THEN [k \in 1..3 |-> Toolkit]
                                         ELSE [k \in 1..3 |-> NoRuntime]]]

MCFileSystems ==
  {[Base EXCEPT !.probe = v, !.companions[d2] = c, !.kind[compat] = k, !.lib[d3] = s] :
     v \in {l1 :> 1 @@ l2 :> 2 @@ l3 :> 2, l1 :> 2 @@ l2 :> 1 @@ l3 :> 3,
            l1 :> -2 @@ l2 :> 1 @@ l3 :> -1, l1 :> -1 @@ l2 :> -1 @@ l3 :> -2},
     c \in {"file", "absent"},
     k \in {"directory", "denied"},
     s \in {l1, l3}}

MCArguments ==
  {[libs |-> <<>>, home |-> h, paths |-> p] :
     h \in {<<>>, <<compat>>}, p \in {<<sys>>, <<odd, sys>>}}

MCInstalls ==
  [prefix : {"found"}, sibling : {TRUE}, pathSet : {FALSE}, path : {<<>>}, reaped : BOOLEAN]
  \cup
  [prefix : {"found", "missing"}, sibling : {FALSE}, pathSet : {TRUE},
   path : {<<[fits |-> TRUE, usable |-> TRUE], [fits |-> FALSE, usable |-> FALSE]>>},
   reaped : {FALSE}]
=============================================================================
