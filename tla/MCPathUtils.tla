---------------------------- MODULE MCPathUtils -----------------------------
(***************************************************************************)
(* Instances of PathUtils for TLC: every LD_AUDIT of up to six characters  *)
(* with two shims, every path of up to six characters a shim may have with *)
(* three LD_AUDITs, and LD_AUDITs whose own entry, with its delimiter or   *)
(* without, is about as long as PATH_MAX.                                  *)
(***************************************************************************)
EXTENDS PathUtils

MCPrefix == <<"l">>
MCHelper == <<"/", "e", "/", "h">>
MCSoname == <<"s">>

Strings(chars, length) == UNION {[1..n -> chars] : n \in 0..length}

\* Paths of files: with a name behind the last slash.
Files(length) ==
  {s \in Strings({"/", "l", "x"}, length) : s # <<>> /\ s[Len(s)] # "/"}

\* An entry of the shim's, n + 1 characters long.
OwnPath(n) == [i \in 1..n |-> "/"] \o <<"x">>

LongEntries ==
  {before \o OwnPath(n) \o behind :
     before \in {<<>>, <<"l", ":">>}, n \in 6..9, behind \in {<<>>, <<":">>, <<":", "x">>}}

MCInputs ==
  [self : {<<"/", "l", "/", "x">>, <<"l", "/", "x", "x">>},
   ldAudit : Strings({":", "/", "x"}, 6) \cup LongEntries]
  \cup
  [self : Files(6) \cup {<<".", "/", "l", "/", "x">>, <<"x", "/", ".", "/", "l", "/", "x">>,
                         <<"/", "x", "/", "x", "/", "l", "/", "x">>,
                         <<"/", "x", "/", "x", "x", "/", "l", "/", "x">>},
   ldAudit : {<<>>, <<"x">>, <<":", "x", ":", "/", "x", ":", "l">>}]

MCDirs == {<<"/">>, <<"d">>, <<"d", "/">>, <<"/", "d">>, <<".">>,
           <<"/", "d", "/", "d", "/", "d">>, <<"/", "d", "/", "d", "/", "d", "/">>,
           <<"/", "d", "/", "d", "/", "d", "d">>}
=============================================================================
