---------------------------- MODULE MCParseArgs -----------------------------
(***************************************************************************)
(* Instances of ParseArgs for TLC.                                         *)
(***************************************************************************)
EXTENDS ParseArgs, TLC

CONSTANTS here, pa, pb, empty

MCKinds ==
  {here :> "directory" @@ pa :> k @@ pb :> l :
     k \in {"directory", "file"}, l \in {"directory", "file", "absent", "denied"}}

Arg(a, l) == [arg |-> a, list |-> l]
Stdin == Arg("stdin", <<>>)
P(l) == Arg("-p", l)
L(l) == Arg("-l", l)

MCCommandLines ==
  {<<>>, <<Stdin>>, <<Stdin, Stdin>>, <<P(<<pa, empty>>)>>, <<P(<<>>), L(<<pa, empty, pa>>)>>,
   <<Stdin, P(<<pb, pa>>), Stdin>>, <<L(<<pa>>), Stdin, Arg("junk", <<>>)>>,
   <<L(<<pb>>), Arg("usage", <<>>), P(<<pa>>)>>}

Line == {<<>>, <<P(<<pa>>)>>, <<L(<<pb, pa>>), Stdin>>, <<Stdin, P(<<empty, pa>>), Stdin>>}
MCInputs == SeqOf(Line, 3)

MCDefaults == {<<pa, empty>>, <<>>}
=============================================================================
