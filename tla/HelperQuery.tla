---------------------------- MODULE HelperQuery -----------------------------
(***************************************************************************)
(* What la_version asks of the helper, without the two processes and the   *)
(* pipe between them: one question, "where is the best driver", and one    *)
(* answer, which is that directory or nothing.  Anything may go wrong with *)
(* the helper and lose the answer, and nothing may turn it into another    *)
(* one; the caller is never left waiting.  Launch implements this module.  *)
(***************************************************************************)

CONSTANT Line        \* what the helper may print

VARIABLES
  best,     \* the directory to be found, as a set of at most one line
  status,   \* "asked" or "answered"
  answer    \* what was found, as a set of at most one line

vars == <<best, status, answer>>

Init ==
  /\ best \in {{}} \cup {{line} : line \in Line}
  /\ status = "asked"
  /\ answer = {}

Reply ==
  /\ status = "asked"
  /\ status' = "answered"
  /\ answer' \in {best, {}}
  /\ UNCHANGED best

Spec == Init /\ [][Reply]_vars /\ WF_vars(Reply)
=============================================================================
