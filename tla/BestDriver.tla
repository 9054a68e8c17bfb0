----------------------------- MODULE BestDriver -----------------------------
(***************************************************************************)
(* What cuda-autocompat-search promises its caller, without saying how it  *)
(* looks: it is offered driver directories one at a time and keeps the     *)
(* best one.  A driver the application already links to wins over every    *)
(* other one; without it the newest driver of all that were offered wins,  *)
(* and a directory that is not usable never does.  The order in which the  *)
(* directories are offered, the caches and the file system are left out:   *)
(* DriverSearch is the program and implements this module.                 *)
(***************************************************************************)
EXTENDS Integers

CONSTANT Path          \* paths of directories that may hold a libcuda.so.1

VARIABLES
  verOf,    \* version of the driver at each path, -1 where it is not usable
  loaded,   \* paths whose driver the application already links to
  others,   \* paths the rest of the search comes across
  faulty,   \* whether the file system can make the search fail half way
  offered,  \* paths offered so far
  best,     \* the best path offered so far, as a set of at most one path
  status    \* "searching", "found", "none" or "crashed"

inputs == <<verOf, loaded, others, faulty>>
vars == <<verOf, loaded, others, faulty, offered, best, status>>

Usable(p) == verOf[p] >= 0

Init ==
  /\ verOf \in [Path -> Int]
  /\ loaded \in SUBSET Path
  /\ others \in SUBSET Path
  /\ faulty \in BOOLEAN
  /\ offered = {}
  /\ best = {}
  /\ status = "searching"

Better(p) == Usable(p) /\ \A q \in best : verOf[p] > verOf[q]

Take(p) ==
  /\ status = "searching"
  /\ offered' = offered \cup {p}
  /\ best' = IF Better(p) THEN {p} ELSE best
  /\ UNCHANGED <<inputs, status>>

\* A loaded driver is looked at only until one of them is usable.
OfferLoaded(p) ==
  /\ p \in loaded \ offered
  /\ best = {}
  /\ Take(p)

\* Anything else is looked at only when no loaded driver is usable.
OfferOther(p) ==
  /\ p \in others \ offered
  /\ loaded \subseteq offered
  /\ \A q \in loaded : ~Usable(q)
  /\ Take(p)

Finish ==
  /\ status = "searching"
  /\ \/ best \cap loaded # {}
     \/ loaded \cup others \subseteq offered
  /\ status' = IF best # {} THEN "found" ELSE "none"
  /\ UNCHANGED <<inputs, offered, best>>

Crash ==
  /\ status = "searching"
  /\ faulty
  /\ status' = "crashed"
  /\ best' = best
  /\ offered' \in {offered} \cup {offered \cup {p} : p \in loaded \cup others}
  /\ UNCHANGED inputs

Next ==
  \/ \E p \in Path : OfferLoaded(p) \/ OfferOther(p)
  \/ Finish
  \/ Crash

Spec == Init /\ [][Next]_vars /\ WF_vars(Next)
=============================================================================
