------------------------ MODULE SearchOutcomeProofs -------------------------
(***************************************************************************)
(* What a search comes to, for every file system on one device and every   *)
(* arguments: the result is the one Reference computes from the inputs     *)
(* alone, and every step of the search is one BestDriver allows.           *)
(*                                                                         *)
(* Both rest on one invariant about the position of the search: the result *)
(* leads all candidates behind it, and all of them were offered, unless an *)
(* application driver has ended the search early.                          *)
(***************************************************************************)
EXTENDS DriverSearchProofs

Candidates == Loaded \cup Discovered

\* The search functions in their order.
Stage ==
  [libraries_libcuda |-> 0, libraries_libcudart |-> 1, cuda_home |-> 2,
   paths_libcudart |-> 3, paths_libcuda |-> 4,
   report |-> 5, success |-> 5, failure |-> 5]

Here(c) == c[1] = Stage[phase] /\ c[2] = next
Passed(c) == c[1] < Stage[phase] \/ (c[1] = Stage[phase] /\ c[2] < next)

\* The candidates update_libcuda is called for; the others are not there.
Counts(c) == c[1] \in {0, 1} \/ LibcudaExists(c[3])

\* Drivers the application links to in their order, then the newest of the
\* others, the first one of those with its version.
Beats(c, d) ==
  \/ c[1] = 0 /\ (d[1] # 0 \/ c[2] < d[2])
  \/ /\ c[1] # 0 /\ d[1] # 0
     /\ \/ Probe(c[3]) > Probe(d[3])
        \/ Probe(c[3]) = Probe(d[3]) /\ Before(c, d)

Behind == {c \in Candidates : Passed(c) /\ Usable(c[3])}
Leads(c) == c \in Behind /\ \A d \in Behind : d = c \/ Beats(c, d)

\* The result leads everything behind the position of the search.
ResultLeads ==
  /\ found = {} => Behind = {}
  /\ \A r \in found : \E c \in Candidates :
       Leads(c) /\ r = [version |-> Probe(c[3]), dir |-> c[3]]

\* The first usable driver that the application links to ends the search of
\* its libraries; the other searches only run without one.
LoadedFirst ==
  /\ phase = "libraries_libcuda" /\ found # {} => next > Len(args.libs)
  /\ phase \in DOMAIN Following => \A c \in Loaded : ~Usable(c[3])

\* Everything behind the position was offered, except behind a driver the
\* application links to.
NoneLeftOut ==
  \/ \E r \in found : \E c \in Loaded : r.dir = c[3]
  \/ \A c \in Candidates : Passed(c) /\ Counts(c) => c[3] \in dirPathCache

Outcome == phase # "aborted" => ResultLeads /\ LoadedFirst /\ NoneLeftOut

-----------------------------------------------------------------------------
(* Candidates                                                              *)

\* The arguments are sequences of libraries and paths.
LEMMA ArgumentsAre ==
  ASSUME TypeOK
  PROVE  /\ Len(args.libs) \in Nat /\ Len(args.home) \in Nat /\ Len(args.paths) \in Nat
         /\ \A i \in 1..Len(args.libs) : args.libs[i].dir \in Path
         /\ \A i \in 1..Len(args.home) : args.home[i] \in Path
         /\ \A i \in 1..Len(args.paths) : args.paths[i] \in Path
         /\ \A p \in Path, k \in Soname : fs.cudart[p][k].compat \in Path
<1>1. args.libs \in Seq(Library) /\ args.home \in Seq(Path) /\ args.paths \in Seq(Path)
  BY DEF TypeOK, Argument
<1>2. \A i \in 1..Len(args.libs) : args.libs[i] \in Library
  BY <1>1
<1>3. \A p \in Path, k \in Soname : fs.cudart[p][k].compat \in Path
  BY DEF TypeOK, FileSystem, Runtime
<1> QED BY <1>1, <1>2, <1>3 DEF Library

\* A candidate by the element of the search function it comes from.
CandidateOf(c) ==
  /\ c = <<c[1], c[2], c[3]>>
  /\ \/ /\ c[1] = 0 /\ c[2] \in 1..Len(args.libs)
        /\ args.libs[c[2]].kind = "driver" /\ c[3] = args.libs[c[2]].dir
     \/ /\ c[1] = 1 /\ c[2] \in 1..Len(args.libs)
        /\ args.libs[c[2]].kind = "toolkit" /\ c[3] = args.libs[c[2]].dir
     \/ c[1] = 2 /\ c[2] \in 1..Len(args.home) /\ c[3] = args.home[c[2]]
     \/ /\ c[1] = 3 /\ c[2] \in 1..Len(args.paths)
        /\ \E k \in Soname : /\ Stop(args.paths[c[2]], k)
                             /\ fs.cudart[args.paths[c[2]]][k].file = "toolkit"
                             /\ c[3] = fs.cudart[args.paths[c[2]]][k].compat
     \/ c[1] = 4 /\ c[2] \in 1..Len(args.paths) /\ c[3] = args.paths[c[2]]

LEMMA LoadedShape ==
  /\ \A c \in Loaded : CandidateOf(c) /\ c[1] = 0
  /\ \A i \in 1..Len(args.libs) :
       args.libs[i].kind = "driver" => <<0, i, args.libs[i].dir>> \in Loaded
  BY DEF Loaded, CandidateOf

LEMMA DiscoveredShape ==
  /\ \A c \in Discovered : CandidateOf(c) /\ c[1] # 0
  /\ \A i \in 1..Len(args.libs) :
       args.libs[i].kind = "toolkit" => <<1, i, args.libs[i].dir>> \in Discovered
  /\ \A i \in 1..Len(args.home) : <<2, i, args.home[i]>> \in Discovered
  /\ \A i \in 1..Len(args.paths), k \in Soname :
       Stop(args.paths[i], k) /\ fs.cudart[args.paths[i]][k].file = "toolkit"
         => <<3, i, fs.cudart[args.paths[i]][k].compat>> \in Discovered
  /\ \A i \in 1..Len(args.paths) : <<4, i, args.paths[i]>> \in Discovered
<1> DEFINE ofPaths ==
      {<<3, x[1], fs.cudart[args.paths[x[1]]][x[2]].compat>> :
          x \in {y \in (1..Len(args.paths)) \X Soname :
                  /\ Stop(args.paths[y[1]], y[2])
                  /\ fs.cudart[args.paths[y[1]]][y[2]].file = "toolkit"}}
<1>1. ASSUME NEW c \in ofPaths PROVE CandidateOf(c) /\ c[1] = 3
  <2>1. PICK x \in (1..Len(args.paths)) \X Soname :
               /\ Stop(args.paths[x[1]], x[2])
               /\ fs.cudart[args.paths[x[1]]][x[2]].file = "toolkit"
               /\ c = <<3, x[1], fs.cudart[args.paths[x[1]]][x[2]].compat>>
    BY <1>1
  <2>2. x[1] \in 1..Len(args.paths) /\ x[2] \in Soname
    BY <2>1
  <2> QED BY <2>1, <2>2 DEF CandidateOf
<1>2. ASSUME NEW i \in 1..Len(args.paths), NEW k \in Soname,
             Stop(args.paths[i], k), fs.cudart[args.paths[i]][k].file = "toolkit"
      PROVE  <<3, i, fs.cudart[args.paths[i]][k].compat>> \in ofPaths
  <2>1. <<i, k>> \in (1..Len(args.paths)) \X Soname
    OBVIOUS
  <2>2. /\ Stop(args.paths[<<i, k>>[1]], <<i, k>>[2])
        /\ fs.cudart[args.paths[<<i, k>>[1]]][<<i, k>>[2]].file = "toolkit"
    BY <1>2
  <2> QED BY <2>1, <2>2
<1> HIDE DEF ofPaths
<1>3. Discovered =
        {<<1, i, args.libs[i].dir>> :
           i \in {j \in 1..Len(args.libs) : args.libs[j].kind = "toolkit"}}
        \cup {<<2, i, args.home[i]>> : i \in 1..Len(args.home)}
        \cup ofPaths
        \cup {<<4, i, args.paths[i]>> : i \in 1..Len(args.paths)}
  BY DEF Discovered, ofPaths
<1>4. ASSUME NEW c \in Discovered PROVE CandidateOf(c) /\ c[1] # 0
  <2>1. \A i \in {j \in 1..Len(args.libs) : args.libs[j].kind = "toolkit"} :
          CandidateOf(<<1, i, args.libs[i].dir>>)
    BY DEF CandidateOf
  <2>2. \A i \in 1..Len(args.home) : CandidateOf(<<2, i, args.home[i]>>)
    BY DEF CandidateOf
  <2>3. \A i \in 1..Len(args.paths) : CandidateOf(<<4, i, args.paths[i]>>)
    BY DEF CandidateOf
  <2> QED BY <1>1, <1>3, <2>1, <2>2, <2>3
<1>5. \A i \in 1..Len(args.paths), k \in Soname :
        Stop(args.paths[i], k) /\ fs.cudart[args.paths[i]][k].file = "toolkit"
          => <<3, i, fs.cudart[args.paths[i]][k].compat>> \in Discovered
  BY <1>2, <1>3
<1>6. /\ \A i \in 1..Len(args.libs) :
           args.libs[i].kind = "toolkit" => <<1, i, args.libs[i].dir>> \in Discovered
      /\ \A i \in 1..Len(args.home) : <<2, i, args.home[i]>> \in Discovered
      /\ \A i \in 1..Len(args.paths) : <<4, i, args.paths[i]>> \in Discovered
  BY <1>3
<1> QED BY <1>4, <1>5, <1>6

LEMMA CandidateShape == \A c \in Candidates : CandidateOf(c)
  BY LoadedShape, DiscoveredShape DEF Candidates

LEMMA ElementOf ==
  ASSUME NEW c, CandidateOf(c)
  PROVE  \/ c[1] \in {0, 1} /\ c[2] \in 1..Len(args.libs)
         \/ c[1] = 2 /\ c[2] \in 1..Len(args.home)
         \/ c[1] \in {3, 4} /\ c[2] \in 1..Len(args.paths)
  BY DEF CandidateOf

LEMMA CandidateType ==
  ASSUME TypeOK, NEW c \in Candidates
  PROVE  /\ c[1] \in 0..4 /\ c[2] \in Nat \ {0} /\ c[3] \in Path
         /\ Probe(c[3]) \in Int
         /\ c[1] = 0 <=> c \in Loaded
         /\ c[1] \in {0, 1} => c[2] <= Len(args.libs)
         /\ c[1] = 2 => c[2] <= Len(args.home)
         /\ c[1] \in {3, 4} => c[2] <= Len(args.paths)
<1>1. CandidateOf(c)
  BY CandidateShape
<1>2. c[1] \in 0..4 /\ c[2] \in Nat \ {0} /\ c[3] \in Path
  <2>1. c[1] \in 0..4 /\ c[2] \in Nat \ {0}
    BY <1>1, ElementOf, ArgumentsAre
  <2>2. CASE c[1] = 3
    <3>1. c[2] \in 1..Len(args.paths) /\ args.paths[c[2]] \in Path
      BY <1>1, <2>2, ArgumentsAre DEF CandidateOf
    <3>2. PICK k \in Soname : c[3] = fs.cudart[args.paths[c[2]]][k].compat
      BY <1>1, <2>2 DEF CandidateOf
    <3> QED BY <2>1, <3>1, <3>2, ArgumentsAre
  <2>3. CASE c[1] # 3
    BY <1>1, <2>1, <2>3, ArgumentsAre DEF CandidateOf
  <2> QED BY <2>2, <2>3
<1>3. c[1] = 0 <=> c \in Loaded
  BY LoadedShape, DiscoveredShape DEF Candidates
<1>4. Probe(c[3]) \in Int
  BY <1>2 DEF TypeOK, FileSystem, Probe
<1>5. /\ c[1] \in {0, 1} => c[2] <= Len(args.libs)
      /\ c[1] = 2 => c[2] <= Len(args.home)
      /\ c[1] \in {3, 4} => c[2] <= Len(args.paths)
  BY <1>1, ElementOf, ArgumentsAre
<1> QED BY <1>2, <1>3, <1>4, <1>5

\* There is one candidate per element of a search function's loop.
LEMMA OneCandidatePerElement ==
  ASSUME NEW c \in Candidates, NEW d \in Candidates, c[1] = d[1], c[2] = d[2]
  PROVE  c = d
<1>1. CandidateOf(c) /\ CandidateOf(d)
  BY CandidateShape
<1>2. ASSUME NEW p, NEW k \in Soname, NEW m \in Soname, Stop(p, k), Stop(p, m)
      PROVE  k = m
  BY <1>2 DEF Stop, Soname
<1>3. c[3] = d[3]
  <2>1. CASE c[1] = 3
    <3>1. PICK k \in Soname : /\ Stop(args.paths[c[2]], k)
                              /\ c[3] = fs.cudart[args.paths[c[2]]][k].compat
      BY <1>1, <2>1 DEF CandidateOf
    <3>2. PICK m \in Soname : /\ Stop(args.paths[d[2]], m)
                              /\ d[3] = fs.cudart[args.paths[d[2]]][m].compat
      BY <1>1, <2>1 DEF CandidateOf
    <3> QED BY <1>2, <3>1, <3>2
  <2>2. ASSUME NEW b, CandidateOf(b), b[1] # 3
        PROVE  \/ b[1] \in {0, 1} /\ b[3] = args.libs[b[2]].dir
               \/ b[1] = 2 /\ b[3] = args.home[b[2]]
               \/ b[1] = 4 /\ b[3] = args.paths[b[2]]
    BY <2>2 DEF CandidateOf
  <2>3. CASE c[1] # 3
    BY <1>1, <2>2, <2>3
  <2> QED BY <2>1, <2>3
<1> QED BY <1>1, <1>3 DEF CandidateOf

\* Reference names one driver at most.
LEMMA ReferenceIsOne ==
  ASSUME TypeOK, NEW r \in Reference, NEW s \in Reference
  PROVE  r = s
<1> DEFINE loaded == {c \in Loaded : Usable(c[3])}
           others == {c \in Discovered : Usable(c[3])}
           Winner(c) == IF loaded # {}
                        THEN c \in loaded /\ \A d \in loaded : ~Before(d, c)
                        ELSE \A d \in others \ {c} :
                               \/ Probe(c[3]) > Probe(d[3])
                               \/ Probe(c[3]) = Probe(d[3]) /\ Before(c, d)
           Result(c) == [version |-> Probe(c[3]), dir |-> c[3]]
<1>1. Reference = {Result(c) : c \in {d \in loaded \cup others : Winner(d)}}
  BY DEF Reference
<1>2. PICK c \in loaded \cup others : Winner(c) /\ r = Result(c)
  BY <1>1
<1>3. PICK d \in loaded \cup others : Winner(d) /\ s = Result(d)
  BY <1>1
<1>4. /\ c \in Candidates /\ d \in Candidates
      /\ c[1] \in Nat /\ c[2] \in Nat /\ d[1] \in Nat /\ d[2] \in Nat
      /\ Probe(c[3]) \in Int /\ Probe(d[3]) \in Int
      /\ (c \in loaded => c[1] = 0) /\ (d \in loaded => d[1] = 0)
  <2>1. c \in Candidates /\ d \in Candidates
    BY DEF Candidates
  <2> QED BY <2>1, CandidateType
<1> HIDE DEF loaded, others
<1>5. c = d
  <2>1. CASE loaded # {}
    <3>1. c \in loaded /\ d \in loaded /\ ~Before(d, c) /\ ~Before(c, d)
      BY <1>2, <1>3, <2>1
    <3>2. c[1] = d[1] /\ c[2] = d[2]
      BY <1>4, <3>1 DEF Before
    <3> QED BY <1>4, <3>2, OneCandidatePerElement
  <2>2. CASE loaded = {} /\ c # d
    <3>1. c \in others \ {d} /\ d \in others \ {c}
      BY <2>2
    <3>2. /\ Probe(c[3]) > Probe(d[3]) \/ (Probe(c[3]) = Probe(d[3]) /\ Before(c, d))
          /\ Probe(d[3]) > Probe(c[3]) \/ (Probe(d[3]) = Probe(c[3]) /\ Before(d, c))
      BY <1>2, <1>3, <2>2, <3>1
    <3>3. Before(c, d) /\ Before(d, c)
      BY <1>4, <3>2
    <3> QED BY <1>4, <3>3 DEF Before
  <2> QED BY <2>1, <2>2
<1> QED BY <1>2, <1>3, <1>5

-----------------------------------------------------------------------------
(* The steps of the program, by what they do to the position               *)

\* The file system can end a search half way.
Faulty ==
  \E p \in Path :
    \/ StatusThrows(p)
    \/ fs.companions[fs.at[p]] = "denied"
    \/ \E k \in Soname : fs.cudart[p][k].file = "denied"

InSearch == phase \in {"libraries_libcuda"} \cup DOMAIN Following

PassOver == Skip /\ \A c \in Candidates : Here(c) => ~Counts(c)

\* update_libcuda for the candidate at the position; how the loop goes on.
OfferCandidate(c) ==
  /\ Here(c) /\ Counts(c) /\ UpdateLibcuda(c[3])
  /\ \/ Throws(c[3]) /\ Abort
     \/ /\ ~Throws(c[3]) /\ Continue
        /\ phase = "libraries_libcuda" => ~Accepted(c[3])
     \/ /\ phase = "libraries_libcuda" /\ Accepted(c[3])
        /\ next' = Len(args.libs) + 1 /\ UNCHANGED phase

Fault == Faulty /\ Abort /\ UNCHANGED searchState

Looks ==
  /\ InSearch
  /\ next <= LoopLength[phase]
  /\ PassOver \/ Fault \/ \E c \in Candidates : OfferCandidate(c)

LEMMA Stages ==
  /\ DOMAIN Following = {"libraries_libcudart", "cuda_home", "paths_libcudart", "paths_libcuda"}
  /\ Following["libraries_libcudart"] = "cuda_home"
  /\ Following["cuda_home"] = "paths_libcudart"
  /\ Following["paths_libcudart"] = "paths_libcuda"
  /\ Following["paths_libcuda"] = "report"
  /\ Stage["libraries_libcuda"] = 0 /\ Stage["libraries_libcudart"] = 1
  /\ Stage["cuda_home"] = 2 /\ Stage["paths_libcudart"] = 3
  /\ Stage["paths_libcuda"] = 4 /\ Stage["report"] = 5
  /\ Stage["success"] = 5 /\ Stage["failure"] = 5
  /\ LoopLength["libraries_libcuda"] = Len(args.libs)
  /\ LoopLength["libraries_libcudart"] = Len(args.libs)
  /\ LoopLength["cuda_home"] = Len(args.home)
  /\ LoopLength["paths_libcudart"] = Len(args.paths)
  /\ LoopLength["paths_libcuda"] = Len(args.paths)
  BY DEF Following, Stage, LoopLength

\* A candidate that is checked before update_libcuda is called for it.
LEMMA OfferExistingLooks ==
  ASSUME TypeOK, NEW c \in Candidates, Here(c), c[1] \notin {0, 1}, phase # "libraries_libcuda",
         OfferExisting(c[3])
  PROVE  PassOver \/ Fault \/ OfferCandidate(c)
<1>1. c[3] \in Path
  BY CandidateType
<1>2. CASE StatusThrows(c[3]) /\ Abort /\ UNCHANGED searchState
  BY <1>1, <1>2 DEF Fault, Faulty
<1>3. CASE LibcudaExists(c[3]) /\ Offer(c[3])
  BY <1>3 DEF Offer, OfferCandidate, Counts
<1>4. CASE ~LibcudaExists(c[3]) /\ Skip
  <2>1. CASE ~Counts(c)
    <3>1. \A d \in Candidates : Here(d) => d = c
      BY OneCandidatePerElement DEF Here
    <3> QED BY <1>4, <2>1, <3>1 DEF PassOver
  <2> QED BY <1>4, <2>1 DEF Counts
<1> QED BY <1>2, <1>3, <1>4 DEF OfferExisting

LEMMA StepLooks ==
  ASSUME TypeOK, Next
  PROVE  Looks \/ AfterLoaded \/ AfterSearch \/ Report \/ UNCHANGED vars
<1> USE Stages, ArgumentsAre
<1>1. CASE SearchLibrariesLibcuda
  <2> DEFINE lib == args.libs[next]
             c == <<0, next, lib.dir>>
  <2>1. phase = "libraries_libcuda" /\ next \in 1..Len(args.libs)
    BY <1>1 DEF SearchLibrariesLibcuda
  <2>2. InSearch /\ next <= LoopLength[phase]
    BY <2>1 DEF InSearch
  <2>3. CASE lib.kind # "driver" /\ Skip
    <3>1. \A d \in Candidates : ~Here(d)
      BY <2>1, <2>3, CandidateShape DEF Here, CandidateOf
    <3> QED BY <2>2, <2>3, <3>1 DEF Looks, PassOver
  <2>4. CASE lib.kind = "driver"
    <3>1. c \in Candidates /\ c[1] = 0 /\ c[2] = next /\ c[3] = lib.dir
      BY <2>1, <2>4, LoadedShape DEF Candidates
    <3>2. Here(c) /\ Counts(c)
      BY <2>1, <3>1 DEF Here, Counts
    <3> HIDE DEF c
    <3>3. CASE ~Accepted(lib.dir) /\ Offer(lib.dir)
      BY <2>2, <3>1, <3>2, <3>3 DEF Looks, OfferCandidate, Offer
    <3>4. CASE /\ Accepted(lib.dir) /\ UpdateLibcuda(lib.dir)
               /\ next' = Len(args.libs) + 1 /\ UNCHANGED phase
      BY <2>1, <2>2, <3>1, <3>2, <3>4 DEF Looks, OfferCandidate
    <3> QED BY <1>1, <2>4, <3>3, <3>4 DEF SearchLibrariesLibcuda
  <2> QED BY <1>1, <2>3, <2>4 DEF SearchLibrariesLibcuda
<1>2. CASE SearchLibrariesLibcudart
  <2> DEFINE lib == args.libs[next]
             c == <<1, next, lib.dir>>
  <2>1. phase = "libraries_libcudart" /\ next \in 1..Len(args.libs)
    BY <1>2 DEF SearchLibrariesLibcudart
  <2>2. InSearch /\ next <= LoopLength[phase]
    BY <2>1 DEF InSearch
  <2>3. CASE lib.kind # "toolkit" /\ Skip
    <3>1. \A d \in Candidates : ~Here(d)
      BY <2>1, <2>3, CandidateShape DEF Here, CandidateOf
    <3> QED BY <2>2, <2>3, <3>1 DEF Looks, PassOver
  <2>4. CASE lib.kind = "toolkit" /\ Offer(lib.dir)
    <3>1. c \in Candidates /\ c[1] = 1 /\ c[2] = next /\ c[3] = lib.dir
      BY <2>1, <2>4, DiscoveredShape DEF Candidates
    <3>2. Here(c) /\ Counts(c)
      BY <2>1, <3>1 DEF Here, Counts
    <3> HIDE DEF c
    <3> QED BY <2>1, <2>2, <2>4, <3>1, <3>2 DEF Looks, OfferCandidate, Offer
  <2> QED BY <1>2, <2>3, <2>4 DEF SearchLibrariesLibcudart
<1>3. CASE SearchCudaHome
  <2> DEFINE c == <<2, next, args.home[next]>>
  <2>1. phase = "cuda_home" /\ next \in 1..Len(args.home) /\ OfferExisting(args.home[next])
    BY <1>3 DEF SearchCudaHome
  <2>2. c \in Candidates /\ c[1] = 2 /\ c[2] = next /\ c[3] = args.home[next]
    BY <2>1, DiscoveredShape DEF Candidates
  <2> HIDE DEF c
  <2>3. Here(c) /\ InSearch /\ next <= LoopLength[phase]
    BY <2>1, <2>2 DEF Here, InSearch
  <2> QED BY <2>1, <2>2, <2>3, OfferExistingLooks DEF Looks
<1>4. CASE SearchPathsLibcuda
  <2> DEFINE c == <<4, next, args.paths[next]>>
  <2>1. /\ phase = "paths_libcuda" /\ next \in 1..Len(args.paths)
        /\ OfferExisting(args.paths[next])
    BY <1>4 DEF SearchPathsLibcuda
  <2>2. c \in Candidates /\ c[1] = 4 /\ c[2] = next /\ c[3] = args.paths[next]
    BY <2>1, DiscoveredShape DEF Candidates
  <2> HIDE DEF c
  <2>3. Here(c) /\ InSearch /\ next <= LoopLength[phase]
    BY <2>1, <2>2 DEF Here, InSearch
  <2> QED BY <2>1, <2>2, <2>3, OfferExistingLooks DEF Looks
<1>5. CASE SearchPathsLibcudart
  <2> DEFINE p == args.paths[next]
  <2>1. /\ phase = "paths_libcudart" /\ next \in 1..Len(args.paths)
        /\ \/ (\A k \in Soname : ~Stop(p, k)) /\ Skip
           \/ \E k \in Soname :
                /\ Stop(p, k)
                /\ \/ /\ fs.cudart[p][k].file = "denied"
                      /\ Abort
                      /\ UNCHANGED searchState
                   \/ /\ fs.cudart[p][k].file = "toolkit"
                      /\ OfferExisting(fs.cudart[p][k].compat)
    BY <1>5 DEF SearchPathsLibcudart
  <2>2. InSearch /\ next <= LoopLength[phase]
    <3>1. LoopLength["paths_libcudart"] = Len(args.paths)
      BY DEF LoopLength
    <3>2. InSearch
      BY <2>1 DEF InSearch, Following
    <3>3. phase = "paths_libcudart" /\ next \in 1..Len(args.paths)
      BY <2>1
    <3> HIDE DEF p
    <3> QED BY <3>1, <3>2, <3>3
  <2>3. CASE (\A k \in Soname : ~Stop(p, k)) /\ Skip
    <3>1. ASSUME NEW d \in Candidates, Here(d) PROVE FALSE
      <4>1. d[1] = 3 /\ d[2] = next /\ CandidateOf(d)
        BY <2>1, <3>1, CandidateShape DEF Here
      <4>2. \E k \in Soname : Stop(args.paths[d[2]], k)
        BY <4>1 DEF CandidateOf
      <4> QED BY <2>3, <4>1, <4>2
    <3> QED BY <2>2, <2>3, <3>1 DEF Looks, PassOver
  <2>4. ASSUME NEW k \in Soname, Stop(p, k), fs.cudart[p][k].file = "denied",
               Abort, UNCHANGED searchState
        PROVE  Looks
    <3>1. p \in Path
      BY <2>1
    <3> QED BY <2>2, <2>4, <3>1 DEF Looks, Fault, Faulty
  <2>5. ASSUME NEW k \in Soname, Stop(p, k), fs.cudart[p][k].file = "toolkit",
               OfferExisting(fs.cudart[p][k].compat)
        PROVE  Looks
    <3> DEFINE c == <<3, next, fs.cudart[p][k].compat>>
    <3>1. c \in Candidates /\ c[1] = 3 /\ c[2] = next /\ c[3] = fs.cudart[p][k].compat
      BY <2>1, <2>5, DiscoveredShape DEF Candidates
    <3> HIDE DEF c
    <3>2. Here(c)
      BY <2>1, <3>1 DEF Here
    <3>3. OfferExisting(c[3])
      BY <2>5, <3>1
    <3>4. PassOver \/ Fault \/ OfferCandidate(c)
      <4> HIDE DEF p
      <4> QED BY <2>1, <3>1, <3>2, <3>3, OfferExistingLooks
    <3> QED BY <2>2, <3>1, <3>4 DEF Looks
  <2> QED BY <2>1, <2>3, <2>4, <2>5
<1>6. CASE Ended
  BY <1>6 DEF Ended
<1> QED BY <1>1, <1>2, <1>3, <1>4, <1>5, <1>6 DEF Next

-----------------------------------------------------------------------------
(* The result leads what is behind the position                            *)

\* What the inputs decide stays as it is.
LEMMA Fixed ==
  ASSUME UNCHANGED inputs
  PROVE  /\ Candidates' = Candidates /\ Loaded' = Loaded
         /\ \A p : /\ Usable(p)' = Usable(p) /\ Probe(p)' = Probe(p)
                   /\ LibcudaExists(p)' = LibcudaExists(p)
         /\ \A c : Counts(c)' = Counts(c)
         /\ \A c, d : Beats(c, d)' = Beats(c, d)
<1> USE DEF inputs
<1>1. \A p : /\ Usable(p)' = Usable(p) /\ Probe(p)' = Probe(p)
             /\ LibcudaExists(p)' = LibcudaExists(p)
  BY DEF Usable, Probe, LibcudaExists, Libcuda
<1>2. Loaded' = Loaded
  BY DEF Loaded
<1>3. Discovered' = Discovered
  BY DEF Discovered, Stop
<1>4. \A c : Counts(c)' = Counts(c)
  BY <1>1 DEF Counts
<1>5. \A c, d : Beats(c, d)' = Beats(c, d)
  BY <1>1 DEF Beats, Before
<1> QED BY <1>1, <1>2, <1>3, <1>4, <1>5 DEF Candidates

\* update_libcuda takes a directory exactly when it is usable and newer than
\* the result: what the caches keep it from looking at is not.
LEMMA ImprovesWhen ==
  ASSUME IInv, OneDevice, NEW p \in Path
  PROVE  /\ Improves(p) <=> Usable(p) /\ \A r \in found : Probe(p) > r.version
         /\ Accepted(p) => Usable(p)
         /\ Improves(p) => GetApiVer(p) = Probe(p)
<1> USE DEF IInv
<1>1. Accepted(p) <=> Fresh(p) /\ Usable(p)
  BY AcceptedIsUsable
<1>2. Accepted(p) => GetApiVer(p) = Probe(p)
  BY AcceptedIsUsable
<1>3. ASSUME Usable(p), ~Fresh(p) PROVE \E r \in found : r.version >= Probe(p)
  <2>1. CASE p \in dirPathCache
    BY <1>3, <2>1 DEF BestOfChecked
  <2>2. CASE p \notin dirPathCache
    <3>1. PICK q \in dirPathCache : fs.kind[q] = "directory" /\ DirInode(q) = DirInode(p)
      BY <1>3, <2>2 DEF CachesAgree, Fresh, Usable
    <3>2. q \in Path /\ fs.at[q] \in Dir /\ fs.at[p] \in Dir
      BY <3>1 DEF TypeOK, FileSystem
    <3>3. fs.at[q] = fs.at[p]
      BY <3>1, <3>2 DEF OneDevice, DirInode
    <3>4. Usable(q) /\ Probe(q) = Probe(p)
      BY <1>3, <3>1, <3>3 DEF Usable, Probe, Libcuda
    <3> QED BY <3>1, <3>4 DEF BestOfChecked
  <2> QED BY <2>1, <2>2
<1>4. Probe(p) \in Int /\ \A r \in found : r.version \in Int
  BY DEF TypeOK, FileSystem, Probe
<1>5. Usable(p) /\ (\A r \in found : Probe(p) > r.version) => Fresh(p)
  BY <1>3, <1>4
<1> QED BY <1>1, <1>2, <1>5 DEF Improves

LEMMA UsableCounts == ASSUME NEW c, Usable(c[3]) PROVE Counts(c)
  BY DEF Usable, Counts, LibcudaExists

\* One more element is behind the position when a loop goes on.
LEMMA PassedNext ==
  ASSUME TypeOK, InSearch, Continue, NEW c \in Candidates
  PROVE  Passed(c)' <=> Passed(c) \/ Here(c)
<1>1. Stage[phase] \in Nat /\ next \in Nat /\ c[1] \in Nat /\ c[2] \in Nat
  BY Stages, CandidateType DEF InSearch, TypeOK
<1> QED BY <1>1 DEF Continue, Passed, Here

LEMMA SameBehind ==
  ASSUME UNCHANGED inputs, found' = found, Behind' = Behind, ResultLeads
  PROVE  ResultLeads'
  BY Fixed DEF ResultLeads, Leads

LEMMA BehindIs ==
  ASSUME UNCHANGED inputs
  PROVE  Behind' = {c \in Candidates : Passed(c)' /\ Usable(c[3])}
  BY Fixed DEF Behind

LEMMA PassOverLeads ==
  ASSUME TypeOK, InSearch, ResultLeads, UNCHANGED inputs, PassOver
  PROVE  ResultLeads'
<1>1. \A c \in Candidates : Usable(c[3]) => ~Here(c)
  BY UsableCounts DEF PassOver
<1>2. Behind' = Behind
  BY <1>1, PassedNext, BehindIs DEF Behind, PassOver, Skip
<1> QED BY <1>2, SameBehind DEF PassOver, Skip, searchState

\* What is known when a candidate is looked at.
LEMMA WhileLooking ==
  ASSUME IInv, OneDevice, Outcome, InSearch, next <= LoopLength[phase]
  PROVE  /\ phase # "aborted" /\ ResultLeads /\ LoadedFirst
         /\ phase = "libraries_libcuda" => found = {} /\ Behind = {} /\ next <= Len(args.libs)
         /\ phase # "libraries_libcuda" =>
              \A c \in Candidates : Usable(c[3]) => c[1] # 0
         /\ \A c \in Candidates : Passed(c) /\ Counts(c) => c[3] \in dirPathCache
<1>1. phase # "aborted" /\ ResultLeads /\ LoadedFirst /\ NoneLeftOut
  BY Stages DEF InSearch, Outcome
<1>2. phase = "libraries_libcuda" => found = {} /\ Behind = {} /\ next <= Len(args.libs)
  <2>1. LoopLength["libraries_libcuda"] = Len(args.libs)
    BY Stages
  <2>2. next \in Nat /\ Len(args.libs) \in Nat
    BY ArgumentsAre DEF IInv, TypeOK
  <2> QED BY <1>1, <2>1, <2>2 DEF LoadedFirst, ResultLeads
<1>3. phase # "libraries_libcuda" => \A c \in Candidates : Usable(c[3]) => c[1] # 0
  BY <1>1, CandidateType DEF InSearch, LoadedFirst, IInv
<1>4. ~ \E r \in found : \E c \in Loaded : r.dir = c[3]
  <2> SUFFICES ASSUME NEW r \in found, NEW c \in Loaded, r.dir = c[3] PROVE FALSE
    OBVIOUS
  <2>1. Usable(c[3])
    BY DEF IInv, FoundIsUsable
  <2> QED BY <1>1, <1>2, <2>1 DEF InSearch, LoadedFirst
<1> QED BY <1>1, <1>2, <1>3, <1>4 DEF NoneLeftOut

\* A candidate that is offered while the loop goes on.
LEMMA ContinueLeads ==
  ASSUME IInv, OneDevice, Outcome, InSearch, next <= LoopLength[phase],
         UNCHANGED inputs, NEW c \in Candidates, Here(c), Counts(c),
         UpdateLibcuda(c[3]), Continue,
         phase = "libraries_libcuda" => ~Accepted(c[3])
  PROVE  ResultLeads'
<1> DEFINE p == c[3]
<1>1. /\ p \in Path /\ c[1] \in Nat /\ c[2] \in Nat /\ TypeOK
      /\ \A d \in Candidates : Probe(d[3]) \in Int /\ d[1] \in Nat /\ d[2] \in Nat
  BY CandidateType DEF IInv
<1>2. ResultLeads
  BY WhileLooking
<1>3. Behind' = Behind \cup {d \in {c} : Usable(d[3])}
  <2>1. \A d \in Candidates : Passed(d)' <=> Passed(d) \/ d = c
    BY <1>1, PassedNext, OneCandidatePerElement DEF Here
  <2> QED BY <2>1, BehindIs DEF Behind
<1>4. \A d \in Behind : Before(d, c)
  BY <1>1 DEF Behind, Passed, Here, Before
<1>5. CASE Improves(p)
  <2>1. Usable(p) /\ (\A r \in found : Probe(p) > r.version) /\ GetApiVer(p) = Probe(p)
    BY <1>1, <1>5, ImprovesWhen
  <2>2. found' = {[version |-> Probe(p), dir |-> p]}
    BY <1>5, <2>1 DEF UpdateLibcuda
  <2>3. phase # "libraries_libcuda"
    BY <1>5 DEF Improves
  <2>4. ASSUME NEW d \in Behind PROVE Beats(c, d)
    <3>1. PICK r \in found : TRUE
      BY <1>2, <2>4 DEF ResultLeads
    <3>2. PICK e \in Candidates : Leads(e) /\ r = [version |-> Probe(e[3]), dir |-> e[3]]
      BY <1>2 DEF ResultLeads
    <3>3. Probe(p) > Probe(e[3])
      BY <2>1, <3>2
    <3>4. d[1] # 0 /\ e[1] # 0 /\ c[1] # 0 /\ d \in Candidates
      BY <2>1, <2>3, <3>2, WhileLooking DEF Behind, Leads
    <3>5. d = e \/ Beats(e, d)
      BY <3>2 DEF Leads
    <3>6. Probe(e[3]) >= Probe(d[3])
      BY <1>1, <3>4, <3>5 DEF Beats
    <3>7. Probe(p) > Probe(d[3])
      BY <1>1, <3>3, <3>4, <3>6
    <3> QED BY <3>4, <3>7 DEF Beats
  <2>5. Leads(c)'
    BY <1>3, <2>1, <2>4, Fixed DEF Leads
  <2> QED BY <2>2, <2>5, Fixed DEF ResultLeads
<1>6. CASE ~Improves(p)
  <2>1. found' = found
    BY <1>6 DEF UpdateLibcuda
  <2>2. CASE ~Usable(p)
    <3>1. Behind' = Behind
      BY <1>3, <2>2
    <3> QED BY <1>2, <2>1, <3>1, SameBehind
  <2>3. CASE Usable(p)
    <3>1. PICK r \in found : ~(Probe(p) > r.version)
      BY <1>1, <1>6, <2>3, ImprovesWhen
    <3>2. phase # "libraries_libcuda"
      BY <3>1, WhileLooking
    <3>3. ASSUME NEW s \in found PROVE s = r
      BY <1>1 DEF TypeOK
    <3>4. PICK e \in Candidates : Leads(e) /\ r = [version |-> Probe(e[3]), dir |-> e[3]]
      BY <1>2 DEF ResultLeads
    <3>5. e[1] # 0 /\ c[1] # 0 /\ e \in Behind
      BY <2>3, <3>2, <3>4, WhileLooking DEF Behind, Leads
    <3>6. Probe(e[3]) >= Probe(p)
      BY <1>1, <3>1, <3>4
    <3>7. Beats(e, c)
      BY <1>1, <1>4, <3>5, <3>6 DEF Beats
    <3>8. Leads(e)'
      BY <1>3, <3>4, <3>5, <3>7, Fixed DEF Leads
    <3> QED BY <2>1, <3>3, <3>4, <3>8, Fixed DEF ResultLeads
  <2> QED BY <2>2, <2>3
<1> QED BY <1>5, <1>6

\* The first usable driver the application links to.
LEMMA FirstLoadedLeads ==
  ASSUME IInv, OneDevice, Outcome, phase = "libraries_libcuda",
         next <= LoopLength[phase], UNCHANGED inputs, NEW c \in Candidates, Here(c),
         UpdateLibcuda(c[3]), Accepted(c[3]), next' = Len(args.libs) + 1, UNCHANGED phase
  PROVE  /\ ResultLeads'
         /\ found' = {[version |-> Probe(c[3]), dir |-> c[3]]}
         /\ c \in Loaded
<1> DEFINE p == c[3]
<1>1. /\ p \in Path /\ TypeOK /\ Len(args.libs) \in Nat /\ next \in Nat
      /\ \A d \in Candidates : d[1] \in Nat /\ d[2] \in Nat
      /\ \A d \in Candidates : d[1] = 0 => d[2] <= Len(args.libs)
  <2>1. TypeOK /\ Len(args.libs) \in Nat /\ next \in Nat
    BY ArgumentsAre DEF IInv, TypeOK
  <2>2. ASSUME NEW d \in Candidates
        PROVE  /\ d[1] \in Nat /\ d[2] \in Nat /\ d[3] \in Path
               /\ d[1] = 0 => d[2] <= Len(args.libs)
    BY <2>1, CandidateType
  <2> QED BY <2>1, <2>2
<1>2. Behind = {} /\ found = {}
  BY WhileLooking DEF InSearch
<1>3. Usable(p) /\ GetApiVer(p) = Probe(p) /\ Improves(p)
  BY <1>1, <1>2, ImprovesWhen DEF Improves
<1>4. found' = {[version |-> Probe(p), dir |-> p]}
  BY <1>3 DEF UpdateLibcuda
<1>5. c[1] = 0 /\ c[2] = next /\ c \in Loaded
  BY <1>1, CandidateType, Stages DEF Here
<1>6. \A d \in Candidates : Passed(d)' <=> d[1] = 0
  BY <1>1, Stages DEF Passed
<1>7. c \in Behind'
  BY <1>3, <1>5, <1>6, BehindIs
<1>8. ASSUME NEW d \in Behind', d # c PROVE Beats(c, d)
  <2>1. d \in Candidates /\ d[1] = 0 /\ Usable(d[3])
    BY <1>6, BehindIs
  <2>2. ~(d[2] < next)
    BY <1>2, <2>1, Stages DEF Behind, Passed
  <2>3. d[2] # next
    BY <1>5, <1>8, <2>1, OneCandidatePerElement
  <2> QED BY <1>1, <1>5, <2>1, <2>2, <2>3 DEF Beats
<1>9. Leads(c)'
  BY <1>7, <1>8, Fixed DEF Leads
<1> QED BY <1>4, <1>5, <1>9, Fixed DEF ResultLeads

\* Going on to the next search, and to the end.
LEMMA EnterKeepsBehind ==
  ASSUME TypeOK, UNCHANGED inputs,
         \/ AfterSearch
         \/ Report
         \/ AfterLoaded /\ phase' = "libraries_libcudart"
  PROVE  \A c \in Candidates : Passed(c)' <=> Passed(c)
<1> SUFFICES ASSUME NEW c \in Candidates PROVE Passed(c)' <=> Passed(c)
  OBVIOUS
<1> USE Stages
<1>1. /\ c[1] \in 0..4 /\ c[2] \in Nat \ {0} /\ next \in Nat
      /\ c[1] \in {0, 1} => c[2] <= Len(args.libs)
      /\ c[1] = 2 => c[2] <= Len(args.home)
      /\ c[1] \in {3, 4} => c[2] <= Len(args.paths)
      /\ Len(args.libs) \in Nat /\ Len(args.home) \in Nat /\ Len(args.paths) \in Nat
  BY CandidateType, ArgumentsAre DEF TypeOK
<1>2. CASE Report
  BY <1>1, <1>2 DEF Report, Enter, Passed
<1>3. CASE AfterLoaded /\ phase' = "libraries_libcudart"
  BY <1>1, <1>3 DEF AfterLoaded, Enter, Passed
<1>4. CASE AfterSearch
  <2>1. /\ phase \in DOMAIN Following /\ next > LoopLength[phase]
        /\ phase' = Following[phase] /\ next' = 1
    BY <1>4 DEF AfterSearch, Enter
  <2>2. CASE phase = "libraries_libcudart"
    BY <1>1, <2>1, <2>2 DEF Passed
  <2>3. CASE phase = "cuda_home"
    BY <1>1, <2>1, <2>3 DEF Passed
  <2>4. CASE phase = "paths_libcudart"
    BY <1>1, <2>1, <2>4 DEF Passed
  <2>5. CASE phase = "paths_libcuda"
    BY <1>1, <2>1, <2>5 DEF Passed
  <2> QED BY <2>1, <2>2, <2>3, <2>4, <2>5
<1> QED BY <1>2, <1>3, <1>4

-----------------------------------------------------------------------------
(* The invariant                                                           *)

LEMMA InitOutcome == Init => Outcome
<1> SUFFICES ASSUME Init PROVE Outcome
  OBVIOUS
<1>1. TypeOK /\ phase = "libraries_libcuda" /\ next = 1 /\ found = {}
  BY InitType DEF Init
<1>2. ASSUME NEW c \in Candidates PROVE ~Passed(c)
  <2>1. c[1] \in 0..4 /\ c[2] \in Nat \ {0}
    BY <1>1, CandidateType
  <2> QED BY <1>1, <2>1, Stages DEF Passed
<1> QED BY <1>1, <1>2, Stages DEF Outcome, ResultLeads, LoadedFirst, NoneLeftOut, Behind

LEMMA LooksOutcome ==
  ASSUME IInv, IInv', OneDevice, Outcome, UNCHANGED inputs, Looks
  PROVE  Outcome'
<1> USE Stages
<1>1. TypeOK /\ InSearch /\ next <= LoopLength[phase]
  BY DEF Looks, IInv
<1>2. /\ ResultLeads /\ LoadedFirst
      /\ phase = "libraries_libcuda" => found = {} /\ next <= Len(args.libs)
      /\ \A c \in Candidates : Passed(c) /\ Counts(c) => c[3] \in dirPathCache
  BY <1>1, WhileLooking
<1>3. CASE PassOver
  <2>1. UNCHANGED searchState /\ Continue /\ \A c \in Candidates : Here(c) => ~Counts(c)
    BY <1>3 DEF PassOver, Skip
  <2>2. ResultLeads'
    BY <1>1, <1>2, <1>3, PassOverLeads
  <2>3. LoadedFirst'
    BY <1>2, <2>1, Fixed DEF LoadedFirst, Continue, searchState
  <2>4. \A c \in Candidates : Passed(c)' /\ Counts(c) => c[3] \in dirPathCache'
    BY <1>1, <1>2, <2>1, PassedNext DEF searchState
  <2> QED BY <2>2, <2>3, <2>4, Fixed DEF Outcome, NoneLeftOut
<1>4. CASE Fault
  BY <1>4 DEF Fault, Abort, Outcome
<1>5. ASSUME NEW c \in Candidates, OfferCandidate(c) PROVE Outcome'
  <2>1. Here(c) /\ Counts(c) /\ UpdateLibcuda(c[3])
    BY <1>5 DEF OfferCandidate
  <2>2. CASE Abort
    BY <2>2 DEF Abort, Outcome
  <2>3. CASE Continue /\ (phase = "libraries_libcuda" => ~Accepted(c[3]))
    <3>1. ResultLeads'
      BY <1>1, <2>1, <2>3, ContinueLeads
    <3>2. phase = "libraries_libcuda" => found' = {}
      BY <1>2, <2>1, <2>3 DEF UpdateLibcuda, Improves
    <3>3. LoadedFirst'
      BY <1>2, <2>3, <3>2, Fixed DEF LoadedFirst, Continue
    <3>4. \A d \in Candidates : Passed(d)' /\ Counts(d) => d[3] \in dirPathCache'
      <4>1. dirPathCache' = dirPathCache \cup {c[3]}
        BY <2>1 DEF UpdateLibcuda
      <4>2. \A d \in Candidates : Here(d) => d = c
        BY <2>1, OneCandidatePerElement DEF Here
      <4>3. \A d \in Candidates : Passed(d)' <=> Passed(d) \/ Here(d)
        BY <1>1, <2>3, PassedNext
      <4> QED BY <1>2, <4>1, <4>2, <4>3
    <3> QED BY <3>1, <3>3, <3>4, Fixed DEF Outcome, NoneLeftOut
  <2>4. CASE /\ phase = "libraries_libcuda" /\ Accepted(c[3])
             /\ next' = Len(args.libs) + 1 /\ UNCHANGED phase
    <3>1. /\ ResultLeads' /\ c \in Loaded
          /\ found' = {[version |-> Probe(c[3]), dir |-> c[3]]}
      BY <1>1, <2>1, <2>4, FirstLoadedLeads
    <3>2. LoadedFirst'
      <4>1. Len(args.libs)' = Len(args.libs) /\ Len(args.libs) \in Nat
        BY <1>1, ArgumentsAre DEF inputs
      <4> QED BY <2>4, <4>1 DEF LoadedFirst
    <3>3. NoneLeftOut'
      BY <3>1, Fixed DEF NoneLeftOut
    <3> QED BY <3>1, <3>2, <3>3 DEF Outcome
  <2> QED BY <1>5, <2>2, <2>3, <2>4 DEF OfferCandidate
<1> QED BY <1>3, <1>4, <1>5 DEF Looks

LEMMA EnterOutcome ==
  ASSUME IInv, OneDevice, Outcome, UNCHANGED inputs,
         AfterLoaded \/ AfterSearch \/ Report
  PROVE  Outcome'
<1> USE Stages
<1>1. /\ TypeOK /\ phase # "aborted" /\ UNCHANGED searchState /\ next' = 1
      /\ ResultLeads /\ LoadedFirst /\ NoneLeftOut
  BY DEF AfterLoaded, AfterSearch, Report, Enter, Outcome, IInv
<1>2. /\ found' = found /\ dirPathCache' = dirPathCache
  BY <1>1 DEF searchState
<1>3. CASE AfterLoaded /\ found # {} /\ Enter("report")
  <2>1. phase = "libraries_libcuda" /\ phase' = "report" /\ next > Len(args.libs)
    BY <1>3 DEF AfterLoaded, Enter
  <2>2. ASSUME NEW c \in Candidates PROVE c[1] = 0 <=> Passed(c)
    <3>1. /\ c[1] \in 0..4 /\ c[2] \in Nat
          /\ c[1] = 0 => c[2] <= Len(args.libs)
          /\ next \in Nat /\ Len(args.libs) \in Nat
      BY <1>1, CandidateType, ArgumentsAre DEF TypeOK
    <3> QED BY <2>1, <3>1 DEF Passed
  <2>3. ASSUME NEW c \in Candidates PROVE Passed(c)'
    BY <1>1, <2>1, <2>3, CandidateType DEF Passed
  <2>4. Behind' = {c \in Candidates : Usable(c[3])}
    BY <2>3, BehindIs
  <2>5. ASSUME NEW c, Leads(c) PROVE Leads(c)' /\ c \in Loaded
    <3>1. c \in Candidates /\ c[1] = 0 /\ Usable(c[3])
      BY <2>2, <2>5 DEF Leads, Behind
    <3>2. ASSUME NEW d \in Behind', d # c PROVE Beats(c, d)
      <4>1. CASE d[1] = 0
        BY <2>2, <2>4, <2>5, <3>2, <4>1 DEF Leads, Behind
      <4>2. CASE d[1] # 0
        BY <3>1, <4>2 DEF Beats
      <4> QED BY <4>1, <4>2
    <3> QED BY <1>1, <2>4, <3>1, <3>2, Fixed, CandidateType DEF Leads
  <2>6. ResultLeads'
    BY <1>1, <1>2, <1>3, <2>5, Fixed DEF ResultLeads
  <2>7. NoneLeftOut'
    <3>1. PICK r \in found : TRUE
      BY <1>3
    <3>2. PICK c \in Candidates : Leads(c) /\ r = [version |-> Probe(c[3]), dir |-> c[3]]
      BY <1>1 DEF ResultLeads
    <3> QED BY <1>2, <2>5, <3>2, Fixed DEF NoneLeftOut
  <2> QED BY <2>1, <2>6, <2>7 DEF Outcome, LoadedFirst
<1>4. CASE AfterSearch \/ Report \/ (AfterLoaded /\ found = {} /\ Enter("libraries_libcudart"))
  <2>1. \A c \in Candidates : Passed(c)' <=> Passed(c)
    BY <1>1, <1>4, EnterKeepsBehind DEF Enter
  <2>2. Behind' = Behind
    BY <2>1, BehindIs DEF Behind
  <2>3. ResultLeads'
    BY <1>1, <1>2, <2>2, SameBehind
  <2>4. NoneLeftOut'
    BY <1>1, <1>2, <2>1, Fixed DEF NoneLeftOut
  <2>5. LoadedFirst'
    <3>1. phase' # "libraries_libcuda"
      BY <1>4 DEF AfterSearch, Report, AfterLoaded, Enter
    <3>2. CASE AfterSearch
      BY <1>1, <3>1, <3>2, Fixed DEF AfterSearch, LoadedFirst
    <3>3. CASE Report
      BY <3>1, <3>3 DEF Report, Enter, LoadedFirst
    <3>4. CASE AfterLoaded /\ found = {}
      <4>1. ASSUME NEW c \in Loaded, Usable(c[3]) PROVE FALSE
        <5>1. /\ c \in Candidates /\ c[1] = 0 /\ c[2] <= Len(args.libs) /\ c[2] \in Nat
              /\ next \in Nat /\ Len(args.libs) \in Nat
          BY <1>1, CandidateType, ArgumentsAre DEF Candidates, TypeOK
        <5>2. phase = "libraries_libcuda" /\ next > Len(args.libs)
          BY <3>4 DEF AfterLoaded
        <5>3. Passed(c)
          BY <5>1, <5>2 DEF Passed
        <5> QED BY <1>1, <3>4, <4>1, <5>1, <5>3 DEF ResultLeads, Behind
      <4> QED BY <3>1, <4>1, Fixed DEF LoadedFirst
    <3> QED BY <1>4, <3>2, <3>3, <3>4
  <2> QED BY <2>3, <2>4, <2>5 DEF Outcome
<1> QED BY <1>3, <1>4 DEF AfterLoaded

LEMMA InitSearched == Init => IInv /\ (OneDevice => Outcome)
  BY InitInvariant, InitOutcome

LEMMA StepSearched ==
  IInv /\ (OneDevice => Outcome) /\ [Next]_vars => IInv' /\ (OneDevice => Outcome)'
<1> SUFFICES ASSUME IInv, OneDevice => Outcome, [Next]_vars
             PROVE  IInv' /\ (OneDevice => Outcome)'
  OBVIOUS
<1>1. IInv' /\ UNCHANGED inputs /\ TypeOK
  BY StepInvariant, StepShape DEF IInv
<1>2. OneDevice' => OneDevice
  BY <1>1 DEF OneDevice, inputs
<1>3. CASE OneDevice /\ UNCHANGED vars
  <2>1. Behind' = Behind
    BY <1>3, Fixed DEF Behind, Passed, vars, inputs
  <2>2. ResultLeads => ResultLeads'
    BY <1>1, <1>3, <2>1, SameBehind DEF vars
  <2>3. LoadedFirst => LoadedFirst'
    BY <1>1, <1>3, Fixed DEF LoadedFirst, vars
  <2>4. NoneLeftOut => NoneLeftOut'
    BY <1>1, <1>3, Fixed DEF NoneLeftOut, Passed, vars
  <2> QED BY <1>1, <1>3, <2>2, <2>3, <2>4 DEF Outcome, vars
<1>4. CASE OneDevice /\ Next
  <2>1. CASE Looks
    BY <1>1, <1>4, <2>1, LooksOutcome
  <2>2. CASE AfterLoaded \/ AfterSearch \/ Report
    BY <1>1, <1>4, <2>2, EnterOutcome
  <2> QED BY <1>1, <1>3, <1>4, <2>1, <2>2, StepLooks
<1> QED BY <1>1, <1>2, <1>3, <1>4

LEMMA OutcomeAlways == Spec => [](IInv /\ (OneDevice => Outcome))
  BY InitSearched, StepSearched, PTL DEF Spec

LEMMA SearchedIsReference == IInv /\ (OneDevice => Outcome) => SearchFindsBest
<1> SUFFICES ASSUME IInv, OneDevice, Outcome, phase \in {"success", "failure"}
             PROVE  found = Reference
  BY DEF SearchFindsBest
<1> DEFINE loaded == {c \in Loaded : Usable(c[3])}
           others == {c \in Discovered : Usable(c[3])}
           Winner(c) == IF loaded # {}
                        THEN c \in loaded /\ \A d \in loaded : ~Before(d, c)
                        ELSE \A d \in others \ {c} :
                               \/ Probe(c[3]) > Probe(d[3])
                               \/ Probe(c[3]) = Probe(d[3]) /\ Before(c, d)
           Result(c) == [version |-> Probe(c[3]), dir |-> c[3]]
<1>1. TypeOK /\ ResultLeads /\ Stage[phase] = 5
  BY Stages DEF IInv, Outcome
<1>2. \A c \in Candidates :
        /\ c[1] \in Nat /\ c[2] \in Nat /\ Probe(c[3]) \in Int
        /\ c[1] = 0 <=> c \in Loaded
        /\ Passed(c)
  <2>1. ASSUME NEW c \in Candidates PROVE Passed(c)
    BY <1>1, <2>1, CandidateType DEF Passed
  <2> QED BY <1>1, <2>1, CandidateType
<1>3. Behind = loaded \cup others
  <2>1. Behind = {c \in Candidates : Usable(c[3])}
    BY <1>2 DEF Behind
  <2> QED BY <2>1 DEF Candidates
<1>4. loaded = {c \in Behind : c[1] = 0} /\ others = {c \in Behind : c[1] # 0}
  BY <1>2, <1>3, LoadedShape, DiscoveredShape
<1>5. Reference = {Result(c) : c \in {d \in loaded \cup others : Winner(d)}}
  BY DEF Reference
<1> HIDE DEF loaded, others
<1>6. ASSUME NEW c, Leads(c) PROVE c \in Behind /\ Winner(c)
  <2>1. c \in Behind /\ c \in Candidates /\ \A d \in Behind : d \in Candidates
    BY <1>6 DEF Leads, Behind
  <2>2. CASE loaded # {}
    <3>1. PICK e \in loaded : TRUE
      BY <2>2
    <3>2. c[1] = 0
      BY <1>4, <1>6, <3>1 DEF Leads, Beats
    <3>3. ASSUME NEW d \in loaded PROVE ~Before(d, c)
      <4>1. d \in Behind /\ d[1] = 0
        BY <1>4
      <4>2. d = c \/ c[2] < d[2]
        BY <1>6, <3>2, <4>1 DEF Leads, Beats
      <4>3. c[2] \in Nat /\ d[2] \in Nat
        BY <1>2, <2>1, <4>1
      <4> QED BY <3>2, <4>1, <4>2, <4>3 DEF Before
    <3> QED BY <1>4, <2>1, <2>2, <3>2, <3>3
  <2>3. CASE loaded = {}
    <3>1. ASSUME NEW d \in others \ {c}
          PROVE  \/ Probe(c[3]) > Probe(d[3])
                 \/ Probe(c[3]) = Probe(d[3]) /\ Before(c, d)
      <4>1. d \in Behind /\ d[1] # 0 /\ d # c /\ c[1] # 0
        BY <1>4, <2>1, <2>3
      <4> QED BY <1>6, <4>1 DEF Leads, Beats
    <3> QED BY <2>1, <2>3, <3>1
  <2> QED BY <2>2, <2>3
<1>7. ASSUME NEW c, Leads(c), NEW d \in Behind, Winner(d) PROVE d = c
  <2> SUFFICES ASSUME d # c PROVE FALSE
    OBVIOUS
  <2>1. /\ c \in Behind /\ Beats(c, d) /\ c \in Candidates /\ d \in Candidates
    BY <1>7 DEF Leads, Behind
  <2>2. CASE loaded # {}
    <3>1. d[1] = 0 /\ c[1] = 0 /\ c[2] < d[2] /\ c \in loaded
      BY <1>4, <1>7, <2>1, <2>2 DEF Beats
    <3> QED BY <1>7, <2>2, <3>1 DEF Before
  <2>3. CASE loaded = {}
    <3>1. d[1] # 0 /\ c[1] # 0 /\ c \in others
      BY <1>4, <2>1, <2>3
    <3>2. \/ Probe(c[3]) > Probe(d[3])
          \/ Probe(c[3]) = Probe(d[3]) /\ Before(c, d)
      BY <2>1, <3>1 DEF Beats
    <3>3. \/ Probe(d[3]) > Probe(c[3])
          \/ Probe(d[3]) = Probe(c[3]) /\ Before(d, c)
      BY <1>7, <2>3, <3>1
    <3>4. /\ c[1] \in Nat /\ c[2] \in Nat /\ Probe(c[3]) \in Int
          /\ d[1] \in Nat /\ d[2] \in Nat /\ Probe(d[3]) \in Int
      BY <1>2, <2>1
    <3> QED BY <3>2, <3>3, <3>4 DEF Before
  <2> QED BY <2>2, <2>3
<1> HIDE DEF Winner
<1>8. CASE found = {}
  BY <1>1, <1>3, <1>5, <1>8 DEF ResultLeads
<1>9. CASE found # {}
  <2>1. PICK r \in found : TRUE
    BY <1>9
  <2>2. PICK c \in Candidates : Leads(c) /\ r = Result(c)
    BY <1>1 DEF ResultLeads
  <2>3. found = {r}
    BY <1>1 DEF TypeOK
  <2>4. {d \in loaded \cup others : Winner(d)} = {c}
    BY <1>3, <1>6, <1>7, <2>2
  <2> QED BY <1>5, <2>2, <2>3, <2>4
<1> QED BY <1>8, <1>9

\* A search that runs to its end gives exactly what Reference says: the first
\* usable driver the application links to, else the newest of all, the first
\* of those with its version, and nothing only if nothing is usable.
THEOREM SearchFindsBestAlways == Spec => []SearchFindsBest
  BY SearchedIsReference, OutcomeAlways, PTL

-----------------------------------------------------------------------------
(* The search is one that BestDriver allows                                *)

\* The values BestDriver's variables have in DriverSearch, see Promise.
verOf == [p \in Path |-> IF Usable(p) THEN Probe(p) ELSE -1]
loadedPaths == {c[3] : c \in Loaded}
otherPaths == {c[3] : c \in {d \in Discovered : d[1] = 1 \/ LibcudaExists(d[3])}}
best == {r.dir : r \in found}
status == CASE phase = "success" -> "found"
            [] phase = "failure" -> "none"
            [] phase = "aborted" -> "crashed"
            [] OTHER -> "searching"

LEMMA PathsAre ==
  ASSUME TypeOK
  PROVE  /\ \A p \in Path : verOf[p] \in Int
         /\ \A p \in Path : verOf[p] >= 0 <=> Usable(p)
         /\ \A p \in Path : Usable(p) => verOf[p] = Probe(p)
         /\ loadedPaths \subseteq Path /\ otherPaths \subseteq Path
         /\ \A c \in Candidates : c[1] = 0 => c[3] \in loadedPaths
         /\ \A c \in Candidates : c[1] # 0 /\ Counts(c) => c[3] \in otherPaths
         /\ \A p \in loadedPaths : \E c \in Candidates : c[1] = 0 /\ c[3] = p
         /\ \A p \in otherPaths : \E c \in Candidates : c[1] # 0 /\ Counts(c) /\ c[3] = p
<1>1. ASSUME NEW p \in Path
      PROVE  /\ verOf[p] \in Int
             /\ verOf[p] >= 0 <=> Usable(p)
             /\ Usable(p) => verOf[p] = Probe(p)
  <2>1. Probe(p) \in Int
    BY SMTT(30) DEF TypeOK, FileSystem, Probe
  <2>2. Usable(p) => Probe(p) >= 0
    BY DEF Usable
  <2> QED BY <2>1, <2>2 DEF verOf
<1>2. ASSUME NEW c \in Candidates
      PROVE  /\ c[3] \in Path
             /\ c[1] = 0 => c \in Loaded
             /\ c[1] # 0 => c \in Discovered
  BY CandidateType DEF Candidates
<1>3. (\A c \in Loaded : c \in Candidates /\ c[1] = 0)
      /\ \A c \in Discovered : c \in Candidates /\ c[1] # 0
  BY LoadedShape, DiscoveredShape DEF Candidates
<1>4. /\ loadedPaths \subseteq Path
      /\ \A c \in Candidates : c[1] = 0 => c[3] \in loadedPaths
      /\ \A p \in loadedPaths : \E c \in Candidates : c[1] = 0 /\ c[3] = p
  BY <1>2, <1>3 DEF loadedPaths
<1>5. /\ otherPaths \subseteq Path
      /\ \A c \in Candidates : c[1] # 0 /\ Counts(c) => c[3] \in otherPaths
      /\ \A p \in otherPaths : \E c \in Candidates : c[1] # 0 /\ Counts(c) /\ c[3] = p
  BY <1>2, <1>3 DEF otherPaths, Counts
<1> QED BY <1>1, <1>4, <1>5

LEMMA InputsStay ==
  ASSUME UNCHANGED inputs
  PROVE  /\ verOf' = verOf /\ loadedPaths' = loadedPaths /\ otherPaths' = otherPaths
         /\ Faulty' = Faulty
<1>1. verOf' = verOf /\ loadedPaths' = loadedPaths
  BY Fixed DEF verOf, loadedPaths
<1>2. Discovered' = Discovered
  BY DEF Discovered, Stop, inputs
<1>3. otherPaths' = otherPaths
  BY <1>2, Fixed DEF otherPaths
<1>4. Faulty' = Faulty
  BY DEF Faulty, StatusThrows, Libcuda, inputs
<1> QED BY <1>1, <1>3, <1>4

LEMMA StatusIs ==
  /\ InSearch => status = "searching"
  /\ phase \in Searching => status = "searching"
  /\ phase = "aborted" => status = "crashed"
  /\ phase = "success" => status = "found"
  /\ phase = "failure" => status = "none"
  BY Stages DEF status, InSearch, Searching

\* A directory is offered for the first time and update_libcuda returns.
LEMMA TakeIsAllowed ==
  ASSUME IInv, OneDevice, Outcome, InSearch, next <= LoopLength[phase],
         UNCHANGED inputs, NEW c \in Candidates, Here(c), Counts(c),
         c[3] \notin dirPathCache, UpdateLibcuda(c[3]), UNCHANGED phase
  PROVE  Promise!Next
<1> DEFINE p == c[3]
<1>1. p \in Path /\ TypeOK
  BY CandidateType DEF IInv
<1>2. status = "searching" /\ status' = "searching"
  BY StatusIs DEF status
<1>3. dirPathCache' = dirPathCache \cup {p}
  BY DEF UpdateLibcuda
<1>4. best' = IF verOf[p] >= 0 /\ \A q \in best : verOf[p] > verOf[q] THEN {p} ELSE best
  <2>1. \A r \in found : r.dir \in Path /\ verOf[r.dir] = r.version
    <3> SUFFICES ASSUME NEW r \in found PROVE r.dir \in Path /\ verOf[r.dir] = r.version
      OBVIOUS
    <3>1. r.dir \in Path /\ Usable(r.dir) /\ r.version = Probe(r.dir)
      BY <1>1 DEF IInv, FoundIsUsable, TypeOK
    <3> QED BY <1>1, <3>1, PathsAre
  <2>2. Improves(p) <=> verOf[p] >= 0 /\ \A r \in found : verOf[p] > r.version
    BY <1>1, ImprovesWhen, PathsAre
  <2>3. Improves(p) <=> verOf[p] >= 0 /\ \A q \in best : verOf[p] > verOf[q]
    BY <2>1, <2>2 DEF best
  <2>4. CASE Improves(p)
    <3>1. found' = {[version |-> GetApiVer(p), dir |-> p]}
      BY <2>4 DEF UpdateLibcuda
    <3>2. best' = {p}
      BY <3>1 DEF best
    <3> QED BY <2>3, <2>4, <3>2
  <2>5. CASE ~Improves(p)
    <3>1. best' = best
      BY <2>5 DEF UpdateLibcuda, best
    <3> QED BY <2>3, <2>5, <3>1
  <2> QED BY <2>4, <2>5
<1>5. CASE phase = "libraries_libcuda"
  <2>1. p \in loadedPaths /\ best = {}
    BY <1>1, <1>5, Stages, PathsAre, WhileLooking DEF Here, best
  <2>2. Promise!Take(p)
    BY <1>2, <1>3, <1>4, InputsStay
       DEF Promise!Take, Promise!Better, Promise!Usable, Promise!inputs,
           verOf, loadedPaths, otherPaths, Faulty, best, status
  <2>3. Promise!OfferLoaded(p)
    BY <2>1, <2>2 DEF Promise!OfferLoaded, loadedPaths, best
  <2> QED BY <1>1, <2>3 DEF Promise!Next
<1>6. CASE phase # "libraries_libcuda"
  <2>1. c[1] # 0
    BY <1>6, Stages DEF Here, InSearch
  <2>2. p \in otherPaths
    BY <1>1, <2>1, PathsAre
  <2>3. ASSUME NEW q \in loadedPaths PROVE q \in dirPathCache /\ ~(verOf[q] >= 0)
    <3>1. PICK d \in Candidates : d[1] = 0 /\ d[3] = q
      BY <1>1, PathsAre
    <3>2. Passed(d) /\ Counts(d)
      BY <1>6, <3>1, Stages DEF Passed, Counts, InSearch
    <3>3. q \in Path /\ ~Usable(q)
      BY <1>1, <1>6, <3>1, WhileLooking, CandidateType
    <3> QED BY <1>1, <3>1, <3>2, <3>3, WhileLooking, PathsAre
  <2>4. Promise!Take(p)
    BY <1>2, <1>3, <1>4, InputsStay
       DEF Promise!Take, Promise!Better, Promise!Usable, Promise!inputs,
           verOf, loadedPaths, otherPaths, Faulty, best, status
  <2>5. Promise!OfferOther(p)
    BY <2>2, <2>3, <2>4
       DEF Promise!OfferOther, Promise!Usable, loadedPaths, otherPaths, verOf
  <2> QED BY <1>1, <2>5 DEF Promise!Next
<1> QED BY <1>5, <1>6

\* A call that throws ends the search as BestDriver's Crash does.
LEMMA AbortIsAllowed ==
  ASSUME TypeOK, InSearch, Abort, Faulty, UNCHANGED inputs, found' = found,
         \/ dirPathCache' = dirPathCache
         \/ \E p \in loadedPaths \cup otherPaths : dirPathCache' = dirPathCache \cup {p}
  PROVE  Promise!Next
<1>1. status = "searching" /\ status' = "crashed"
  BY StatusIs DEF Abort, status
<1>2. best' = best
  BY DEF best
<1>3. dirPathCache' \in {dirPathCache} \cup {dirPathCache \cup {p} : p \in loadedPaths \cup otherPaths}
  OBVIOUS
<1>4. Promise!Crash
  BY <1>1, <1>2, <1>3, InputsStay
     DEF Promise!Crash, Promise!inputs, verOf, loadedPaths, otherPaths, Faulty, best, status
<1> QED BY <1>4 DEF Promise!Next

\* BestDriver sees nothing of a step that changes none of its variables.
LEMMA Unseen ==
  ASSUME UNCHANGED inputs, status' = status, found' = found, dirPathCache' = dirPathCache
  PROVE  UNCHANGED Promise!vars
<1>1. best' = best
  BY DEF best
<1> QED BY <1>1, InputsStay
        DEF Promise!vars, verOf, loadedPaths, otherPaths, Faulty, best, status

LEMMA LooksIsAllowed ==
  ASSUME IInv, OneDevice, Outcome, UNCHANGED inputs, Looks
  PROVE  Promise!Next \/ UNCHANGED Promise!vars
<1>1. TypeOK /\ InSearch /\ next <= LoopLength[phase]
  BY DEF Looks, IInv
<1>2. CASE PassOver
  <2>1. status' = status /\ found' = found /\ dirPathCache' = dirPathCache
    BY <1>2 DEF PassOver, Skip, Continue, searchState, status
  <2> QED BY <2>1, Unseen
<1>3. CASE Fault
  <2>1. Faulty /\ Abort /\ found' = found /\ dirPathCache' = dirPathCache
    BY <1>3 DEF Fault, searchState
  <2> QED BY <1>1, <2>1, AbortIsAllowed
<1>4. ASSUME NEW c \in Candidates, OfferCandidate(c)
      PROVE  Promise!Next \/ UNCHANGED Promise!vars
  <2>1. /\ Here(c) /\ Counts(c) /\ UpdateLibcuda(c[3]) /\ c[3] \in Path
        /\ (Throws(c[3]) /\ Abort) \/ UNCHANGED phase
    BY <1>1, <1>4, CandidateType DEF OfferCandidate, Continue
  <2>2. CASE Throws(c[3]) /\ Abort
    <3>1. Faulty /\ ~Accepted(c[3])
      BY <2>1, <2>2 DEF Throws, Faulty, Accepted
    <3>2. found' = found /\ dirPathCache' = dirPathCache \cup {c[3]}
      BY <2>1, <3>1 DEF UpdateLibcuda, Improves
    <3>3. c[3] \in loadedPaths \cup otherPaths
      BY <1>1, <2>1, PathsAre
    <3> QED BY <1>1, <2>2, <3>1, <3>2, <3>3, AbortIsAllowed
  <2>3. CASE UNCHANGED phase /\ c[3] \in dirPathCache
    <3>1. found' = found /\ dirPathCache' = dirPathCache
      BY <2>1, <2>3 DEF UpdateLibcuda, Improves, Accepted, HasDriver, Fresh
    <3>2. status' = status
      BY <2>3 DEF status
    <3> QED BY <3>1, <3>2, Unseen
  <2>4. CASE UNCHANGED phase /\ c[3] \notin dirPathCache
    BY <1>1, <2>1, <2>4, TakeIsAllowed
  <2> QED BY <2>1, <2>2, <2>3, <2>4
<1> QED BY <1>2, <1>3, <1>4 DEF Looks

LEMMA ReportIsAllowed ==
  ASSUME IInv, OneDevice, Outcome, UNCHANGED inputs, Report
  PROVE  Promise!Next
<1>1. TypeOK /\ phase = "report" /\ NoneLeftOut /\ Stage[phase] = 5
  BY Stages DEF IInv, Outcome, Report
<1>2. /\ found' = found /\ dirPathCache' = dirPathCache
      /\ IF found # {} THEN phase' = "success" ELSE phase' = "failure"
  BY DEF Report, Enter, searchState
<1>3. best' = best /\ (best # {} <=> found # {})
  BY <1>2 DEF best
<1>4. status = "searching" /\ status' = IF best # {} THEN "found" ELSE "none"
  BY <1>1, <1>2, <1>3 DEF status
<1>5. \A c \in Candidates : Passed(c)
  BY <1>1, CandidateType DEF Passed
<1>6. best \cap loadedPaths # {} \/ loadedPaths \cup otherPaths \subseteq dirPathCache
  <2>1. CASE \E r \in found : \E c \in Loaded : r.dir = c[3]
    BY <2>1 DEF best, loadedPaths
  <2>2. CASE \A c \in Candidates : Passed(c) /\ Counts(c) => c[3] \in dirPathCache
    <3>1. \A c \in Candidates : Counts(c) => c[3] \in dirPathCache
      BY <1>5, <2>2
    <3>2. \A c : c[1] = 0 => Counts(c)
      BY DEF Counts
    <3> QED BY <1>1, <3>1, <3>2, PathsAre
  <2> QED BY <1>1, <2>1, <2>2 DEF NoneLeftOut
<1>7. Promise!Finish
  BY <1>2, <1>3, <1>4, <1>6, InputsStay
     DEF Promise!Finish, Promise!inputs, verOf, loadedPaths, otherPaths, Faulty, best, status
<1> QED BY <1>7 DEF Promise!Next

\* For every file system on one device, each step of the search is a step
\* BestDriver allows or one it does not see: loaded drivers come first and
\* alone, a directory never counts twice, none is left out, and the best
\* of those that were offered is kept.
THEOREM ImplementsBestDriver ==
  Spec /\ OneDevice => Promise!Init /\ [][Promise!Next]_(Promise!vars)
<1>1. Init => Promise!Init
  <2> SUFFICES ASSUME Init PROVE Promise!Init
    OBVIOUS
  <2>1. TypeOK /\ phase = "libraries_libcuda" /\ found = {} /\ dirPathCache = {}
    BY InitType DEF Init
  <2>2. status = "searching" /\ best = {}
    BY <2>1 DEF status, best
  <2>3. verOf \in [Path -> Int] /\ loadedPaths \in SUBSET Path /\ otherPaths \in SUBSET Path
    BY <2>1, PathsAre DEF verOf
  <2>4. Faulty \in BOOLEAN
    BY DEF Faulty
  <2> QED BY <2>1, <2>2, <2>3, <2>4
          DEF Promise!Init, verOf, loadedPaths, otherPaths, Faulty, best, status
<1>2. /\ IInv /\ (OneDevice => Outcome) /\ OneDevice /\ [Next]_vars
      => [Promise!Next]_(Promise!vars)
  <2> SUFFICES ASSUME IInv, OneDevice, Outcome, [Next]_vars
               PROVE  Promise!Next \/ UNCHANGED Promise!vars
    OBVIOUS
  <2>1. UNCHANGED inputs /\ TypeOK
    BY StepShape DEF IInv
  <2>2. CASE Looks
    BY <2>1, <2>2, LooksIsAllowed
  <2>3. CASE AfterLoaded \/ AfterSearch
    <3>1. found' = found /\ dirPathCache' = dirPathCache
      BY <2>3 DEF AfterLoaded, AfterSearch, Enter, searchState
    <3>2. phase \in Searching /\ phase' \in Searching
      BY <2>3, Stages DEF AfterLoaded, AfterSearch, Enter, Searching
    <3>3. status' = status
      BY <3>2 DEF status, Searching
    <3> QED BY <2>1, <3>1, <3>3, Unseen
  <2>4. CASE Report
    BY <2>1, <2>4, ReportIsAllowed
  <2>5. CASE UNCHANGED vars
    <3>1. status' = status /\ found' = found /\ dirPathCache' = dirPathCache
      BY <2>5 DEF vars, status
    <3> QED BY <2>1, <3>1, Unseen
  <2> QED BY <2>1, <2>2, <2>3, <2>4, <2>5, StepLooks
<1>3. IInv /\ OneDevice /\ [Next]_vars => OneDevice'
  BY StepShape DEF IInv, OneDevice, inputs
<1> QED BY <1>1, <1>2, <1>3, OutcomeAlways, PTL DEF Spec
=============================================================================
