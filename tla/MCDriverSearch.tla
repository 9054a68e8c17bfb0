--------------------------- MODULE MCDriverSearch ---------------------------
(***************************************************************************)
(* Instances of DriverSearch for TLC: directory paths a..d, of which d may *)
(* be a second name of a's directory, directories that may share a library *)
(* or an inode number, and every way their drivers can be (un)usable.      *)
(***************************************************************************)
EXTENDS DriverSearch, TLC

CONSTANTS pa, pb, pc, pd, d1, d2, d3, l1, l2, l3

Entries(file, compat) == [file |-> file, compat |-> compat]
NoRuntime == [k \in Soname |-> Entries("absent", pa)]

\* The runtimes of pd's directory: none; one toolkit; two toolkits; a soname
\* that must not be read in front of a toolkit.
NoToolkit == [p \in Path |-> NoRuntime]
With(sonames) == [NoToolkit EXCEPT ![pd] = sonames]
Toolkit11 == With([NoRuntime EXCEPT ![1] = Entries("toolkit", pc)])
Toolkit12 == With([NoRuntime EXCEPT ![2] = Entries("toolkit", pc)])
Toolkits == With([NoRuntime EXCEPT ![2] = Entries("toolkit", pb),
                                   ![3] = Entries("toolkit", pc)])
DeniedRuntime == With([NoRuntime EXCEPT ![1] = Entries("denied", pc),
                                        ![2] = Entries("toolkit", pc)])

Base ==
  [kind |-> [p \in Path |-> "directory"],
   at |-> (pa :> d1 @@ pb :> d2 @@ pc :> d3 @@ pd :> d1),
   inode |-> (d1 :> 1 @@ d2 :> 2 @@ d3 :> 3),
   libcuda |-> [d \in Dir |-> "file"],
   lib |-> (d1 :> l1 @@ d2 :> l2 @@ d3 :> l3),
   libInode |-> (l1 :> 1 @@ l2 :> 2 @@ l3 :> 3),
   probe |-> [l \in Lib |-> 1],
   companions |-> [d \in Dir |-> "file"],
   cudart |-> Toolkit12]

\* Combinations of versions and companions (l1 and l3 may be autocompat's own
\* library, l2 may fail to load), with and without a library that two
\* directories share, for two layouts of runtimes.
Versions ==
  {[Base EXCEPT !.probe = v, !.companions = c, !.lib = s, !.cudart = r] :
     v \in {w \in [Lib -> {-2, -1, 1, 2}] : w[l1] # -1 /\ w[l2] # -2 /\ w[l3] # -1},
     c \in {e \in [Dir -> {"file", "absent"}] : e[d3] = "file"},
     s \in {Base.lib, [Base.lib EXCEPT ![d2] = l1]},
     r \in {Toolkit12, Toolkits}}

\* Directories that are missing or must not be read, and what they hold.
Faults ==
  {[Base EXCEPT !.probe = v, !.kind[pb] = k, !.kind[pc] = k2, !.libcuda[d1] = e,
                !.libcuda[d3] = e3, !.companions = c, !.cudart = r] :
     v \in {l1 :> 1 @@ l2 :> 2 @@ l3 :> 3, l1 :> -1 @@ l2 :> 2 @@ l3 :> 1},
     k \in {"directory", "absent", "denied"},
     k2 \in {"directory", "denied"},
     e \in {"file", "absent"},
     e3 \in {"file", "directory", "denied"},
     c \in {[d \in Dir |-> IF d \in x THEN "denied" ELSE "file"] :
            x \in {{}, {d1}, {d2}, {d3}}},
     r \in {NoToolkit, Toolkit11, DeniedRuntime}}

Driver(p) == [kind |-> "driver", dir |-> p]
ToolkitLib(p) == [kind |-> "toolkit", dir |-> p]
OtherLib == [kind |-> "other", dir |-> pa]

MCArguments ==
  {[libs |-> l, home |-> h, paths |-> p] :
     l \in {<<>>, <<Driver(pb)>>, <<OtherLib, Driver(pb), Driver(pa)>>,
            <<ToolkitLib(pb), OtherLib>>, <<Driver(pa), ToolkitLib(pc)>>},
     h \in {<<>>, <<pc>>},
     p \in {<<pa, pd>>, <<pd, pb, pa>>}}

MCFileSystems == Versions \cup Faults

\* Two devices: the directories of pa and pc have the same inode number.
TwoDevices ==
  {[Base EXCEPT !.inode[d3] = 1, !.probe[l3] = v] : v \in {1, 2}}
  \cup {[Base EXCEPT !.libInode[l2] = 1, !.probe[l2] = v] : v \in {1, 2}}
=============================================================================
