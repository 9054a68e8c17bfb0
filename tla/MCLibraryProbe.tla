--------------------------- MODULE MCLibraryProbe ---------------------------
(***************************************************************************)
(* Instances of LibraryProbe for TLC: two paths of one library of every    *)
(* sort, beside a third library of which the ifunc library is one.         *)
(***************************************************************************)
EXTENDS LibraryProbe

Driver == {"cuGetErrorName", "cuGetErrorString", "cuDriverGetVersion"}

Lib(inode, loading, exports, version, ifunc) ==
  [kind |-> "file", inode |-> inode, loads |-> loading, exports |-> exports,
   version |-> version, ifunc |-> ifunc]

Sorts(inode) ==
  {Lib(inode, TRUE, symbols, version, FALSE) :
     symbols \in {Driver, Driver \ {"cuGetErrorString"}, {"cuda_autocompat_version"}},
     version \in {-1, 0, 2}}
  \cup {Lib(inode, FALSE, Driver, 2, FALSE),
        Lib(inode, TRUE, Symbol, -1, TRUE),
        Lib(inode, TRUE, {"cuda_autocompat_version"}, -1, TRUE)}

Missing(inode, kind) == [Lib(inode, FALSE, {}, -1, FALSE) EXCEPT !.kind = kind]

MCLibraries ==
  {[f \in {1, 2, 3} |-> IF f = 3 THEN other ELSE same] :
     same \in Sorts(1),
     other \in {Lib(2, TRUE, Driver, 1, FALSE), Lib(1, TRUE, Driver, 1, FALSE),
                Lib(2, TRUE, {"cuda_autocompat_version"}, -1, TRUE),
                Missing(2, "absent"), Missing(2, "directory")}}
=============================================================================
