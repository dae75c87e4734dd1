---------------------------- MODULE MCMountTree ----------------------------
(***************************************************************************)
(* Model checking of MountFile on its namespace: two directories that can  *)
(* take each other's name, and a file in each.  What a file holds does not *)
(* matter here.                                                            *)
(***************************************************************************)
EXTENDS MountFile, TLC

CONSTANTS Dir1, Dir2, Leaf

MCName == {Dir1, Dir2, Leaf}

MCPath == {<<Dir1>>, <<Dir2>>, <<Dir1, Leaf>>, <<Dir2, Leaf>>}

MCFold == [n \in Name |-> n]

(***************************************************************************)
(* No step and no property of this run depends on what the last callback   *)
(* returned, or on what the users of the handles have read and written.    *)
(***************************************************************************)
Namespace == <<readOnly, fs, cached, fh, foreign, side>>

(***************************************************************************)
(* The two directories are interchangeable.                                *)
(***************************************************************************)
DirSymmetry == Permutations({Dir1, Dir2})

(***************************************************************************)
(* Bounds: the volume is writable, nothing is made a directory inside a    *)
(* directory, and a directory is read while it has at most one entry (the  *)
(* reading itself is run mount_file's business).                           *)
(***************************************************************************)
WritableAndShallow ==
  /\ ~readOnly
  /\ \A p \in Path : Len(p) > 1 => fs[p].kind # "dir"
  /\ \A h \in Handle : Opened(h) => fh[h].left = {}
=============================================================================
