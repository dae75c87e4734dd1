----------------------------- MODULE MCDirCache -----------------------------
(***************************************************************************)
(* Model checking of DirCache: more directories than slots, so that        *)
(* eviction happens.                                                       *)
(***************************************************************************)
EXTENDS DirCache, TLC

(***************************************************************************)
(* The directories are interchangeable.                                    *)
(***************************************************************************)
PathSymmetry == Permutations(Path)
=============================================================================
