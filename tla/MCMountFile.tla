---------------------------- MODULE MCMountFile ----------------------------
(***************************************************************************)
(* Model checking of MountFile on its data path: one handle and one file,  *)
(* whose bytes matter.                                                     *)
(***************************************************************************)
EXTENDS MountFile, TLC

MCPath == {<<"a">>}

MCFold == [n \in Name |-> n]

(***************************************************************************)
(* The two bytes are interchangeable, and no step depends on what the last *)
(* callback returned.                                                      *)
(***************************************************************************)
ByteSymmetry == Permutations(Byte)

AllButReply == <<readOnly, fs, cached, fh, foreign, side, hist>>
=============================================================================
