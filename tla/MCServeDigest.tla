--------------------------- MODULE MCServeDigest ---------------------------
(***************************************************************************)
(* Model checking of ServeDigest.                                          *)
(***************************************************************************)
EXTENDS ServeDigest, TLC

Temps == {FALSE}

AnyPlace == BOOLEAN

NoHalfMove == {FALSE}

AnyMove == BOOLEAN

NoLocal == {}

AnyLocal == Content

(***************************************************************************)
(* Bytes, names, uploads and downloads are interchangeable, and so are the *)
(* directories that are moved, if all are.                                 *)
(***************************************************************************)
DigestSymmetry ==
  UNION {Permutations(S) : S \in {Byte, Leaf, Upload, Stream}}

PlaceSymmetry == DigestSymmetry \cup Permutations(Place)
=============================================================================
