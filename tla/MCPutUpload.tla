---------------------------- MODULE MCPutUpload ----------------------------
(***************************************************************************)
(* Model checking of PutUpload: two resources in one directory that may be *)
(* missing, bodies of up to two chunks.                                    *)
(***************************************************************************)
EXTENDS PutUpload, TLC

CONSTANTS Chunk1, Chunk2, TheDir

MCChunk == {Chunk1, Chunk2}

MCDir == {TheDir}

MCParentDir == [p \in Path |-> TheDir]

(***************************************************************************)
(* A body is sent with no claim, or with a claim that it meets if it is the*)
(* body claimed.                                                           *)
(***************************************************************************)
MCClaims == {{}, {<<Chunk1, Chunk2>>}}

MCShortClaims == {{}, {<<Chunk1>>}}

MCForeign == {<<Chunk1>>}

Temps == {FALSE}

AnyPlace == BOOLEAN

(***************************************************************************)
(* The requests are interchangeable, and so are the resources.             *)
(***************************************************************************)
PutSymmetry == Permutations(Request) \cup Permutations(Path)
=============================================================================
