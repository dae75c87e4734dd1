------------------------ MODULE MountLifecycleProofs ------------------------
(***************************************************************************)
(* Proofs about MountLifecycle, for any number of files.                   *)
(***************************************************************************)
EXTENDS MountLifecycle, TLAPS

(***************************************************************************)
(* What is held at each step.                                              *)
(***************************************************************************)
HeldIsByStage ==
  /\ stage = "out" => held = {}
  /\ stage \in {"url", "net", "client"} => held = {"priv"}
  /\ stage \in {"auth", "cache"} => held = {"priv", "http_client"}
  /\ stage \in {"probe", "publish", "free"} => held = {"priv", "http_client", "dir_cache"}
  /\ stage \in {"mounted", "unpublish"} =>
       held = {"priv", "http_client", "dir_cache", "fs_handle"}

(***************************************************************************)
(* Files are open only on a volume that is published.                      *)
(***************************************************************************)
OpenIsPublished ==
  (\E f \in File : file[f] # "closed") => stage \in {"mounted", "unpublish"}

(***************************************************************************)
(* What has been probed: one protocol before another, if both may be.      *)
(***************************************************************************)
TriedIsByStage ==
  /\ stage \in {"url", "net", "client", "auth", "cache"} => tried = <<>>
  /\ stage = "probe" => tried = <<>> \/ (config = "auto" /\ tried = <<"dav">>)

Inv == TypeOK /\ HeldIsByStage /\ OpenIsPublished /\ TriedIsByStage

LEMMA ProbesHas ==
  ASSUME config \in {"auto", "dav", "json"}
  PROVE  /\ config = "auto" => Probes = <<"dav", "json">> /\ Len(Probes) = 2
         /\ config # "auto" => Probes = <<config>> /\ Len(Probes) = 1
         /\ Len(Probes) \in Nat
<1>1. CASE config = "auto"
  BY <1>1 DEF Probes
<1>2. CASE config # "auto"
  BY <1>2 DEF Probes
<1> QED
  BY <1>1, <1>2

LEMMA ProbeIsNext ==
  ASSUME Inv, stage = "probe"
  PROVE  /\ Probes[Len(tried) + 1] \in Protocol
         /\ Append(tried, Probes[Len(tried) + 1]) \in Seq(Protocol)
         /\ Len(Append(tried, Probes[Len(tried) + 1])) = Len(tried) + 1
         /\ Len(tried) < Len(Probes) /\ Len(Probes) <= 2
         /\ Len(tried) + 1 < Len(Probes) =>
              config = "auto" /\ Append(tried, Probes[Len(tried) + 1]) = <<"dav">>
         /\ config \in {"auto", Probes[Len(tried) + 1]}
         /\ config = "auto" /\ Probes[Len(tried) + 1] = "json" => tried = <<"dav">>
<1>1. config \in {"auto", "dav", "json"} /\ tried \in Seq(Protocol)
  BY DEF Inv, TypeOK
<1>2. CASE tried = <<>> /\ config = "auto"
  <2>1. Len(tried) = 0 /\ Probes = <<"dav", "json">> /\ Len(Probes) = 2
    BY <1>2, ProbesHas
  <2>2. Probes[Len(tried) + 1] = "dav"
    BY <2>1
  <2>3. Append(tried, Probes[Len(tried) + 1]) = <<"dav">>
    BY <2>2, <1>2
  <2> QED
    BY <2>1, <2>2, <2>3, <1>1, <1>2 DEF Protocol
<1>3. CASE tried = <<>> /\ config # "auto"
  <2>1. Len(tried) = 0 /\ Probes = <<config>> /\ Len(Probes) = 1
    BY <1>1, <1>3, ProbesHas
  <2>2. Probes[Len(tried) + 1] = config
    BY <2>1
  <2> QED
    BY <2>1, <2>2, <1>1, <1>3 DEF Protocol
<1>4. CASE tried = <<"dav">> /\ config = "auto"
  <2>1. Len(tried) = 1 /\ Probes = <<"dav", "json">> /\ Len(Probes) = 2
    BY <1>4, ProbesHas
  <2>2. Probes[Len(tried) + 1] = "json"
    BY <2>1
  <2> QED
    BY <2>1, <2>2, <1>1, <1>4 DEF Protocol
<1> QED
  BY <1>2, <1>3, <1>4 DEF Inv, TriedIsByStage

LEMMA InitInv == Init => Inv
  BY DEF Init, Inv, TypeOK, HeldIsByStage, OpenIsPublished, TriedIsByStage, Protocol

-----------------------------------------------------------------------------

USE DEF Step, Acquire, Elsewhere

LEMMA SetupInv ==
  ASSUME Inv, ParseUrl \/ InitNet \/ NewClient \/ SetAuth \/ NewDirCache \/ Publish
  PROVE  Inv'
<1>1. UNCHANGED <<config, speaks, tried, protocol, file>>
  BY DEF ParseUrl, InitNet, NewClient, SetAuth, NewDirCache, Publish
<1>2. TypeOK' /\ HeldIsByStage' /\ stage \notin {"mounted", "unpublish"}
  BY <1>1 DEF Inv, TypeOK, HeldIsByStage, ParseUrl, InitNet, NewClient, SetAuth, NewDirCache, Publish
<1>3. OpenIsPublished' /\ TriedIsByStage'
  BY <1>1, <1>2
     DEF Inv, OpenIsPublished, TriedIsByStage, ParseUrl, InitNet, NewClient, SetAuth, NewDirCache, Publish
<1> QED
  BY <1>2, <1>3 DEF Inv

LEMMA SetupFailsInv ==
  ASSUME Inv, SetupFails
  PROVE  Inv'
<1>1. stage' = "out" /\ held' = {} /\ UNCHANGED <<config, speaks, tried, protocol, file>>
  BY DEF Inv, HeldIsByStage, SetupFails, Fails
<1>2. \A f \in File : file[f] = "closed"
  BY DEF Inv, OpenIsPublished, SetupFails, Fails
<1> QED
  BY <1>1, <1>2 DEF Inv, TypeOK, HeldIsByStage, OpenIsPublished, TriedIsByStage

LEMMA ProbeInv ==
  ASSUME Inv, ProbeAnswers \/ ProbeFails
  PROVE  Inv'
<1>1. stage = "probe" /\ tried' = Append(tried, Probes[Len(tried) + 1])
  BY DEF ProbeAnswers, ProbeFails
<1>2. UNCHANGED <<config, speaks, file>> /\ protocol' \in Protocol
  BY <1>1, ProbeIsNext DEF Inv, TypeOK, ProbeAnswers, ProbeFails
<1>3. tried' \in Seq(Protocol) /\ Len(tried') = Len(tried) + 1 /\ Len(tried') <= 2
  <2>1. Len(tried) \in Nat /\ Len(Probes) \in Nat
    BY ProbesHas DEF Inv, TypeOK
  <2> QED
    BY <1>1, <2>1, ProbeIsNext
<1>4. held = {"priv", "http_client", "dir_cache"}
  BY <1>1 DEF Inv, HeldIsByStage
<1>5. \A f \in File : file[f] = "closed"
  BY <1>1 DEF Inv, OpenIsPublished
<1>6. CASE ProbeAnswers
  <2>1. stage' = "publish" /\ held' = held
    BY <1>6 DEF ProbeAnswers
  <2> QED
    BY <2>1, <1>2, <1>3, <1>4, <1>5
       DEF Inv, TypeOK, HeldIsByStage, OpenIsPublished, TriedIsByStage
<1>7. CASE ProbeFails /\ Len(tried') < Len(Probes)
  <2>1. stage' = "probe" /\ held' = held
    BY <1>7 DEF ProbeFails
  <2>2. config = "auto" /\ tried' = <<"dav">>
    BY <1>1, <1>3, <1>7, ProbeIsNext
  <2> QED
    BY <2>1, <2>2, <1>2, <1>3, <1>4, <1>5
       DEF Inv, TypeOK, HeldIsByStage, OpenIsPublished, TriedIsByStage
<1>8. CASE ProbeFails /\ ~(Len(tried') < Len(Probes))
  <2>1. stage' = "out" /\ held' = {}
    BY <1>4, <1>8 DEF ProbeFails
  <2> QED
    BY <2>1, <1>2, <1>3, <1>4, <1>5
       DEF Inv, TypeOK, HeldIsByStage, OpenIsPublished, TriedIsByStage
<1> QED
  BY <1>6, <1>7, <1>8

LEMMA UseInv ==
  ASSUME Inv, NEW f \in File, Open(f) \/ Write(f) \/ Flush(f) \/ Close(f) \/ ForceClose(f)
  PROVE  Inv'
<1>1. /\ stage \in {"mounted", "unpublish"} /\ UNCHANGED <<stage, held, config, speaks, tried, protocol>>
      /\ \E state \in {"closed", "open", "staged"} : file' = [file EXCEPT ![f] = state]
  BY DEF Open, Write, Flush, Close, ForceClose, Set
<1> QED
  BY <1>1 DEF Inv, TypeOK, HeldIsByStage, OpenIsPublished, TriedIsByStage

(***************************************************************************)
(* Every step keeps the invariant.                                         *)
(***************************************************************************)
LEMMA NextInv ==
  ASSUME Inv, [Next]_vars
  PROVE  Inv'
<1>1. CASE Mount
  <2>1. \A f \in File : file[f] = "closed"
    BY <1>1 DEF Mount, Inv, OpenIsPublished
  <2>2. held = {}
    BY <1>1 DEF Mount, Inv, HeldIsByStage
  <2>3. tried' \in Seq(Protocol) /\ Len(tried') = 0
    BY <1>1 DEF Mount
  <2> QED
    BY <1>1, <2>1, <2>2, <2>3
       DEF Mount, Inv, TypeOK, HeldIsByStage, OpenIsPublished, TriedIsByStage, Protocol
<1>2. CASE Setup
  BY <1>2, SetupInv, SetupFailsInv, ProbeInv DEF Setup
<1>3. CASE Use \/ \E f \in File : ForceClose(f)
  BY <1>3, UseInv DEF Use
<1>4. CASE ServerChanges
  BY <1>4 DEF ServerChanges, Inv, TypeOK, HeldIsByStage, OpenIsPublished, TriedIsByStage
<1>5. CASE Unmount
  BY <1>5 DEF Unmount, Inv, TypeOK, HeldIsByStage, OpenIsPublished, TriedIsByStage
<1>6. CASE Unpublished
  BY <1>6 DEF Unpublished, Inv, TypeOK, HeldIsByStage, OpenIsPublished, TriedIsByStage
<1>7. CASE Free
  BY <1>7 DEF Free, Inv, TypeOK, HeldIsByStage, OpenIsPublished, TriedIsByStage
<1>8. CASE UNCHANGED vars
  BY <1>8 DEF vars, Inv, TypeOK, HeldIsByStage, OpenIsPublished, TriedIsByStage
<1> QED
  BY <1>1, <1>2, <1>3, <1>4, <1>5, <1>6, <1>7, <1>8 DEF Next, Teardown

-----------------------------------------------------------------------------

(***************************************************************************)
(* The invariant of mount_setup and mount_teardown: what is held is what   *)
(* the step says.                                                          *)
(***************************************************************************)
THEOREM InvHolds == Spec => []Inv
  BY InitInv, NextInv, PTL DEF Spec

(***************************************************************************)
(* Every variable keeps its type, with no more than two probes made.       *)
(***************************************************************************)
THEOREM TypeCorrect == Spec => []TypeOK
<1>1. Inv => TypeOK
  BY DEF Inv
<1> QED
  BY <1>1, InvHolds, PTL

(***************************************************************************)
(* While any file is open the client, the cache and the private block that *)
(* its callbacks use are there, through the umount too.                    *)
(***************************************************************************)
THEOREM CallsFindTheMountHolds == Spec => []CallsFindTheMount
<1>1. Inv => CallsFindTheMount
  BY DEF Inv, OpenIsPublished, HeldIsByStage, CallsFindTheMount
<1> QED
  BY <1>1, InvHolds, PTL

(***************************************************************************)
(* A mount that failed and one that was undone hold nothing, and what is   *)
(* mounted has all it needs.                                               *)
(***************************************************************************)
THEOREM MountedOrCleanHolds == Spec => []MountedOrClean
<1>1. Inv => MountedOrClean
  BY DEF Inv, HeldIsByStage, MountedOrClean
<1> QED
  BY <1>1, InvHolds, PTL

(***************************************************************************)
(* A volume is published with a protocol that has just answered, and with  *)
(* JSON by choice only after WebDAV had not.                               *)
(***************************************************************************)
THEOREM ProtocolAnsweredHolds == Spec => ProtocolAnswered
<1>1. ASSUME Inv, [Next]_vars, stage = "probe" /\ stage' = "publish"
      PROVE  /\ protocol' \in speaks /\ config \in {"auto", protocol'}
             /\ config = "auto" /\ protocol' = "json" => tried = <<"dav">>
  <2>1. ProbeAnswers
    BY <1>1 DEF Next, Mount, Setup, ParseUrl, InitNet, NewClient, SetAuth, NewDirCache, SetupFails, Fails,
                ProbeFails, Publish, Use, Open, Write, Flush, Close, Set, ServerChanges, Unmount, Teardown,
                ForceClose, Unpublished, Free, vars
  <2> QED
    BY <1>1, <2>1, ProbeIsNext DEF ProbeAnswers
<1> QED
  BY <1>1, InvHolds, PTL DEF Spec, ProtocolAnswered
=============================================================================
