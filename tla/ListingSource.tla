--------------------------- MODULE ListingSource ---------------------------
(***************************************************************************)
(* What the mount promises to whoever asks it for a directory listing,     *)
(* with no mention of slots, eviction or expiry:                           *)
(*                                                                         *)
(*   - the listing answered is one the server really had;                  *)
(*   - it was still the server's listing at most Bound time units ago;     *)
(*   - it is never older than the listing answered before for that path;   *)
(*   - it is never older than the server was when the path was last        *)
(*     invalidated, so the mount's own changes are seen at once.           *)
(*                                                                         *)
(* A listing is abstracted to the version of the server's directory it was *)
(* taken from.  Module DirCache implements this specification.             *)
(***************************************************************************)
EXTENDS Naturals

CONSTANTS
  Path,     \* the directories somebody may list
  Bound,    \* how long ago an answered listing may have been superseded
  MaxTime,  \* bound on the clock
  MaxVer    \* bound on the number of times a directory changes

VARIABLES
  now,      \* the clock
  version,  \* version[p]: which listing of p the server has now
  retired,  \* retired[p][v]: when version v of p was superseded
  floor,    \* floor[p]: the oldest version that may still be answered for p
  answer    \* the last answer given: path and version

vars == <<now, version, retired, floor, answer>>

(***************************************************************************)
(* v is the current version of p, or was until at most Bound ago.          *)
(***************************************************************************)
HeldRecently(p, v) ==
  \/ v = version[p]
  \/ v < version[p] /\ retired[p][v] + Bound >= now

Init ==
  /\ now = 0
  /\ version = [p \in Path |-> 0]
  /\ retired = [p \in Path |-> [v \in 0..MaxVer |-> 0]]
  /\ floor = [p \in Path |-> 0]
  /\ \E p \in Path : answer = [path |-> p, ver |-> 0]

Tick ==
  /\ now < MaxTime
  /\ now' = now + 1
  /\ UNCHANGED <<version, retired, floor, answer>>

ServerChange(p) ==
  /\ version[p] < MaxVer
  /\ version' = [version EXCEPT ![p] = @ + 1]
  /\ retired' = [retired EXCEPT ![p][version[p]] = now]
  /\ UNCHANGED <<now, floor, answer>>

Answer(p, v) ==
  /\ v >= floor[p]
  /\ HeldRecently(p, v)
  /\ floor' = [floor EXCEPT ![p] = v]
  /\ answer' = [path |-> p, ver |-> v]
  /\ UNCHANGED <<now, version, retired>>

Invalidate(p) ==
  /\ floor' = [floor EXCEPT ![p] = version[p]]
  /\ UNCHANGED <<now, version, retired, answer>>

Next ==
  \/ Tick
  \/ \E p \in Path :
       \/ ServerChange(p)
       \/ Invalidate(p)
       \/ \E v \in 0..MaxVer : Answer(p, v)

Spec == Init /\ [][Next]_vars

=============================================================================
