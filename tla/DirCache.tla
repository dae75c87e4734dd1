------------------------------ MODULE DirCache ------------------------------
(***************************************************************************)
(* The mount's directory-listing cache: src/mount/webfs-cache.c over the   *)
(* DirCacheSlot array.  A slot holds one directory's whole listing, stamped*)
(* with the time it was fetched (it expires TTL later) and with the tick of*)
(* its last use (the least recently used slot is the one replaced).        *)
(*                                                                         *)
(* A listing is abstracted to the version of the server's directory it was *)
(* taken from.  A fetch that misses is three steps -- the request leaves,  *)
(* the server takes the listing, the reply is stored -- because the clock  *)
(* runs and the server changes meanwhile; no other cache operation runs    *)
(* in between, since the firmware dispatches one file call at a time.      *)
(***************************************************************************)
EXTENDS Naturals, Sequences

CONSTANTS
  Path,     \* the directories that may be listed
  NoPath,   \* the path of an empty slot (a NULL pointer)
  NSlots,   \* DIR_CACHE_MAX_SLOTS
  TTL,      \* DIR_CACHE_TTL_MS
  Latency,  \* the longest a listing request takes
  MaxTime,  \* bound on the clock
  MaxVer,   \* bound on the number of times a directory changes
  MaxTick   \* bound on the number of listings handed out

ASSUME SizesAssumption ==
  /\ NSlots \in Nat \ {0}
  /\ TTL \in Nat /\ Latency \in Nat /\ MaxTime \in Nat /\ MaxVer \in Nat /\ MaxTick \in Nat

ASSUME PathAssumption == Path # {} /\ NoPath \notin Path

VARIABLES
  slots,    \* DirCache.slots
  tick,     \* DirCache.tick
  now,      \* axl_time_get_ms()
  pending,  \* the listing request dir_cache_fetch is waiting for
  version,  \* the server: which listing of a directory it has now
  retired,  \* history: when a version of a directory was superseded
  floor,    \* history: the oldest version still acceptable for a path
  answered, \* history: the directories answered, in order
  answer    \* the last listing handed to a caller

Slot == 1..NSlots

cacheVars == <<slots, tick>>
serverVars == <<version, retired>>
vars == <<slots, tick, now, pending, version, retired, floor, answered, answer>>

-----------------------------------------------------------------------------
(* The slots.                                                              *)

(***************************************************************************)
(* dir_cache_slot_clear, and a slot of the zeroed table.                   *)
(***************************************************************************)
EmptySlot == [path |-> NoPath, ver |-> 0, fetched |-> 0, used |-> 0]

SlotValue == [path : Path \cup {NoPath}, ver : 0..MaxVer, fetched : Nat, used : Nat]

Live(slot) == slot.path # NoPath

Expired(slot) == Live(slot) /\ now > slot.fetched + TTL

\* Seeded fault: an entry is dropped one time unit after it should have been.
SweptLate(sl) ==
  [s \in Slot |-> IF Live(sl[s]) /\ now > sl[s].fetched + TTL + 1 THEN EmptySlot ELSE sl[s]]

(***************************************************************************)
(* dir_cache_find clears EVERY expired slot before it looks for the path.  *)
(***************************************************************************)
Swept(sl) == [s \in Slot |-> IF Expired(sl[s]) THEN EmptySlot ELSE sl[s]]

Holds(sl, p) == {s \in Slot : sl[s].path = p}

\* Seeded fault: the slot replaced is the one filled first, not used first.
OldestFetched(sl, s) ==
  IF \E t \in Slot : ~Live(sl[t])
  THEN ~Live(sl[s]) /\ \A t \in Slot : t < s => Live(sl[t])
  ELSE \A t \in Slot : sl[s].fetched < sl[t].fetched \/ (sl[s].fetched = sl[t].fetched /\ s <= t)

(***************************************************************************)
(* The slot a fresh listing goes to: the first free one, else the least    *)
(* recently used (the first of equals).                                    *)
(***************************************************************************)
Victim(sl, s) ==
  IF \E t \in Slot : ~Live(sl[t])
  THEN ~Live(sl[s]) /\ \A t \in Slot : t < s => Live(sl[t])
  ELSE \A t \in Slot : sl[s].used < sl[t].used \/ (sl[s].used = sl[t].used /\ s <= t)

-----------------------------------------------------------------------------
(* Requests.                                                               *)

Idle == [stage |-> "idle"]

Asked(p) == [stage |-> "asked", path |-> p, since |-> now]

Replied(p, t, v) == [stage |-> "replied", path |-> p, since |-> t, ver |-> v]

PendingValue ==
  {Idle}
    \cup [stage : {"asked"}, path : Path, since : Nat]
    \cup [stage : {"replied"}, path : Path, since : Nat, ver : 0..MaxVer]

(***************************************************************************)
(* dir_cache_fetch hands the listing of path p, version v, to its caller.  *)
(***************************************************************************)
HandOut(p, v) ==
  /\ answer' = [path |-> p, ver |-> v]
  /\ floor' = [floor EXCEPT ![p] = v]
  /\ answered' = Append(answered, p)

-----------------------------------------------------------------------------

Init ==
  /\ slots = [s \in Slot |-> EmptySlot]
  /\ tick = 0
  /\ now = 0
  /\ pending = Idle
  /\ version = [p \in Path |-> 0]
  /\ retired = [p \in Path |-> [v \in 0..MaxVer |-> 0]]
  /\ floor = [p \in Path |-> 0]
  /\ answered = <<>>
  /\ \E p \in Path : answer = [path |-> p, ver |-> 0]

(***************************************************************************)
(* Time passes; a request in flight ends within Latency.                   *)
(***************************************************************************)
Tick ==
  /\ now < MaxTime
  /\ pending.stage # "idle" => now < pending.since + Latency
  /\ now' = now + 1
  /\ UNCHANGED <<cacheVars, pending, serverVars, floor, answered, answer>>

(***************************************************************************)
(* The directory changes on the server: by the mount's own request or by   *)
(* anybody else's.                                                         *)
(***************************************************************************)
ServerChange(p) ==
  /\ version[p] < MaxVer
  /\ version' = [version EXCEPT ![p] = @ + 1]
  /\ retired' = [retired EXCEPT ![p][version[p]] = now]
  /\ UNCHANGED <<cacheVars, now, pending, floor, answered, answer>>

(***************************************************************************)
(* dir_cache_fetch finds a live slot.                                      *)
(***************************************************************************)
FetchHit(p) ==
  /\ tick < MaxTick
  /\ pending = Idle
  /\ \E s \in Holds(Swept(slots), p) :
       /\ slots' = [Swept(slots) EXCEPT ![s].used = tick + 1]
       /\ HandOut(p, slots[s].ver)
  /\ tick' = tick + 1
  /\ UNCHANGED <<now, pending, serverVars>>

\* Seeded fault: the request goes out although a live slot has the path.
FetchAlways(p) ==
  /\ pending = Idle
  /\ slots' = Swept(slots)
  /\ pending' = Asked(p)
  /\ UNCHANGED <<tick, now, serverVars, floor, answered, answer>>

(***************************************************************************)
(* dir_cache_fetch finds none: the whole listing is asked for.             *)
(***************************************************************************)
FetchMiss(p) ==
  /\ pending = Idle
  /\ Holds(Swept(slots), p) = {}
  /\ slots' = Swept(slots)
  /\ pending' = Asked(p)
  /\ UNCHANGED <<tick, now, serverVars, floor, answered, answer>>

(***************************************************************************)
(* The server takes the listing it answers with.                           *)
(***************************************************************************)
ServerLists ==
  /\ pending.stage = "asked"
  /\ pending' = Replied(pending.path, pending.since, version[pending.path])
  /\ UNCHANGED <<cacheVars, now, serverVars, floor, answered, answer>>

(***************************************************************************)
(* The reply is stored and handed out; its age counts from now.            *)
(***************************************************************************)
FetchFill ==
  /\ tick < MaxTick
  /\ pending.stage = "replied"
  /\ \E s \in Slot :
       /\ Victim(slots, s)
       /\ slots' = [slots EXCEPT ![s] = [path |-> pending.path, ver |-> pending.ver,
                                         fetched |-> now, used |-> tick + 1]]
  /\ tick' = tick + 1
  /\ HandOut(pending.path, pending.ver)
  /\ pending' = Idle
  /\ UNCHANGED <<now, serverVars>>

(***************************************************************************)
(* No memory, no connection, a bad status, a listing refused or unparsed:  *)
(* the caller gets an error and no slot is touched.                        *)
(***************************************************************************)
FetchFail ==
  /\ pending.stage \in {"asked", "replied"}
  /\ pending' = Idle
  /\ UNCHANGED <<cacheVars, now, serverVars, floor, answered, answer>>

\* Seeded fault: a listing fetched this very instant is spared.
InvalidateOld(p) ==
  /\ pending = Idle
  /\ slots' = [s \in Slot |-> IF Swept(slots)[s].path = p /\ slots[s].fetched < now
                              THEN EmptySlot ELSE Swept(slots)[s]]
  /\ floor' = [floor EXCEPT ![p] = version[p]]
  /\ UNCHANGED <<tick, now, pending, serverVars, answered, answer>>

(***************************************************************************)
(* dir_cache_invalidate, called once the mount has changed directory p.    *)
(***************************************************************************)
Invalidate(p) ==
  /\ pending = Idle
  /\ slots' = [s \in Slot |-> IF Swept(slots)[s].path = p THEN EmptySlot ELSE Swept(slots)[s]]
  /\ floor' = [floor EXCEPT ![p] = version[p]]
  /\ UNCHANGED <<tick, now, pending, serverVars, answered, answer>>

Next ==
  \/ Tick
  \/ ServerLists
  \/ FetchFill
  \/ FetchFail
  \/ \E p \in Path :
       \/ ServerChange(p)
       \/ FetchHit(p)
       \/ FetchMiss(p)
       \/ Invalidate(p)

Spec == Init /\ [][Next]_vars

-----------------------------------------------------------------------------
(* Properties.                                                             *)

(***************************************************************************)
(* Every variable has its type; in particular a slot, a request and an     *)
(* answer only ever name versions the server has had.                      *)
(***************************************************************************)
TypeOK ==
  /\ slots \in [Slot -> SlotValue]
  /\ tick \in Nat
  /\ now \in 0..MaxTime
  /\ pending \in PendingValue
  /\ version \in [Path -> 0..MaxVer]
  /\ retired \in [Path -> [0..MaxVer -> Nat]]
  /\ floor \in [Path -> 0..MaxVer]
  /\ answer \in [path : Path, ver : 0..MaxVer]

(***************************************************************************)
(* No directory is cached twice.  dir_cache_find returns the last slot that*)
(* matches and dir_cache_invalidate clears that one alone: with a second   *)
(* slot for the path an invalidated listing would go on being served.      *)
(***************************************************************************)
OneSlotPerPath ==
  \A s, t \in Slot : Live(slots[s]) /\ slots[s].path = slots[t].path => s = t

(***************************************************************************)
(* v is acceptable for p, and was the server's until at most Latency       *)
(* before time t.                                                          *)
(***************************************************************************)
Honest(p, v, t) ==
  /\ v \in floor[p]..version[p]
  /\ v < version[p] => retired[p][v] + Latency >= t

(***************************************************************************)
(* A listing in a slot or in a reply was the server's until at most Latency*)
(* before its fetch stamp, and no fresher one has been promised since.     *)
(***************************************************************************)
SlotsHonest ==
  /\ \A s \in Slot : Live(slots[s]) =>
       /\ Honest(slots[s].path, slots[s].ver, slots[s].fetched)
       /\ slots[s].fetched <= now
  /\ pending.stage = "replied" =>
       Honest(pending.path, pending.ver, pending.since + Latency)

(***************************************************************************)
(* The whole cache implements ListingSource: bounded staleness (a listing  *)
(* may be TTL old in the cache, plus the Latency of the request that       *)
(* brought it, since its age counts from the reply), answers that never go *)
(* back in time, and the mount's own changes visible at once.              *)
(***************************************************************************)
Promise == INSTANCE ListingSource WITH Bound <- TTL + Latency

ImplementsListingSource == Promise!Spec

(***************************************************************************)
(* Directory q has been answered since p last was.                         *)
(***************************************************************************)
AnsweredSince(q, p) ==
  \E i \in DOMAIN answered :
    answered[i] = q /\ \A j \in DOMAIN answered : i <= j => answered[j] # p

(***************************************************************************)
(* A live listing is given up for another only when every slot is live, and*)
(* then every other listing held has been asked for since it last was ("a  *)
(* free slot, else the least recently used").                              *)
(***************************************************************************)
EvictsLeastRecentlyUsed ==
  [][FetchFill =>
       \A s \in Slot :
         Live(slots[s]) /\ slots'[s] # slots[s] =>
           \A t \in Slot :
             Live(slots[t]) /\ (t # s => AnsweredSince(slots[t].path, slots[s].path))]_vars

=============================================================================
