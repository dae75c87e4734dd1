--------------------------- MODULE DirCacheProofs ---------------------------
(***************************************************************************)
(* Proofs about DirCache, for any number of slots, any set of directories, *)
(* any TTL and any latency.                                                *)
(***************************************************************************)
EXTENDS DirCache, SequenceTheorems, TLAPS

(***************************************************************************)
(* What OneSlotPerPath and SlotsHonest need to be inductive: the directory *)
(* being fetched is in no slot, and a request in flight is at most Latency *)
(* old.                                                                    *)
(***************************************************************************)
RequestInv ==
  pending # Idle =>
    /\ \A s \in Slot : slots[s].path # pending.path
    /\ pending.since <= now
    /\ now <= pending.since + Latency

(***************************************************************************)
(* A promise is about a version the server has reached.                    *)
(***************************************************************************)
FloorReached == \A p \in Path : floor[p] <= version[p]

(***************************************************************************)
(* The types the proofs below need, without those of the histories.        *)
(***************************************************************************)
Types ==
  /\ slots \in [Slot -> SlotValue]
  /\ tick \in Nat
  /\ now \in Nat
  /\ pending \in PendingValue
  /\ version \in [Path -> 0..MaxVer]
  /\ retired \in [Path -> [0..MaxVer -> Nat]]
  /\ floor \in [Path -> 0..MaxVer]

Inv == TypeOK /\ OneSlotPerPath /\ SlotsHonest /\ RequestInv /\ FloorReached

(***************************************************************************)
(* The cleared slot is a slot, and not a live one.                         *)
(***************************************************************************)
LEMMA EmptySlotIsSlot == EmptySlot \in SlotValue /\ ~Live(EmptySlot)
PROOF BY SizesAssumption DEF EmptySlot, SlotValue, Live

(***************************************************************************)
(* Clearing slots leaves a table of slots, each as it was or empty.        *)
(***************************************************************************)
LEMMA SweptIsSlots ==
  ASSUME TypeOK
  PROVE  /\ Swept(slots) \in [Slot -> SlotValue]
         /\ \A s \in Slot : /\ Swept(slots)[s] \in {slots[s], EmptySlot}
                            /\ Live(Swept(slots)[s]) =>
                                 Swept(slots)[s] = slots[s] /\ ~Expired(slots[s])
PROOF
  BY EmptySlotIsSlot DEF TypeOK, Swept

(***************************************************************************)
(* What a request in flight carries at each of its stages.                 *)
(***************************************************************************)
LEMMA PendingStages ==
  ASSUME pending \in PendingValue
  PROVE  /\ pending = Idle <=> pending.stage = "idle"
         /\ pending.stage \in {"idle", "asked", "replied"}
         /\ pending # Idle => pending.path \in Path /\ pending.since \in Nat
         /\ pending.stage = "replied" => pending.ver \in 0..MaxVer
PROOF BY DEF PendingValue, Idle

(***************************************************************************)
(* Handing out a version of the server keeps the promise, and the answer   *)
(* it sets, typed.                                                         *)
(***************************************************************************)
LEMMA HandOutTypes ==
  ASSUME NEW p \in Path, NEW v \in 0..MaxVer, HandOut(p, v), floor \in [Path -> 0..MaxVer]
  PROVE  /\ answer' \in [path : Path, ver : 0..MaxVer]
         /\ floor' \in [Path -> 0..MaxVer]
PROOF BY DEF HandOut

(***************************************************************************)
(* Every variable keeps its type.                                          *)
(***************************************************************************)
THEOREM TypeCorrect == Spec => []TypeOK
PROOF
  <1>1. Init => TypeOK
    BY SizesAssumption DEF Init, TypeOK, EmptySlot, SlotValue, Idle, PendingValue
  <1>2. TypeOK /\ [Next]_vars => TypeOK'
    <2> SUFFICES ASSUME TypeOK, [Next]_vars
                 PROVE  TypeOK'
      OBVIOUS
    <2>0. /\ slots \in [Slot -> SlotValue]
          /\ tick \in Nat
          /\ now \in 0..MaxTime
          /\ version \in [Path -> 0..MaxVer]
          /\ retired \in [Path -> [0..MaxVer -> Nat]]
          /\ floor \in [Path -> 0..MaxVer]
      BY DEF TypeOK
    <2>1. CASE Tick
      <3>1. now' \in 0..MaxTime
        BY <2>1, SizesAssumption DEF Tick, TypeOK
      <3>2. UNCHANGED <<slots, tick, pending, version, retired, floor, answer>>
        BY <2>1 DEF Tick, cacheVars, serverVars
      <3>3. QED
        BY <3>1, <3>2 DEF TypeOK
    <2>2. CASE ServerLists
      <3>1. pending' \in PendingValue
        BY <2>2, PendingStages DEF ServerLists, Replied, TypeOK, PendingValue, Idle
      <3>2. UNCHANGED <<slots, tick, now, version, retired, floor, answer>>
        BY <2>2 DEF ServerLists, cacheVars, serverVars
      <3>3. QED
        BY <3>1, <3>2 DEF TypeOK
    <2>3. CASE FetchFill
      <3>1. pending.path \in Path /\ pending.ver \in 0..MaxVer
        BY <2>3, PendingStages DEF FetchFill, TypeOK, Idle
      <3>2. slots' \in [Slot -> SlotValue]
        BY <2>3, <3>1 DEF FetchFill, TypeOK, SlotValue
      <3>3. pending' \in PendingValue /\ tick' \in Nat
        <4>1. pending' = Idle /\ tick' = tick + 1 /\ tick \in Nat
          BY <2>3 DEF FetchFill, TypeOK
        <4>2. QED
          BY <4>1 DEF PendingValue
      <3>4. answer' \in [path : Path, ver : 0..MaxVer] /\ floor' \in [Path -> 0..MaxVer]
        BY <2>3, <3>1, HandOutTypes DEF FetchFill, TypeOK
      <3>5. UNCHANGED <<now, version, retired>>
        BY <2>3 DEF FetchFill, serverVars
      <3>6. QED
        BY <3>2, <3>3, <3>4, <3>5 DEF TypeOK
    <2>4. CASE FetchFail
      <3>1. pending' \in PendingValue
        BY <2>4 DEF FetchFail, PendingValue
      <3>2. UNCHANGED <<slots, tick, now, version, retired, floor, answer>>
        BY <2>4 DEF FetchFail, cacheVars, serverVars
      <3>3. QED
        BY <3>1, <3>2 DEF TypeOK
    <2>5. ASSUME NEW p \in Path, ServerChange(p)
          PROVE  TypeOK'
      <3>1. version' \in [Path -> 0..MaxVer]
        <4>1. version[p] + 1 \in 0..MaxVer
          BY <2>0, <2>5, SizesAssumption DEF ServerChange
        <4>2. QED
          BY <2>0, <2>5, <4>1 DEF ServerChange
      <3>2. retired' \in [Path -> [0..MaxVer -> Nat]]
        <4>1. now \in Nat
          BY <2>0, SizesAssumption
        <4>2. QED
          BY <2>0, <2>5, <4>1 DEF ServerChange
      <3>3. UNCHANGED <<slots, tick, now, pending, floor, answer>>
        BY <2>5 DEF ServerChange, cacheVars
      <3>4. QED
        BY <3>1, <3>2, <3>3 DEF TypeOK
    <2>6. ASSUME NEW p \in Path, FetchHit(p)
          PROVE  TypeOK'
      <3>1. PICK s \in Holds(Swept(slots), p) :
              /\ slots' = [Swept(slots) EXCEPT ![s].used = tick + 1]
              /\ HandOut(p, slots[s].ver)
        BY <2>6 DEF FetchHit
      <3>2. slots' \in [Slot -> SlotValue]
        <4>1. Swept(slots) \in [Slot -> SlotValue] /\ s \in Slot /\ tick + 1 \in Nat
          BY <2>0, SweptIsSlots DEF Holds
        <4>2. QED
          BY <3>1, <4>1 DEF SlotValue
      <3>3. slots[s].ver \in 0..MaxVer
        BY <2>0 DEF SlotValue, Holds
      <3>4. answer' \in [path : Path, ver : 0..MaxVer] /\ floor' \in [Path -> 0..MaxVer]
        BY <2>0, <3>1, <3>3, HandOutTypes
      <3>5. tick' \in Nat /\ UNCHANGED <<now, pending, version, retired>>
        BY <2>0, <2>6 DEF FetchHit, serverVars
      <3>6. QED
        BY <3>2, <3>4, <3>5 DEF TypeOK
    <2>7. ASSUME NEW p \in Path, FetchMiss(p)
          PROVE  TypeOK'
      <3>1. slots' \in [Slot -> SlotValue]
        BY <2>7, SweptIsSlots DEF FetchMiss
      <3>2. pending' \in PendingValue
        BY <2>7 DEF FetchMiss, Asked, PendingValue, TypeOK
      <3>3. UNCHANGED <<tick, now, version, retired, floor, answer>>
        BY <2>7 DEF FetchMiss, serverVars
      <3>4. QED
        BY <3>1, <3>2, <3>3 DEF TypeOK
    <2>8. ASSUME NEW p \in Path, Invalidate(p)
          PROVE  TypeOK'
      <3>1. slots' \in [Slot -> SlotValue]
        BY <2>8, SweptIsSlots, EmptySlotIsSlot DEF Invalidate
      <3>2. floor' \in [Path -> 0..MaxVer]
        BY <2>8 DEF Invalidate, TypeOK
      <3>3. UNCHANGED <<tick, now, pending, version, retired, answer>>
        BY <2>8 DEF Invalidate, serverVars
      <3>4. QED
        BY <3>1, <3>2, <3>3 DEF TypeOK
    <2>9. CASE UNCHANGED vars
      BY <2>9 DEF vars, TypeOK
    <2>10. QED
      BY <2>1, <2>2, <2>3, <2>4, <2>5, <2>6, <2>7, <2>8, <2>9 DEF Next
  <1>3. QED
    BY <1>1, <1>2, PTL DEF Spec

-----------------------------------------------------------------------------

(***************************************************************************)
(* The types without the histories follow from the type invariant.         *)
(***************************************************************************)
LEMMA TypesHold == TypeOK => Types
PROOF
  <1>1. 0..MaxTime \subseteq Nat
    BY SizesAssumption
  <1>2. QED
    BY <1>1 DEF TypeOK, Types

(***************************************************************************)
(* Sums and differences of the numbers of the state are numbers: Z3 is     *)
(* told once.                                                              *)
(***************************************************************************)
LEMMA Numbers ==
  ASSUME Types
  PROVE  /\ now \in Nat /\ Latency \in Nat /\ TTL \in Nat
         /\ \A p \in Path : /\ version[p] \in 0..MaxVer /\ version[p] \in Nat
                            /\ floor[p] \in 0..MaxVer /\ floor[p] \in Nat
                            /\ retired[p] \in [0..MaxVer -> Nat]
PROOF
  <1>1. \A n \in 0..MaxVer : n \in Nat
    BY SizesAssumption
  <1>2. QED
    BY <1>1, SizesAssumption DEF Types

(***************************************************************************)
(* A change on the server leaves an honest listing honest: it can only be  *)
(* superseded now, and it was fetched no later than Latency from now.      *)
(***************************************************************************)
LEMMA ChangeKeepsHonest ==
  ASSUME Types, NEW q \in Path, ServerChange(q),
         NEW p \in Path, NEW v \in 0..MaxVer, NEW t \in Nat,
         Honest(p, v, t), t <= now + Latency
  PROVE  Honest(p, v, t)'
PROOF
  <1>1. /\ version' = [version EXCEPT ![q] = version[q] + 1]
        /\ retired' = [retired EXCEPT ![q] = [retired[q] EXCEPT ![version[q]] = now]]
        /\ floor' = floor
    BY DEF ServerChange, Types
  <1>2. /\ floor'[p] = floor[p]
        /\ floor[p] \in Nat /\ version[p] \in 0..MaxVer /\ version[p] \in Nat
        /\ now \in Nat /\ Latency \in Nat
        /\ retired[p] \in [0..MaxVer -> Nat]
    BY <1>1, Numbers
  <1>3. /\ v \in floor[p]..version[p]
        /\ v < version[p] => retired[p][v] + Latency >= t
    BY DEF Honest
  <1>4. CASE p # q
    <2>1. version'[p] = version[p] /\ retired'[p] = retired[p]
      BY <1>1, <1>4 DEF Types
    <2>2. QED
      BY <1>2, <1>3, <2>1 DEF Honest
  <1>5. CASE p = q
    <2>1. /\ version'[p] = version[p] + 1
          /\ retired'[p] = [retired[p] EXCEPT ![version[p]] = now]
      BY <1>1, <1>5 DEF Types
    <2>2. v < version[p] => retired'[p][v] = retired[p][v]
      BY <1>2, <2>1
    <2>3. v = version[p] => retired'[p][v] = now
      BY <1>2, <2>1
    <2>4. v \in floor'[p]..version'[p]
      BY <1>2, <1>3, <2>1
    <2>5. retired'[p][v] + Latency >= t
      BY <1>2, <1>3, <2>2, <2>3
    <2>6. QED
      BY <2>4, <2>5 DEF Honest
  <1>6. QED
    BY <1>4, <1>5

(***************************************************************************)
(* The parts of the invariant beside the types, as one step preserves them.*)
(***************************************************************************)
Parts == OneSlotPerPath /\ SlotsHonest /\ RequestInv /\ FloorReached

(***************************************************************************)
(* The passing of time keeps the invariant: a request in flight is let go  *)
(* on only while it is younger than Latency.                               *)
(***************************************************************************)
LEMMA TickKeepsParts ==
  ASSUME Types, Parts, Tick
  PROVE  Parts'
PROOF
  <1>1. /\ UNCHANGED <<slots, pending, version, retired, floor>>
        /\ now' = now + 1
        /\ pending.stage # "idle" => now < pending.since + Latency
    BY DEF Tick, cacheVars, serverVars
  <1>2. OneSlotPerPath' /\ FloorReached'
    BY <1>1 DEF Parts, OneSlotPerPath, FloorReached
  <1>3. SlotsHonest'
    <2>1. \A s \in Slot : slots[s].fetched \in Nat
      BY DEF Types, SlotValue
    <2>2. \A p, v, t : Honest(p, v, t)' = Honest(p, v, t)
      BY <1>1 DEF Honest
    <2>3. \A s \in Slot : slots[s].fetched <= now => slots[s].fetched <= now'
      BY <1>1, <2>1 DEF Types
    <2>4. QED
      BY <1>1, <2>2, <2>3 DEF Parts, SlotsHonest
  <1>4. RequestInv'
    BY <1>1, PendingStages, SizesAssumption DEF Parts, RequestInv, Types
  <1>5. QED
    BY <1>2, <1>3, <1>4 DEF Parts

(***************************************************************************)
(* A change of the server's directory keeps the invariant.                 *)
(***************************************************************************)
LEMMA ServerChangeKeepsParts ==
  ASSUME Types, Parts, NEW q \in Path, ServerChange(q)
  PROVE  Parts'
PROOF
  <1>1. UNCHANGED <<slots, pending, now, floor>>
    BY DEF ServerChange, cacheVars
  <1>2. OneSlotPerPath' /\ RequestInv'
    BY <1>1 DEF Parts, OneSlotPerPath, RequestInv
  <1>3. FloorReached'
    <2>1. \A p \in Path : version'[p] \in {version[p], version[p] + 1}
      BY DEF ServerChange, Types
    <2>2. \A p \in Path : floor[p] <= version[p]
      BY DEF Parts, FloorReached
    <2>3. QED
      BY <1>1, <2>1, <2>2, Numbers DEF FloorReached
  <1>4. ASSUME NEW s \in Slot, Live(slots[s])
        PROVE  Honest(slots[s].path, slots[s].ver, slots[s].fetched)'
    <2>1. /\ slots[s].path \in Path /\ slots[s].ver \in 0..MaxVer /\ slots[s].fetched \in Nat
          /\ Honest(slots[s].path, slots[s].ver, slots[s].fetched)
          /\ slots[s].fetched <= now
      BY <1>4 DEF Types, SlotValue, Live, Parts, SlotsHonest
    <2>2. slots[s].fetched <= now + Latency
      BY <2>1, Numbers
    <2>3. QED
      BY <1>1, <2>1, <2>2, ChangeKeepsHonest
  <1>5. ASSUME pending.stage = "replied"
        PROVE  Honest(pending.path, pending.ver, pending.since + Latency)'
    <2>1. /\ pending.path \in Path /\ pending.ver \in 0..MaxVer /\ pending.since \in Nat
          /\ pending.since <= now
          /\ Honest(pending.path, pending.ver, pending.since + Latency)
      BY <1>5, PendingStages DEF Types, Parts, RequestInv, SlotsHonest
    <2>2. pending.since + Latency \in Nat /\ pending.since + Latency <= now + Latency
      BY <2>1, Numbers
    <2>3. QED
      BY <1>1, <2>1, <2>2, ChangeKeepsHonest
  <1>6. SlotsHonest'
    BY <1>1, <1>4, <1>5 DEF Parts, SlotsHonest
  <1>7. QED
    BY <1>2, <1>3, <1>6 DEF Parts

(***************************************************************************)
(* The server's answer is honest at the moment it is taken.                *)
(***************************************************************************)
LEMMA ServerListsKeepsParts ==
  ASSUME Types, Parts, ServerLists
  PROVE  Parts'
PROOF
  <1>1. /\ UNCHANGED <<slots, now, version, retired, floor>>
        /\ pending.stage = "asked"
        /\ pending' = [stage |-> "replied", path |-> pending.path, since |-> pending.since,
                       ver |-> version[pending.path]]
    BY DEF ServerLists, cacheVars, serverVars, Replied
  <1>2. pending.path \in Path /\ pending.since \in Nat /\ pending # Idle
    BY <1>1, PendingStages DEF Types
  <1>3. OneSlotPerPath' /\ RequestInv' /\ FloorReached'
    BY <1>1, <1>2 DEF Parts, OneSlotPerPath, RequestInv, FloorReached
  <1>4. \A p, v, t : Honest(p, v, t)' = Honest(p, v, t)
    BY <1>1 DEF Honest
  <1>5. Honest(pending.path, version[pending.path], pending.since + Latency)
    BY <1>2 DEF Honest, Parts, FloorReached, Types
  <1>6. SlotsHonest'
    BY <1>1, <1>4, <1>5 DEF Parts, SlotsHonest
  <1>7. QED
    BY <1>3, <1>6 DEF Parts

(***************************************************************************)
(* A fetch that fails keeps the invariant.                                 *)
(***************************************************************************)
LEMMA FetchFailKeepsParts ==
  ASSUME Types, Parts, FetchFail
  PROVE  Parts'
PROOF
  <1>1. UNCHANGED <<slots, now, version, retired, floor>> /\ pending' = Idle
    BY DEF FetchFail, cacheVars, serverVars
  <1>2. \A p, v, t : Honest(p, v, t)' = Honest(p, v, t)
    BY <1>1 DEF Honest
  <1>3. SlotsHonest'
    BY <1>1, <1>2 DEF Parts, SlotsHonest, Idle
  <1>4. QED
    BY <1>1, <1>3 DEF Parts, OneSlotPerPath, RequestInv, FloorReached

(***************************************************************************)
(* The slots a lookup leaves behind: each as it was, or cleared.           *)
(***************************************************************************)
Kept(sl) == \A s \in Slot : Live(sl[s]) => sl[s] = slots[s]

(***************************************************************************)
(* A miss keeps the invariant: the path asked for is in no slot.           *)
(***************************************************************************)
LEMMA MissKeepsParts ==
  ASSUME TypeOK, Types, Parts, NEW q \in Path, FetchMiss(q)
  PROVE  Parts'
PROOF
  <1>1. /\ UNCHANGED <<now, version, retired, floor>>
        /\ slots' = Swept(slots)
        /\ pending' = [stage |-> "asked", path |-> q, since |-> now]
        /\ \A s \in Slot : Swept(slots)[s].path # q
    BY DEF FetchMiss, serverVars, Asked, Holds
  <1>2. \A s \in Slot : Live(slots'[s]) => slots'[s] = slots[s]
    BY <1>1, SweptIsSlots
  <1>3. \A p, v, t : Honest(p, v, t)' = Honest(p, v, t)
    BY <1>1 DEF Honest
  <1>4. OneSlotPerPath'
    <2>1. \A s, t \in Slot : Live(slots'[s]) /\ slots'[s].path = slots'[t].path => Live(slots'[t])
      BY DEF Live
    <2>2. QED
      BY <1>2, <2>1 DEF Parts, OneSlotPerPath
  <1>5. SlotsHonest'
    BY <1>1, <1>2, <1>3 DEF Parts, SlotsHonest
  <1>6. RequestInv'
    BY <1>1, Numbers DEF RequestInv
  <1>7. FloorReached'
    BY <1>1 DEF Parts, FloorReached
  <1>8. QED
    BY <1>4, <1>5, <1>6, <1>7 DEF Parts

(***************************************************************************)
(* Handing out version v of q raises q's floor to v: the listings of other *)
(* directories stay as honest as they were.                                *)
(***************************************************************************)
LEMMA HandOutKeepsHonest ==
  ASSUME Types, NEW q \in Path, NEW w \in 0..MaxVer, HandOut(q, w),
         UNCHANGED <<version, retired>>
  PROVE  \A p \in Path : p # q => \A v, t : Honest(p, v, t) => Honest(p, v, t)'
PROOF BY DEF HandOut, Honest, Types

(***************************************************************************)
(* A hit keeps the invariant: it hands out a version no older than any     *)
(* promised.                                                               *)
(***************************************************************************)
LEMMA HitKeepsParts ==
  ASSUME TypeOK, Types, Parts, NEW q \in Path, FetchHit(q)
  PROVE  Parts'
PROOF
  <1>1. PICK z \in Slot :
          /\ Swept(slots)[z].path = q
          /\ slots' = [Swept(slots) EXCEPT ![z].used = tick + 1]
          /\ HandOut(q, slots[z].ver)
    BY DEF FetchHit, Holds
  <1>2. UNCHANGED <<now, pending, version, retired>> /\ pending = Idle
    BY DEF FetchHit, serverVars
  <1>3. \A s \in Slot : /\ Live(slots'[s]) => Live(slots[s])
                        /\ Live(slots'[s]) => /\ slots'[s].path = slots[s].path
                                              /\ slots'[s].ver = slots[s].ver
                                              /\ slots'[s].fetched = slots[s].fetched
    <2>1. ASSUME NEW s \in Slot, Live(slots'[s])
          PROVE  /\ Live(Swept(slots)[s])
                 /\ slots'[s].path = Swept(slots)[s].path
                 /\ slots'[s].ver = Swept(slots)[s].ver
                 /\ slots'[s].fetched = Swept(slots)[s].fetched
      BY <1>1, <2>1, SweptIsSlots DEF Live, SlotValue
    <2>2. QED
      BY <2>1, SweptIsSlots
  <1>4. slots[z].path = q /\ slots[z].ver \in 0..MaxVer /\ Live(slots[z])
    BY <1>1, SweptIsSlots, PathAssumption DEF Live, Types, SlotValue
  <1>5. floor'[q] = slots[z].ver /\ \A p \in Path : p # q => floor'[p] = floor[p]
    BY <1>1 DEF HandOut, Types
  <1>6. Honest(q, slots[z].ver, slots[z].fetched)
    BY <1>4 DEF Parts, SlotsHonest
  <1>7. OneSlotPerPath'
    BY <1>3 DEF Parts, OneSlotPerPath, Live
  <1>8. ASSUME NEW s \in Slot, Live(slots'[s])
        PROVE  Honest(slots[s].path, slots[s].ver, slots[s].fetched)' /\ slots[s].fetched <= now
    <2>1. /\ Live(slots[s]) /\ slots[s].path \in Path
          /\ Honest(slots[s].path, slots[s].ver, slots[s].fetched)
          /\ slots[s].fetched <= now
      BY <1>3, <1>8 DEF Parts, SlotsHonest, Types, SlotValue, Live
    <2>2. CASE slots[s].path = q
      <3>1. s = z
        BY <1>4, <2>2 DEF Parts, OneSlotPerPath
      <3>2. slots[z].ver \in Nat
        BY <1>4, SizesAssumption
      <3>3. /\ slots[z].ver <= version[q]
            /\ slots[z].ver < version[q] => retired[q][slots[z].ver] + Latency >= slots[z].fetched
        BY <1>6 DEF Honest
      <3>4. Honest(q, slots[z].ver, slots[z].fetched)'
        BY <1>2, <1>3, <1>5, <1>8, <3>1, <3>2, <3>3, Numbers DEF Honest
      <3>5. QED
        BY <1>3, <1>8, <2>1, <2>2, <3>1, <3>4
    <2>3. CASE slots[s].path # q
      <3>1. Honest(slots[s].path, slots[s].ver, slots[s].fetched) =>
              \A p, v, t : p = slots[s].path /\ v = slots[s].ver /\ t = slots[s].fetched
                            => Honest(p, v, t)'
        BY <1>1, <1>2, <1>4, <2>1, <2>3, HandOutKeepsHonest
      <3>2. QED
        BY <1>3, <1>8, <2>1, <3>1
    <2>4. QED
      BY <2>2, <2>3
  <1>9. SlotsHonest'
    BY <1>2, <1>3, <1>8 DEF SlotsHonest, Idle
  <1>10. FloorReached'
    BY <1>2, <1>5, <1>6, Numbers DEF Parts, FloorReached, Honest
  <1>11. RequestInv'
    BY <1>2 DEF RequestInv
  <1>12. QED
    BY <1>7, <1>9, <1>10, <1>11 DEF Parts

(***************************************************************************)
(* Storing a reply keeps the invariant: the path was in no slot, and the   *)
(* reply is honest at its stamp.                                           *)
(***************************************************************************)
LEMMA FillKeepsParts ==
  ASSUME TypeOK, Types, Parts, FetchFill
  PROVE  Parts'
PROOF
  <1>1. PICK q \in Path, w \in 0..MaxVer : q = pending.path /\ w = pending.ver
    BY PendingStages DEF Types, FetchFill, Idle
  <1>0. w \in Nat /\ pending.since \in Nat /\ pending # Idle
    BY PendingStages, SizesAssumption DEF Types, FetchFill, Idle
  <1>2. PICK z \in Slot :
          slots' = [slots EXCEPT ![z] = [path |-> q, ver |-> w, fetched |-> now, used |-> tick + 1]]
    BY <1>1 DEF FetchFill
  <1>3. HandOut(q, w) /\ UNCHANGED <<now, version, retired>> /\ pending' = Idle
    BY <1>1 DEF FetchFill, serverVars
  <1>4. /\ slots'[z].path = q /\ slots'[z].ver = w /\ slots'[z].fetched = now
        /\ \A s \in Slot : s # z => slots'[s] = slots[s]
    BY <1>2 DEF Types
  <1>5. \A s \in Slot : slots[s].path # q
    BY <1>0, <1>1 DEF Parts, RequestInv
  <1>6. floor'[q] = w /\ \A p \in Path : p # q => floor'[p] = floor[p]
    BY <1>1, <1>3 DEF HandOut, Types
  <1>7. /\ w <= version[q]
        /\ w < version[q] => retired[q][w] + Latency >= pending.since + Latency
        /\ now <= pending.since + Latency
    BY <1>0, <1>1 DEF Parts, SlotsHonest, Honest, RequestInv, FetchFill
  <1>8. OneSlotPerPath'
    <2>1. ASSUME NEW s \in Slot, NEW t \in Slot, Live(slots'[s]), slots'[s].path = slots'[t].path
          PROVE  s = t
      <3>1. CASE s = z
        BY <1>4, <1>5, <2>1, <3>1
      <3>2. CASE t = z
        BY <1>4, <1>5, <2>1, <3>2
      <3>3. CASE s # z /\ t # z
        BY <1>4, <2>1, <3>3 DEF Parts, OneSlotPerPath
      <3>4. QED
        BY <3>1, <3>2, <3>3
    <2>2. QED
      BY <2>1 DEF OneSlotPerPath
  <1>9. Honest(q, w, now)'
    <2>1. w < version[q] => retired[q][w] \in Nat
      BY <1>0, Numbers
    <2>2. w \in floor'[q]..version'[q]
      BY <1>0, <1>3, <1>6, <1>7, Numbers
    <2>3. w < version'[q] => retired'[q][w] + Latency >= now'
      BY <1>0, <1>3, <1>7, <2>1, Numbers
    <2>4. QED
      BY <2>2, <2>3 DEF Honest
  <1>10. ASSUME NEW s \in Slot, Live(slots'[s])
         PROVE  Honest(slots[s].path, slots[s].ver, slots[s].fetched)' /\ slots'[s].fetched <= now'
    <2>1. CASE s = z
      BY <1>3, <1>4, <1>9, <2>1, Numbers
    <2>2. CASE s # z
      <3>1. /\ slots'[s] = slots[s] /\ slots[s].path \in Path /\ slots[s].path # q
            /\ Honest(slots[s].path, slots[s].ver, slots[s].fetched)
            /\ slots[s].fetched <= now
        BY <1>4, <1>5, <1>10, <2>2 DEF Parts, SlotsHonest, Types, SlotValue, Live
      <3>2. \A p, v, t : p = slots[s].path /\ v = slots[s].ver /\ t = slots[s].fetched
                         => Honest(p, v, t)'
        BY <1>3, <3>1, HandOutKeepsHonest
      <3>3. QED
        BY <1>3, <3>1, <3>2
    <2>3. QED
      BY <2>1, <2>2
  <1>11. SlotsHonest'
    BY <1>3, <1>10 DEF SlotsHonest, Idle
  <1>12. RequestInv'
    BY <1>3 DEF RequestInv
  <1>13. FloorReached'
    BY <1>3, <1>6, <1>7 DEF Parts, FloorReached
  <1>14. QED
    BY <1>8, <1>11, <1>12, <1>13 DEF Parts

(***************************************************************************)
(* An invalidation keeps the invariant: the one slot that has the path is  *)
(* emptied, so no slot breaks the new promise.                             *)
(***************************************************************************)
LEMMA InvalidateKeepsParts ==
  ASSUME TypeOK, Types, Parts, NEW q \in Path, Invalidate(q)
  PROVE  Parts'
PROOF
  <1>1. /\ UNCHANGED <<now, pending, version, retired>>
        /\ pending = Idle
        /\ slots' = [s \in Slot |-> IF Swept(slots)[s].path = q THEN EmptySlot
                                    ELSE Swept(slots)[s]]
        /\ floor' = [floor EXCEPT ![q] = version[q]]
    BY DEF Invalidate, serverVars
  <1>2. \A s \in Slot : Live(slots'[s]) => slots'[s] = slots[s] /\ slots[s].path # q
    BY <1>1, SweptIsSlots, EmptySlotIsSlot
  <1>3. floor'[q] = version[q] /\ \A p \in Path : p # q => floor'[p] = floor[p]
    BY <1>1 DEF Types
  <1>4. OneSlotPerPath'
    <2>1. \A s, t \in Slot : Live(slots'[s]) /\ slots'[s].path = slots'[t].path => Live(slots'[t])
      BY DEF Live
    <2>2. QED
      BY <1>2, <2>1 DEF Parts, OneSlotPerPath
  <1>5. \A p \in Path : p # q => \A v, t : Honest(p, v, t) => Honest(p, v, t)'
    BY <1>1, <1>3 DEF Honest
  <1>6. ASSUME NEW s \in Slot, Live(slots'[s])
        PROVE  Honest(slots[s].path, slots[s].ver, slots[s].fetched)' /\ slots'[s].fetched <= now'
    <2>1. /\ slots'[s] = slots[s] /\ slots[s].path \in Path /\ slots[s].path # q
          /\ Honest(slots[s].path, slots[s].ver, slots[s].fetched)
          /\ slots[s].fetched <= now
      BY <1>2, <1>6 DEF Parts, SlotsHonest, Types, SlotValue, Live
    <2>2. \A p, v, t : p = slots[s].path /\ v = slots[s].ver /\ t = slots[s].fetched
                       => Honest(p, v, t)'
      BY <1>5, <2>1
    <2>3. QED
      BY <1>1, <2>1, <2>2
  <1>7. SlotsHonest'
    BY <1>1, <1>6 DEF SlotsHonest, Idle
  <1>8. RequestInv'
    BY <1>1 DEF RequestInv
  <1>9. FloorReached'
    BY <1>1, <1>3, Numbers DEF Parts, FloorReached
  <1>10. QED
    BY <1>4, <1>7, <1>8, <1>9 DEF Parts

(***************************************************************************)
(* The inductive invariant: no directory is cached twice, and every listing*)
(* held or in flight is honest.                                            *)
(***************************************************************************)
THEOREM InvHolds == Spec => []Inv
PROOF
  <1>1. Init => Parts
    <2> SUFFICES ASSUME Init PROVE Parts
      OBVIOUS
    <2>1. \A s \in Slot : ~Live(slots[s])
      BY EmptySlotIsSlot DEF Init
    <2>2. FloorReached
      <3>1. version = [p \in Path |-> 0] /\ floor = [p \in Path |-> 0]
        BY DEF Init
      <3>2. \A p \in Path : version[p] = 0 /\ floor[p] = 0
        BY <3>1
      <3>3. \A m, n : m = 0 /\ n = 0 => n <= m
        OBVIOUS
      <3>4. QED
        BY <3>2, <3>3 DEF FloorReached
    <2>3. pending = Idle /\ pending.stage # "replied"
      BY DEF Init, Idle
    <2>4. QED
      BY <2>1, <2>2, <2>3 DEF Parts, OneSlotPerPath, SlotsHonest, RequestInv
  <1>2. TypeOK /\ Parts /\ [Next]_vars => Parts'
    <2> SUFFICES ASSUME TypeOK, Parts, [Next]_vars
                 PROVE  Parts'
      OBVIOUS
    <2>1. Types
      BY TypesHold
    <2>2. CASE UNCHANGED vars
      <3>1. \A p, v, t : Honest(p, v, t)' = Honest(p, v, t)
        BY <2>2 DEF vars, Honest
      <3>2. QED
        BY <2>2, <3>1 DEF vars, Parts, OneSlotPerPath, SlotsHonest, RequestInv, FloorReached
    <2>3. CASE Next
      BY <2>1, <2>3, TickKeepsParts, ServerChangeKeepsParts, ServerListsKeepsParts,
         FetchFailKeepsParts, MissKeepsParts, HitKeepsParts, FillKeepsParts,
         InvalidateKeepsParts DEF Next
    <2>4. QED
      BY <2>2, <2>3
  <1>3. Inv <=> TypeOK /\ Parts
    BY DEF Inv, Parts
  <1>4. QED
    BY <1>1, <1>2, <1>3, TypeCorrect, PTL DEF Spec

(***************************************************************************)
(* dir_cache_find and dir_cache_invalidate may stop at one matching slot.  *)
(***************************************************************************)
THEOREM OneSlotPerPathHolds == Spec => []OneSlotPerPath
PROOF BY InvHolds, PTL DEF Inv

(***************************************************************************)
(* Every cached listing was the server's until at most Latency before its  *)
(* fetch stamp, and is no older than what was promised since.              *)
(***************************************************************************)
THEOREM SlotsHonestHolds == Spec => []SlotsHonest
PROOF BY InvHolds, PTL DEF Inv

-----------------------------------------------------------------------------

(***************************************************************************)
(* A listing honest at time t may still be answered until TTL later.       *)
(***************************************************************************)
LEMMA RecentEnough ==
  ASSUME Types, NEW p \in Path, NEW v \in 0..MaxVer, NEW t \in Nat,
         v \in floor[p]..version[p],
         v < version[p] => retired[p][v] + Latency >= t,
         now <= t + TTL
  PROVE  Promise!HeldRecently(p, v)
PROOF
  <1>1. /\ now \in Nat /\ Latency \in Nat /\ TTL \in Nat
        /\ version[p] \in Nat /\ retired[p][v] \in Nat /\ v \in Nat
    BY Numbers, SizesAssumption
  <1>2. v = version[p] \/ v < version[p]
    BY <1>1, Numbers
  <1>3. v < version[p] => retired[p][v] + (TTL + Latency) >= now
    BY <1>1
  <1>4. QED
    BY <1>2, <1>3 DEF Promise!HeldRecently

(***************************************************************************)
(* The cache keeps its promise: each of its steps is a step of             *)
(* ListingSource, or changes nothing that specification speaks of.         *)
(***************************************************************************)
THEOREM Implements == Spec => ImplementsListingSource
PROOF
  <1>1. Init => Promise!Init
    BY DEF Init, Promise!Init
  <1>2. Inv /\ [Next]_vars => [Promise!Next]_(Promise!vars)
    <2> SUFFICES ASSUME Inv, [Next]_vars
                 PROVE  [Promise!Next]_(Promise!vars)
      OBVIOUS
    <2>0. TypeOK /\ Types /\ Parts
      BY TypesHold DEF Inv, Parts
    <2>1. CASE Tick
      BY <2>1 DEF Tick, serverVars, Promise!Next, Promise!Tick
    <2>2. ASSUME NEW p \in Path, ServerChange(p)
          PROVE  Promise!ServerChange(p)
      BY <2>2 DEF ServerChange, Promise!ServerChange
    <2>3. ASSUME NEW p \in Path, Invalidate(p)
          PROVE  Promise!Invalidate(p)
      BY <2>3 DEF Invalidate, serverVars, Promise!Invalidate
    <2>4. CASE ServerLists \/ FetchFail \/ UNCHANGED vars
      BY <2>4 DEF ServerLists, FetchFail, serverVars, vars, Promise!vars
    <2>5. ASSUME NEW p \in Path, FetchMiss(p)
          PROVE  UNCHANGED Promise!vars
      BY <2>5 DEF FetchMiss, serverVars, Promise!vars
    <2>6. ASSUME NEW p \in Path, FetchHit(p)
          PROVE  \E v \in 0..MaxVer : Promise!Answer(p, v)
      <3>1. PICK s \in Slot : Swept(slots)[s].path = p /\ HandOut(p, slots[s].ver)
        BY <2>6 DEF FetchHit, Holds
      <3>2. Live(slots[s]) /\ slots[s].path = p /\ ~Expired(slots[s])
        BY <2>0, <3>1, SweptIsSlots, PathAssumption DEF Live
      <3>3. PICK v \in 0..MaxVer, f \in Nat : v = slots[s].ver /\ f = slots[s].fetched
        BY <2>0, <3>1 DEF Types, SlotValue
      <3>4. /\ v \in floor[p]..version[p]
            /\ v < version[p] => retired[p][v] + Latency >= f
        BY <2>0, <3>2, <3>3 DEF Parts, SlotsHonest, Honest
      <3>5. now <= f + TTL
        BY <2>0, <3>2, <3>3, Numbers DEF Expired
      <3>6. Promise!HeldRecently(p, v)
        BY <2>0, <3>4, <3>5, RecentEnough
      <3>7. UNCHANGED <<now, version, retired>>
        BY <2>6 DEF FetchHit, serverVars
      <3>8. floor' = [floor EXCEPT ![p] = v] /\ answer' = [path |-> p, ver |-> v]
        BY <3>1, <3>3 DEF HandOut
      <3>9. v >= floor[p]
        BY <2>0, <3>4, Numbers
      <3>10. Promise!Answer(p, v)
        BY <3>6, <3>7, <3>8, <3>9 DEF Promise!Answer
      <3>11. QED
        BY <3>10
    <2>7. ASSUME FetchFill
          PROVE  \E p \in Path, v \in 0..MaxVer : Promise!Answer(p, v)
      <3>1. PICK p \in Path, v \in 0..MaxVer : p = pending.path /\ v = pending.ver
        BY <2>0, <2>7, PendingStages DEF Types, FetchFill, Idle
      <3>2. pending # Idle /\ pending.since \in Nat
        BY <2>0, <2>7, PendingStages DEF Types, FetchFill, Idle
      <3>3. /\ v \in floor[p]..version[p]
            /\ v < version[p] => retired[p][v] + Latency >= pending.since + Latency
            /\ now <= pending.since + Latency
        BY <2>0, <2>7, <3>1, <3>2 DEF Parts, SlotsHonest, Honest, RequestInv, FetchFill
      <3>4. Promise!HeldRecently(p, v)
        <4>1. PICK f \in Nat : f = pending.since + Latency
          BY <2>0, <3>2, Numbers
        <4>2. now <= f + TTL
          BY <2>0, <3>3, <4>1, Numbers
        <4>3. QED
          BY <2>0, <3>3, <4>1, <4>2, RecentEnough
      <3>5. HandOut(p, v) /\ UNCHANGED <<now, version, retired>>
        BY <2>7, <3>1 DEF FetchFill, serverVars
      <3>6. floor' = [floor EXCEPT ![p] = v] /\ answer' = [path |-> p, ver |-> v]
        BY <3>5 DEF HandOut
      <3>7. v >= floor[p]
        BY <2>0, <3>3, Numbers
      <3>8. Promise!Answer(p, v)
        BY <3>4, <3>5, <3>6, <3>7 DEF Promise!Answer
      <3>9. QED
        BY <3>8
    <2>8. QED
      BY <2>1, <2>2, <2>3, <2>4, <2>5, <2>6, <2>7 DEF Next, Promise!Next
  <1>3. QED
    BY <1>1, <1>2, InvHolds, PTL DEF Spec, ImplementsListingSource, Promise!Spec

-----------------------------------------------------------------------------
(* Eviction.                                                               *)

(***************************************************************************)
(* A live slot's use stamp is the time its listing was last handed out, as *)
(* a count of hand-outs: after it that directory was not answered.         *)
(***************************************************************************)
StampTold(slot, a) ==
  /\ slot.used \in 1..Len(a) /\ a[slot.used] = slot.path
  /\ \A j \in 1..Len(a) : slot.used < j => a[j] # slot.path

StampsTold ==
  /\ answered \in Seq(Path) /\ Len(answered) = tick
  /\ \A s \in Slot : Live(slots[s]) => StampTold(slots[s], answered)

(***************************************************************************)
(* A hand-out of p leaves the stamps of others told, and tells one that is *)
(* the count from now on.                                                  *)
(***************************************************************************)
LEMMA HandOutTells ==
  ASSUME NEW p \in Path, NEW v, HandOut(p, v), StampsTold, tick' = tick + 1
  PROVE  /\ answered' \in Seq(Path) /\ Len(answered') = tick'
         /\ \A slot \in SlotValue :
              slot.path # p /\ StampTold(slot, answered) => StampTold(slot, answered')
         /\ \A slot \in SlotValue :
              slot.path = p /\ slot.used = tick + 1 => StampTold(slot, answered')
PROOF
  <1>1. answered' = Append(answered, p)
    BY DEF HandOut
  <1>2. /\ answered' \in Seq(Path) /\ Len(answered') = Len(answered) + 1
        /\ \A i \in 1..Len(answered) : answered'[i] = answered[i]
        /\ answered'[Len(answered) + 1] = p
    BY <1>1, AppendProperties DEF StampsTold
  <1>3. Len(answered) = tick /\ tick \in Nat
    BY LenProperties DEF StampsTold
  <1>4. ASSUME NEW slot \in SlotValue, slot.path # p, StampTold(slot, answered)
        PROVE  StampTold(slot, answered')
    BY <1>2, <1>3, <1>4 DEF StampTold
  <1>5. ASSUME NEW slot \in SlotValue, slot.path = p, slot.used = tick + 1
        PROVE  StampTold(slot, answered')
    BY <1>2, <1>3, <1>5 DEF StampTold
  <1>6. QED
    BY <1>2, <1>3, <1>4, <1>5

(***************************************************************************)
(* Steps that hand nothing out leave slots as they were or empty.          *)
(***************************************************************************)
LEMMA QuietStepKeepsStamps ==
  ASSUME StampsTold, UNCHANGED <<tick, answered>>,
         \A s \in Slot : slots'[s] \in {slots[s], EmptySlot}
  PROVE  StampsTold'
PROOF
  <1>1. \A s \in Slot : Live(slots'[s]) => slots'[s] = slots[s]
    BY EmptySlotIsSlot
  <1>2. QED
    BY <1>1 DEF StampsTold

LEMMA HitKeepsStamps ==
  ASSUME TypeOK, OneSlotPerPath, StampsTold, NEW q \in Path, FetchHit(q)
  PROVE  StampsTold'
PROOF
  <1>1. PICK z \in Slot :
          /\ Swept(slots)[z].path = q
          /\ slots' = [Swept(slots) EXCEPT ![z].used = tick + 1]
          /\ HandOut(q, slots[z].ver)
    BY DEF FetchHit, Holds
  <1>2. tick' = tick + 1 /\ tick \in Nat
    BY DEF FetchHit, TypeOK
  <1>3. /\ answered' \in Seq(Path) /\ Len(answered') = tick'
        /\ \A slot \in SlotValue :
             slot.path # q /\ StampTold(slot, answered) => StampTold(slot, answered')
        /\ \A slot \in SlotValue :
             slot.path = q /\ slot.used = tick + 1 => StampTold(slot, answered')
    BY <1>1, <1>2, HandOutTells
  <1>4. Swept(slots) \in [Slot -> SlotValue]
    BY SweptIsSlots
  <1>5. Live(slots[z]) /\ slots[z].path = q
    BY <1>1, SweptIsSlots, PathAssumption DEF Live
  <1>6. ASSUME NEW s \in Slot, Live(slots'[s])
        PROVE  StampTold(slots'[s], answered')
    <2>1. CASE s = z
      <3>1. slots'[s] \in SlotValue /\ slots'[s].path = q /\ slots'[s].used = tick + 1
        BY <1>1, <1>2, <1>4, <2>1 DEF SlotValue
      <3>2. QED
        BY <1>3, <3>1
    <2>2. CASE s # z
      <3>1. slots'[s] = Swept(slots)[s] /\ slots'[s] \in SlotValue
        BY <1>1, <1>4, <2>2
      <3>2. slots'[s] = slots[s] /\ Live(slots[s])
        BY <1>6, <3>1, SweptIsSlots
      <3>3. slots[s].path # q
        BY <1>5, <2>2, <3>2 DEF OneSlotPerPath
      <3>4. QED
        BY <1>3, <3>1, <3>2, <3>3 DEF StampsTold
    <2>3. QED
      BY <2>1, <2>2
  <1>7. QED
    BY <1>3, <1>6 DEF StampsTold

LEMMA FillKeepsStamps ==
  ASSUME TypeOK, RequestInv, StampsTold, FetchFill
  PROVE  StampsTold'
PROOF
  <1>1. PICK q \in Path : q = pending.path
    BY PendingStages DEF TypeOK, FetchFill, Idle
  <1>2. pending # Idle /\ pending.ver \in 0..MaxVer
    BY PendingStages DEF TypeOK, FetchFill, Idle
  <1>3. PICK z \in Slot :
          slots' = [slots EXCEPT ![z] = [path |-> q, ver |-> pending.ver, fetched |-> now,
                                         used |-> tick + 1]]
    BY <1>1 DEF FetchFill
  <1>4. HandOut(q, pending.ver) /\ tick' = tick + 1 /\ tick \in Nat /\ now \in Nat
    BY <1>1, TypesHold DEF FetchFill, Types
  <1>5. /\ answered' \in Seq(Path) /\ Len(answered') = tick'
        /\ \A slot \in SlotValue :
             slot.path # q /\ StampTold(slot, answered) => StampTold(slot, answered')
        /\ \A slot \in SlotValue :
             slot.path = q /\ slot.used = tick + 1 => StampTold(slot, answered')
    BY <1>4, HandOutTells
  <1>6. slots \in [Slot -> SlotValue]
    BY DEF TypeOK
  <1>7. ASSUME NEW s \in Slot, Live(slots'[s])
        PROVE  StampTold(slots'[s], answered')
    <2>1. CASE s = z
      <3>1. slots'[s] \in SlotValue /\ slots'[s].path = q /\ slots'[s].used = tick + 1
        BY <1>2, <1>3, <1>4, <1>6, <2>1 DEF SlotValue
      <3>2. QED
        BY <1>5, <3>1
    <2>2. CASE s # z
      <3>1. slots'[s] = slots[s] /\ slots[s] \in SlotValue /\ slots[s].path # q
        BY <1>1, <1>2, <1>3, <1>6, <2>2 DEF RequestInv
      <3>2. QED
        BY <1>5, <1>7, <3>1 DEF StampsTold
    <2>3. QED
      BY <2>1, <2>2
  <1>8. QED
    BY <1>5, <1>7 DEF StampsTold

(***************************************************************************)
(* The use stamps tell the order in which the directories were answered.   *)
(***************************************************************************)
THEOREM StampsToldHolds == Spec => []StampsTold
PROOF
  <1>1. Init => StampsTold
    <2> SUFFICES ASSUME Init PROVE StampsTold
      OBVIOUS
    <2>1. answered = <<>> /\ tick = 0 /\ \A s \in Slot : slots[s] = EmptySlot
      BY DEF Init
    <2>2. QED
      BY <2>1, EmptySlotIsSlot, EmptySeq DEF StampsTold
  <1>2. Inv /\ StampsTold /\ [Next]_vars => StampsTold'
    <2> SUFFICES ASSUME Inv, StampsTold, [Next]_vars
                 PROVE  StampsTold'
      OBVIOUS
    <2>0. TypeOK /\ OneSlotPerPath /\ RequestInv
      BY DEF Inv
    <2>1. CASE UNCHANGED vars \/ Tick \/ ServerLists \/ FetchFail \/ \E p \in Path : ServerChange(p)
      <3>1. UNCHANGED <<slots, tick, answered>>
        BY <2>1 DEF vars, Tick, ServerLists, FetchFail, ServerChange, cacheVars
      <3>2. QED
        BY <3>1, QuietStepKeepsStamps
    <2>2. ASSUME NEW p \in Path, FetchMiss(p) \/ Invalidate(p)
          PROVE  StampsTold'
      <3>1. UNCHANGED <<tick, answered>>
        BY <2>2 DEF FetchMiss, Invalidate
      <3>2. \A s \in Slot : slots'[s] \in {Swept(slots)[s], EmptySlot}
        BY <2>2 DEF FetchMiss, Invalidate
      <3>3. \A s \in Slot : slots'[s] \in {slots[s], EmptySlot}
        BY <2>0, <3>2, SweptIsSlots
      <3>4. QED
        BY <3>1, <3>3, QuietStepKeepsStamps
    <2>3. QED
      BY <2>0, <2>1, <2>2, HitKeepsStamps, FillKeepsStamps DEF Next
  <1>3. QED
    BY <1>1, <1>2, InvHolds, PTL DEF Spec

(***************************************************************************)
(* A live listing is given up only when every slot is live, and then every *)
(* other listing held has been asked for since it last was.                *)
(***************************************************************************)
THEOREM EvictsLeastRecentlyUsedHolds == Spec => EvictsLeastRecentlyUsed
PROOF
  <1>1. ASSUME Inv, StampsTold, FetchFill,
               NEW s \in Slot, Live(slots[s]), slots'[s] # slots[s], NEW t \in Slot
        PROVE  Live(slots[t]) /\ (t # s => AnsweredSince(slots[t].path, slots[s].path))
    <2>1. Victim(slots, s)
      <3>1. PICK z \in Slot :
              /\ Victim(slots, z)
              /\ \E new : slots' = [slots EXCEPT ![z] = new]
        BY <1>1 DEF FetchFill
      <3>2. slots \in [Slot -> SlotValue]
        BY <1>1 DEF Inv, TypeOK
      <3>3. QED
        BY <1>1, <3>1, <3>2
    <2>2. /\ \A z \in Slot : Live(slots[z])
          /\ slots[s].used < slots[t].used \/ (slots[s].used = slots[t].used /\ s <= t)
      BY <1>1, <2>1 DEF Victim
    <2>3. StampTold(slots[s], answered) /\ StampTold(slots[t], answered)
      BY <1>1, <2>2 DEF StampsTold
    <2>4. DOMAIN answered = 1..Len(answered) /\ Len(answered) \in Nat
      BY <1>1, LenProperties DEF StampsTold
    <2>5. ASSUME t # s
          PROVE  AnsweredSince(slots[t].path, slots[s].path)
      <3>1. slots[s].used # slots[t].used
        BY <1>1, <2>2, <2>3, <2>5 DEF StampTold, Inv, OneSlotPerPath
      <3>2. PICK i \in 1..Len(answered) : i = slots[t].used
        BY <2>3 DEF StampTold
      <3>3. slots[s].used < i
        BY <2>2, <3>1, <3>2
      <3>4. \A j \in 1..Len(answered) : i <= j => answered[j] # slots[s].path
        BY <2>3, <2>4, <3>3 DEF StampTold
      <3>5. QED
        BY <2>3, <2>4, <3>2, <3>4 DEF StampTold, AnsweredSince
    <2>6. QED
      BY <2>2, <2>5
  <1>2. Inv /\ StampsTold /\ [Next]_vars =>
          [FetchFill =>
             \A s \in Slot :
               Live(slots[s]) /\ slots'[s] # slots[s] =>
                 \A t \in Slot :
                   Live(slots[t]) /\ (t # s => AnsweredSince(slots[t].path, slots[s].path))]_vars
    BY <1>1
  <1>3. QED
    BY <1>2, InvHolds, StampsToldHolds, PTL DEF Spec, EvictsLeastRecentlyUsed

=============================================================================
