--------------------------- MODULE PutUploadProofs ---------------------------
(***************************************************************************)
(* Proofs about PutUpload, for any number of requests, resources and       *)
(* directories, bodies of any length, and every backend call failing.      *)
(***************************************************************************)
EXTENDS PutUpload, SequenceTheorems, TLAPS

(***************************************************************************)
(* What the statics hold for r: a write of r's resource, or the failure    *)
(* that there is none; and while nothing has failed, a write of what r has *)
(* sent, hashed if r claims a digest.                                      *)
(***************************************************************************)
Serves(s, r) ==
  /\ s \in PutValue
  /\ s.id = r
  /\ s.ctx = {} => s.status # 0
  /\ \A w \in s.ctx :
       /\ s.ctx = {w}
       /\ w.path = req[r].path
       /\ w.inPlace \in InPlace
       /\ s.status = 0 => w.temp = req[r].sent /\ s.expect = req[r].claim

HeldState ==
  \/ put = NoPut
  \/ \E r \in Request : Serves(put, r)

(***************************************************************************)
(* A request with no call yet has sent nothing, and none that is not over  *)
(* has been answered.                                                      *)
(***************************************************************************)
RequestsFresh ==
  \A r \in Request :
    /\ req[r].stage = "new" => req[r].sent = <<>>
    /\ req[r].stage # "done" => req[r].answer = 0

(***************************************************************************)
(* A directory that a request made and that has not been made anew is one  *)
(* the statics remember, until the request is over.                        *)
(***************************************************************************)
MadeIsRemembered ==
  \A r \in Request : \A d \in dirs :
    maker[d] = r /\ req[r].stage # "done" => put.id = r /\ put.made = d

Inv == TypeOK /\ HeldByTheSender /\ HeldState /\ RequestsFresh /\ MadeIsRemembered

-----------------------------------------------------------------------------
(* Bodies and the upload state.                                            *)

(***************************************************************************)
(* The empty body is a body, and so is one with a chunk more while there   *)
(* is room.                                                                *)
(***************************************************************************)
LEMMA EmptyBody == <<>> \in Body
PROOF
  <1>1. <<>> \in [1..0 -> Chunk]
    OBVIOUS
  <1>2. QED
    BY <1>1, ChoiceAssumption DEF Body

(***************************************************************************)
(* A chunk may be added to a body that is not full.                        *)
(***************************************************************************)
LEMMA LongerBody ==
  ASSUME NEW b \in Body, NEW c \in Chunk, Len(b) < MaxChunks
  PROVE  Append(b, c) \in Body
PROOF
  <1>1. PICK n \in 0..MaxChunks : b \in [1..n -> Chunk]
    BY DEF Body
  <1>2. b \in Seq(Chunk) /\ n \in Nat
    BY <1>1, SeqDef, ChoiceAssumption
  <1>3. Len(b) = n
    BY <1>1, <1>2, LenProperties
  <1>4. Append(b, c) \in [1..n + 1 -> Chunk]
    BY <1>1, <1>2, <1>3, AppendProperties, LenProperties
  <1>5. n + 1 \in 0..MaxChunks
    BY <1>2, <1>3, ChoiceAssumption
  <1>6. QED
    BY <1>4, <1>5 DEF Body

(***************************************************************************)
(* The state put_end leaves is a state, and serves nobody.                 *)
(***************************************************************************)
LEMMA NoPutIsState == NoPut \in PutValue /\ NoPut.id = NoRequest /\ NoPut.made = NoDir
PROOF BY DEF NoPut, State, PutValue, Status

(***************************************************************************)
(* Every status put_status_for answers is one of a failure.                *)
(***************************************************************************)
LEMMA FailureStatus ==
  ASSUME NEW rc \in ErrorCode, NEW fallback \in {409, 500}
  PROVE  PutStatusFor(rc, fallback) \in Status \ {0}
PROOF
  <1>1. PutStatusFor(rc, fallback) \in {403, 409, 507, 503, fallback}
    BY DEF PutStatusFor, ErrorCode
  <1>2. QED
    BY <1>1 DEF Status

(***************************************************************************)
(* The first call of a request leaves a state that serves it, and makes no *)
(* directory but the one the state remembers.                              *)
(***************************************************************************)
LEMMA OpenedServes ==
  ASSUME TypeOK, NEW r \in Request, req[r].sent = <<>>, NEW s \in Opened(r)
  PROVE  /\ Serves(s.put, r)
         /\ s.dirs \subseteq Dir /\ dirs \subseteq s.dirs
         /\ s.dirs \ dirs \subseteq {s.put.made} \ {NoDir}
PROOF
  <1>0. /\ req[r].path \in Path /\ req[r].claim \in Claims
        /\ ParentDir[req[r].path] \in Dir \cup {NoDir}
        /\ dirs \subseteq Dir
        /\ file[req[r].path] \in {{}} \cup {{b} : b \in Body}
    BY DirAssumption DEF TypeOK, RequestValue
  <1>1. CASE s = Unparsed(r)
    <2>1. s.dirs = dirs /\ s.put = State(r, {}, 404, NoDir, NoClaim)
      BY <1>1 DEF Unparsed
    <2>2. Serves(s.put, r)
      BY <2>1 DEF State, Serves, PutValue, Status
    <2>3. QED
      BY <1>0, <2>1, <2>2
  <1>2. ASSUME NEW made \in Dir \cup {NoDir}, s \in OpenedOn(r, made)
        PROVE  /\ Serves(s.put, r)
               /\ s.dirs \subseteq Dir /\ dirs \subseteq s.dirs
               /\ s.dirs \ dirs \subseteq {s.put.made} \ {NoDir}
    <2>1. /\ s.dirs = dirs \cup ({made} \ {NoDir})
          /\ s.put \in OpenFails(r, made) \cup Opens(r, made) \cup OpensUnhashed(r, made)
      BY <1>2 DEF OpenedOn
    <2>2. CASE s.put \in OpenFails(r, made)
      <3>1. PICK rc \in ErrorCode : s.put = State(r, {}, PutStatusFor(rc, 409), made, NoClaim)
        BY <2>2 DEF OpenFails
      <3>2. PICK st \in Status \ {0} : st = PutStatusFor(rc, 409)
        BY FailureStatus
      <3>3. s.put = State(r, {}, st, made, NoClaim)
        BY <3>1, <3>2
      <3>4. Serves(s.put, r) /\ s.put.made = made
        BY <3>3 DEF State, Serves, PutValue
      <3>5. QED
        BY <1>0, <2>1, <3>4
    <2>3. CASE s.put \in Opens(r, made) \cup OpensUnhashed(r, made)
      <3>1. PICK ip \in InPlace, st \in {0, 500}, claim \in Claims \cup {NoClaim} :
              /\ s.put = State(r, {NewWrite(req[r].path, ip)}, st, made, claim)
              /\ st = 0 => claim = req[r].claim
        <4>1. CASE s.put \in Opens(r, made)
          <5>1. PICK ip \in InPlace :
                  s.put = State(r, {NewWrite(req[r].path, ip)}, 0, made, req[r].claim)
            BY <4>1 DEF Opens
          <5>2. /\ 0 \in {0, 500} /\ req[r].claim \in Claims \cup {NoClaim}
                /\ 0 = 0 => req[r].claim = req[r].claim
            BY <1>0
          <5>3. QED
            BY ONLY <5>1, <5>2
        <4>2. CASE s.put \in OpensUnhashed(r, made)
          <5>1. PICK ip \in InPlace :
                  s.put = State(r, {NewWrite(req[r].path, ip)}, 500, made, NoClaim)
            BY <4>2 DEF OpensUnhashed
          <5>2. 500 \in {0, 500} /\ 500 # 0 /\ NoClaim \in Claims \cup {NoClaim}
            OBVIOUS
          <5>3. QED
            BY <5>1, <5>2
        <4>3. QED
          BY <2>3, <4>1, <4>2
      <3>2. /\ NewWrite(req[r].path, ip) \in WriteValue
            /\ NewWrite(req[r].path, ip).path = req[r].path
            /\ NewWrite(req[r].path, ip).inPlace = ip
            /\ NewWrite(req[r].path, ip).temp = <<>>
        BY <1>0, EmptyBody, ChoiceAssumption DEF WriteValue, NewWrite
      <3>3. PICK w \in WriteValue : /\ w = NewWrite(req[r].path, ip)
                                   /\ w.path = req[r].path /\ w.inPlace = ip /\ w.temp = <<>>
        BY <3>2
      <3>4. /\ s.put.id = r /\ s.put.ctx = {w} /\ s.put.status = st
            /\ s.put.made = made /\ s.put.expect = claim
        BY <3>1, <3>3 DEF State
      <3>5. s.put \in PutValue
        BY <3>1, <3>3 DEF State, PutValue, Status
      <3>6. /\ s.put.ctx # {}
            /\ \A x \in s.put.ctx : /\ s.put.ctx = {x} /\ x.path = req[r].path /\ x.inPlace \in InPlace
                                    /\ x.temp = req[r].sent
        BY <3>3, <3>4
      <3>7. s.put.status = 0 => s.put.expect = req[r].claim
        BY <3>1, <3>4
      <3>8. Serves(s.put, r)
        BY <3>4, <3>5, <3>6, <3>7 DEF Serves
      <3>9. QED
        BY <1>0, <2>1, <3>4, <3>8
    <2>4. QED
      BY <2>1, <2>2, <2>3
  <1>3. s = Unparsed(r) \/ \E made \in Dir \cup {NoDir} : s \in OpenedOn(r, made)
    BY <1>0 DEF Opened
  <1>4. QED
    BY <1>1, <1>2, <1>3

(***************************************************************************)
(* A call of the request that holds the state, or of the first to come,    *)
(* works on a state that serves it.                                        *)
(***************************************************************************)
LEMMA ReadyServes ==
  ASSUME Inv, NEW r \in Request, req[r].stage # "done", Mine(r), NEW s \in Ready(r)
  PROVE  /\ Serves(s.put, r)
         /\ s.dirs \subseteq Dir /\ dirs \subseteq s.dirs
         /\ s.dirs \ dirs \subseteq {s.put.made} \ {NoDir}
         /\ put.id = r => s.put = put /\ s.dirs = dirs
PROOF
  <1>1. CASE put.id = r
    <2>1. s.put = put /\ s.dirs = dirs
      BY <1>1 DEF Ready
    <2>2. Serves(put, r)
      BY <1>1, NoPutIsState, RequestAssumption DEF Inv, HeldState, Serves
    <2>3. dirs \subseteq Dir
      BY DEF Inv, TypeOK
    <2>4. QED
      BY <2>1, <2>2, <2>3
  <1>2. CASE put.id = NoRequest
    <2>1. s \in Opened(r) /\ put.id # r
      BY <1>2, RequestAssumption DEF Ready
    <2>2. req[r].stage \in {"new", "sending", "done"}
      BY DEF Inv, TypeOK, RequestValue
    <2>3. req[r].stage = "new"
      BY <2>1, <2>2 DEF Inv, HeldByTheSender
    <2>4. req[r].sent = <<>>
      BY <2>3 DEF Inv, RequestsFresh
    <2>5. QED
      BY <2>1, <2>4, OpenedServes DEF Inv
  <1>3. QED
    BY <1>1, <1>2 DEF Mine

(***************************************************************************)
(* Ending a request changes its stage and its answer, and nothing else.    *)
(***************************************************************************)
LEMMA AnsweredIsDone ==
  ASSUME TypeOK, NEW r \in Request, NEW a \in Status \cup {201, 400}, req' = Answered(r, a)
  PROVE  /\ req' \in [Request -> RequestValue]
         /\ \A q \in Request : q # r => req'[q] = req[q]
         /\ req'[r].stage = "done" /\ req'[r].answer = a
PROOF
  <1>1. req[r] \in RequestValue /\ req \in [Request -> RequestValue]
    BY DEF TypeOK
  <1>2. PICK f : f = [req EXCEPT ![r].stage = "done"]
    OBVIOUS
  <1>3. /\ f \in [Request -> RequestValue] /\ f[r].stage = "done"
        /\ \A q \in Request : q # r => f[q] = req[q]
    BY <1>1, <1>2 DEF RequestValue
  <1>4. req' = [f EXCEPT ![r].answer = a]
    BY <1>2 DEF Answered
  <1>5. QED
    BY <1>3, <1>4 DEF RequestValue

(***************************************************************************)
(* A chunk makes the sender's body longer, and changes no other request.   *)
(***************************************************************************)
LEMMA ReceivedIsLonger ==
  ASSUME TypeOK, NEW r \in Request, NEW c \in Chunk, Len(req[r].sent) < MaxChunks,
         req' = [req EXCEPT ![r].stage = "sending", ![r].sent = Append(@, c)]
  PROVE  /\ req' \in [Request -> RequestValue]
         /\ \A q \in Request : q # r => req'[q] = req[q]
         /\ req'[r].stage = "sending" /\ req'[r].sent = Append(req[r].sent, c)
         /\ req'[r].path = req[r].path /\ req'[r].claim = req[r].claim
         /\ req'[r].answer = req[r].answer
PROOF
  <1>1. req[r] \in RequestValue /\ req \in [Request -> RequestValue]
    BY DEF TypeOK
  <1>2. Append(req[r].sent, c) \in Body
    BY <1>1, LongerBody DEF RequestValue
  <1>3. QED
    BY <1>1, <1>2 DEF RequestValue

(***************************************************************************)
(* After a chunk the state serves its sender still, with a temp that has   *)
(* the chunk, or a failure on record.                                      *)
(***************************************************************************)
LEMMA WrittenServes ==
  ASSUME TypeOK, NEW r \in Request, NEW c \in Chunk, NEW failed \in BOOLEAN, NEW s, Serves(s, r),
         Len(req[r].sent) < MaxChunks,
         req'[r].sent = Append(req[r].sent, c),
         req'[r].path = req[r].path, req'[r].claim = req[r].claim
  PROVE  /\ Serves(Written(s, c, failed), r)'
         /\ Written(s, c, failed).made = s.made
PROOF
  <1>1. CASE s.ctx = {} \/ s.status # 0
    <2>1. Written(s, c, failed) = s
      BY <1>1 DEF Written
    <2>2. Serves(s, r)'
      BY <1>1 DEF Serves
    <2>3. QED
      BY <2>1, <2>2
  <1>2. CASE s.ctx # {} /\ s.status = 0 /\ failed
    <2>1. Written(s, c, failed) = [s EXCEPT !.status = 500]
      BY <1>2 DEF Written
    <2>2. [s EXCEPT !.status = 500] \in PutValue
      BY DEF Serves, PutValue, Status
    <2>3. /\ [s EXCEPT !.status = 500].id = s.id
          /\ [s EXCEPT !.status = 500].ctx = s.ctx
          /\ [s EXCEPT !.status = 500].made = s.made
          /\ [s EXCEPT !.status = 500].status = 500
      BY DEF Serves, PutValue
    <2>4. QED
      BY <2>1, <2>2, <2>3 DEF Serves
  <1>3. CASE s.ctx # {} /\ s.status = 0 /\ ~failed
    <2>1. PICK w \in WriteValue : s.ctx = {w}
      <3>1. s.ctx \in {{}} \cup {{w} : w \in WriteValue}
        BY DEF Serves, PutValue
      <3>2. QED
        BY <1>3, <3>1
    <2>2. /\ w \in WriteValue /\ w.path = req[r].path /\ w.inPlace \in InPlace
          /\ w.temp = req[r].sent /\ s.expect = req[r].claim
      BY <1>3, <2>1 DEF Serves, PutValue
    <2>3. PICK v : v = [w EXCEPT !.temp = Append(@, c)]
      OBVIOUS
    <2>4. Append(w.temp, c) \in Body
      BY <2>2, LongerBody DEF WriteValue
    <2>5. /\ v \in WriteValue /\ v.path = w.path /\ v.inPlace = w.inPlace
          /\ v.temp = Append(w.temp, c)
      BY <2>2, <2>3, <2>4 DEF WriteValue
    <2>6. Written(s, c, failed) = [s EXCEPT !.ctx = {v}]
      BY <1>3, <2>1, <2>3 DEF Written
    <2>7. [s EXCEPT !.ctx = {v}] \in PutValue
      BY <2>5 DEF Serves, PutValue
    <2>8. /\ [s EXCEPT !.ctx = {v}].id = s.id
          /\ [s EXCEPT !.ctx = {v}].ctx = {v}
          /\ [s EXCEPT !.ctx = {v}].made = s.made
          /\ [s EXCEPT !.ctx = {v}].expect = s.expect
      BY DEF Serves, PutValue
    <2>9. QED
      BY <2>2, <2>5, <2>6, <2>7, <2>8 DEF Serves
  <1>4. QED
    BY <1>1, <1>2, <1>3

-----------------------------------------------------------------------------
(* The end of a request.                                                   *)

Files == [Path -> {{}} \cup {{b} : b \in Body}]

(***************************************************************************)
(* What a final call with a write open may come to: the body is stored     *)
(* only if nothing failed and it is the one claimed; else the resource is  *)
(* as it was, when written to a temp, or is known to be partly written.    *)
(***************************************************************************)
OutcomeOK(s, o) ==
  /\ o.file \in Files
  /\ o.status \in (Status \cup {201, 400}) \ {0}
  /\ o.status = 201 =>
       /\ s.status = 0
       /\ \E w \in s.ctx : /\ o.file = [file EXCEPT ![w.path] = {w.temp}]
                           /\ s.expect # NoClaim => w.temp \in s.expect
  /\ o.status # 201 /\ (\A w \in s.ctx : ~w.inPlace) => o.file = file
  /\ o.status # 201 => \A w \in s.ctx : w.inPlace /\ o.file[w.path] # w.before => o.partial

(***************************************************************************)
(* A discard leaves resources, restored to what the open found if the write*)
(* was in place.                                                           *)
(***************************************************************************)
LEMMA DiscardedFiles ==
  ASSUME TypeOK, NEW w \in WriteValue, NEW failed \in BOOLEAN
  PROVE  /\ Discarded(w, failed) \in Files
         /\ ~w.inPlace => Discarded(w, failed) = file
         /\ w.inPlace /\ Discarded(w, failed)[w.path] # w.before => failed
PROOF
  <1>1. file \in Files /\ w.path \in Path /\ w.before \in {{}} \cup {{b} : b \in Body}
    BY DEF TypeOK, Files, WriteValue
  <1>2. CASE w.inPlace /\ ~failed
    <2>1. Discarded(w, failed) = [file EXCEPT ![w.path] = w.before]
      BY <1>2 DEF Discarded
    <2>2. QED
      BY <1>1, <1>2, <2>1 DEF Files
  <1>3. CASE ~(w.inPlace /\ ~failed)
    BY <1>1, <1>3 DEF Discarded
  <1>4. QED
    BY <1>2, <1>3

(***************************************************************************)
(* Every outcome of the final call is one of those.                        *)
(***************************************************************************)
LEMMA OutcomesAreOK ==
  ASSUME TypeOK, NEW r \in Request, NEW s, Serves(s, r), NEW o \in Outcomes(s)
  PROVE  OutcomeOK(s, o)
PROOF
  <1>1. file \in Files /\ s.status \in Status
    BY DEF TypeOK, Files, Serves, PutValue
  <1>2. CASE s.ctx = {}
    <2>1. o = [file |-> file, status |-> s.status, partial |-> FALSE]
      BY <1>2 DEF Outcomes
    <2>2. s.status \in Status \ {0} /\ s.status # 201
      BY <1>1, <1>2 DEF Serves, Status
    <2>3. o.file = file /\ o.status = s.status
      BY <2>1
    <2>4. QED
      BY <1>1, <1>2, <2>2, <2>3 DEF OutcomeOK
  <1>3. CASE s.ctx # {}
    <2>1. PICK w \in WriteValue : s.ctx = {w}
      <3>1. s.ctx \in {{}} \cup {{w} : w \in WriteValue}
        BY DEF Serves, PutValue
      <3>2. QED
        BY <1>3, <3>1
    <2>2. w.path \in Path /\ w.temp \in Body
      BY DEF WriteValue
    <2>3. PICK st : st = Checked(s)
      OBVIOUS
    <2>4. o \in Outcome(st, w)
      BY <1>3, <2>1, <2>3 DEF Outcomes
    <2>5. /\ st \in Status \cup {400}
          /\ st = 0 => s.status = 0 /\ (s.expect # NoClaim => w.temp \in s.expect)
      BY <1>1, <2>1, <2>3 DEF Checked, Status
    <2>6. CASE st = 0 /\ o = [file |-> [file EXCEPT ![w.path] = {w.temp}], status |-> 201, partial |-> FALSE]
      <3>1. o.file = [file EXCEPT ![w.path] = {w.temp}] /\ o.status = 201
        BY <2>6
      <3>2. o.file \in Files
        BY <1>1, <2>2, <3>1 DEF Files
      <3>3. QED
        BY <2>1, <2>5, <2>6, <3>1, <3>2 DEF OutcomeOK
    <2>7. CASE /\ st = 0
               /\ \E rc \in ErrorCode :
                    o = [file |-> file, partial |-> w.inPlace,
                         status |-> IF w.inPlace THEN 500 ELSE PutStatusFor(rc, 500)]
      <3>1. PICK rc \in ErrorCode :
              o = [file |-> file, partial |-> w.inPlace,
                   status |-> IF w.inPlace THEN 500 ELSE PutStatusFor(rc, 500)]
        BY <2>7
      <3>2. PutStatusFor(rc, 500) \in Status \ {0}
        BY FailureStatus
      <3>3. o.file = file /\ o.partial = w.inPlace /\ o.status \in Status \ {0}
        BY <3>1, <3>2 DEF Status
      <3>4. o.status # 201
        BY <3>3 DEF Status
      <3>5. QED
        BY <1>1, <2>1, <3>3, <3>4 DEF OutcomeOK
    <2>8. CASE /\ st # 0
               /\ \E failed \in BOOLEAN :
                    o = [file |-> Discarded(w, failed), status |-> st, partial |-> w.inPlace /\ failed]
      <3>1. PICK failed \in BOOLEAN :
              o = [file |-> Discarded(w, failed), status |-> st, partial |-> w.inPlace /\ failed]
        BY <2>8
      <3>2. o.file = Discarded(w, failed) /\ o.status = st /\ (o.partial <=> w.inPlace /\ failed)
        BY <3>1
      <3>3. o.status \in (Status \cup {400}) \ {0} /\ o.status # 201
        BY <2>5, <2>8, <3>2 DEF Status
      <3>4. QED
        BY <2>1, <3>2, <3>3, DiscardedFiles DEF OutcomeOK
    <2>9. MayFail("discard") \subseteq BOOLEAN
      BY DEF MayFail
    <2>10. CASE st = 0
      <3>1. o \in {[file |-> [file EXCEPT ![w.path] = {w.temp}], status |-> 201, partial |-> FALSE]}
              \cup {[file |-> file, partial |-> w.inPlace,
                     status |-> IF w.inPlace THEN 500 ELSE PutStatusFor(rc, 500)] : rc \in ErrorCode}
        BY <2>4, <2>10 DEF Outcome
      <3>2. QED
        BY <2>6, <2>7, <2>10, <3>1
    <2>11. CASE st # 0
      <3>1. o \in {[file |-> Discarded(w, failed), status |-> st, partial |-> w.inPlace /\ failed] :
                     failed \in MayFail("discard")}
        BY <2>4, <2>11 DEF Outcome
      <3>2. QED
        BY <2>8, <2>9, <2>11, <3>1
    <2>12. QED
      BY <2>10, <2>11
  <1>4. QED
    BY <1>2, <1>3

(***************************************************************************)
(* A request that ends lets the state go, if it held it, and holds nobody  *)
(* else's.                                                                 *)
(***************************************************************************)
LEMMA EndKeepsHeld ==
  ASSUME Inv, NEW r \in Request, NEW a \in Status \cup {201, 400},
         req[r].stage # "done", Mine(r), put' = NoPut, req' = Answered(r, a)
  PROVE  HeldByTheSender' /\ HeldState' /\ RequestsFresh'
PROOF
  <1>1. /\ \A q \in Request : q # r => req'[q] = req[q]
        /\ req'[r].stage = "done"
    BY AnsweredIsDone DEF Inv
  <1>2. HeldByTheSender'
    BY <1>1, NoPutIsState, RequestAssumption DEF Inv, HeldByTheSender, Mine
  <1>3. HeldState'
    BY DEF HeldState
  <1>4. RequestsFresh'
    BY <1>1 DEF Inv, RequestsFresh
  <1>5. QED
    BY <1>2, <1>3, <1>4

(***************************************************************************)
(* A request that ends leaves no directory of anybody's who is not done,   *)
(* whatever it made on its way.                                            *)
(***************************************************************************)
LEMMA EndKeepsMade ==
  ASSUME Inv, NEW r \in Request, NEW a \in Status \cup {201, 400}, Mine(r), req' = Answered(r, a),
         \A d \in dirs' : (d \in dirs /\ maker'[d] = maker[d]) \/ maker'[d] = r
  PROVE  MadeIsRemembered'
PROOF
  <1>1. /\ \A q \in Request : q # r => req'[q] = req[q]
        /\ req'[r].stage = "done"
    BY AnsweredIsDone DEF Inv
  <1>2. SUFFICES ASSUME NEW q \in Request, NEW d \in dirs', maker'[d] = q, req'[q].stage # "done"
                 PROVE  FALSE
    BY DEF MadeIsRemembered
  <1>3. q # r /\ d \in dirs /\ maker[d] = q /\ req[q].stage # "done"
    BY <1>1, <1>2
  <1>4. put.id = q
    BY <1>3 DEF Inv, MadeIsRemembered
  <1>5. QED
    BY <1>3, <1>4, RequestAssumption DEF Mine

-----------------------------------------------------------------------------
(* The invariant.                                                          *)

(***************************************************************************)
(* A chunk, of the request that holds the state or of the first to come,   *)
(* keeps the invariant.                                                    *)
(***************************************************************************)
LEMMA ChunkKeepsInv ==
  ASSUME Inv, NEW r \in Request, NEW c \in Chunk, ChunkCall(r, c)
  PROVE  Inv'
PROOF
  <1>1. /\ req[r].stage # "done" /\ Len(req[r].sent) < MaxChunks /\ Mine(r)
        /\ req' = [req EXCEPT ![r].stage = "sending", ![r].sent = Append(@, c)]
        /\ told' = told
    BY DEF ChunkCall
  <1>2. PICK s \in Ready(r), failed \in BOOLEAN :
          /\ dirs' = s.dirs
          /\ put' = Written(s.put, c, failed)
          /\ file' = ShownInPlace(put')
          /\ maker' = Made(s.dirs, r)
    BY DEF ChunkCall, MayFail
  <1>3. /\ Serves(s.put, r)
        /\ s.dirs \subseteq Dir /\ dirs \subseteq s.dirs
        /\ s.dirs \ dirs \subseteq {s.put.made} \ {NoDir}
        /\ put.id = r => s.put = put /\ s.dirs = dirs
    BY <1>1, ReadyServes
  <1>4. /\ req' \in [Request -> RequestValue]
        /\ \A q \in Request : q # r => req'[q] = req[q]
        /\ req'[r].stage = "sending" /\ req'[r].sent = Append(req[r].sent, c)
        /\ req'[r].path = req[r].path /\ req'[r].claim = req[r].claim
        /\ req'[r].answer = req[r].answer
    BY <1>1, ReceivedIsLonger DEF Inv
  <1>5. /\ Serves(put, r)'
        /\ put'.made = s.put.made
    <2>1. PICK x : x = s.put
      OBVIOUS
    <2>2. TypeOK /\ Serves(x, r) /\ put' = Written(x, c, failed)
      BY <1>2, <1>3, <2>1 DEF Inv
    <2>3. Serves(Written(x, c, failed), r)' /\ Written(x, c, failed).made = x.made
      BY <1>1, <1>4, <2>2, WrittenServes
    <2>4. QED
      BY <2>1, <2>2, <2>3 DEF Serves
  <1>6. put' \in PutValue /\ put'.id = r
    BY <1>5 DEF Serves
  <1>7. TypeOK'
    <2>1. file' \in Files
      <3>1. file \in Files
        BY DEF Inv, TypeOK, Files
      <3>2. \A w \in put'.ctx : {v.temp : v \in put'.ctx} \in {{b} : b \in Body}
        <4>1. SUFFICES ASSUME NEW w \in put'.ctx
                       PROVE  {v.temp : v \in put'.ctx} \in {{b} : b \in Body}
          OBVIOUS
        <4>2. put'.ctx = {w}
          BY <1>5 DEF Serves
        <4>3. PICK u \in WriteValue : put'.ctx = {u}
          <5>1. put'.ctx \in {{}} \cup {{u} : u \in WriteValue}
            BY <1>6 DEF PutValue
          <5>2. QED
            BY <4>2, <5>1
        <4>4. w.temp \in Body
          BY <4>2, <4>3 DEF WriteValue
        <4>5. QED
          BY <4>2, <4>4
      <3>3. QED
        BY <1>2, <3>1, <3>2 DEF ShownInPlace, Files
    <2>2. maker' \in [Dir -> Request \cup {NoRequest}]
      BY <1>2 DEF Made, Inv, TypeOK
    <2>3. put'.id = NoRequest => put' = NoPut
      BY <1>6, RequestAssumption
    <2>4. QED
      BY <1>1, <1>2, <1>3, <1>4, <1>6, <2>1, <2>2, <2>3 DEF Inv, TypeOK, Files
  <1>8. HeldByTheSender'
    <2>1. \A q \in Request : q # r => req[q].stage # "sending"
      BY <1>1, RequestAssumption DEF Inv, HeldByTheSender, Mine
    <2>2. QED
      BY <1>4, <1>6, <2>1 DEF HeldByTheSender
  <1>9. HeldState'
    BY <1>5 DEF HeldState
  <1>10. RequestsFresh'
    BY <1>1, <1>4 DEF Inv, RequestsFresh
  <1>11. MadeIsRemembered'
    <2>1. SUFFICES ASSUME NEW q \in Request, NEW d \in dirs', maker'[d] = q, req'[q].stage # "done"
                   PROVE  put'.id = q /\ put'.made = d
      BY DEF MadeIsRemembered
    <2>2. d \in Dir /\ d \in s.dirs
      BY <1>2, <1>3, <2>1
    <2>3. CASE d \in dirs
      <3>1. maker[d] = q /\ req[q].stage # "done"
        BY <1>1, <1>2, <1>4, <2>1, <2>2, <2>3 DEF Made
      <3>2. put.id = q /\ put.made = d
        BY <2>3, <3>1 DEF Inv, MadeIsRemembered
      <3>3. q = r
        BY <1>1, <3>2, RequestAssumption DEF Mine
      <3>4. QED
        BY <1>3, <1>5, <1>6, <3>2, <3>3
    <2>4. CASE d \notin dirs
      <3>1. q = r
        BY <1>2, <2>1, <2>2, <2>4 DEF Made
      <3>2. d = s.put.made
        BY <1>3, <2>2, <2>4
      <3>3. QED
        BY <1>5, <1>6, <3>1, <3>2
    <2>5. QED
      BY <2>3, <2>4
  <1>12. QED
    BY <1>7, <1>8, <1>9, <1>10, <1>11 DEF Inv

(***************************************************************************)
(* A refused request leaves the upload of the other as it is.              *)
(***************************************************************************)
LEMMA BusyKeepsInv ==
  ASSUME Inv, NEW r \in Request, BusyCall(r)
  PROVE  Inv'
PROOF
  <1>1. /\ ~Mine(r) /\ req' = Answered(r, 503)
        /\ UNCHANGED <<file, dirs, put, told, maker>>
    BY DEF BusyCall
  <1>2. /\ req' \in [Request -> RequestValue]
        /\ \A q \in Request : q # r => req'[q] = req[q]
        /\ req'[r].stage = "done"
    BY <1>1, AnsweredIsDone DEF Inv, Status
  <1>3. TypeOK'
    BY <1>1, <1>2 DEF Inv, TypeOK
  <1>4. HeldByTheSender'
    BY <1>1, <1>2 DEF Inv, HeldByTheSender, Mine
  <1>5. HeldState'
    <2>1. CASE put = NoPut
      BY <1>1, <2>1 DEF HeldState
    <2>2. ASSUME NEW q \in Request, Serves(put, q)
          PROVE  HeldState'
      <3>1. q # r
        BY <1>1, <2>2 DEF Serves, Mine
      <3>2. Serves(put, q)'
        BY <1>1, <1>2, <2>2, <3>1 DEF Serves
      <3>3. QED
        BY <3>2 DEF HeldState
    <2>3. QED
      BY <2>1, <2>2 DEF Inv, HeldState
  <1>6. RequestsFresh'
    BY <1>2 DEF Inv, RequestsFresh
  <1>7. MadeIsRemembered'
    <2>1. \A q \in Request : req'[q].stage # "done" => req[q].stage # "done"
      BY <1>2
    <2>2. QED
      BY <1>1, <2>1 DEF Inv, MadeIsRemembered
  <1>8. QED
    BY <1>3, <1>4, <1>5, <1>6, <1>7 DEF Inv

(***************************************************************************)
(* What a final call does that comes to outcome o from the state s.        *)
(***************************************************************************)
Ends(r, s, o) ==
  /\ file' = o.file
  /\ dirs' = IF o.status = 201 THEN s.dirs ELSE TakenBack(s.dirs, s.put.made, o.file)
  /\ put' = NoPut
  /\ req' = Answered(r, o.status)
  /\ told' = IF o.partial THEN told \cup {r} ELSE told
  /\ maker' = Made(s.dirs, r)

(***************************************************************************)
(* The final call keeps the invariant, whatever it comes to.               *)
(***************************************************************************)
LEMMA FinalKeepsInv ==
  ASSUME Inv, NEW r \in Request, FinalCall(r)
  PROVE  Inv'
PROOF
  <1>1. req[r].stage # "done" /\ Mine(r)
    BY DEF FinalCall
  <1>0. PICK s \in Ready(r) : \E o \in Outcomes(s.put) : Ends(r, s, o)
    BY DEF FinalCall, Ends, Cleared
  <1>2. PICK o \in Outcomes(s.put) : Ends(r, s, o)
    BY <1>0
  <1>3. /\ Serves(s.put, r)
        /\ s.dirs \subseteq Dir /\ dirs \subseteq s.dirs
    BY <1>1, ReadyServes
  <1>4. o.file \in Files /\ o.status \in Status \cup {201, 400}
    <2>1. PICK x : x = s.put
      OBVIOUS
    <2>2. OutcomeOK(x, o)
      BY <1>2, <1>3, <2>1, OutcomesAreOK DEF Inv
    <2>3. QED
      BY <2>2 DEF OutcomeOK
  <1>5. HeldByTheSender' /\ HeldState' /\ RequestsFresh'
    BY <1>1, <1>2, <1>4, EndKeepsHeld DEF Ends
  <1>6. dirs' \subseteq s.dirs
    BY <1>2 DEF Ends, TakenBack
  <1>7. MadeIsRemembered'
    <2>1. \A d \in dirs' : (d \in dirs /\ maker'[d] = maker[d]) \/ maker'[d] = r
      BY <1>2, <1>3, <1>6 DEF Ends, Made
    <2>2. QED
      BY <1>1, <1>2, <1>4, <2>1, EndKeepsMade DEF Ends
  <1>8. TypeOK'
    <2>1. req' \in [Request -> RequestValue]
      BY <1>2, <1>4, AnsweredIsDone DEF Inv, Ends
    <2>2. maker' \in [Dir -> Request \cup {NoRequest}]
      BY <1>2 DEF Ends, Made, Inv, TypeOK
    <2>3. told' \subseteq Request
      BY <1>2 DEF Ends, Inv, TypeOK
    <2>4. QED
      BY <1>2, <1>3, <1>4, <1>6, <2>1, <2>2, <2>3, NoPutIsState DEF Ends, TypeOK, Files
  <1>9. QED
    BY <1>5, <1>7, <1>8 DEF Inv

(***************************************************************************)
(* A lost connection keeps the invariant, the holder's and any other's.    *)
(***************************************************************************)
LEMMA AbortKeepsInv ==
  ASSUME Inv, NEW r \in Request, AbortCall(r)
  PROVE  Inv'
PROOF
  <1>1. /\ req[r].stage # "done" /\ req' = Answered(r, 0)
        /\ UNCHANGED <<told, maker>>
    BY DEF AbortCall
  <1>2. /\ req' \in [Request -> RequestValue]
        /\ \A q \in Request : q # r => req'[q] = req[q]
        /\ req'[r].stage = "done"
    BY <1>1, AnsweredIsDone DEF Inv, Status
  <1>3. CASE put.id = r
    <2>1. PICK failed \in BOOLEAN :
            file' \in IF put.ctx = {} THEN {file} ELSE {Discarded(w, failed) : w \in put.ctx}
      BY <1>3 DEF AbortCall, MayFail
    <2>2. put' = NoPut /\ dirs' \subseteq dirs
      BY <1>3 DEF AbortCall, Cleared, TakenBack
    <2>3. file' \in Files
      <3>1. CASE put.ctx = {}
        BY <2>1, <3>1 DEF Inv, TypeOK, Files
      <3>2. CASE put.ctx # {}
        <4>1. PICK w \in WriteValue : put.ctx = {w}
          <5>1. put.ctx \in {{}} \cup {{w} : w \in WriteValue}
            BY DEF Inv, TypeOK, PutValue
          <5>2. QED
            BY <3>2, <5>1
        <4>2. file' = Discarded(w, failed)
          BY <2>1, <3>2, <4>1
        <4>3. QED
          BY <4>2, DiscardedFiles DEF Inv
      <3>3. QED
        BY <3>1, <3>2
    <2>4. Mine(r) /\ 0 \in Status \cup {201, 400}
      BY <1>3 DEF Mine, Status
    <2>5. HeldByTheSender' /\ HeldState' /\ RequestsFresh'
      BY <1>1, <2>2, <2>4, EndKeepsHeld
    <2>6. MadeIsRemembered'
      BY <1>1, <2>2, <2>4, EndKeepsMade
    <2>7. TypeOK'
      BY <1>1, <1>2, <2>2, <2>3, NoPutIsState DEF Inv, TypeOK, Files
    <2>8. QED
      BY <2>5, <2>6, <2>7 DEF Inv
  <1>4. CASE put.id # r
    <2>1. UNCHANGED <<file, dirs, put>>
      BY <1>4 DEF AbortCall
    <2>2. TypeOK'
      BY <1>1, <1>2, <2>1 DEF Inv, TypeOK
    <2>3. HeldByTheSender'
      BY <1>2, <1>4, <2>1 DEF Inv, HeldByTheSender
    <2>4. HeldState'
      <3>1. CASE put = NoPut
        BY <2>1, <3>1 DEF HeldState
      <3>2. ASSUME NEW q \in Request, Serves(put, q)
            PROVE  HeldState'
        <4>1. q # r
          BY <1>4, <3>2 DEF Serves
        <4>2. Serves(put, q)'
          BY <1>2, <2>1, <3>2, <4>1 DEF Serves
        <4>3. QED
          BY <4>2 DEF HeldState
      <3>3. QED
        BY <3>1, <3>2 DEF Inv, HeldState
    <2>5. RequestsFresh'
      BY <1>2 DEF Inv, RequestsFresh
    <2>6. MadeIsRemembered'
      <3>1. \A q \in Request : req'[q].stage # "done" => req[q].stage # "done"
        BY <1>2
      <3>2. QED
        BY <1>1, <2>1, <3>1 DEF Inv, MadeIsRemembered
    <2>7. QED
      BY <2>2, <2>3, <2>4, <2>5, <2>6 DEF Inv
  <1>5. QED
    BY <1>3, <1>4

(***************************************************************************)
(* What others do to the volume touches no upload, and a directory they    *)
(* make is nobody's upload's.                                              *)
(***************************************************************************)
LEMMA OthersKeepInv ==
  ASSUME Inv,
         \/ \E p \in Path : OthersChange(p)
         \/ \E d \in Dir : OthersMakeDir(d) \/ OthersRemoveDir(d)
  PROVE  Inv'
PROOF
  <1>1. UNCHANGED <<put, req, told>>
    BY DEF OthersChange, OthersMakeDir, OthersRemoveDir
  <1>2. HeldByTheSender' /\ RequestsFresh'
    BY <1>1 DEF Inv, HeldByTheSender, RequestsFresh
  <1>3. HeldState'
    BY <1>1 DEF Inv, HeldState, Serves
  <1>4. /\ file' \in Files /\ dirs' \subseteq Dir
        /\ maker' \in [Dir -> Request \cup {NoRequest}]
    BY ChoiceAssumption DEF Inv, TypeOK, Files, OthersChange, OthersMakeDir, OthersRemoveDir
  <1>5. TypeOK'
    BY <1>1, <1>4 DEF Inv, TypeOK, Files
  <1>6. \A d \in dirs' : (d \in dirs /\ maker'[d] = maker[d]) \/ maker'[d] = NoRequest
    BY DEF Inv, TypeOK, OthersChange, OthersMakeDir, OthersRemoveDir
  <1>7. MadeIsRemembered'
    BY <1>1, <1>6, RequestAssumption DEF Inv, MadeIsRemembered
  <1>8. QED
    BY <1>2, <1>3, <1>5, <1>7 DEF Inv

(***************************************************************************)
(* The inductive invariant: types, the state is the sender's, it serves    *)
(* that sender, and the directories made for uploads are remembered.       *)
(***************************************************************************)
THEOREM InvHolds == Spec => []Inv
PROOF
  <1>1. Init => Inv
    <2> SUFFICES ASSUME Init
                 PROVE  Inv
      OBVIOUS
    <2>1. /\ file = [p \in Path |-> {}] /\ dirs = {} /\ put = NoPut /\ told = {}
          /\ maker = [d \in Dir |-> NoRequest]
          /\ req \in [Request -> {NewRequest(p, claim) : p \in Path, claim \in Claims}]
      BY DEF Init
    <2>2. \A q \in Request : /\ req[q] \in RequestValue /\ req[q].stage = "new"
                             /\ req[q].sent = <<>> /\ req[q].answer = 0
      <3>1. SUFFICES ASSUME NEW q \in Request
                     PROVE  /\ req[q] \in RequestValue /\ req[q].stage = "new"
                            /\ req[q].sent = <<>> /\ req[q].answer = 0
        OBVIOUS
      <3>2. PICK p \in Path, claim \in Claims : req[q] = NewRequest(p, claim)
        BY <2>1
      <3>3. QED
        BY <3>2, EmptyBody DEF NewRequest, RequestValue, Status
    <2>3. TypeOK
      BY <2>1, <2>2, NoPutIsState DEF TypeOK
    <2>4. HeldByTheSender
      BY <2>1, <2>2, NoPutIsState, RequestAssumption DEF HeldByTheSender
    <2>5. HeldState /\ RequestsFresh /\ MadeIsRemembered
      BY <2>1, <2>2 DEF HeldState, RequestsFresh, MadeIsRemembered
    <2>6. QED
      BY <2>3, <2>4, <2>5 DEF Inv
  <1>2. Inv /\ [Next]_vars => Inv'
    <2> SUFFICES ASSUME Inv, [Next]_vars
                 PROVE  Inv'
      OBVIOUS
    <2>1. CASE UNCHANGED vars
      BY <2>1 DEF vars, Inv, TypeOK, HeldByTheSender, HeldState, Serves, RequestsFresh, MadeIsRemembered
    <2>2. CASE Next
      BY <2>2, ChunkKeepsInv, BusyKeepsInv, FinalKeepsInv, AbortKeepsInv, OthersKeepInv DEF Next
    <2>3. QED
      BY <2>1, <2>2
  <1>3. QED
    BY <1>1, <1>2, PTL DEF Spec

-----------------------------------------------------------------------------
(* The properties.                                                         *)

(***************************************************************************)
(* The statics, the resources and the requests keep their types, and no    *)
(* call leaves part of an upload in a state that is let go.                *)
(***************************************************************************)
THEOREM TypeCorrect == Spec => []TypeOK
PROOF
  <1>1. Inv => TypeOK
    BY DEF Inv
  <1>2. QED
    BY <1>1, InvHolds, PTL

(***************************************************************************)
(* The upload state is held by exactly the request whose body is coming in,*)
(* so it is never left held by one that is over.                           *)
(***************************************************************************)
THEOREM HeldByTheSenderHolds == Spec => []HeldByTheSender
PROOF
  <1>1. Inv => HeldByTheSender
    BY DEF Inv
  <1>2. QED
    BY <1>1, InvHolds, PTL

(***************************************************************************)
(* However the calls of uploads interleave, what is written is what its    *)
(* request has sent, until a failure is on record.                         *)
(***************************************************************************)
THEOREM TempIsSentHolds == Spec => []TempIsSent
PROOF
  <1>1. Inv => TempIsSent
    <2> SUFFICES ASSUME Inv
                 PROVE  TempIsSent
      OBVIOUS
    <2>1. CASE put = NoPut
      BY <2>1 DEF TempIsSent, NoPut, State
    <2>2. ASSUME NEW r \in Request, Serves(put, r)
          PROVE  TempIsSent
      BY <2>2 DEF Serves, TempIsSent
    <2>3. QED
      BY <2>1, <2>2 DEF Inv, HeldState
  <1>2. QED
    BY <1>1, InvHolds, PTL

(***************************************************************************)
(* A directory in the way of a request that ends is one the statics        *)
(* remember when the request holds them, and there is none when it does    *)
(* not.                                                                    *)
(***************************************************************************)
LEMMA LeftOnlyIfFilled ==
  ASSUME Inv, [Next]_vars, NEW r \in Request, req[r].stage # "done", req'[r].stage = "done",
         req'[r].answer # 201, NEW d \in dirs', maker'[d] = r
  PROVE  ~Empty(d, file', {})
PROOF
  <1>0. \A q \in Request, a \in Status \cup {201, 400} :
          req' = Answered(q, a) => q = r /\ req'[r].answer = a
    BY AnsweredIsDone DEF Inv
  <1>1. ASSUME NEW q \in Request, NEW c \in Chunk, ChunkCall(q, c)
        PROVE  FALSE
    <2>1. /\ req'[q].stage = "sending"
          /\ \A p \in Request : p # q => req'[p] = req[p]
      BY <1>1, ReceivedIsLonger DEF Inv, ChunkCall
    <2>2. QED
      BY <2>1
  <1>2. ASSUME NEW q \in Request, BusyCall(q)
        PROVE  FALSE
    <2>1. q = r /\ ~Mine(r) /\ d \in dirs /\ maker[d] = r
      BY <1>0, <1>2 DEF BusyCall, Status
    <2>2. QED
      BY <2>1 DEF Inv, MadeIsRemembered, Mine
  <1>3. ASSUME NEW q \in Request, FinalCall(q)
        PROVE  ~Empty(d, file', {})
    <2>1. PICK s \in Ready(q) : \E o \in Outcomes(s.put) : Ends(q, s, o)
      BY <1>3 DEF FinalCall, Ends, Cleared
    <2>2. PICK o \in Outcomes(s.put) : Ends(q, s, o)
      BY <2>1
    <2>3. /\ Mine(q) /\ req[q].stage # "done"
          /\ Serves(s.put, q)
          /\ s.dirs \subseteq Dir /\ dirs \subseteq s.dirs
          /\ s.dirs \ dirs \subseteq {s.put.made} \ {NoDir}
          /\ put.id = q => s.put = put /\ s.dirs = dirs
      BY <1>3, ReadyServes DEF FinalCall
    <2>4. o.status \in Status \cup {201, 400}
      <3>1. PICK x : x = s.put
        OBVIOUS
      <3>2. OutcomeOK(x, o)
        BY <2>2, <2>3, <3>1, OutcomesAreOK DEF Inv
      <3>3. QED
        BY <3>2 DEF OutcomeOK
    <2>5. q = r /\ o.status # 201
      BY <1>0, <2>2, <2>4 DEF Ends
    <2>6. dirs' = TakenBack(s.dirs, s.put.made, file') /\ maker' = Made(s.dirs, q)
      BY <2>2, <2>5 DEF Ends
    <2>7. d \in s.dirs /\ d \in Dir
      BY <2>3, <2>6 DEF TakenBack
    <2>8. s.put.made = d
      <3>1. CASE d \in dirs
        <4>1. maker[d] = r
          BY <2>6, <2>7, <3>1 DEF Made
        <4>2. put.id = r /\ put.made = d
          BY <3>1, <4>1 DEF Inv, MadeIsRemembered
        <4>3. QED
          BY <2>3, <2>5, <4>2
      <3>2. CASE d \notin dirs
        BY <2>3, <2>7, <3>2
      <3>3. QED
        BY <3>1, <3>2
    <2>9. QED
      BY <2>6, <2>7, <2>8, DirAssumption DEF TakenBack
  <1>4. ASSUME NEW q \in Request, AbortCall(q)
        PROVE  ~Empty(d, file', {})
    <2>1. q = r
      BY <1>0, <1>4 DEF AbortCall, Status
    <2>2. d \in dirs /\ maker[d] = r
      BY <1>4 DEF AbortCall, TakenBack
    <2>3. put.id = r /\ put.made = d /\ d \in Dir
      BY <2>2 DEF Inv, TypeOK, MadeIsRemembered
    <2>4. dirs' = TakenBack(dirs, put.made, file')
      BY <1>4, <2>1, <2>3 DEF AbortCall
    <2>5. QED
      BY <2>3, <2>4, DirAssumption DEF TakenBack
  <1>5. CASE \/ \E p \in Path : OthersChange(p)
             \/ \E e \in Dir : OthersMakeDir(e) \/ OthersRemoveDir(e)
             \/ UNCHANGED vars
    BY <1>5 DEF OthersChange, OthersMakeDir, OthersRemoveDir, vars
  <1>6. QED
    BY <1>1, <1>2, <1>3, <1>4, <1>5 DEF Next

(***************************************************************************)
(* A PUT that was not stored leaves no empty directory of its making,      *)
(* however it ends and whatever others did to the volume meanwhile.        *)
(***************************************************************************)
THEOREM FailedLeavesNoDirectoryHolds == Spec => FailedLeavesNoDirectory
PROOF
  <1>1. Inv /\ [Next]_vars =>
          [\A r \in Request :
             req[r].stage # "done" /\ req'[r].stage = "done" /\ req'[r].answer # 201 =>
               \A d \in dirs' : maker'[d] = r => ~Empty(d, file', {})]_vars
    BY LeftOnlyIfFilled
  <1>2. QED
    BY <1>1, InvHolds, PTL DEF Spec, FailedLeavesNoDirectory

(***************************************************************************)
(* A refusal of the holder of the state mentions a resource that is no     *)
(* longer what it was at the open.                                         *)
(***************************************************************************)
LEMMA ToldIfChanged ==
  ASSUME Inv, [Next]_vars, NEW r \in Request, put.id = r, req'[r].answer \notin {0, 201},
         NEW w \in put.ctx, w.inPlace, file'[w.path] # w.before
  PROVE  r \in told'
PROOF
  <1>1. req[r].stage # "done" /\ req[r].answer = 0 /\ r # NoRequest
    BY RequestAssumption DEF Inv, HeldByTheSender, RequestsFresh
  <1>2. \A q \in Request, a \in Status \cup {201, 400} :
          req' = Answered(q, a) => q = r /\ req'[r].answer = a
    BY <1>1, AnsweredIsDone DEF Inv
  <1>3. ASSUME NEW q \in Request, NEW c \in Chunk, ChunkCall(q, c)
        PROVE  FALSE
    <2>1. \A p \in Request : req'[p].answer = req[p].answer
      BY <1>3, ReceivedIsLonger DEF Inv, ChunkCall
    <2>2. QED
      BY <1>1, <2>1
  <1>4. ASSUME NEW q \in Request, BusyCall(q)
        PROVE  FALSE
    BY <1>2, <1>4 DEF BusyCall, Mine, Status
  <1>5. ASSUME NEW q \in Request, FinalCall(q)
        PROVE  r \in told'
    <2>1. PICK s \in Ready(q) : \E o \in Outcomes(s.put) : Ends(q, s, o)
      BY <1>5 DEF FinalCall, Ends, Cleared
    <2>2. PICK o \in Outcomes(s.put) : Ends(q, s, o)
      BY <2>1
    <2>3. q = r /\ Mine(q) /\ req[q].stage # "done"
      BY <1>1, <1>5 DEF FinalCall, Mine
    <2>4. Serves(s.put, q) /\ s.put = put
      BY <2>3, ReadyServes
    <2>5. OutcomeOK(s.put, o)
      <3>1. PICK x : x = s.put
        OBVIOUS
      <3>2. OutcomeOK(x, o)
        BY <2>2, <2>4, <3>1, OutcomesAreOK DEF Inv
      <3>3. QED
        BY <3>1, <3>2
    <2>6. o.status # 201
      <3>1. o.status \in Status \cup {201, 400}
        BY <2>5 DEF OutcomeOK
      <3>2. QED
        BY <1>2, <2>2, <3>1 DEF Ends
    <2>7. o.partial
      BY <2>2, <2>4, <2>5, <2>6 DEF OutcomeOK, Ends
    <2>8. QED
      BY <2>2, <2>3, <2>7 DEF Ends
  <1>6. ASSUME NEW q \in Request, AbortCall(q)
        PROVE  FALSE
    BY <1>2, <1>6 DEF AbortCall, Status
  <1>7. CASE \/ \E p \in Path : OthersChange(p)
             \/ \E e \in Dir : OthersMakeDir(e) \/ OthersRemoveDir(e)
             \/ UNCHANGED vars
    BY <1>1, <1>7 DEF OthersChange, OthersMakeDir, OthersRemoveDir, vars
  <1>8. QED
    BY <1>3, <1>4, <1>5, <1>6, <1>7 DEF Next

(***************************************************************************)
(* A sender who is refused is told when the resource is not what it was at *)
(* the open, for any backend and any of its calls failing.                 *)
(***************************************************************************)
THEOREM PartialIsToldHolds == Spec => PartialIsTold
PROOF
  <1>1. Inv /\ [Next]_vars =>
          [\A r \in Request :
             put.id = r /\ req'[r].answer \notin {0, 201} =>
               \A w \in put.ctx : w.inPlace /\ file'[w.path] # w.before => r \in told']_vars
    BY ToldIfChanged
  <1>2. QED
    BY <1>1, InvHolds, PTL DEF Spec, PartialIsTold

-----------------------------------------------------------------------------
(* The PUT is atomic.                                                      *)

(***************************************************************************)
(* With a backend that never writes in place, every step is a step of      *)
(* AtomicPut, or changes nothing that specification speaks of.             *)
(***************************************************************************)
LEMMA StepIsAtomic ==
  ASSUME InPlace \subseteq {FALSE}, Inv, Inv', [Next]_vars
  PROVE  [Promise!Next]_(Promise!vars)
PROOF
  <1>1. ASSUME NEW r \in Request, NEW c \in Chunk, ChunkCall(r, c)
        PROVE  Promise!Receive(r, c)
    <2>1. file' = ShownInPlace(put')
      BY <1>1 DEF ChunkCall
    <2>2. \A w \in put'.ctx : ~w.inPlace
      <3>1. CASE put' = NoPut
        BY <3>1 DEF NoPut, State
      <3>2. ASSUME NEW q \in Request, Serves(put, q)'
            PROVE  \A w \in put'.ctx : ~w.inPlace
        <4>1. \A w \in put'.ctx : w.inPlace \in InPlace
          BY <3>2 DEF Serves
        <4>2. QED
          BY <4>1
      <3>3. QED
        BY <3>1, <3>2 DEF Inv, HeldState
    <2>3. file' = file
      BY <2>1, <2>2 DEF ShownInPlace, Inv, TypeOK
    <2>4. QED
      BY <1>1, <2>3 DEF ChunkCall, Promise!Receive
  <1>2. ASSUME NEW r \in Request, BusyCall(r)
        PROVE  Promise!Refuse(r)
    BY <1>2 DEF BusyCall, Answered, Promise!Refuse, Promise!Done, Promise!Refusal
  <1>3. ASSUME NEW r \in Request, FinalCall(r)
        PROVE  Promise!Store(r) \/ Promise!Refuse(r)
    <2>1. PICK s \in Ready(r) : \E o \in Outcomes(s.put) : Ends(r, s, o)
      BY <1>3 DEF FinalCall, Ends, Cleared
    <2>2. PICK o \in Outcomes(s.put) : Ends(r, s, o)
      BY <2>1
    <2>3. req[r].stage # "done" /\ Mine(r)
      BY <1>3 DEF FinalCall
    <2>4. PICK x : x = s.put
      OBVIOUS
    <2>5. Serves(x, r) /\ OutcomeOK(x, o)
      BY <2>2, <2>3, <2>4, ReadyServes, OutcomesAreOK DEF Inv
    <2>6. CASE o.status = 201
      <3>1. PICK w \in x.ctx : /\ o.file = [file EXCEPT ![w.path] = {w.temp}]
                               /\ x.expect # NoClaim => w.temp \in x.expect
        BY <2>5, <2>6 DEF OutcomeOK
      <3>2. w.path = req[r].path /\ w.temp = req[r].sent /\ x.expect = req[r].claim
        BY <2>5, <2>6, <3>1 DEF Serves, OutcomeOK
      <3>3. req[r].claim \in {{}, {req[r].sent}}
        <4>1. req[r].claim = NoClaim \/ \E b \in Body : req[r].claim = {b}
          BY ChoiceAssumption DEF Inv, TypeOK, RequestValue
        <4>2. QED
          BY <3>1, <3>2, <4>1 DEF NoClaim
      <3>4. file' = [file EXCEPT ![req[r].path] = {req[r].sent}] /\ req' = Answered(r, 201)
        BY <2>2, <2>6, <3>1, <3>2 DEF Ends
      <3>5. QED
        BY <2>3, <3>3, <3>4 DEF Answered, Promise!Store, Promise!Verified, Promise!Done
    <2>7. CASE o.status # 201
      <3>1. \A w \in x.ctx : ~w.inPlace
        BY <2>5 DEF Serves
      <3>2. file' = file /\ req' = Answered(r, o.status)
        BY <2>2, <2>5, <2>7, <3>1 DEF OutcomeOK, Ends
      <3>3. o.status \in Promise!Refusal
        BY <2>5, <2>7 DEF OutcomeOK, Status, Promise!Refusal
      <3>4. QED
        BY <2>3, <3>2, <3>3 DEF Answered, Promise!Refuse, Promise!Done
    <2>8. QED
      BY <2>6, <2>7
  <1>4. ASSUME NEW r \in Request, AbortCall(r)
        PROVE  Promise!Refuse(r)
    <2>1. file' = file
      <3>1. CASE put.id # r
        BY <1>4, <3>1 DEF AbortCall
      <3>2. CASE put.id = r
        <4>1. \A w \in put.ctx : ~w.inPlace
          <5>1. CASE put = NoPut
            BY <5>1 DEF NoPut, State
          <5>2. ASSUME NEW q \in Request, Serves(put, q)
                PROVE  \A w \in put.ctx : ~w.inPlace
            <6>1. \A w \in put.ctx : w.inPlace \in InPlace
              BY <5>2 DEF Serves
            <6>2. QED
              BY <6>1
          <5>3. QED
            BY <5>1, <5>2 DEF Inv, HeldState
        <4>2. \A w \in put.ctx, failed \in BOOLEAN : Discarded(w, failed) = file
          BY <4>1 DEF Discarded
        <4>3. QED
          BY <1>4, <3>2, <4>2 DEF AbortCall, MayFail
      <3>3. QED
        BY <3>1, <3>2
    <2>2. QED
      BY <1>4, <2>1 DEF AbortCall, Answered, Promise!Refuse, Promise!Done
  <1>5. ASSUME NEW p \in Path, OthersChange(p)
        PROVE  Promise!OthersChange(p)
    BY <1>5 DEF OthersChange, Promise!OthersChange
  <1>6. CASE UNCHANGED vars \/ \E d \in Dir : OthersMakeDir(d) \/ OthersRemoveDir(d)
    BY <1>6 DEF vars, OthersMakeDir, OthersRemoveDir, Promise!vars
  <1>7. QED
    BY <1>1, <1>2, <1>3, <1>4, <1>5, <1>6 DEF Next, Promise!Next

(***************************************************************************)
(* "The PUT is ATOMIC" (webfs-serve.c): the handler implements AtomicPut   *)
(* when the backend writes to a temp.                                      *)
(***************************************************************************)
THEOREM KeepsPromiseHolds ==
  ASSUME InPlace \subseteq {FALSE}
  PROVE  Spec => KeepsPromise
PROOF
  <1>1. Init => Promise!Init
    BY DEF Init, NewRequest, Promise!Init, Promise!NewRequest
  <1>2. Inv /\ Inv' /\ [Next]_vars => [Promise!Next]_(Promise!vars)
    BY StepIsAtomic
  <1>3. QED
    BY <1>1, <1>2, InvHolds, PTL DEF Spec, KeepsPromise, Promise!Spec

=============================================================================
