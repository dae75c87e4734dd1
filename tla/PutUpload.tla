----------------------------- MODULE PutUpload -----------------------------
(***************************************************************************)
(* The REST PUT of axl-webfs serve: handle_put_chunk and put_end of        *)
(* src/serve/webfs-serve.c over webfs_put_open / _write / _close of        *)
(* src/serve/webfs-dav.c.                                                  *)
(*                                                                         *)
(* The SDK calls the handler once per chunk and then once more, for the    *)
(* end of the body or for the connection's loss.  Calls of different       *)
(* connections interleave, but the handler keeps one upload's state (the   *)
(* m_put_* statics): the request that holds it is served, any other is     *)
(* told to come back.  Others use the same volume through /dav meanwhile.  *)
(*                                                                         *)
(* The backend streams a body to a temp sibling and replaces the resource  *)
(* at the commit, or, where it says so, writes in place.  A body is a      *)
(* sequence of chunks; a digest is the body it is the digest of.           *)
(***************************************************************************)
EXTENDS Naturals, Sequences, FiniteSets

CONSTANTS
  Request,    \* the PUT requests (the SDK's request ids)
  NoRequest,  \* m_put_id = 0
  Path,       \* the resources PUT
  Dir,        \* directories that may be missing
  NoDir,      \* m_put_parent = ""
  ParentDir,  \* the directory every resource lies in; NoDir: a volume root
  Chunk,      \* the pieces a body comes in
  MaxChunks,  \* bound on the pieces of a body
  Claims,     \* what Content-Digest may claim: {} nothing, else {a body}
  Foreign,    \* the bodies others put there
  InPlace,    \* what the backend may answer at the open: a set of BOOLEAN
  Fails       \* the backend calls that may fail

VARIABLES
  file,       \* the resources: {} (absent) or {its content}
  dirs,       \* the directories that exist
  put,        \* the m_put_* statics
  req,        \* the requests: what has arrived, and the answer
  told,       \* the requests told that their resource is partly written
  maker       \* history: which request made a directory, NoRequest for others

vars == <<file, dirs, put, req, told, maker>>

Body == UNION {[1..n -> Chunk] : n \in 0..MaxChunks}

\* No Content-Digest, or no checksum to compare with it.
NoClaim == {}

ASSUME RequestAssumption == NoRequest \notin Request

ASSUME DirAssumption == NoDir \notin Dir /\ ParentDir \in [Path -> Dir \cup {NoDir}]

ASSUME ChoiceAssumption ==
  /\ MaxChunks \in Nat
  /\ Foreign \subseteq Body
  /\ Claims \subseteq {NoClaim} \cup {{b} : b \in Body}
  /\ InPlace \subseteq BOOLEAN
  /\ Fails \subseteq {"mkdir", "open", "hash", "write", "commit", "discard"}

(***************************************************************************)
(* What the backend's calls may return.                                    *)
(***************************************************************************)
MayFail(call) == IF call \in Fails THEN BOOLEAN ELSE {FALSE}

ErrorCode == {"denied", "is_dir", "exists", "no_resources", "busy", "error"}

PutStatusFor(rc, fallback) ==
  CASE rc = "denied" -> 403
    [] rc \in {"is_dir", "exists"} -> 409
    [] rc = "no_resources" -> 507
    [] rc = "busy" -> 503
    [] OTHER -> fallback

-----------------------------------------------------------------------------
(* The upload state.                                                       *)

(***************************************************************************)
(* No PUT in flight; and the state as put_end leaves it.                   *)
(*   id       m_put_id         the request that holds the state            *)
(*   ctx      m_put_ctx        {} or the one write that is open: where it  *)
(*                             lands, what is written, whether it is in    *)
(*                             place, what the resource held at the open   *)
(*   status   m_put_status     the failure to answer, 0 for none yet       *)
(*   made     m_put_parent     the directory this PUT made                 *)
(*   expect   m_put_expect     {} or the one body whose digest is claimed; *)
(*                             {} while m_put_hash is NULL                 *)
(***************************************************************************)
State(id, ctx, status, made, expect) ==
  [id |-> id, ctx |-> ctx, status |-> status, made |-> made, expect |-> expect]

NoPut == State(NoRequest, {}, 0, NoDir, NoClaim)

Exists(d, ds) == d = NoDir \/ d \in ds

(***************************************************************************)
(* Nothing is in the directory: no resource and no temp of an open write.  *)
(***************************************************************************)
Empty(d, f, ctx) ==
  /\ \A p \in Path : ParentDir[p] = d => f[p] = {}
  /\ \A w \in ctx : ParentDir[w.path] # d

(***************************************************************************)
(* The first call of a request: a missing parent is made (one level), the  *)
(* write is opened and the claim is read.  A path that does not parse is   *)
(* refused before that; a claim that cannot be hashed, after it.           *)
(***************************************************************************)
Unparsed(r) == [dirs |-> dirs, put |-> State(r, {}, 404, NoDir, NoClaim)]

NewWrite(p, inPlace) == [path |-> p, temp |-> <<>>, inPlace |-> inPlace, before |-> file[p]]

OpenFails(r, made) ==
  {State(r, {}, PutStatusFor(rc, 409), made, NoClaim) : rc \in ErrorCode}

Opens(r, made) ==
  {State(r, {NewWrite(req[r].path, ip)}, 0, made, req[r].claim) : ip \in InPlace}

OpensUnhashed(r, made) ==
  IF req[r].claim = NoClaim \/ "hash" \notin Fails THEN {}
  ELSE {State(r, {NewWrite(req[r].path, ip)}, 500, made, NoClaim) : ip \in InPlace}

OpenedOn(r, made) ==
  LET ds == dirs \cup ({made} \ {NoDir})
      states == IF ~Exists(ParentDir[req[r].path], ds) THEN OpenFails(r, made)
                ELSE Opens(r, made) \cup OpensUnhashed(r, made)
                       \cup IF "open" \in Fails THEN OpenFails(r, made) ELSE {}
  IN {[dirs |-> ds, put |-> s] : s \in states}

Opened(r) ==
  LET d == ParentDir[req[r].path]
      mades == IF Exists(d, dirs) THEN {NoDir}
               ELSE {d} \cup IF "mkdir" \in Fails THEN {NoDir} ELSE {}
  IN {Unparsed(r)} \cup UNION {OpenedOn(r, made) : made \in mades}

(***************************************************************************)
(* The state a call of r works on, once it is found to be r's to use.      *)
(***************************************************************************)
Ready(r) == IF put.id = r THEN {[dirs |-> dirs, put |-> put]} ELSE Opened(r)

Mine(r) == put.id \in {NoRequest, r}

\* Seeded fault: a directory that was made stays.
NotTakenBack(ds, made, f) == ds

(***************************************************************************)
(* put_end takes the directory back unless the body was stored, while it   *)
(* is empty; the write is closed by then.                                  *)
(***************************************************************************)
TakenBack(ds, made, f) == IF made # NoDir /\ Empty(made, f, {}) THEN ds \ {made} ELSE ds

\* Seeded faults: put_end forgets to let go, or forgets the directory.
ClearedNotId(s) == [NoPut EXCEPT !.id = s.id]

ClearedNotDir(s) == [NoPut EXCEPT !.made = s.made]

(***************************************************************************)
(* put_end clears the whole state.                                         *)
(***************************************************************************)
Cleared(s) == NoPut

Answered(r, answer) == [req EXCEPT ![r].stage = "done", ![r].answer = answer]

Made(ds, by) == [d \in Dir |-> IF d \in ds \ dirs THEN by ELSE maker[d]]

-----------------------------------------------------------------------------
(* The handler's calls.                                                    *)

\* Seeded fault: a failed write is not remembered.
WrittenOn(s, c, failed) ==
  IF s.ctx = {} \/ s.status # 0 \/ failed THEN s
  ELSE [s EXCEPT !.ctx = {[w EXCEPT !.temp = Append(@, c)] : w \in s.ctx}]

(***************************************************************************)
(* webfs_put_write: nothing is written once anything has failed.           *)
(***************************************************************************)
Written(s, c, failed) ==
  IF s.ctx = {} \/ s.status # 0 THEN s
  ELSE IF failed THEN [s EXCEPT !.status = 500]
  ELSE [s EXCEPT !.ctx = {[w EXCEPT !.temp = Append(@, c)] : w \in s.ctx}]

(***************************************************************************)
(* A write in place shows in the resource at once.                         *)
(***************************************************************************)
ShownInPlace(s) ==
  [p \in Path |-> IF \E w \in s.ctx : w.inPlace /\ w.path = p
                  THEN {w.temp : w \in s.ctx} ELSE file[p]]

\* Seeded fault: the state is not asked whose it is.
ChunkCallUnheld(r, c) ==
  /\ req[r].stage # "done" /\ Len(req[r].sent) < MaxChunks
  /\ \E s \in IF put.id = NoRequest THEN Opened(r) ELSE {[dirs |-> dirs, put |-> put]},
        failed \in MayFail("write") :
       /\ dirs' = s.dirs
       /\ put' = Written(s.put, c, failed)
       /\ file' = ShownInPlace(put')
       /\ maker' = Made(s.dirs, r)
  /\ req' = [req EXCEPT ![r].stage = "sending", ![r].sent = Append(@, c)]
  /\ UNCHANGED told

(***************************************************************************)
(* A chunk of the request that holds the state, or of the first to come.   *)
(***************************************************************************)
ChunkCall(r, c) ==
  /\ req[r].stage # "done" /\ Len(req[r].sent) < MaxChunks
  /\ Mine(r)
  /\ \E s \in Ready(r), failed \in MayFail("write") :
       /\ dirs' = s.dirs
       /\ put' = Written(s.put, c, failed)
       /\ file' = ShownInPlace(put')
       /\ maker' = Made(s.dirs, r)
  /\ req' = [req EXCEPT ![r].stage = "sending", ![r].sent = Append(@, c)]
  /\ UNCHANGED told

(***************************************************************************)
(* Any other request is refused, and its upload is over.                   *)
(***************************************************************************)
BusyCall(r) ==
  /\ req[r].stage # "done"
  /\ ~Mine(r)
  /\ req' = Answered(r, 503)
  /\ UNCHANGED <<file, dirs, put, told, maker>>

\* Seeded fault: the hash is not compared.
CheckedNever(s) == s.status

(***************************************************************************)
(* The digest is checked before the commit.                                *)
(***************************************************************************)
Checked(s) ==
  IF s.status = 0 /\ s.expect # NoClaim /\ \E w \in s.ctx : w.temp \notin s.expect
  THEN 400 ELSE s.status

(***************************************************************************)
(* webfs_put_close with discard: what a write in place changed is restored,*)
(* unless that fails; a temp is deleted.                                   *)
(***************************************************************************)
Discarded(w, failed) ==
  IF w.inPlace /\ ~failed THEN [file EXCEPT ![w.path] = w.before] ELSE file

(***************************************************************************)
(* The outcomes of the final call with a write open: the commit replaces   *)
(* the resource, or fails and leaves it -- partly written, if in place.  An*)
(* outcome is the resources, the status, and whether the answer says that  *)
(* the resource is partly written.                                         *)
(***************************************************************************)
\* Seeded fault: a failed discard in place goes unmentioned.
OutcomeSilent(status, w) ==
  IF status = 0
  THEN {[file |-> [file EXCEPT ![w.path] = {w.temp}], status |-> 201, partial |-> FALSE]} \cup
       IF "commit" \notin Fails THEN {}
       ELSE {[file |-> file, partial |-> w.inPlace,
              status |-> IF w.inPlace THEN 500 ELSE PutStatusFor(rc, 500)] : rc \in ErrorCode}
  ELSE {[file |-> Discarded(w, failed), status |-> status,
         partial |-> FALSE] : failed \in MayFail("discard")}

Outcome(status, w) ==
  IF status = 0
  THEN {[file |-> [file EXCEPT ![w.path] = {w.temp}], status |-> 201, partial |-> FALSE]} \cup
       IF "commit" \notin Fails THEN {}
       ELSE {[file |-> file, partial |-> w.inPlace,
              status |-> IF w.inPlace THEN 500 ELSE PutStatusFor(rc, 500)] : rc \in ErrorCode}
  ELSE {[file |-> Discarded(w, failed), status |-> status,
         partial |-> w.inPlace /\ failed] : failed \in MayFail("discard")}

Outcomes(s) ==
  IF s.ctx = {} THEN {[file |-> file, status |-> s.status, partial |-> FALSE]}
  ELSE UNION {Outcome(Checked(s), w) : w \in s.ctx}

(***************************************************************************)
(* The end of the body, which may be the request's only call.              *)
(***************************************************************************)
FinalCall(r) ==
  /\ req[r].stage # "done"
  /\ Mine(r)
  /\ \E s \in Ready(r) : \E o \in Outcomes(s.put) :
       /\ file' = o.file
       /\ dirs' = IF o.status = 201 THEN s.dirs ELSE TakenBack(s.dirs, s.put.made, o.file)
       /\ put' = Cleared(s.put)
       /\ req' = Answered(r, o.status)
       /\ told' = IF o.partial THEN told \cup {r} ELSE told
       /\ maker' = Made(s.dirs, r)

(***************************************************************************)
(* The connection is lost: the holder's upload is discarded, another's     *)
(* loss changes nothing here, and nothing is answered.                     *)
(***************************************************************************)
AbortCall(r) ==
  /\ req[r].stage # "done"
  /\ IF put.id = r
     THEN /\ \E failed \in MayFail("discard") :
               file' \in IF put.ctx = {} THEN {file} ELSE {Discarded(w, failed) : w \in put.ctx}
          /\ dirs' = TakenBack(dirs, put.made, file')
          /\ put' = Cleared(put)
     ELSE UNCHANGED <<file, dirs, put>>
  /\ req' = Answered(r, 0)
  /\ UNCHANGED <<told, maker>>

-----------------------------------------------------------------------------
(* Others: uploads through /dav (their commits), DELETE, MOVE, MKCOL.      *)

OthersChange(p) ==
  /\ Exists(ParentDir[p], dirs)
  /\ \E content \in {{}} \cup {{b} : b \in Foreign} : file' = [file EXCEPT ![p] = content]
  /\ UNCHANGED <<dirs, put, req, told, maker>>

OthersMakeDir(d) ==
  /\ d \notin dirs
  /\ dirs' = dirs \cup {d}
  /\ maker' = [maker EXCEPT ![d] = NoRequest]
  /\ UNCHANGED <<file, put, req, told>>

OthersRemoveDir(d) ==
  /\ d \in dirs /\ Empty(d, file, put.ctx)
  /\ dirs' = dirs \ {d}
  /\ UNCHANGED <<file, put, req, told, maker>>

-----------------------------------------------------------------------------

NewRequest(p, claim) ==
  [path |-> p, claim |-> claim, stage |-> "new", sent |-> <<>>, answer |-> 0]

Init ==
  /\ file = [p \in Path |-> {}]
  /\ dirs = {}
  /\ put = NoPut
  /\ req \in [Request -> {NewRequest(p, claim) : p \in Path, claim \in Claims}]
  /\ told = {}
  /\ maker = [d \in Dir |-> NoRequest]

Next ==
  \/ \E r \in Request :
       \/ \E c \in Chunk : ChunkCall(r, c)
       \/ BusyCall(r)
       \/ FinalCall(r)
       \/ AbortCall(r)
  \/ \E p \in Path : OthersChange(p)
  \/ \E d \in Dir : OthersMakeDir(d) \/ OthersRemoveDir(d)

Spec == Init /\ [][Next]_vars

(***************************************************************************)
(* "The two terminal calls are mutually exclusive" and one of them comes:  *)
(* the SDK ends every upload it began, at the latest when the connection   *)
(* times out.  Nothing else is assumed of senders or of others.            *)
(***************************************************************************)
Ended(r) == FinalCall(r) \/ AbortCall(r)

FairSpec == Spec /\ \A r \in Request : WF_vars(req[r].stage = "sending" /\ Ended(r))

-----------------------------------------------------------------------------
(* Properties.                                                             *)

\* What put.ctx holds: the write in progress, an AxlWebDavWrite of the SDK.
WriteValue == [path : Path, temp : Body, inPlace : BOOLEAN, before : {{}} \cup {{b} : b \in Body}]

Status == {0, 403, 404, 409, 500, 503, 507}

PutValue ==
  [id : Request \cup {NoRequest}, ctx : {{}} \cup {{w} : w \in WriteValue}, status : Status,
   made : Dir \cup {NoDir}, expect : Claims \cup {NoClaim}]

RequestValue ==
  [path : Path, claim : Claims, stage : {"new", "sending", "done"}, sent : Body,
   answer : Status \cup {201, 400}]

(***************************************************************************)
(* Every variable has its type, and nothing is left of an upload in a      *)
(* state that is let go.                                                   *)
(***************************************************************************)
TypeOK ==
  /\ file \in [Path -> {{}} \cup {{b} : b \in Body}]
  /\ dirs \subseteq Dir
  /\ put.id = NoRequest => put = NoPut
  /\ put \in PutValue
  /\ req \in [Request -> RequestValue]
  /\ told \subseteq Request
  /\ maker \in [Dir -> Request \cup {NoRequest}]

(***************************************************************************)
(* The upload state is always that of the one request whose body is coming *)
(* in: no other request's chunks get into it, and it is never left held by *)
(* a request that is over, which would refuse every PUT from then on.      *)
(***************************************************************************)
HeldByTheSender == \A r \in Request : req[r].stage = "sending" <=> put.id = r

(***************************************************************************)
(* Until something has failed, what is written is every chunk its request  *)
(* has sent, in order, and only those, however calls interleave.           *)
(***************************************************************************)
TempIsSent == \A w \in put.ctx : put.status = 0 => w.temp = req[put.id].sent

(***************************************************************************)
(* With a backend that writes to a temp, the PUT is ATOMIC: the handler    *)
(* implements AtomicPut.                                                   *)
(***************************************************************************)
Promise == INSTANCE AtomicPut

KeepsPromise == Promise!Spec

(***************************************************************************)
(* A PUT that was not stored leaves no empty directory of its making: not  *)
(* when it is refused, fails, does not match its claim or is aborted.      *)
(***************************************************************************)
FailedLeavesNoDirectory ==
  [][\A r \in Request :
       req[r].stage # "done" /\ req'[r].stage = "done" /\ req'[r].answer # 201 =>
         \A d \in dirs' : maker'[d] = r => ~Empty(d, file', {})]_vars

(***************************************************************************)
(* A sender who is refused is told so when the resource is not what it was *)
(* when the upload began: a write in place that could be neither committed *)
(* nor undone is never answered like a PUT that changed nothing.           *)
(***************************************************************************)
PartialIsTold ==
  [][\A r \in Request :
       put.id = r /\ req'[r].answer \notin {0, 201} =>
         \A w \in put.ctx : w.inPlace /\ file'[w.path] # w.before => r \in told']_vars

(***************************************************************************)
(* The upload state is always let go again, whatever its sender does, so a *)
(* PUT answered 503 is worth sending again.                                *)
(***************************************************************************)
StateFreed == \A r \in Request : put.id = r ~> put.id = NoRequest
=============================================================================
