----------------------------- MODULE AtomicPut -----------------------------
(***************************************************************************)
(* What the server promises the sender of a PUT, with no mention of the    *)
(* single upload state, temp files or directories: a resource only ever    *)
(* holds a whole body that was answered 201 -- one that matches the digest *)
(* claimed for it -- or what somebody else put there; a PUT that ends in   *)
(* any other way has changed nothing.  Module PutUpload implements this    *)
(* specification when the backend writes to a temp.                        *)
(***************************************************************************)
EXTENDS Naturals, Sequences

CONSTANTS
  Request,   \* the PUT requests
  Path,      \* the resources
  Chunk,     \* the pieces a body comes in
  MaxChunks, \* bound on the pieces of a body
  Claims,    \* what Content-Digest may claim: {} nothing, else {a body}
  Foreign    \* the bodies others put there

VARIABLES
  file,      \* the resources: {} (absent) or {its content}
  req        \* the requests: what has arrived, and the answer

vars == <<file, req>>

Body == UNION {[1..n -> Chunk] : n \in 0..MaxChunks}

Refusal == {400, 403, 404, 409, 500, 503, 507}

NewRequest(p, claim) ==
  [path |-> p, claim |-> claim, stage |-> "new", sent |-> <<>>, answer |-> 0]

Verified(r) == req[r].claim \in {{}, {req[r].sent}}

Done(r, answer) == [req EXCEPT ![r].stage = "done", ![r].answer = answer]

Init ==
  /\ file = [p \in Path |-> {}]
  /\ req \in [Request -> {NewRequest(p, claim) : p \in Path, claim \in Claims}]

Receive(r, c) ==
  /\ req[r].stage # "done" /\ Len(req[r].sent) < MaxChunks
  /\ req' = [req EXCEPT ![r].stage = "sending", ![r].sent = Append(@, c)]
  /\ UNCHANGED file

Store(r) ==
  /\ req[r].stage # "done" /\ Verified(r)
  /\ file' = [file EXCEPT ![req[r].path] = {req[r].sent}]
  /\ req' = Done(r, 201)

Refuse(r) ==
  /\ req[r].stage # "done"
  /\ \E answer \in Refusal \cup {0} : req' = Done(r, answer)
  /\ UNCHANGED file

OthersChange(p) ==
  /\ \E content \in {{}} \cup {{b} : b \in Foreign} : file' = [file EXCEPT ![p] = content]
  /\ UNCHANGED req

Next ==
  \/ \E r \in Request :
       \/ \E c \in Chunk : Receive(r, c)
       \/ Store(r)
       \/ Refuse(r)
  \/ \E p \in Path : OthersChange(p)

Spec == Init /\ [][Next]_vars

=============================================================================
