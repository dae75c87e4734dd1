----------------------------- MODULE ClientView -----------------------------
(***************************************************************************)
(* The volume as the clients of axl-webfs serve are promised to see it     *)
(* (docs/Design.md): files and directories that change by a whole request  *)
(* at a time.  A PUT is stored in one step, when it is complete.  While it *)
(* is in flight a name is kept for its body beside its target: nothing is  *)
(* seen there, no other request can make, take or replace something there  *)
(* or take the directory away, and only a power loss leaves an ordinary    *)
(* file there.  There is one exception: the directory a REST PUT makes for *)
(* its target is seen from the first, and goes again if the PUT is         *)
(* abandoned and nothing else has come into it.                            *)
(***************************************************************************)
EXTENDS Naturals, Sequences, SequencesExt

CONSTANTS
  Path,      \* the paths there can be: sequences of names
  TempName,  \* the names shaped like the SDK's temp
  Upload     \* the PUTs that can be in flight together, "rest" that of REST

VARIABLES
  seen,      \* what there is under each path: nothing, a directory or a file
  request    \* the PUT of each upload

NoRequest == [target |-> <<>>, temp |-> <<>>, made |-> <<>>]

(***************************************************************************)
(* A PUT in flight has a target, the name kept for its body, <<>> if it    *)
(* was refused, and the directory made for it, <<>> for none.              *)
(***************************************************************************)
Begun(p, temp, made) == [target |-> p, temp |-> temp, made |-> made]

Kept == {request[u].temp : u \in Upload} \ {<<>>}

Free(p) == \A q \in Kept : ~IsPrefix(q, p)

Busy(p) == \E q \in Kept : IsStrictPrefix(p, q)

HasParent(s, p) == Len(p) > 1 => s[Front(p)] = "dir"

Vacant(p) == \A q \in Path : IsStrictPrefix(p, q) => seen[q] = "none"

Init ==
  /\ seen \in [Path -> {"none", "dir", "file"}]
  /\ \A p \in Path : ~HasParent(seen, p) => seen[p] = "none"
  /\ request = [u \in Upload |-> NoRequest]

-----------------------------------------------------------------------------
(* PUT.                                                                    *)

MadeFor(u, p) ==
  LET parent == Front(p)
  IN  IF /\ u = "rest" /\ Len(p) > 1 /\ seen[parent] = "none" /\ Free(parent)
         /\ HasParent(seen, parent)
      THEN parent ELSE <<>>

WithMade(made) == IF made = <<>> THEN seen ELSE [seen EXCEPT ![made] = "dir"]

BeginPut(u, p, temp) ==
  /\ request[u] = NoRequest /\ Front(temp) = Front(p) /\ Last(temp) \in TempName /\ temp # p
  /\ LET made == MadeFor(u, p)
         now  == WithMade(made)
     IN  /\ request' = [request EXCEPT ![u] = Begun(p, temp, made)]
         /\ Free(p) /\ now[p] # "dir" /\ HasParent(now, p)
         /\ Free(temp) /\ now[temp] = "none" /\ \A v \in Upload : request[v].target # temp
         /\ seen' = now

(***************************************************************************)
(* A REST PUT that is refused still makes the directory, and takes it back *)
(* when it ends.                                                           *)
(***************************************************************************)
RefusePut(p) ==
  /\ request["rest"] = NoRequest
  /\ LET made == MadeFor("rest", p)
     IN  /\ request' = [request EXCEPT !["rest"] = Begun(p, <<>>, made)]
         /\ seen' = WithMade(made)

CompletePut(u) ==
  LET p == request[u].target
  IN  /\ request[u].temp # <<>> /\ request' = [request EXCEPT ![u] = NoRequest]
      /\ seen[p] # "dir" /\ HasParent(seen, p)
      /\ seen' = [seen EXCEPT ![p] = "file"]

GoesAgain(u) ==
  LET made == request[u].made
  IN  /\ made # <<>> /\ seen[made] = "dir" /\ Vacant(made)
      /\ \A v \in Upload \ {u} : ~IsStrictPrefix(made, request[v].temp)

AbandonPut(u) ==
  /\ request[u] # NoRequest /\ request' = [request EXCEPT ![u] = NoRequest]
  /\ seen' = IF GoesAgain(u) THEN [seen EXCEPT ![request[u].made] = "none"] ELSE seen

-----------------------------------------------------------------------------
(* The other requests, which leave the PUTs in flight alone.               *)

(***************************************************************************)
(* A request that reads, or is refused.                                    *)
(***************************************************************************)
Read == UNCHANGED <<seen, request>>

MakeDirectory(p) ==
  /\ seen[p] = "none" /\ HasParent(seen, p) /\ Free(p)
  /\ seen' = [seen EXCEPT ![p] = "dir"]

Delete(p) ==
  /\ seen[p] # "none" /\ Vacant(p) /\ Free(p) /\ ~Busy(p)
  /\ seen' = [seen EXCEPT ![p] = "none"]

Moved(p, q, x) == q \o SubSeq(x, Len(p) + 1, Len(x))

(***************************************************************************)
(* A MOVE takes what is below with it and replaces a file.                 *)
(***************************************************************************)
Move(p, q) ==
  /\ ~IsPrefix(p, q) /\ ~IsPrefix(q, p) /\ seen[p] # "none" /\ seen[q] # "dir"
  /\ HasParent(seen, q) /\ (seen[q] = "file" => seen[p] = "file")
  /\ Free(p) /\ Free(q) /\ ~Busy(p)
  /\ seen' = [x \in Path |->
       IF IsPrefix(p, x) THEN "none"
       ELSE IF IsPrefix(q, x) /\ Moved(q, p, x) \in Path THEN seen[Moved(q, p, x)]
       ELSE seen[x]]

(***************************************************************************)
(* Power is lost: the bodies of the PUTs in flight turn up.                *)
(***************************************************************************)
PowerLoss ==
  /\ request' = [u \in Upload |-> NoRequest]
  /\ seen' = [p \in Path |-> IF p \in Kept THEN "file" ELSE seen[p]]

PutNext ==
  \/ \E u \in Upload : \/ CompletePut(u) \/ AbandonPut(u)
                       \/ \E p, temp \in Path : BeginPut(u, p, temp)
  \/ \E p \in Path : RefusePut(p)

OtherNext ==
  /\ UNCHANGED request
  /\ \E p \in Path : MakeDirectory(p) \/ Delete(p) \/ \E q \in Path : Move(p, q)

Next == Read \/ OtherNext \/ PutNext \/ PowerLoss

Spec == Init /\ [][Next]_<<seen, request>>
=============================================================================
