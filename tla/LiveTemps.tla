----------------------------- MODULE LiveTemps ------------------------------
(***************************************************************************)
(* A volume shared by the two surfaces of axl-webfs serve while PUTs are   *)
(* in flight: the REST handlers of src/serve/webfs-serve.c and the WebDAV  *)
(* operations of src/serve/webfs-dav.c.                                    *)
(*                                                                         *)
(* The SDK writes the body of a PUT to a temp beside its target.  Which    *)
(* temps are live only the SDK knows; it refuses them on the operations    *)
(* that are forwarded to it, and the others have to find them out by its   *)
(* answers.  PutUpload has the calls of one PUT in detail, VolumePath how  *)
(* the paths are spelled.                                                  *)
(***************************************************************************)
EXTENDS Naturals, Sequences, FiniteSets, SequencesExt

CONSTANTS
  Path,        \* the paths there can be: sequences of names, closed under prefixes
  TempName,    \* the names shaped like the SDK's temp
  DavUpload,   \* the PUTs of /dav that can be in flight together
  CarriesOpen  \* whether the volume moves a directory with an open file in it

ASSUME PathAssumption ==
  \A p \in Path : /\ p \in Seq(ToSet(p)) /\ p # <<>>
                  /\ \A k \in DOMAIN p : SubSeq(p, 1, k) \in Path

ASSUME UploadAssumption == "rest" \notin DavUpload /\ CarriesOpen \in BOOLEAN

Upload == {"rest"} \cup DavUpload

VARIABLES
  tree,   \* what there is under each path; "part" is a temp of a PUT in
          \* flight, "left" one that a power loss left
  put     \* the PUT of each upload that is in flight

vars == <<tree, put>>

NoPut == [target |-> <<>>, temp |-> <<>>, at |-> <<>>, made |-> <<>>]

(***************************************************************************)
(* A PUT: its target, the path the SDK has registered its temp by, where   *)
(* the file of its handle is (<<>> when there is none), and the directory  *)
(* made for it (<<>> for none).                                            *)
(***************************************************************************)
Put == [target : Path, temp : Path \cup {<<>>}, at : Path \cup {<<>>}, made : Path \cup {<<>>}]

TypeOK ==
  /\ tree \in [Path -> {"none", "dir", "whole", "part", "left"}]
  /\ put \in [Upload -> Put \cup {NoPut}]

InFlight == {u \in Upload : put[u] # NoPut}

-----------------------------------------------------------------------------
(* The volume (external).                                                  *)

IsDirIn(t, p) == p # <<>> => t[p] = "dir"

IsDir(p) == IsDirIn(tree, p)

Below(p) == {q \in Path : IsStrictPrefix(p, q)}

Empty(p) == \A q \in Below(p) : tree[q] = "none"

Without(t, p) == IF p = <<>> THEN t ELSE [t EXCEPT ![p] = "none"]

(***************************************************************************)
(* The PUTs' handles follow what happens to their files: place is where    *)
(* the file of each path goes.                                             *)
(***************************************************************************)
Handles(place) ==
  [u \in Upload |-> IF u \in InFlight THEN [put[u] EXCEPT !.at = place[@]] ELSE NoPut]

FtMkdir(p) ==
  /\ tree[p] = "none" /\ IsDir(Front(p))
  /\ tree' = [tree EXCEPT ![p] = "dir"] /\ UNCHANGED put

(***************************************************************************)
(* ft_delete: a file or an empty directory.                                *)
(***************************************************************************)
FtDelete(p) ==
  /\ tree[p] # "none" /\ Empty(p)
  /\ tree' = Without(tree, p)
  /\ put' = Handles([x \in Path \cup {<<>>} |-> IF x = p THEN <<>> ELSE x])

(***************************************************************************)
(* ft_move: a file onto a file or to a free path, a directory to a free    *)
(* path.                                                                   *)
(***************************************************************************)
FtMove(p, q) ==
  LET onto(x) == q \o SubSeq(x, Len(p) + 1, Len(x))
      from(x) == p \o SubSeq(x, Len(q) + 1, Len(x))
  IN  /\ tree[p] # "none" /\ IsDir(Front(q)) /\ ~IsPrefix(p, q) /\ ~IsPrefix(q, p)
      /\ (tree[q] # "none" => "dir" \notin {tree[p], tree[q]})
      /\ \A x \in Below(p) : tree[x] # "none" => onto(x) \in Path
      /\ (~CarriesOpen => \A u \in InFlight : ~IsStrictPrefix(p, put[u].at))
      /\ tree' = [x \in Path |-> IF IsPrefix(p, x) THEN "none"
                                 ELSE IF IsPrefix(q, x) /\ from(x) \in Path THEN tree[from(x)]
                                 ELSE tree[x]]
      /\ put' = Handles([x \in Path \cup {<<>>} |->
                           IF IsPrefix(p, x) THEN onto(x) ELSE IF x = q THEN <<>> ELSE x])

-----------------------------------------------------------------------------
(* Telling the live temps.                                                 *)

Registered == {put[u].temp : u \in InFlight} \ {<<>>}

Through(p, paths) == \E q \in paths : IsPrefix(q, p)

(***************************************************************************)
(* The SDK's stat: a path through a live temp is not found.                *)
(***************************************************************************)
SdkStat(p) == tree[p] # "none" /\ ~Through(p, Registered)

FtStat(p) == tree[p] # "none"

\* Seeded fault: a temp is told by its name.
NamedLikeTemp(p) == \E k \in DOMAIN p : p[k] \in TempName

(***************************************************************************)
(* Without a root webfs_live_temp tells none; no temp is registered then.  *)
(***************************************************************************)
LiveTemp(p) ==
  \E k \in DOMAIN p : LET q == SubSeq(p, 1, k)
                      IN  p[k] \in TempName /\ ~SdkStat(q) /\ FtStat(q)

-----------------------------------------------------------------------------
(* PUT.                                                                    *)

(***************************************************************************)
(* The REST PUT makes its parent directory, if there is none, before it is *)
(* known whether the body can be stored.                                   *)
(***************************************************************************)
MadeFor(u, p) ==
  IF u = "rest" /\ Len(p) > 1 /\ tree[Front(p)] = "none" /\ IsDir(Front(Front(p)))
  THEN Front(p) ELSE <<>>

WithMade(t, made) == IF made = <<>> THEN t ELSE [t EXCEPT ![made] = "dir"]

(***************************************************************************)
(* The names the SDK may take for a temp: no name there is, or that a PUT  *)
(* in flight is for.                                                       *)
(***************************************************************************)
TempFor(p) == {t \in Path : /\ Front(t) = Front(p) /\ Last(t) \in TempName /\ t # p
                            /\ tree[t] = "none" /\ \A u \in InFlight : put[u].target # t}

(***************************************************************************)
(* webfs_put_open: the body streams to a temp.                             *)
(***************************************************************************)
PutOpen(u, p) ==
  LET made == MadeFor(u, p)
      t == WithMade(tree, made)
  IN  /\ put[u] = NoPut
      /\ ~Through(p, Registered) /\ t[p] # "dir" /\ IsDirIn(t, Front(p))
      /\ \E temp \in TempFor(p) :
           /\ tree' = [t EXCEPT ![temp] = "part"]
           /\ put' = [put EXCEPT ![u] = [target |-> p, temp |-> temp, at |-> temp, made |-> made]]

(***************************************************************************)
(* The open is refused, for a live temp, a directory or a missing parent,  *)
(* or because the SDK lacks memory or the volume room.  The REST PUT stays *)
(* in flight until its last call, with the directory it made.              *)
(***************************************************************************)
PutRefused(p) ==
  LET made == MadeFor("rest", p) IN
  /\ put["rest"] = NoPut
  /\ tree' = WithMade(tree, made)
  /\ put' = [put EXCEPT !["rest"] = [target |-> p, temp |-> <<>>, at |-> <<>>, made |-> made]]

(***************************************************************************)
(* write_close(false): the temp replaces the target, if both are where     *)
(* they were.                                                              *)
(***************************************************************************)
Replaces(u) == /\ put[u].temp # <<>> /\ put[u].at = put[u].temp
               /\ tree[put[u].target] # "dir" /\ IsDir(Front(put[u].target))

PutCommit(u) ==
  /\ u \in InFlight /\ Replaces(u)
  /\ tree' = [tree EXCEPT ![put[u].at] = "none", ![put[u].target] = "whole"]
  /\ put' = [put EXCEPT ![u] = NoPut]

\* Seeded fault: the directory is taken back, and the temp in it forgotten.
TakenBackOnly(t, at, made) ==
  IF made = <<>> \/ t[made] # "dir" THEN t ELSE Without(t, made)

(***************************************************************************)
(* A discard deletes the temp through its handle; put_end then takes back  *)
(* the directory, if it is empty.                                          *)
(***************************************************************************)
TakenBack(t, at, made) ==
  LET gone == Without(t, at)
      kept == made = <<>> \/ gone[made] # "dir" \/ \E q \in Below(made) : gone[q] # "none"
  IN  IF kept THEN gone ELSE Without(gone, made)

\* Seeded fault: the directory that was made is remembered.
PutDiscardKeepsMade(u) ==
  /\ u \in InFlight
  /\ tree' = TakenBack(tree, put[u].at, put[u].made)
  /\ put' = [put EXCEPT ![u] = [NoPut EXCEPT !.made = put[u].made]]

(***************************************************************************)
(* The client hangs up, a chunk or the commit fails, the digest does not   *)
(* match, or the last call of a refused PUT comes.                         *)
(***************************************************************************)
PutDiscard(u) ==
  /\ u \in InFlight
  /\ tree' = TakenBack(tree, put[u].at, put[u].made)
  /\ put' = [put EXCEPT ![u] = NoPut]

-----------------------------------------------------------------------------
(* The other requests that change something.                               *)

\* Seeded fault: the handler does not ask for live temps.
RestDeleteAnything(p) == FtDelete(p)

RestDelete(p) == ~LiveTemp(p) /\ FtDelete(p)

RestMkdir(p) == ~LiveTemp(p) /\ FtMkdir(p)

(***************************************************************************)
(* Forwarded to the SDK, which refuses its live temps.                     *)
(***************************************************************************)
DavMkdir(p) == ~Through(p, Registered) /\ FtMkdir(p)

DavRemove(p) == ~Through(p, Registered) /\ FtDelete(p)

\* Seeded fault: dav_move looks at the source only.
DavMoveOntoAnything(p, q, overwrite) ==
  /\ SdkStat(p) /\ (SdkStat(q) => overwrite)
  /\ ~LiveTemp(p)
  /\ FtMove(p, q)

(***************************************************************************)
(* MOVE: the SDK looks at the source and, unless the client overwrites, at *)
(* the destination; dav_move at both for live temps.                       *)
(***************************************************************************)
DavMove(p, q, overwrite) ==
  /\ SdkStat(p) /\ (SdkStat(q) => overwrite)
  /\ ~LiveTemp(p) /\ ~LiveTemp(q)
  /\ FtMove(p, q)

(***************************************************************************)
(* Power is lost, or the driver goes down hard: what was written to the    *)
(* temps stays.                                                            *)
(***************************************************************************)
PowerLoss ==
  /\ tree' = [p \in Path |-> IF tree[p] = "part" THEN "left" ELSE tree[p]]
  /\ put' = [u \in Upload |-> NoPut]

-----------------------------------------------------------------------------
(* The requests that read: what is found, and what a listing shows.        *)

RestGet(p) == ~LiveTemp(p) /\ FtStat(p)

(***************************************************************************)
(* On a volume without a root /dav finds and lists nothing.                *)
(***************************************************************************)
DavStat(rooted, p) == rooted /\ SdkStat(p)

Hidden(p) == Last(p) \in TempName /\ LiveTemp(p)

Children(dir) == {p \in Path : Front(p) = dir /\ tree[p] # "none"}

Listing(dir) == {p \in Children(dir) : ~Hidden(p)}

DavList(rooted, dir) == IF rooted THEN Listing(dir) ELSE {}

-----------------------------------------------------------------------------

Init == /\ tree = [p \in Path |-> "none"]
        /\ put = [u \in Upload |-> NoPut]

PutNext(u) == (\E p \in Path : PutOpen(u, p)) \/ PutCommit(u) \/ PutDiscard(u)

RestNext == \E p \in Path : PutRefused(p) \/ RestDelete(p) \/ RestMkdir(p)

DavNext ==
  \/ \E p \in Path : DavRemove(p) \/ DavMkdir(p)
  \/ \E p, q \in Path, overwrite \in BOOLEAN : DavMove(p, q, overwrite)

-----------------------------------------------------------------------------

(***************************************************************************)
(* Nobody pulls the temp out from under a PUT ("replacing it would pull    *)
(* the file out from under the PUT", webfs-dav.c): whatever the other      *)
(* requests of both surfaces do, the file of every PUT in flight is there, *)
(* under the path the SDK knows it by.  Where the volume moves directories *)
(* with open files in them it is not.                                      *)
(***************************************************************************)
TempsStay == \A u \in InFlight : put[u].temp # <<>> =>
               put[u].at = put[u].temp /\ tree[put[u].at] = "part"

(***************************************************************************)
(* A PUT that has ended, in any way but a power loss, leaves nothing of    *)
(* its body under another name than its target's, and no file without a    *)
(* directory to be in.                                                     *)
(***************************************************************************)
NothingIsLeft ==
  /\ \A p \in Path : tree[p] = "part" => \E u \in InFlight : put[u].at = p
  /\ \A p \in Path : tree[p] # "none" => IsDir(Front(p))

(***************************************************************************)
(* The clients' view: what a GET finds, and of each PUT in flight what     *)
(* ClientView has of it.  Where its file really is, and how a temp is told *)
(* from a file, is of no concern to clients.                               *)
(***************************************************************************)
View == INSTANCE ClientView
  WITH seen    <- [p \in Path |-> IF ~RestGet(p) THEN "none"
                                  ELSE IF tree[p] = "dir" THEN "dir" ELSE "file"],
       request <- [u \in Upload |->
                     [target |-> put[u].target, temp |-> put[u].temp, made |-> put[u].made]]

(***************************************************************************)
(* Whatever the two surfaces and a loss of power do, it is one request of  *)
(* ClientView to the clients, or nothing: a commit stores the whole file,  *)
(* no request gets at a temp or takes its directory away, a temp is seen   *)
(* only after a loss of power, and put_end takes the directory it made     *)
(* back exactly if nothing else has come into it.                          *)
(***************************************************************************)
ClientsSeeWholeRequests == View!Spec
=============================================================================
