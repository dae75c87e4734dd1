----------------------------- MODULE DavListing -----------------------------
(***************************************************************************)
(* A directory listed over WebDAV: proto_list_dir and dav_entry_emit of    *)
(* src/mount/webfs-protocol-dav.c.                                         *)
(*                                                                         *)
(* The answer to a PROPFIND is a multistatus document, which the mount     *)
(* reads token by token with a flag per element it is in.  A response is   *)
(* about one resource; what its propstats say counts only where their      *)
(* status is 200, and the status may come before or after the properties.  *)
(* The module has both sides: the server writes an answer, one token at a  *)
(* time, and keeps what the answer says; the mount reads each token as it  *)
(* is written.                                                             *)
(*                                                                         *)
(* Elements that the reader passes over (multistatus, prop, properties it  *)
(* does not know) are not written; an href in one of them is.              *)
(***************************************************************************)
EXTENDS Naturals, Sequences, FiniteSets

CONSTANTS
  Self,        \* the href of the directory that is listed
  Child,       \* hrefs of what is in it
  Elsewhere,   \* hrefs in the share that are neither
  Foreign,     \* hrefs outside the share
  TooLong,     \* hrefs whose path or name does not fit
  Unreadable,  \* hrefs that cannot be decoded
  Held,        \* hrefs that properties hold (the owner of a lock)
  NoHref,      \* no path yet
  Size,        \* the lengths a file may have, as digits
  Split,       \* the elements whose text may come in two tokens
  MaxEntries   \* WEBFS_LIST_MAX_ENTRIES

VARIABLES
  where,       \* the server: the element it is in
  left,        \* the text it has still to write there
  told,        \* what it has said of the resource at hand
  block,       \* and in the propstat at hand
  listing,     \* the entries of the responses it has finished
  selfTold,    \* whether one of them was about the directory itself
  trouble,     \* the reasons there are to refuse the answer
  inside,      \* the reader: the in_ flags that are set
  propstat_ok,
  cur,         \* the DavEntry that is filled
  snapshot,    \* propstat_snapshot
  text,        \* the text of the href or displayname at hand
  out,         \* the listing handed to the caller
  saw_self,
  result       \* "reading", or what was returned: "ok" or "failed"

answer == <<where, left, told, block, listing, selfTold, trouble>>

reader == <<inside, propstat_ok, cur, snapshot, text, out, saw_self, result>>

vars == <<where, left, told, block, listing, selfTold, trouble,
          inside, propstat_ok, cur, snapshot, text, out, saw_self, result>>

Href == {Self} \cup Child \cup Elsewhere \cup Foreign \cup TooLong \cup Unreadable

Leaf == {"href", "held", "status", "displayname", "resourcetype", "getcontentlength"}

ASSUME HrefAssumption ==
  /\ Self \notin Child \cup Elsewhere \cup Foreign \cup TooLong \cup Unreadable
  /\ Child \cap (Elsewhere \cup Foreign \cup TooLong \cup Unreadable) = {}
  /\ Elsewhere \cap (Foreign \cup TooLong \cup Unreadable) = {}
  /\ Foreign \cap (TooLong \cup Unreadable) = {}
  /\ TooLong \cap Unreadable = {}
  /\ Held \subseteq Href /\ NoHref \notin Href

ASSUME BoundAssumption == MaxEntries \in Nat /\ Split \subseteq Leaf

-----------------------------------------------------------------------------
(* Texts and entries.                                                      *)

(***************************************************************************)
(* A text is two halves, so that it can come in one token or in two.       *)
(***************************************************************************)
Text(v) == <<<<v, 1>>, <<v, 2>>>>

Status == {"200", "other"}

\* "200" is in the first half of "HTTP/1.1 200 OK".
SaysOk(piece) == \E i \in DOMAIN piece : piece[i] = <<"200", 1>>

(***************************************************************************)
(* DavEntry: the path its href leads to, what is wrong with the href, and  *)
(* what the properties say.                                                *)
(***************************************************************************)
EmptyEntry == [path |-> NoHref, flags |-> {}, kind |-> "file", size |-> <<>>]

Entry(h, kind, size) ==
  [name |-> h, kind |-> kind, size |-> IF kind = "dir" THEN <<>> ELSE size]

(***************************************************************************)
(* href_to_mount_path, and what an entry takes from its answer.            *)
(***************************************************************************)
FlagsOf(h) ==
  CASE h \in Foreign    -> {"foreign"}
    [] h \in TooLong    -> {"too_long"}
    [] h \in Unreadable -> {"bad"}
    [] OTHER            -> {}

LocatedAt(e, h) ==
  [e EXCEPT !.path = IF FlagsOf(h) = {} THEN h ELSE @, !.flags = @ \cup FlagsOf(h)]

Located(e, t) ==
  IF \E h \in Href : t = Text(h)
  THEN LocatedAt(e, CHOOSE h \in Href : t = Text(h))
  ELSE [e EXCEPT !.flags = @ \cup {"bad"}]

-----------------------------------------------------------------------------
(* The reader: what proto_list_dir does at each token.                     *)

(***************************************************************************)
(* The elements it takes notice of: nothing outside a response, and a      *)
(* status only in a propstat.                                              *)
(***************************************************************************)
Noticed(e) ==
  /\ e # "response" => "response" \in inside
  /\ e = "status" => "propstat" \in inside

Start(e) ==
  /\ inside' = IF Noticed(e) THEN inside \cup {e} ELSE inside
  /\ cur' = IF e = "response" THEN EmptyEntry ELSE cur
  /\ text' = IF Noticed(e) /\ e \in {"href", "displayname"} THEN <<>> ELSE text
  /\ IF Noticed(e) /\ e = "propstat"
     THEN propstat_ok' = TRUE /\ snapshot' = cur
     ELSE UNCHANGED <<propstat_ok, snapshot>>
  /\ UNCHANGED <<out, saw_self, result>>

\* The start of <collection/>; its end means nothing.
StartCollection ==
  /\ cur' = [cur EXCEPT !.kind = IF {"response", "resourcetype"} \subseteq inside THEN "dir" ELSE @]
  /\ UNCHANGED <<inside, propstat_ok, snapshot, text, out, saw_self, result>>

(***************************************************************************)
(* Text counts for the first of these elements that the reader is in: the  *)
(* status and the length are read from the token, the others are gathered. *)
(***************************************************************************)
Gathering == "status" \notin inside /\ inside \cap {"href", "displayname"} # {}

\* Seeded fault: the text before a CDATA section is lost.
ReadTextAnew(piece) ==
  /\ propstat_ok' = IF "status" \in inside THEN SaysOk(piece) ELSE propstat_ok
  /\ text' = IF Gathering THEN piece ELSE text
  /\ cur' = [cur EXCEPT !.size =
               IF "getcontentlength" \in inside /\ inside \cap {"status", "href", "displayname"} = {}
               THEN piece ELSE @]
  /\ UNCHANGED <<inside, snapshot, out, saw_self, result>>

ReadText(piece) ==
  /\ propstat_ok' = IF "status" \in inside THEN SaysOk(piece) ELSE propstat_ok
  /\ text' = IF Gathering THEN text \o piece ELSE text
  /\ cur' = [cur EXCEPT !.size =
               IF "getcontentlength" \in inside /\ inside \cap {"status", "href", "displayname"} = {}
               THEN piece ELSE @]
  /\ UNCHANGED <<inside, snapshot, out, saw_self, result>>

\* The end of an element whose text it gathers, or only leaves.
End(e) ==
  /\ inside' = inside \ {e}
  /\ cur' = IF e = "href" /\ e \in inside THEN Located(cur, text) ELSE cur
  /\ UNCHANGED <<propstat_ok, snapshot, text, out, saw_self, result>>

\* Seeded fault: what a propstat said is kept whatever its status.
NotReverted == cur

(***************************************************************************)
(* A propstat that was not 200 leaves no trace.                            *)
(***************************************************************************)
Reverted == IF propstat_ok THEN cur ELSE snapshot

EndPropstat ==
  /\ inside' = inside \ {"propstat"}
  /\ IF "propstat" \in inside
     THEN cur' = Reverted /\ propstat_ok' = TRUE
     ELSE UNCHANGED <<cur, propstat_ok>>
  /\ UNCHANGED <<snapshot, text, out, saw_self, result>>

Fail ==
  /\ result' = "failed"
  /\ UNCHANGED <<inside, propstat_ok, cur, snapshot, text, out, saw_self>>

(***************************************************************************)
(* dav_entry_emit and the end of a response: an href that cannot be read   *)
(* fails the listing, and so does an entry that cannot be added; the       *)
(* directory itself is noted; a child is added; what is not in the         *)
(* directory is passed over.                                               *)
(***************************************************************************)
Here == cur.flags = {} /\ cur.path = Self

IsEntry == cur.flags = {} /\ cur.path \in Child

Full == Len(out) >= MaxEntries

EndResponse ==
  /\ inside' = inside \ {"response"}
  /\ result' = IF "bad" \in cur.flags \/ (IsEntry /\ Full) THEN "failed" ELSE result
  /\ out' = IF IsEntry /\ ~Full THEN Append(out, Entry(cur.path, cur.kind, cur.size)) ELSE out
  /\ saw_self' = (saw_self \/ Here)
  /\ UNCHANGED <<propstat_ok, cur, snapshot, text>>

(***************************************************************************)
(* The end of the document.                                                *)
(***************************************************************************)
Return == IF saw_self THEN "ok" ELSE "failed"

Finish ==
  /\ result' = Return
  /\ UNCHANGED <<inside, propstat_ok, cur, snapshot, text, out, saw_self>>

-----------------------------------------------------------------------------
(* The answer: what the server writes, which the mount reads as it comes.  *)

NothingTold == [href |-> NoHref, kind |-> "file", size |-> <<>>]

NothingSaid == [status |-> "200", kind |-> "file", size |-> <<>>]

\* What a propstat adds to what was told of the resource.
Accepted(t, b) ==
  IF b.status # "200" THEN t
  ELSE [t EXCEPT !.kind = IF b.kind = "dir" THEN "dir" ELSE @,
                 !.size = IF b.size = <<>> THEN @ ELSE b.size]

WriteResponse ==
  /\ result = "reading" /\ where = "multistatus"
  /\ where' = "response" /\ told' = NothingTold
  /\ UNCHANGED <<left, block, listing, selfTold, trouble>>
  /\ Start("response")

WriteHref(h) ==
  /\ result = "reading" /\ where = "response" /\ told.href = NoHref
  /\ where' = "href" /\ left' = Text(h) /\ told' = [told EXCEPT !.href = h]
  /\ UNCHANGED <<block, listing, selfTold, trouble>>
  /\ Start("href")

WritePropstat ==
  /\ result = "reading" /\ where = "response"
  /\ where' = "propstat" /\ block' = NothingSaid
  /\ UNCHANGED <<left, told, listing, selfTold, trouble>>
  /\ Start("propstat")

(***************************************************************************)
(* What a propstat holds, in any order: its status, the name shown, the    *)
(* type, the length, which may be empty where it is not known, and hrefs   *)
(* inside other properties.                                                *)
(***************************************************************************)
Write(e, t, b) ==
  /\ result = "reading" /\ where = "propstat"
  /\ where' = e /\ left' = t /\ block' = b
  /\ UNCHANGED <<told, listing, selfTold, trouble>>

WriteStatus(s) ==
  Write("status", Text(s), [block EXCEPT !.status = s]) /\ Start("status")

WriteName == Write("displayname", Text("name"), block) /\ Start("displayname")

WriteType == Write("resourcetype", <<>>, block) /\ Start("resourcetype")

WriteLength(t) ==
  /\ Write("getcontentlength", t, [block EXCEPT !.size = IF t = <<>> THEN @ ELSE t])
  /\ Start("getcontentlength")

(***************************************************************************)
(* An href in a property is one of those held, or that of the resource: a  *)
(* lock names the resource it is on.                                       *)
(***************************************************************************)
WriteHeld(h) == Write("held", Text(h), block) /\ Start("href")

WriteCollection ==
  /\ result = "reading" /\ where = "resourcetype"
  /\ block' = [block EXCEPT !.kind = "dir"]
  /\ UNCHANGED <<where, left, told, listing, selfTold, trouble>>
  /\ StartCollection

(***************************************************************************)
(* The text of an element, in one token or, where a CDATA section splits   *)
(* it, in two.  Memory may run out where text is gathered.                 *)
(***************************************************************************)
WriteText(n) ==
  /\ result = "reading" /\ left # <<>>
  /\ n = Len(left) \/ (n < Len(left) /\ where \in Split)
  /\ left' = SubSeq(left, n + 1, Len(left))
  /\ UNCHANGED <<where, told, block, listing, selfTold>>
  /\ \/ ReadText(SubSeq(left, 1, n)) /\ UNCHANGED trouble
     \/ Gathering /\ Fail /\ trouble' = trouble \cup {"memory"}

WriteEnd ==
  /\ result = "reading" /\ where \in Leaf /\ left = <<>>
  /\ where' = IF where = "href" THEN "response" ELSE "propstat"
  /\ UNCHANGED <<left, told, block, listing, selfTold, trouble>>
  /\ End(IF where = "held" THEN "href" ELSE where)

EndWritePropstat ==
  /\ result = "reading" /\ where = "propstat"
  /\ where' = "response" /\ told' = Accepted(told, block)
  /\ UNCHANGED <<left, block, listing, selfTold, trouble>>
  /\ EndPropstat

(***************************************************************************)
(* The end of a response: one more entry, if it was about a child.         *)
(***************************************************************************)
Responded ==
  IF told.href \in Child
  THEN Append(listing, Entry(told.href, told.kind, told.size)) ELSE listing

EndWriteResponse ==
  /\ result = "reading" /\ where = "response"
  /\ where' = "multistatus" /\ listing' = Responded
  /\ selfTold' = (selfTold \/ told.href = Self)
  /\ UNCHANGED <<left, told, block>>
  /\ \/ EndResponse /\ trouble' = trouble \cup (IF told.href \in Unreadable THEN {"unreadable"} ELSE {})
                                       \cup (IF Len(Responded) > MaxEntries THEN {"long"} ELSE {})
     \/ IsEntry /\ Fail /\ trouble' = trouble \cup {"memory"}

EndWrite ==
  /\ result = "reading" /\ where = "multistatus"
  /\ trouble' = IF selfTold THEN trouble ELSE trouble \cup {"elsewhere"}
  /\ UNCHANGED <<where, left, told, block, listing, selfTold>>
  /\ Finish

\* There is no answer, or it is no 207, or it is cut off or malformed.
BreakOff ==
  /\ result = "reading"
  /\ trouble' = trouble \cup {"broken"}
  /\ UNCHANGED <<where, left, told, block, listing, selfTold>>
  /\ Fail

-----------------------------------------------------------------------------

Init ==
  /\ where = "multistatus" /\ left = <<>>
  /\ told = NothingTold /\ block = NothingSaid
  /\ listing = <<>> /\ selfTold = FALSE /\ trouble = {}
  /\ inside = {} /\ propstat_ok = TRUE
  /\ cur = EmptyEntry /\ snapshot = EmptyEntry /\ text = <<>>
  /\ out = <<>> /\ saw_self = FALSE /\ result = "reading"

(***************************************************************************)
(* The next listing starts with everything new.                            *)
(***************************************************************************)
ListAgain ==
  /\ result # "reading"
  /\ where' = "multistatus" /\ left' = <<>>
  /\ told' = NothingTold /\ block' = NothingSaid
  /\ listing' = <<>> /\ selfTold' = FALSE /\ trouble' = {}
  /\ inside' = {} /\ propstat_ok' = TRUE
  /\ cur' = EmptyEntry /\ snapshot' = EmptyEntry /\ text' = <<>>
  /\ out' = <<>> /\ saw_self' = FALSE /\ result' = "reading"

Next ==
  \/ WriteResponse
  \/ \E h \in Href : WriteHref(h)
  \/ WritePropstat
  \/ \E s \in Status : WriteStatus(s)
  \/ WriteName
  \/ WriteType
  \/ WriteCollection
  \/ \E n \in Size : WriteLength(Text(n))
  \/ WriteLength(<<>>)
  \/ \E h \in Href : h \in Held \cup {told.href} /\ WriteHeld(h)
  \/ \E n \in {1, 2} : WriteText(n)
  \/ WriteEnd
  \/ EndWritePropstat
  \/ EndWriteResponse
  \/ EndWrite
  \/ BreakOff
  \/ ListAgain

Spec == Init /\ [][Next]_vars

-----------------------------------------------------------------------------
(* Properties.                                                             *)

Texts == {<<>>} \cup UNION {{Text(v), SubSeq(Text(v), 1, 1), SubSeq(Text(v), 2, 2)} :
                              v \in Href \cup Size \cup Status \cup {"name"}}

Kind == {"file", "dir"}

EntryValue == [name : Child, kind : Kind, size : Texts]

DavEntry == [path : Href \cup {NoHref}, flags : SUBSET {"foreign", "too_long", "bad"},
             kind : Kind, size : Texts]

(***************************************************************************)
(* Every variable has its type, and the listing is within its cap.         *)
(***************************************************************************)
TypeOK ==
  /\ where \in {"multistatus", "response", "propstat"} \cup Leaf /\ left \in Texts
  /\ told \in [href : Href \cup {NoHref}, kind : Kind, size : Texts]
  /\ block \in [status : Status, kind : Kind, size : Texts]
  /\ listing \in Seq(EntryValue) /\ selfTold \in BOOLEAN
  /\ trouble \subseteq {"unreadable", "long", "memory", "elsewhere", "broken"}
  /\ inside \subseteq {"response", "propstat"} \cup (Leaf \ {"held"})
  /\ propstat_ok \in BOOLEAN /\ cur \in DavEntry /\ snapshot \in DavEntry
  /\ text \in Texts
  /\ out \in Seq(EntryValue) /\ Len(out) <= MaxEntries
  /\ saw_self \in BOOLEAN /\ result \in {"reading", "ok", "failed"}

(***************************************************************************)
(* A listing that is returned is the whole of the answer and nothing else: *)
(* an entry for every child, in its kind and length as the propstats that  *)
(* were 200 give them, whatever the other propstats said and wherever the  *)
(* status stood, and none of a response about anything else.  An answer    *)
(* that cannot be read, ends early, is longer than the cap or is not of    *)
(* the directory asked for is never passed off as a listing.               *)
(***************************************************************************)
ListingIsTheAnswer == result = "ok" => out = listing /\ trouble = {}

(***************************************************************************)
(* A listing is refused for a reason only: what is merely not understood,  *)
(* or of no interest, in an answer does not fail it.                       *)
(***************************************************************************)
RefusedForCause == result = "failed" => trouble # {}
=============================================================================
