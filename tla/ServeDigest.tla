---------------------------- MODULE ServeDigest ----------------------------
(***************************************************************************)
(* Downloads from axl-webfs serve and the digests sent with them:          *)
(* handle_get_path, compute_file_digest, invalidate_file_digest and the    *)
(* get_streamer of src/serve/webfs-serve.c, and the writers that change    *)
(* the bytes under a cached digest: webfs_put_* , dav_remove and dav_move  *)
(* of src/serve/webfs-dav.c and handle_delete_path.                        *)
(*                                                                         *)
(* A digest is cached under the path as the client spelled it, with the    *)
(* size of the file, and is taken again when the size differs; whoever     *)
(* changes the bytes has to drop it.  A handler runs to its end before the *)
(* next one, but a download is sent in pieces between which uploads        *)
(* commit and files are moved.                                             *)
(*                                                                         *)
(* The volume is external: FAT, where names that differ in letter case     *)
(* only are one name.  A digest is the content it is the digest of.        *)
(***************************************************************************)
EXTENDS Naturals, Sequences, FiniteSets

CONSTANTS
  Place,     \* the volume's root and the directories in it
  Leaf,      \* the names in them
  Movable,   \* the directories that are moved
  Case,      \* the spellings a client has for a path
  Byte,
  MaxLen,    \* bound on the size of a file
  Upload,    \* the PUTs in flight, of either surface
  Stream,    \* the downloads in flight
  NoPath,    \* the file behind a handle is no longer at a path
  Rooms,     \* the room the HTTP server may offer at a pull
  InPlace,   \* what the backend may answer at a PUT's open: a set of BOOLEAN
  HalfMoves, \* whether a MOVE that copies may fail after the copy: likewise
  Local      \* the contents local programs, not the server, give a file

VARIABLES
  file,      \* the volume: {} (absent) or {its content}
  cache,     \* m_digest_cache: {} or {a digest slot}
  upload,    \* the WebfsPut of each PUT: {} or {where, what, how}
  stream     \* the downloads: {}, or {a GetStreamerCtx and its headers}, open or sent

vars == <<file, cache, upload, stream>>

Path == Place \X Leaf

Spelling == Path \X Case

At(s) == s[1]

Content == UNION {[1..n -> Byte] : n \in 0..MaxLen}

ASSUME PathAssumption == NoPath \notin Path /\ Movable \subseteq Place

ASSUME BoundAssumption ==
  /\ MaxLen \in Nat /\ Rooms \subseteq Nat \ {0}
  /\ InPlace \subseteq BOOLEAN /\ HalfMoves \subseteq BOOLEAN /\ Local \subseteq Content

-----------------------------------------------------------------------------
(* The digest cache.                                                       *)

Slot(c) == [size |-> Len(c), digest |-> c]

\* Seeded fault: the size is not compared.
HitsAnySize(s, size) == cache[s]

(***************************************************************************)
(* A slot answers for a file of the same size.                             *)
(***************************************************************************)
Hits(s, size) == {e \in cache[s] : e.size = size}

Digested(digest, slots) == [digest |-> digest, cache |-> slots]

(***************************************************************************)
(* compute_file_digest: the cached digest, or that of the bytes read now,  *)
(* which is kept; or none, when the file cannot be read.                   *)
(***************************************************************************)
ComputeFileDigest(s, c) ==
  IF Hits(s, Len(c)) # {} THEN {Digested({e.digest : e \in Hits(s, Len(c))}, cache)}
  ELSE {Digested({c}, [cache EXCEPT ![s] = {Slot(c)}]), Digested({}, cache)}

(***************************************************************************)
(* The digest is taken for the clients that ask for it.                    *)
(***************************************************************************)
DigestFor(s, c, want) == IF want THEN ComputeFileDigest(s, c) ELSE {Digested({}, cache)}

\* Seeded fault: nothing is dropped.
Kept(spellings) == cache

(***************************************************************************)
(* invalidate_file_digest.                                                 *)
(***************************************************************************)
Invalidated(spellings) == [s \in Spelling |-> IF s \in spellings THEN {} ELSE cache[s]]

-----------------------------------------------------------------------------
(* Downloads.                                                              *)

(***************************************************************************)
(* The part of a file of n bytes that is asked for: its first byte and its *)
(* length.  A range that is absent, or that the file does not have, is the *)
(* whole file.                                                             *)
(***************************************************************************)
Slices(n) == {<<0, n>>} \cup {r \in (0..n) \X (1..n) : r[1] + r[2] <= n}

(***************************************************************************)
(* A handle that is open for reading: the file it is on (its path, while   *)
(* it has one), the bytes it finds there, what is still to send and what   *)
(* was sent; and the headers: size, length and digest.                     *)
(***************************************************************************)
Opened(s, c, slice, digest) ==
  [path |-> At(s), bytes |-> c, size |-> Len(c), start |-> slice[1], length |-> slice[2],
   remaining |-> slice[2], sent |-> <<>>, digest |-> digest, stage |-> "open"]

\* The streamer is closed: the response is whole, or it is broken off.
Sent(t) == {[t EXCEPT !.path = NoPath, !.stage = "sent"]}

BrokenOff == {}

Idle(k) == \A t \in stream[k] : t.stage # "open"

(***************************************************************************)
(* GET: the digest is taken before the file is opened for the stream, in   *)
(* the same call of the handler.                                           *)
(***************************************************************************)
Get(k, s) ==
  /\ Idle(k)
  /\ \E c \in file[At(s)], want \in BOOLEAN :
       \E slice \in Slices(Len(c)), d \in DigestFor(s, c, want) :
         /\ cache' = d.cache
         /\ stream' = [stream EXCEPT ![k] = {Opened(s, c, slice, d.digest)}]
  /\ UNCHANGED <<file, upload>>

(***************************************************************************)
(* HEAD, and a GET that cannot open the file for the stream: the digest    *)
(* was taken and is kept.                                                  *)
(***************************************************************************)
GetHeaders(s) ==
  /\ \E c \in file[At(s)] : \E d \in DigestFor(s, c, TRUE) : cache' = d.cache
  /\ UNCHANGED <<file, upload, stream>>

\* What a handle at position p of the bytes b can still give.
Left(b, p) == IF Len(b) > p THEN Len(b) - p ELSE 0

Least(a, b) == IF a <= b THEN a ELSE b

Asked(t, room) == Least(t.remaining, room)

Got(t, room) == Least(Asked(t, room), Left(t.bytes, t.start + Len(t.sent)))

\* Seeded fault: the file is not positioned at the slice.
PulledUnsought(t, n) ==
  [t EXCEPT !.remaining = @ - n, !.sent = @ \o SubSeq(t.bytes, Len(@) + 1, Len(@) + n)]

Pulled(t, n) ==
  [t EXCEPT !.remaining = @ - n,
            !.sent = @ \o SubSeq(t.bytes, t.start + Len(@) + 1, t.start + Len(@) + n)]

\* Seeded fault: a file that ends early ends the response.
PullResultShort(t, room) ==
  IF t.remaining = 0 \/ Got(t, room) = 0 THEN {Sent(t)}
  ELSE {BrokenOff, {Pulled(t, Got(t, room))}}

(***************************************************************************)
(* get_streamer_pull: the slice is sent; or bytes of it were expected and  *)
(* there are none, or they cannot be read, which breaks the response off;  *)
(* or the next of them are sent.                                           *)
(***************************************************************************)
PullResult(t, room) ==
  IF t.remaining = 0 THEN {Sent(t)}
  ELSE {BrokenOff} \cup IF Got(t, room) = 0 THEN {} ELSE {{Pulled(t, Got(t, room))}}

Pull(k) ==
  /\ \E t \in stream[k], room \in Rooms :
       /\ t.stage = "open"
       /\ \E r \in PullResult(t, room) : stream' = [stream EXCEPT ![k] = r]
  /\ UNCHANGED <<file, cache, upload>>

(***************************************************************************)
(* The connection is reset: get_streamer_close.                            *)
(***************************************************************************)
Hangup(k) ==
  /\ \E t \in stream[k] :
       /\ t.stage = "open"
       /\ stream' = [stream EXCEPT ![k] = BrokenOff]
  /\ UNCHANGED <<file, cache, upload>>

(***************************************************************************)
(* What becomes of the open handles when the file at a path is removed,    *)
(* replaced or renamed, and when it is overwritten where it is.            *)
(***************************************************************************)
Follow(at) ==
  [k \in Stream |-> {[t EXCEPT !.path = IF @ \in DOMAIN at THEN at[@] ELSE @] : t \in stream[k]}]

Unlinked(p) == Follow([q \in {p} |-> NoPath])

Overwritten(p, c) ==
  [k \in Stream |-> {[t EXCEPT !.bytes = IF t.path = p THEN c ELSE @] : t \in stream[k]}]

-----------------------------------------------------------------------------
(* Uploads: webfs_put_open, webfs_put_write and webfs_put_close.           *)

(***************************************************************************)
(* The body shows in the file only if it is written in place.              *)
(***************************************************************************)
Shown(u, w) ==
  /\ upload' = [upload EXCEPT ![u] = {w}]
  /\ IF w.inPlace
     THEN /\ file' = [file EXCEPT ![At(w.at)] = {w.body}]
          /\ stream' = Overwritten(At(w.at), w.body)
     ELSE UNCHANGED <<file, stream>>
  /\ UNCHANGED cache

PutOpen(u, s) ==
  /\ upload[u] = {}
  /\ \E ip \in InPlace :
       Shown(u, [at |-> s, body |-> <<>>, inPlace |-> ip, before |-> file[At(s)]])

PutWrite(u, b) ==
  \E w \in upload[u] :
    /\ Len(w.body) < MaxLen
    /\ Shown(u, [w EXCEPT !.body = Append(@, b)])

PutOver(u) == upload' = [upload EXCEPT ![u] = {}]

(***************************************************************************)
(* The commit replaces the file and drops its digest; if it fails, the     *)
(* file is as it was, unless the write was in place.                       *)
(***************************************************************************)
PutCommit(u) ==
  /\ \E w \in upload[u] :
       \/ /\ file' = [file EXCEPT ![At(w.at)] = {w.body}]
          /\ cache' = Invalidated({w.at})
          /\ stream' = IF w.inPlace THEN stream ELSE Unlinked(At(w.at))
       \/ /\ cache' = IF w.inPlace THEN Invalidated({w.at}) ELSE cache
          /\ UNCHANGED <<file, stream>>
  /\ PutOver(u)

(***************************************************************************)
(* The discard deletes the temp.  Of a write in place it puts back what    *)
(* was there, or fails to and drops the digest.                            *)
(***************************************************************************)
PutDiscard(u) ==
  /\ \E w \in upload[u] :
       \/ /\ w.inPlace
          /\ cache' = Invalidated({w.at})
          /\ UNCHANGED <<file, stream>>
       \/ /\ IF w.inPlace
             THEN /\ file' = [file EXCEPT ![At(w.at)] = w.before]
                  /\ stream' = IF w.before = {} THEN Unlinked(At(w.at))
                               ELSE Overwritten(At(w.at), CHOOSE c \in w.before : TRUE)
             ELSE UNCHANGED <<file, stream>>
          /\ UNCHANGED cache
  /\ PutOver(u)

-----------------------------------------------------------------------------
(* DELETE and MOVE.                                                        *)

Removed(p) ==
  /\ file[p] # {}
  /\ file' = [file EXCEPT ![p] = {}]
  /\ stream' = Unlinked(p)
  /\ UNCHANGED upload

(***************************************************************************)
(* dav_remove drops the digest, handle_delete_path does not.               *)
(***************************************************************************)
DavRemove(s) == Removed(At(s)) /\ cache' = Invalidated({s})

RestDelete(s) == Removed(At(s)) /\ cache' = cache

(***************************************************************************)
(* dav_move of a file: a rename in its directory, else a copy and then a   *)
(* delete of the source, which may fail after the copy; the digests are    *)
(* dropped if the whole of it succeeded.                                   *)
(***************************************************************************)
Rename(s, d) ==
  /\ file' = [file EXCEPT ![At(s)] = {}, ![At(d)] = file[At(s)]]
  /\ stream' = Follow([q \in {At(s), At(d)} |->
                         IF q = At(s) /\ At(s)[1] = At(d)[1] THEN At(d) ELSE NoPath])
  /\ cache' = Invalidated({s, d})

HalfMove(s, d) ==
  /\ TRUE \in HalfMoves /\ At(s)[1] # At(d)[1]
  /\ file' = [file EXCEPT ![At(d)] = file[At(s)]]
  /\ stream' = Unlinked(At(d))
  /\ cache' = cache

DavMove(s, d) ==
  /\ At(s) # At(d)
  /\ file[At(s)] # {}
  /\ Rename(s, d) \/ HalfMove(s, d)
  /\ UNCHANGED upload

(***************************************************************************)
(* dav_move of a directory, to a name that is free: the paths dropped from *)
(* the cache are the directories', which have no digest.  An empty         *)
(* directory is not told from none.                                        *)
(***************************************************************************)
MoveDir(d, e) ==
  /\ d # e
  /\ \E l \in Leaf : file[<<d, l>>] # {}
  /\ \A l \in Leaf : file[<<e, l>>] = {}
  /\ file' = [p \in Path |-> IF p[1] = d THEN {} ELSE
                             IF p[1] = e THEN file[<<d, p[2]>>] ELSE file[p]]
  /\ stream' = Follow([p \in {d} \X Leaf |-> <<e, p[2]>>])
  /\ UNCHANGED <<cache, upload>>

-----------------------------------------------------------------------------
(* The rest of the world.                                                  *)

(***************************************************************************)
(* A slot is evicted or expires, or could not be kept in the first place.  *)
(***************************************************************************)
Forget(s) ==
  /\ cache[s] # {}
  /\ cache' = Invalidated({s})
  /\ UNCHANGED <<file, upload, stream>>

(***************************************************************************)
(* A program on the same machine writes the file.                          *)
(***************************************************************************)
LocalWrite(p, c) ==
  /\ file' = [file EXCEPT ![p] = {c}]
  /\ stream' = Overwritten(p, c)
  /\ UNCHANGED <<cache, upload>>

-----------------------------------------------------------------------------

Init ==
  /\ file \in [Path -> {{}} \cup {{c} : c \in Content}]
  /\ cache = [s \in Spelling |-> {}]
  /\ upload = [u \in Upload |-> {}]
  /\ stream = [k \in Stream |-> {}]

Next ==
  \/ \E s \in Spelling :
       \/ \E k \in Stream : Get(k, s)
       \/ GetHeaders(s)
       \/ \E u \in Upload : PutOpen(u, s)
       \/ DavRemove(s)
       \/ RestDelete(s)
       \/ \E d \in Spelling : DavMove(s, d)
       \/ Forget(s)
  \/ \E k \in Stream : Pull(k) \/ Hangup(k)
  \/ \E u \in Upload : (\E b \in Byte : PutWrite(u, b)) \/ PutCommit(u) \/ PutDiscard(u)
  \/ \E d, e \in Movable : MoveDir(d, e)
  \/ \E p \in Path, c \in Local : LocalWrite(p, c)

Spec == Init /\ [][Next]_vars

-----------------------------------------------------------------------------
(* Properties.                                                             *)

AtMostOne(S) == \A x, y \in S : x = y

SlotValue == {Slot(c) : c \in Content}

UploadValue == [at : Spelling, body : Content, inPlace : BOOLEAN, before : SUBSET Content]

StreamValue ==
  [path : Path \cup {NoPath}, bytes : Content, size : 0..MaxLen, start : 0..MaxLen,
   length : 0..MaxLen, remaining : 0..MaxLen, sent : Content, digest : SUBSET Content,
   stage : {"open", "sent"}]

(***************************************************************************)
(* Every variable has its type: a path has at most one content, a spelling *)
(* at most one digest slot, a PUT one write and a download one handle.     *)
(***************************************************************************)
TypeOK ==
  /\ file \in [Path -> SUBSET Content] /\ \A p \in Path : AtMostOne(file[p])
  /\ cache \in [Spelling -> SUBSET SlotValue] /\ \A s \in Spelling : AtMostOne(cache[s])
  /\ upload \in [Upload -> SUBSET UploadValue] /\ \A u \in Upload : AtMostOne(upload[u])
  /\ stream \in [Stream -> SUBSET StreamValue] /\ \A k \in Stream : AtMostOne(stream[k])

\* No PUT is writing the file at this path in place.
Settled(p) == \A u \in Upload : \A w \in upload[u] : w.inPlace => At(w.at) # p

(***************************************************************************)
(* "Drop sub_path's cached digest: its bytes changed" (webfs-serve.c): a   *)
(* digest that would be answered from the cache, having the size of the    *)
(* file, is the digest of the bytes the file has now.                      *)
(***************************************************************************)
DigestIsOfFile ==
  \A s \in Spelling : \A e \in cache[s], c \in file[At(s)] :
    Settled(At(s)) /\ e.size = Len(c) => e.digest = c

(***************************************************************************)
(* A download that is sent to its end is the slice asked for of the bytes  *)
(* the file had when it was asked for, and the digest it came with is that *)
(* of the same bytes, whatever was uploaded, moved or removed while it was *)
(* being sent: a client that checks the digest never rejects it.           *)
(***************************************************************************)
BodyIsTheSlice ==
  \A k \in Stream : \A t \in stream[k] :
    t.stage = "sent" =>
      /\ t.sent = SubSeq(t.bytes, t.start + 1, t.start + t.length)
      /\ Len(t.bytes) = t.size
      /\ \A d \in t.digest : d = t.bytes

(***************************************************************************)
(* However the file changes meanwhile, a response is as long as its        *)
(* Content-Length says or is broken off: it is never ended early, as if it *)
(* were whole, and never runs over into the next response.                 *)
(***************************************************************************)
BodyFitsLength ==
  \A k \in Stream : \A t \in stream[k] :
    /\ Len(t.sent) + t.remaining = t.length
    /\ t.stage = "sent" => Len(t.sent) = t.length

(***************************************************************************)
(* Whatever changed the file without dropping its digest, the digest sent  *)
(* is of some content of the size sent: a file that has grown or shrunk is *)
(* always hashed anew.                                                     *)
(***************************************************************************)
DigestFitsSize ==
  \A k \in Stream : \A t \in stream[k] : \A d \in t.digest : Len(d) = t.size
=============================================================================
