------------------------------ MODULE MountFile ------------------------------
(***************************************************************************)
(* The mount's file provider (src/mount/webfs-file.c): the callbacks UEFI  *)
(* reaches through the SDK for one mounted server, over the directory cache*)
(* (module DirCache) and the JSON protocol (webfs-protocol-json.c), with   *)
(* the workstation server (scripts/xfer-server.py) at the other end.       *)
(*                                                                         *)
(* The firmware runs one callback at a time and a callback waits for its   *)
(* requests, so a callback is one action.  The server's tree is also       *)
(* changed by others between callbacks; a change between two requests of   *)
(* one callback shows the callback the same thing as a listing that was    *)
(* already stale when it began.                                            *)
(*                                                                         *)
(* The cache is the map from a directory to the listing it holds, with a   *)
(* step that forgets a listing at any moment: expiry and eviction, whose   *)
(* own rules are DirCache's.  Names and bytes are members of small sets,   *)
(* a path is a sequence of names, and a checksum is the bytes summed.      *)
(***************************************************************************)
EXTENDS Naturals, Sequences, FiniteSets

CONSTANTS
  Handle,     \* open-file handles the firmware uses
  Name,       \* entry names
  Fold,       \* Fold[n]: the name n compares as, letter case ignored
  Path,       \* the paths used: sequences of names, closed under Parent
  Byte,       \* file bytes
  ReadAhead,  \* READAHEAD_BUF_SIZE
  PutMax,     \* PUT_BUF_MAX
  MaxLen,     \* bound on the length of a file
  Faults      \* what may go wrong: a subset of FaultKind

VARIABLES
  readOnly,   \* priv->read_only, set when the volume is mounted
  fs,         \* the server's tree
  cached,     \* priv->dir_cache: the listings held ({} or one listing)
  fh,         \* the AxlFsProviderFile of every handle
  reply,      \* the status the last callback returned
  foreign,    \* history: paths whose cached entry others may have outdated
  side,       \* history: paths the mount's own requests outdated in passing
  hist        \* history: what the user of each handle has seen and done

vars == <<readOnly, fs, cached, fh, reply, foreign, side, hist>>

FaultKind == {"lost", "noreply", "refused", "cut", "garbled", "memory"}

ASSUME FaultsAssumption == Faults \subseteq FaultKind

ASSUME SizeAssumption ==
  /\ ReadAhead \in Nat \ {0} /\ MaxLen \in Nat /\ PutMax \in 0..MaxLen

Root == <<>>

(***************************************************************************)
(* get_parent_path and get_file_name.                                      *)
(***************************************************************************)
Parent(p) == SubSeq(p, 1, Len(p) - 1)

FileName(p) == p[Len(p)]

Directory == {Root} \cup Path

ASSUME PathAssumption ==
  \A p \in Path : p \in Seq(Name) /\ p # Root /\ Parent(p) \in Directory

Inside(p, d) == Len(d) < Len(p) /\ SubSeq(p, 1, Len(d)) = d

Lower(m, n) == IF m < n THEN m ELSE n

-----------------------------------------------------------------------------
(* The server's tree and what xfer-server.py does to it.                   *)

None == [kind |-> "none", data |-> <<>>]

Dir == [kind |-> "dir", data |-> <<>>]

File(d) == [kind |-> "file", data |-> d]

Content == UNION {[1..n -> Byte] : n \in 0..MaxLen}

Node == {None, Dir} \cup {File(d) : d \in Content}

IsDir(f, d) == d # Root => f[d].kind = "dir"

Children(f, d) == {p \in Path : Parent(p) = d /\ f[p].kind # "none"}

(***************************************************************************)
(* An entry of a listing: the name, the size and whether it is a directory.*)
(***************************************************************************)
Entry(f, p) == [name |-> FileName(p), size |-> Len(f[p].data), dir |-> f[p].kind = "dir"]

Listing(f, d) == {Entry(f, p) : p \in Children(f, d)}

WithParents(f, p) ==
  [q \in Path |-> IF Inside(p, q) /\ f[q].kind = "none" THEN Dir ELSE f[q]]

(***************************************************************************)
(* Every ancestor of p is a directory or can be made one.                  *)
(***************************************************************************)
Reachable(f, p) == \A q \in Path : Inside(p, q) => f[q].kind # "file"

\* The reply to a request: 0 when the connection ends without one.
Answer(code, f) == [code |-> code, fs |-> f]

(***************************************************************************)
(* do_PUT: missing parents are made and the file is replaced in place.     *)
(***************************************************************************)
Put(p, d) ==
  IF fs[p].kind = "dir" \/ ~Reachable(fs, p) THEN Answer(0, fs)
  ELSE Answer(201, [WithParents(fs, p) EXCEPT ![p] = File(d)])

(***************************************************************************)
(* do_POST ?mkdir: an existing directory is fine.                          *)
(***************************************************************************)
Mkdir(p) ==
  IF fs[p].kind = "file" \/ ~Reachable(fs, p) THEN Answer(0, fs)
  ELSE Answer(201, [WithParents(fs, p) EXCEPT ![p] = Dir])

(***************************************************************************)
(* do_DELETE: a file, or an empty directory.                               *)
(***************************************************************************)
Delete(p) ==
  IF fs[p] = None THEN Answer(404, fs)
  ELSE IF Children(fs, p) # {} THEN Answer(409, fs)
  ELSE Answer(200, [fs EXCEPT ![p] = None])

(***************************************************************************)
(* os.rename: a file replaces a file, a directory an empty directory, and  *)
(* a directory takes everything inside it along.                           *)
(***************************************************************************)
Moved(f, from, to) ==
  [q \in Path |->
     IF q = to THEN f[from]
     ELSE IF q = from \/ Inside(q, from) THEN None
     ELSE IF Inside(q, to)
       THEN LET old == from \o SubSeq(q, Len(to) + 1, Len(q))
            IN IF old \in Path THEN f[old] ELSE None
     ELSE f[q]]

(***************************************************************************)
(* do_POST ?rename=<name in the same directory>.                           *)
(***************************************************************************)
Rename(from, to) ==
  IF fs[from] = None THEN Answer(404, fs)
  ELSE IF fs[to] # None /\ (fs[to].kind # fs[from].kind \/ Children(fs, to) # {})
    THEN Answer(409, fs)
  ELSE Answer(200, Moved(fs, from, to))

(***************************************************************************)
(* What becomes of a request: it is answered; it never arrives; the answer *)
(* is lost; or the server refuses it (it may have been started read-only). *)
(***************************************************************************)
Sent(fault, a) ==
  CASE fault = "none" -> a
    [] fault = "lost" -> Answer(0, fs)
    [] fault = "noreply" -> Answer(0, a.fs)
    [] fault = "refused" -> Answer(403, fs)

RequestFaults == {"none"} \cup (Faults \cap {"lost", "noreply", "refused"})

-----------------------------------------------------------------------------
(* The directory cache as the provider sees it.                            *)

(***************************************************************************)
(* dir_cache_fetch: the listing held, else the server's.                   *)
(***************************************************************************)
ListingOf(d) == IF cached[d] # {} THEN CHOOSE l \in cached[d] : TRUE ELSE Listing(fs, d)

CanList(d) == cached[d] # {} \/ IsDir(fs, d)

MayGoUnanswered == Faults \cap {"lost", "noreply"} # {}

ListMayFail(d) == cached[d] = {} /\ (MayGoUnanswered \/ ~IsDir(fs, d))

Fetched(d) == [cached EXCEPT ![d] = {ListingOf(d)}]

\* Seeded fault: the listing of the entry itself is dropped, not its parent's.
InvalidatedSelf(c, p) == [c EXCEPT ![p] = {}]

(***************************************************************************)
(* dir_cache_invalidate of the directory path p lies in.                   *)
(***************************************************************************)
Invalidated(c, p) == [c EXCEPT ![Parent(p)] = {}]

(***************************************************************************)
(* dir_cache_lookup_entry: the entries p may be taken for; letter case is  *)
(* ignored, and the first match wins.                                      *)
(***************************************************************************)
Matches(p) == {e \in ListingOf(Parent(p)) : Fold[e.name] = Fold[FileName(p)]}

-----------------------------------------------------------------------------
(* Handles.                                                                *)

Closed == [open |-> FALSE]

(***************************************************************************)
(* webfs_alloc_file, and digest_want for a file.                           *)
(*   digest    want: ask for the digest with the read at 0; active: bytes  *)
(*             are summed; off: neither, be it never had or latched failed *)
(*   expected  digest_expected: {} or the one content it is the digest of  *)
(*   consumed  the bytes summed                                            *)
(*   raStart   0 when nothing is read ahead                                *)
(*   snap,left the directory snapshot ({} or one) and what is not read yet *)
(***************************************************************************)
NewHandle(p, isDir, size) ==
  [open |-> TRUE, path |-> p, dir |-> isDir, size |-> size, pos |-> 0,
   raStart |-> 0, ra |-> <<>>,
   digest |-> IF isDir THEN "off" ELSE "want", expected |-> {}, consumed |-> <<>>,
   dirty |-> FALSE, buf |-> <<>>,
   snap |-> {}, left |-> {}]

\* History of a handle: see Observe and the read and write actions.
NewHist == [owed |-> <<>>, flushed |-> FALSE, got |-> <<>>, offered |-> {},
            steady |-> FALSE, clean |-> FALSE]

Opened(h) == fh[h].open

FileHandle(h) == Opened(h) /\ ~fh[h].dir

-----------------------------------------------------------------------------
(* History.                                                                *)

Changed == {p \in Path : fs'[p] # fs[p]}

(***************************************************************************)
(* A path is excused from listing checks from the moment it changes        *)
(* without the mount having been told, until its directory is listed again.*)
(***************************************************************************)
StillExcused(paths) ==
  {p \in paths : ~(cached[Parent(p)] = {} /\ cached'[Parent(p)] # {})}

(***************************************************************************)
(* `owed`: what was written since the last flush.  `offered`: the file the *)
(* server gave the digest of, at the first of reads one after the other,   *)
(* and `got` what these have read.  `steady`: the file is as the listing   *)
(* the handle was opened from said, and no byte of it has changed.         *)
(* `clean`: nobody but the handle has changed the file since the read-ahead*)
(* was filled, and no write has failed.  `flushed`: the file is what the   *)
(* handle's last flush made it.  `mine` is the handle (if any) whose own   *)
(* upload changed the tree.                                                *)
(***************************************************************************)
Watched(hs, mine) ==
  [h \in Handle |->
     IF ~fh'[h].open THEN NewHist
     ELSE IF ~fh[h].open
       THEN [NewHist EXCEPT !.steady = /\ ~fh'[h].dir
                                       /\ fs'[fh'[h].path].kind = "file"
                                       /\ Len(fs'[fh'[h].path].data) = fh'[h].size]
     ELSE LET same == fh'[h].path = Root \/ fs'[fh'[h].path] = fs[fh[h].path]
          IN [hs[h] EXCEPT !.steady = @ /\ same /\ fh'[h].digest # "off",
                           !.clean = @ /\ (same \/ h \in mine) /\ fh'[h].ra # <<>>,
                           !.flushed = @ /\ (same \/ h \in mine)]]

(***************************************************************************)
(* What a step does to the histories: `named` holds the entries a request  *)
(* of the mount was acknowledged for, hs what the step notes of a handle.  *)
(***************************************************************************)
Observe(named, mine, hs) ==
  /\ foreign' = StillExcused(foreign) \cup IF named = {} THEN Changed ELSE {}
  /\ side' = StillExcused(side) \cup IF named = {} THEN {} ELSE Changed \ named
  /\ hist' = Watched(hs, mine)

-----------------------------------------------------------------------------
(* webfs_open.                                                             *)

(***************************************************************************)
(* The root needs no request.                                              *)
(***************************************************************************)
OpenRoot(h) ==
  /\ ~Opened(h)
  /\ fh' = [fh EXCEPT ![h] = NewHandle(Root, TRUE, 0)]
  /\ reply' = "ok"
  /\ UNCHANGED <<readOnly, fs, cached>>
  /\ Observe({}, {}, hist)

(***************************************************************************)
(* The parent lists the entry; the handle keeps the path as it was spelled *)
(* by the caller and the size as it was listed.                            *)
(***************************************************************************)
OpenFound(h, p) ==
  /\ ~Opened(h)
  /\ CanList(Parent(p))
  /\ \E e \in Matches(p) : fh' = [fh EXCEPT ![h] = NewHandle(p, e.dir, e.size)]
  /\ cached' = Fetched(Parent(p))
  /\ reply' = "ok"
  /\ UNCHANGED <<readOnly, fs>>
  /\ Observe({}, {}, hist)

(***************************************************************************)
(* The lookup of p gives nothing: the listing has no such entry, or it     *)
(* could not be had, which the code does not tell apart.                   *)
(***************************************************************************)
NotSeen(p, listed) ==
  IF listed THEN CanList(Parent(p)) /\ Matches(p) = {} ELSE ListMayFail(Parent(p))

AfterLookup(p, listed) == IF listed THEN Fetched(Parent(p)) ELSE cached

(***************************************************************************)
(* NOT_FOUND, or WRITE_PROTECTED for a create on a read-only volume.       *)
(***************************************************************************)
OpenRefused(h, p) ==
  /\ ~Opened(h)
  /\ \E listed \in BOOLEAN :
       /\ NotSeen(p, listed)
       /\ cached' = AfterLookup(p, listed)
  /\ reply' = "error"
  /\ UNCHANGED <<readOnly, fs, fh>>
  /\ Observe({}, {}, hist)

(***************************************************************************)
(* CREATE: mkdir, or a PUT of an empty body.  The status of a mkdir must be*)
(* 200 or 201; of a create, any status will do.                            *)
(***************************************************************************)
OpenCreate(h, p) ==
  /\ ~Opened(h)
  /\ ~readOnly
  /\ \E listed, isDir \in BOOLEAN, fault \in RequestFaults :
       LET r == Sent(fault, IF isDir THEN Mkdir(p) ELSE Put(p, <<>>))
           seen == AfterLookup(p, listed)
           done == IF isDir THEN r.code \in {200, 201} ELSE r.code # 0
       IN /\ NotSeen(p, listed)
          /\ fs' = r.fs
          /\ cached' = IF done THEN Invalidated(seen, p) ELSE seen
          /\ fh' = IF done THEN [fh EXCEPT ![h] = NewHandle(p, isDir, 0)] ELSE fh
          /\ reply' = IF done THEN "ok" ELSE "error"
          /\ Observe(IF r.code \in {200, 201} THEN {p} ELSE {}, {}, hist)
  /\ UNCHANGED readOnly

-----------------------------------------------------------------------------
(* webfs_read.                                                             *)

(***************************************************************************)
(* digest_failed is latched: the checksum is of no more use.               *)
(***************************************************************************)
Unsummed(r) ==
  IF r.digest = "active" THEN [r EXCEPT !.digest = "off", !.expected = {}, !.consumed = <<>>] ELSE r

(***************************************************************************)
(* digest_consume: the bytes read at a position, if it is the next one.    *)
(***************************************************************************)
Consumed(r, at, bytes) ==
  IF r.digest # "active" THEN r
  ELSE IF at # Len(r.consumed) THEN Unsummed(r)
  ELSE [r EXCEPT !.consumed = @ \o bytes]

\* History: what the user has heard since the digest was offered.
Heard(was, bytes) == IF was.offered = {} THEN was ELSE [was EXCEPT !.got = @ \o bytes]

\* History: the server gives the digest of what the file is.
Offered(was, data) == [was EXCEPT !.offered = {data}]

\* History: the reads are no longer one after the other.
Broken(was) == [was EXCEPT !.offered = {}, !.got = <<>>]

Wanted(r, n) == Lower(n, r.size - r.pos)

InReadAhead(r) == r.raStart <= r.pos /\ r.pos < r.raStart + Len(r.ra)

\* Seeded fault: bytes served from the read-ahead are not summed.
ReadHitUnsummed(h, n) ==
  /\ FileHandle(h) /\ fh[h].pos < fh[h].size /\ InReadAhead(fh[h])
  /\ reply' = "ok"
  /\ UNCHANGED <<readOnly, fs, cached>>
  /\ LET r == fh[h]
         skip == r.pos - r.raStart
         bytes == SubSeq(r.ra, skip + 1, skip + Lower(Wanted(r, n), Len(r.ra) - skip))
     IN /\ fh' = [fh EXCEPT ![h] = [r EXCEPT !.pos = @ + Len(bytes)]]
        /\ Observe({}, {}, [hist EXCEPT ![h] = Heard(@, bytes)])

(***************************************************************************)
(* The read starts inside the read-ahead: what is there is copied.         *)
(***************************************************************************)
ReadHit(h, n) ==
  /\ FileHandle(h) /\ fh[h].pos < fh[h].size /\ InReadAhead(fh[h])
  /\ reply' = "ok"
  /\ UNCHANGED <<readOnly, fs, cached>>
  /\ LET r == fh[h]
         skip == r.pos - r.raStart
         bytes == SubSeq(r.ra, skip + 1, skip + Lower(Wanted(r, n), Len(r.ra) - skip))
     IN /\ fh' = [fh EXCEPT ![h] = [Consumed(r, r.pos, bytes) EXCEPT !.pos = @ + Len(bytes)]]
        /\ Observe({}, {}, [hist EXCEPT ![h] = Heard(@, bytes)])

(***************************************************************************)
(* do_GET with a Range: the bytes of the file as it is now, which may end  *)
(* before the length announced (the client then reads short, or fails);    *)
(* 404 or 416 for a file that is gone or ends before the range.            *)
(***************************************************************************)
HasRange(p, at) == fs[p].kind = "file" /\ at < Len(fs[p].data)

RangeOf(p, at, n) == SubSeq(fs[p].data, at + 1, at + Lower(n, Len(fs[p].data) - at))

(***************************************************************************)
(* The bytes that arrive: those sent, or a garbled copy.                   *)
(***************************************************************************)
Arrived(bytes) ==
  {bytes} \cup IF "garbled" \in Faults
               THEN {[bytes EXCEPT ![1] = b] : b \in Byte} ELSE {}

(***************************************************************************)
(* The first read at 0 asks for the file's digest; the server may give it. *)
(***************************************************************************)
DigestAsked(r) == r.digest = "want" /\ r.pos = 0

DigestTaken(r, given) ==
  IF ~DigestAsked(r) THEN r
  ELSE IF given THEN [r EXCEPT !.digest = "active", !.expected = {fs[r.path].data}]
  ELSE [r EXCEPT !.digest = "off"]

(***************************************************************************)
(* One GET fills the read-ahead, or a read as big as the read-ahead itself.*)
(***************************************************************************)
ReadMiss(h, n) ==
  /\ FileHandle(h) /\ fh[h].pos < fh[h].size /\ ~InReadAhead(fh[h])
  /\ HasRange(fh[h].path, fh[h].pos)
  /\ reply' = "ok"
  /\ UNCHANGED <<readOnly, fs, cached>>
  /\ LET r == fh[h]
         ahead == Wanted(r, n) < ReadAhead
         fetch == IF ahead THEN Lower(ReadAhead, r.size - r.pos) ELSE Wanted(r, n)
         sent == RangeOf(r.path, r.pos, fetch)
     IN \E bytes \in Arrived(sent), given \in BOOLEAN :
          LET user == IF ahead THEN SubSeq(bytes, 1, Lower(Wanted(r, n), Len(bytes))) ELSE bytes
          IN /\ given => DigestAsked(r)
             /\ fh' = [fh EXCEPT ![h] =
                         [Consumed(DigestTaken(r, given), r.pos, user) EXCEPT
                            !.pos = @ + Len(user),
                            !.raStart = IF ahead THEN r.pos ELSE 0,
                            !.ra = IF ahead THEN bytes ELSE <<>>]]
             /\ Observe({}, {},
                  [hist EXCEPT ![h] =
                     [Heard(IF given THEN Offered(hist[h], fs[r.path].data) ELSE hist[h], user)
                        EXCEPT !.steady = @ /\ bytes = sent,
                               !.clean = ~r.dirty /\ bytes = sent]])

(***************************************************************************)
(* The GET fails, which it may when the file has shrunk under the handle:  *)
(* nothing is read and a digest still wanted is asked for again.           *)
(***************************************************************************)
ReadError(h) ==
  /\ FileHandle(h) /\ fh[h].pos < fh[h].size /\ ~InReadAhead(fh[h])
  /\ \/ fs[fh[h].path].kind # "file"
     \/ Len(fs[fh[h].path].data) < fh[h].size
     \/ MayGoUnanswered
  /\ reply' = "error"
  /\ UNCHANGED <<readOnly, fs, cached, fh>>
  /\ Observe({}, {}, hist)

-----------------------------------------------------------------------------
(* webfs_write, webfs_flush, webfs_close.                                  *)

\* Seeded fault: the first write does not mark the handle dirty.
StagedUnmarked(r, d) ==
  [(IF r.dirty THEN r ELSE Unsummed(r)) EXCEPT
     !.buf = @ \o d, !.pos = @ + Len(d),
     !.size = IF r.pos + Len(d) > @ THEN r.pos + Len(d) ELSE @,
     !.raStart = 0, !.ra = <<>>]

\* Seeded fault: the read-ahead outlives a write.
StagedOverReadAhead(r, d) ==
  [(IF r.dirty THEN r ELSE Unsummed(r)) EXCEPT
     !.dirty = TRUE, !.buf = @ \o d, !.pos = @ + Len(d),
     !.size = IF r.pos + Len(d) > @ THEN r.pos + Len(d) ELSE @]

(***************************************************************************)
(* The bytes go to the end of the staging buffer, whatever the position;   *)
(* the first ones give the checksum up.                                    *)
(***************************************************************************)
Staged(r, d) ==
  [(IF r.dirty THEN r ELSE Unsummed(r)) EXCEPT
     !.dirty = TRUE, !.buf = @ \o d, !.pos = @ + Len(d),
     !.size = IF r.pos + Len(d) > @ THEN r.pos + Len(d) ELSE @,
     !.raStart = 0, !.ra = <<>>]

Write(h, d) ==
  /\ FileHandle(h) /\ ~readOnly
  /\ Len(fh[h].buf) + Len(d) <= PutMax
  /\ fh[h].pos + Len(d) <= MaxLen
  /\ fh' = [fh EXCEPT ![h] = Staged(@, d)]
  /\ reply' = "ok"
  /\ UNCHANGED <<readOnly, fs, cached>>
  /\ Observe({}, {}, [hist EXCEPT ![h] = [Broken(hist[h]) EXCEPT !.owed = @ \o d]])

(***************************************************************************)
(* The staging buffer is at its limit or cannot grow: nothing is staged,   *)
(* but the handle is dirty by then, even by its first write.  Without      *)
(* memory for a first buffer nothing changes at all.                       *)
(***************************************************************************)
WriteFails(h, d) ==
  /\ FileHandle(h) /\ ~readOnly
  /\ Len(fh[h].buf) + Len(d) > PutMax \/ "memory" \in Faults
  /\ fh' = [fh EXCEPT ![h] = IF @.dirty THEN @ ELSE [Unsummed(@) EXCEPT !.dirty = TRUE]]
  /\ reply' = "error"
  /\ UNCHANGED <<readOnly, fs, cached>>
  /\ Observe({}, {}, [hist EXCEPT ![h] = [Broken(@) EXCEPT !.clean = FALSE]])

(***************************************************************************)
(* flush_put_buf's one PUT of the staged body; a connection that breaks on *)
(* the way leaves the part that arrived.                                   *)
(***************************************************************************)
Uploads(h) ==
  {Sent(fault, Put(fh[h].path, fh[h].buf)) : fault \in RequestFaults}
    \cup IF "cut" \in Faults
         THEN {Answer(0, Put(fh[h].path, SubSeq(fh[h].buf, 1, n)).fs) :
                 n \in 0..Len(fh[h].buf)}
         ELSE {}

\* Seeded fault: any reply to the upload will do.
UploadedAny(r) == r.code # 0

Uploaded(r) == r.code \in {200, 201, 204}

(***************************************************************************)
(* The staging buffer is given up whatever became of the upload.           *)
(***************************************************************************)
Flush(h) ==
  /\ Opened(h) /\ fh[h].dirty
  /\ \E r \in Uploads(h) :
       /\ fs' = r.fs
       /\ cached' = IF Uploaded(r) THEN Invalidated(cached, fh[h].path) ELSE cached
       /\ reply' = IF Uploaded(r) THEN "ok" ELSE "error"
       /\ fh' = [fh EXCEPT ![h].dirty = FALSE, ![h].buf = <<>>]
       /\ Observe(IF Uploaded(r) THEN {fh[h].path} ELSE {}, {h},
                  [hist EXCEPT ![h].owed = <<>>, ![h].flushed = Uploaded(r)])
  /\ UNCHANGED readOnly

\* Seeded fault: the checksum is compared however much was read.
VerdictAlways(r) ==
  IF r.digest # "active" THEN "none"
  ELSE IF r.consumed \in r.expected THEN "verified" ELSE "mismatch"

(***************************************************************************)
(* The verification at close: only of a file read whole and in order.      *)
(***************************************************************************)
Verdict(r) ==
  IF r.digest # "active" \/ Len(r.consumed) # r.size THEN "none"
  ELSE IF r.consumed \in r.expected THEN "verified" ELSE "mismatch"

CloseStatus(r, rc) == IF Verdict(r) = "mismatch" THEN "corrupted" ELSE rc

Close(h) ==
  /\ Opened(h)
  /\ IF fh[h].dirty
     THEN \E r \in Uploads(h) :
            /\ fs' = r.fs
            /\ cached' = IF Uploaded(r) THEN Invalidated(cached, fh[h].path) ELSE cached
            /\ reply' = CloseStatus(fh[h], IF Uploaded(r) THEN "ok" ELSE "error")
            /\ fh' = [fh EXCEPT ![h] = Closed]
            /\ Observe(IF Uploaded(r) THEN {fh[h].path} ELSE {}, {h}, hist)
     ELSE /\ reply' = CloseStatus(fh[h], "ok")
          /\ fh' = [fh EXCEPT ![h] = Closed]
          /\ UNCHANGED <<fs, cached>>
          /\ Observe({}, {}, hist)
  /\ UNCHANGED readOnly

-----------------------------------------------------------------------------
(* webfs_seek, webfs_del, webfs_set_info, webfs_get_info, webfs_read_dir.  *)

Seek(h, n) ==
  /\ FileHandle(h)
  /\ fh' = [fh EXCEPT ![h] = [Unsummed(@) EXCEPT !.pos = n]]
  /\ reply' = "ok"
  /\ UNCHANGED <<readOnly, fs, cached>>
  /\ Observe({}, {}, [hist EXCEPT ![h] = [Broken(@) EXCEPT !.flushed = FALSE]])

(***************************************************************************)
(* A directory only rewinds, over the snapshot it has.                     *)
(***************************************************************************)
Rewind(h) ==
  /\ Opened(h) /\ fh[h].dir
  /\ fh' = [fh EXCEPT ![h].left = UNION fh[h].snap]
  /\ reply' = "ok"
  /\ UNCHANGED <<readOnly, fs, cached>>
  /\ Observe({}, {}, hist)

(***************************************************************************)
(* The parent's listing is dropped whatever the server said; 404 counts as *)
(* done.  What the handle has staged stays staged.                         *)
(***************************************************************************)
Del(h) ==
  /\ Opened(h) /\ ~readOnly /\ fh[h].path # Root
  /\ cached' = Invalidated(cached, fh[h].path)
  /\ UNCHANGED <<readOnly, fh>>
  /\ \E fault \in RequestFaults :
       LET r == Sent(fault, Delete(fh[h].path))
           done == r.code \in {200, 204, 404}
       IN /\ fs' = r.fs
          /\ reply' = IF done THEN "ok" ELSE "error"
          /\ Observe(IF done THEN {fh[h].path} ELSE {}, {}, hist)

(***************************************************************************)
(* A new name is a rename within the directory; the handle follows it.     *)
(***************************************************************************)
SetInfo(h, name) ==
  /\ Opened(h) /\ ~readOnly /\ fh[h].path # Root
  /\ LET from == fh[h].path
         to == Parent(from) \o <<name>>
     IN /\ name # FileName(from) /\ to \in Path
        /\ \E fault \in RequestFaults :
             LET r == Sent(fault, Rename(from, to))
                 done == r.code \in {200, 201, 204}
             IN /\ fs' = r.fs
                /\ cached' = IF done THEN Invalidated(cached, from) ELSE cached
                /\ fh' = IF done THEN [fh EXCEPT ![h].path = to] ELSE fh
                /\ reply' = IF done THEN "ok" ELSE "error"
                /\ Observe(IF done THEN {from, to} ELSE {}, {}, hist)
  /\ UNCHANGED readOnly

(***************************************************************************)
(* Asks the parent's listing, so it may fill the cache; the handle's own   *)
(* knowledge answers when the listing does not.                            *)
(***************************************************************************)
GetInfo(h) ==
  /\ Opened(h) /\ fh[h].path # Root
  /\ \/ CanList(Parent(fh[h].path)) /\ cached' = Fetched(Parent(fh[h].path))
     \/ ListMayFail(Parent(fh[h].path)) /\ UNCHANGED cached
  /\ reply' = "ok"
  /\ UNCHANGED <<readOnly, fs, fh>>
  /\ Observe({}, {}, hist)

\* What remains of a listing when one entry, if there is any, is handed out.
AfterOne(l) == IF l = {} THEN {{}} ELSE {l \ {e} : e \in l}

(***************************************************************************)
(* The first entry asked for copies the whole listing into the handle.     *)
(***************************************************************************)
LoadSnapshot(h) ==
  /\ Opened(h) /\ fh[h].dir /\ fh[h].snap = {}
  /\ \/ /\ CanList(fh[h].path)
        /\ LET l == ListingOf(fh[h].path)
           IN \E left \in AfterOne(l) : fh' = [fh EXCEPT ![h].snap = {l}, ![h].left = left]
        /\ cached' = Fetched(fh[h].path)
        /\ reply' = "ok"
     \/ /\ ListMayFail(fh[h].path)
        /\ reply' = "error"
        /\ UNCHANGED <<cached, fh>>
  /\ UNCHANGED <<readOnly, fs>>
  /\ Observe({}, {}, hist)

ReadDir(h) ==
  /\ Opened(h) /\ fh[h].dir /\ fh[h].left # {}
  /\ \E left \in AfterOne(fh[h].left) : fh' = [fh EXCEPT ![h].left = left]
  /\ reply' = "ok"
  /\ UNCHANGED <<readOnly, fs, cached>>
  /\ Observe({}, {}, hist)

-----------------------------------------------------------------------------
(* The surroundings.                                                       *)

(***************************************************************************)
(* A listing expires or is evicted.                                        *)
(***************************************************************************)
Forget(d) ==
  /\ cached[d] # {}
  /\ cached' = [cached EXCEPT ![d] = {}]
  /\ UNCHANGED <<readOnly, fs, fh, reply>>
  /\ Observe({}, {}, hist)

(***************************************************************************)
(* Somebody else changes one entry of the server's tree.                   *)
(***************************************************************************)
OthersChange(p, node) ==
  /\ node # fs[p] /\ IsDir(fs, Parent(p)) /\ Children(fs, p) = {}
  /\ fs' = [fs EXCEPT ![p] = node]
  /\ UNCHANGED <<readOnly, cached, fh, reply>>
  /\ Observe({}, {}, hist)

Init ==
  /\ readOnly \in BOOLEAN
  /\ fs = [p \in Path |-> None]
  /\ cached = [d \in Directory |-> {}]
  /\ fh = [h \in Handle |-> Closed]
  /\ reply = "ok"
  /\ foreign = {}
  /\ side = {}
  /\ hist = [h \in Handle |-> NewHist]

Callback(h) ==
  \/ OpenRoot(h)
  \/ \E p \in Path : OpenFound(h, p) \/ OpenRefused(h, p) \/ OpenCreate(h, p)
  \/ \E n \in 1..MaxLen : ReadHit(h, n) \/ ReadMiss(h, n)
  \/ ReadError(h)
  \/ \E d \in Content \ {<<>>} : Write(h, d) \/ WriteFails(h, d)
  \/ Flush(h)
  \/ Close(h)
  \/ \E n \in 0..MaxLen : Seek(h, n)
  \/ Rewind(h)
  \/ Del(h)
  \/ \E name \in Name : SetInfo(h, name)
  \/ GetInfo(h)
  \/ LoadSnapshot(h)
  \/ ReadDir(h)

Next ==
  \/ \E h \in Handle : Callback(h)
  \/ \E d \in Directory : Forget(d)
  \/ \E p \in Path, node \in Node : OthersChange(p, node)

Spec == Init /\ [][Next]_vars

-----------------------------------------------------------------------------
(* Properties.                                                             *)

ListingValue ==
  SUBSET [name : Name, size : 0..MaxLen, dir : BOOLEAN]

HandleValue ==
  [open : {TRUE}, path : Directory, dir : BOOLEAN, size : 0..MaxLen, pos : 0..MaxLen,
   raStart : 0..MaxLen, ra : Content,
   digest : {"want", "active", "off"}, expected : SUBSET Content, consumed : Content,
   dirty : BOOLEAN, buf : Content,
   snap : {{}} \cup {{l} : l \in ListingValue}, left : ListingValue]

(***************************************************************************)
(* Every variable has its type, and only a dirty handle has staged bytes.  *)
(***************************************************************************)
TypeOK ==
  /\ readOnly \in BOOLEAN
  /\ fs \in [Path -> Node]
  /\ \A d \in Directory : cached[d] = {} \/ \E l \in ListingValue : cached[d] = {l}
  /\ \A h \in Handle :
       fh[h] # Closed => fh[h] \in HandleValue /\ (fh[h].buf # <<>> => fh[h].dirty)
  /\ reply \in {"ok", "error", "corrupted"}

(***************************************************************************)
(* A listing in the cache shows every change the mount was told its own    *)
(* requests had made: an entry differs from the server's only when others  *)
(* changed it, when the request's outcome never reached the mount, or when *)
(* it is one the request changed in passing (a parent that a PUT made, the *)
(* contents of a renamed directory).                                       *)
(***************************************************************************)
OwnChangesListed ==
  \A p \in Path \ (foreign \cup side) :
    cached[Parent(p)] # {} =>
      {e \in ListingOf(Parent(p)) : e.name = FileName(p)} =
        IF fs[p] = None THEN {} ELSE {Entry(fs, p)}

(***************************************************************************)
(* close reports corruption only when there was a reason: a byte arrived   *)
(* garbled, or the file was changed after it was listed for this open.     *)
(***************************************************************************)
NoFalseAlarm == \A h \in Handle : Opened(h) /\ Verdict(fh[h]) = "mismatch" => ~hist[h].steady

(***************************************************************************)
(* A file read from beginning to end, in whatever pieces and through the   *)
(* read-ahead or past it, with bytes that are not those the server gave    *)
(* the digest of, is reported at close.                                    *)
(***************************************************************************)
CorruptionCaught ==
  \A h \in Handle :
    /\ FileHandle(h)
    /\ hist[h].offered # {}
    /\ Len(hist[h].got) = fh[h].size /\ hist[h].got \notin hist[h].offered
    => Verdict(fh[h]) = "mismatch"

(***************************************************************************)
(* A flush or a close that reports success has left on the server exactly  *)
(* what was written since the flush before: nothing lost, nothing cut.     *)
(***************************************************************************)
FlushedWhole ==
  [][\A h \in Handle :
       FileHandle(h) /\ fh[h].dirty /\ (Flush(h) \/ Close(h)) /\ reply' = "ok" =>
         fs'[fh[h].path] = File(hist[h].owed)]_vars

(***************************************************************************)
(* What the read-ahead holds is what the server has, when nobody but the   *)
(* handle changes the file, the read-ahead was not filled between a write  *)
(* and its flush, and no write has failed since: the handle's own writes   *)
(* are never hidden by it.                                                 *)
(***************************************************************************)
ReadAheadCoherent ==
  \A h \in Handle :
    FileHandle(h) /\ hist[h].clean /\ fh[h].ra # <<>> =>
      LET data == fs[fh[h].path].data
          end == fh[h].raStart + Len(fh[h].ra)
      IN end <= Len(data) /\ fh[h].ra = SubSeq(data, fh[h].raStart + 1, end)

(***************************************************************************)
(* "close / flush drain the buffer in one PUT so the destination receives  *)
(* the full composed body" (webfs-internal.h): a handle that goes on       *)
(* writing after a flush adds to what it had flushed.                      *)
(***************************************************************************)
FlushComposes ==
  [][\A h \in Handle :
       FileHandle(h) /\ fh[h].dirty /\ hist[h].flushed /\ (Flush(h) \/ Close(h)) /\ reply' = "ok" =>
         LET old == fs[fh[h].path].data
             new == fs'[fh[h].path].data
         IN Len(old) <= Len(new) /\ SubSeq(new, 1, Len(old)) = old]_vars

(***************************************************************************)
(* "close: flushes any buffered PUT body" (Design.md): a flush or a close  *)
(* with nothing buffered leaves a file as it is, also when a write of the  *)
(* handle has failed.                                                      *)
(***************************************************************************)
EmptyBufferIsNotSent ==
  [][\A h \in Handle :
       FileHandle(h) /\ fh[h].buf = <<>> /\ fs[fh[h].path].kind = "file"
         /\ (Flush(h) \/ Close(h)) => fs'[fh[h].path] = fs[fh[h].path]]_vars

(***************************************************************************)
(* "open (existing): GET /list/<parent> (check exists)" (Design.md): an    *)
(* open of a file that exists does not change the file, also when the open *)
(* would create one that does not.                                         *)
(***************************************************************************)
OpenKeepsExisting ==
  [][\A h \in Handle, p \in Path :
       OpenCreate(h, p) /\ fs[p].kind = "file" => fs'[p] = fs[p]]_vars
=============================================================================
