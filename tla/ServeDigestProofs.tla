------------------------ MODULE ServeDigestProofs -------------------------
(***************************************************************************)
(* Proofs about ServeDigest, for any volume, number of uploads and         *)
(* downloads: that a response is as long as it says and its digest one of  *)
(* a content of its size, whatever happens to the file; and, where files   *)
(* change only through the server, by uploads that replace them and moves  *)
(* that name them as they are cached, that the digests are right.          *)
(***************************************************************************)
EXTENDS ServeDigest, SequenceTheorems, TLAPS

(***************************************************************************)
(* The invariant, as far as these proofs need the types: contents are      *)
(* sequences of bytes, an open handle is inside its slice, and a digest is *)
(* of a content of the size it is kept or sent with.                       *)
(***************************************************************************)
Bytes == Seq(Byte)

Fields ==
  {"path", "bytes", "size", "start", "length", "remaining", "sent", "digest", "stage"}

HandleFits(t) ==
  /\ DOMAIN t = Fields
  /\ t.bytes \in Bytes /\ t.sent \in Bytes
  /\ t.start \in Nat /\ t.length \in Nat /\ t.remaining \in Nat
  /\ Len(t.sent) + t.remaining = t.length
  /\ t.stage = "sent" => t.remaining = 0
  /\ \A d \in t.digest : Len(d) = t.size

StreamsFit(s) == DOMAIN s = Stream /\ \A k \in Stream : \A t \in s[k] : HandleFits(t)

FilesFit(f) == f \in [Path -> SUBSET Bytes]

WriteFits(w) ==
  /\ DOMAIN w = {"at", "body", "inPlace", "before"}
  /\ w.at \in Spelling /\ w.body \in Bytes /\ w.before \in SUBSET Bytes

UploadsFit(up) == DOMAIN up = Upload /\ \A u \in Upload : \A w \in up[u] : WriteFits(w)

SlotsFit(c) == DOMAIN c = Spelling /\ \A s \in Spelling : \A e \in c[s] : e.size = Len(e.digest)

Fits == FilesFit(file) /\ SlotsFit(cache) /\ UploadsFit(upload) /\ StreamsFit(stream)

(***************************************************************************)
(* Contents are sequences of bytes.                                        *)
(***************************************************************************)
LEMMA ContentIsBytes == Content \subseteq Bytes
<1> SUFFICES ASSUME NEW n \in 0..MaxLen, NEW c \in [1..n -> Byte] PROVE c \in Seq(Byte)
    BY DEF Content, Bytes
<1>1. n \in Nat
    BY BoundAssumption
<1> QED BY <1>1

(***************************************************************************)
(* What a handle sends next: bytes the file has, no more than are asked.   *)
(***************************************************************************)
Position(t) == t.start + Len(t.sent)

NextBytes(t, n) == SubSeq(t.bytes, Position(t) + 1, Position(t) + n)

LEMMA NextFitsHandle ==
  ASSUME NEW t, HandleFits(t), NEW room \in Rooms, t.remaining # 0, Got(t, room) # 0
  PROVE  /\ Position(t) \in Nat
         /\ Got(t, room) \in 1 .. t.remaining
         /\ Position(t) + Got(t, room) <= Len(t.bytes)
         /\ t.sent \o NextBytes(t, Got(t, room)) \in Bytes
         /\ Len(t.sent \o NextBytes(t, Got(t, room))) = Len(t.sent) + Got(t, room)
<1> DEFINE n == Got(t, room)
           at == Position(t)
           next == NextBytes(t, n)
<1>1. at \in Nat /\ Len(t.bytes) \in Nat
    BY DEF HandleFits, Bytes, Position
<1>2. room \in Nat
    BY BoundAssumption
<1>3. n \in Nat /\ n <= t.remaining /\ at + n <= Len(t.bytes) /\ n > 0
    BY <1>1, <1>2 DEF Got, Asked, Least, Left, HandleFits, Position
<1>4. \A i \in at + 1 .. at + n : t.bytes[i] \in Byte
    BY <1>1, <1>3 DEF HandleFits, Bytes
<1>5. next \in Seq(Byte) /\ Len(next) = n
    <2>1. next = SubSeq(t.bytes, at + 1, at + n)
        BY DEF NextBytes
    <2> HIDE DEF n, at, next
    <2>2. at + 1 \in Int /\ at + n \in Int /\ at + 1 <= at + n
        BY <1>1, <1>3
    <2> QED BY <2>1, <2>2, <1>1, <1>3, <1>4, SubSeqProperties
<1>6. t.sent \o next \in Bytes /\ Len(t.sent \o next) = Len(t.sent) + n
    <2> HIDE DEF n, next
    <2> QED BY <1>5, ConcatProperties DEF HandleFits, Bytes
<1>7. n \in 1 .. t.remaining
    BY <1>3 DEF HandleFits
<1> QED BY <1>1, <1>3, <1>6, <1>7

(***************************************************************************)
(* Sending it keeps the handle inside its slice.                           *)
(***************************************************************************)
LEMMA PulledFits ==
  ASSUME NEW t, HandleFits(t), NEW room \in Rooms, t.remaining # 0, Got(t, room) # 0,
         t.stage = "open"
  PROVE  HandleFits(Pulled(t, Got(t, room)))
<1> DEFINE n == Got(t, room)
           next == NextBytes(t, n)
           u == [t EXCEPT !.remaining = t.remaining - n, !.sent = t.sent \o next]
<1>1. n \in 1 .. t.remaining /\ t.sent \o next \in Bytes /\ Len(t.sent \o next) = Len(t.sent) + n
    BY NextFitsHandle
<1>2. Pulled(t, n) = u
    BY DEF Pulled, NextBytes, Position
<1>3. /\ u.bytes = t.bytes /\ u.start = t.start /\ u.length = t.length /\ u.stage = t.stage
      /\ u.remaining = t.remaining - n /\ u.sent = t.sent \o next /\ DOMAIN u = Fields
      /\ u.digest = t.digest /\ u.size = t.size
    <2> HIDE DEF n, next
    <2> QED BY DEF HandleFits, Fields
<1>4. HandleFits(u)
    <2>1. Len(t.sent) \in Nat /\ n \in Nat /\ n <= t.remaining
        BY <1>1 DEF HandleFits, Bytes
    <2>2. t.remaining - n \in Nat /\ Len(t.sent) + n + (t.remaining - n) = t.length
        BY <2>1 DEF HandleFits
    <2> HIDE DEF n, next, u
    <2> QED BY <2>2, <1>1, <1>3 DEF HandleFits
<1> QED BY <1>2, <1>4

(***************************************************************************)
(* What else happens to a handle: it is opened, sent to its end, loses or  *)
(* changes its path, or finds other bytes.                                 *)
(***************************************************************************)
LEMMA OpenedFits ==
  ASSUME NEW s, NEW c \in Bytes, NEW slice \in Slices(Len(c)), NEW digest,
         \A d \in digest : Len(d) = Len(c)
  PROVE  HandleFits(Opened(s, c, slice, digest))
<1>1. Len(c) \in Nat
    BY DEF Bytes
<1>2. slice[1] \in Nat /\ slice[2] \in Nat
    BY <1>1 DEF Slices
<1>3. <<>> \in Bytes /\ Len(<<>>) = 0
    BY DEF Bytes
<1> QED BY <1>2, <1>3 DEF Opened, HandleFits, Fields

LEMMA SentFits ==
  ASSUME NEW t, HandleFits(t), t.remaining = 0, NEW u \in Sent(t)
  PROVE  HandleFits(u)
BY DEF Sent, HandleFits, Fields

LEMMA FollowFits ==
  ASSUME StreamsFit(stream), NEW at
  PROVE  StreamsFit(Follow(at))
<1> SUFFICES ASSUME NEW k \in Stream, NEW t \in stream[k], NEW p
             PROVE  HandleFits([t EXCEPT !.path = p])
    BY DEF StreamsFit, Follow
<1>1. HandleFits(t)
    BY DEF StreamsFit
<1> QED BY <1>1 DEF HandleFits, Fields

LEMMA OverwrittenFits ==
  ASSUME StreamsFit(stream), NEW p, NEW c \in Bytes
  PROVE  StreamsFit(Overwritten(p, c))
<1> SUFFICES ASSUME NEW k \in Stream, NEW t \in stream[k], NEW b, b = t.bytes \/ b = c
             PROVE  HandleFits([t EXCEPT !.bytes = b])
    BY DEF StreamsFit, Overwritten
<1>1. HandleFits(t)
    BY DEF StreamsFit
<1> QED BY <1>1 DEF HandleFits, Fields

(***************************************************************************)
(* The cache: what is dropped leaves the rest, and what is answered and    *)
(* kept is of the size of the file.                                        *)
(***************************************************************************)
LEMMA InvalidatedFits ==
  ASSUME SlotsFit(cache), NEW spellings
  PROVE  SlotsFit(Invalidated(spellings))
BY DEF SlotsFit, Invalidated

LEMMA DigestForFits ==
  ASSUME SlotsFit(cache), NEW s \in Spelling, NEW c, NEW want, NEW d \in DigestFor(s, c, want)
  PROVE  /\ SlotsFit(d.cache)
         /\ \A x \in d.digest : Len(x) = Len(c)
<1> DEFINE hits == Hits(s, Len(c))
           known == Digested({e.digest : e \in hits}, cache)
           taken == Digested({c}, [cache EXCEPT ![s] = {Slot(c)}])
           none == Digested({}, cache)
<1>1. d \in {known, taken, none}
    BY DEF DigestFor, ComputeFileDigest
<1>2. CASE d = none
    BY <1>2 DEF Digested
<1>3. CASE d = known
  <2>1. d.cache = cache /\ d.digest = {e.digest : e \in hits}
      BY <1>3 DEF Digested
  <2>2. \A e \in hits : Len(e.digest) = Len(c)
      BY DEF Hits, SlotsFit
  <2> QED BY <2>1, <2>2
<1>4. CASE d = taken
  <2>1. d.cache = [cache EXCEPT ![s] = {Slot(c)}] /\ d.digest = {c}
      BY <1>4 DEF Digested
  <2>2. Slot(c).size = Len(Slot(c).digest)
      BY DEF Slot
  <2> QED BY <2>1, <2>2 DEF SlotsFit
<1> QED BY <1>1, <1>2, <1>3, <1>4

(***************************************************************************)
(* Every step keeps the invariant.                                         *)
(***************************************************************************)
LEMMA InitFits == Init => Fits
<1> SUFFICES ASSUME Init PROVE Fits
    OBVIOUS
<1>1. FilesFit(file)
    BY ContentIsBytes DEF Init, FilesFit
<1>2. SlotsFit(cache) /\ UploadsFit(upload) /\ StreamsFit(stream)
    BY DEF Init, SlotsFit, UploadsFit, StreamsFit
<1> QED BY <1>1, <1>2 DEF Fits

LEMMA GetFits ==
  ASSUME Fits, NEW k \in Stream, NEW s \in Spelling, Get(k, s)
  PROVE  Fits'
<1>1. PICK c \in file[At(s)], want \in BOOLEAN :
        \E slice \in Slices(Len(c)), d \in DigestFor(s, c, want) :
          /\ cache' = d.cache
          /\ stream' = [stream EXCEPT ![k] = {Opened(s, c, slice, d.digest)}]
    BY DEF Get
<1>2. PICK slice \in Slices(Len(c)), d \in DigestFor(s, c, want) :
        /\ cache' = d.cache
        /\ stream' = [stream EXCEPT ![k] = {Opened(s, c, slice, d.digest)}]
    BY <1>1
<1>3. c \in Bytes
    BY DEF Fits, FilesFit, Spelling, At
<1>4. SlotsFit(d.cache) /\ \A x \in d.digest : Len(x) = Len(c)
    BY DigestForFits DEF Fits
<1>5. HandleFits(Opened(s, c, slice, d.digest))
    BY <1>3, <1>4, OpenedFits
<1>6. StreamsFit(stream')
    BY <1>2, <1>5 DEF Fits, StreamsFit
<1> QED BY <1>2, <1>4, <1>6 DEF Get, Fits

LEMMA GetHeadersFits ==
  ASSUME Fits, NEW s \in Spelling, GetHeaders(s)
  PROVE  Fits'
<1>1. PICK c \in file[At(s)] : \E d \in DigestFor(s, c, TRUE) : cache' = d.cache
    BY DEF GetHeaders
<1>2. SlotsFit(cache')
    BY <1>1, DigestForFits DEF Fits
<1> QED BY <1>2 DEF GetHeaders, Fits

LEMMA PullFits ==
  ASSUME Fits, NEW k \in Stream, Pull(k)
  PROVE  Fits'
<1>1. PICK t \in stream[k], room \in Rooms :
        t.stage = "open" /\ \E r \in PullResult(t, room) : stream' = [stream EXCEPT ![k] = r]
    BY DEF Pull
<1>2. PICK r \in PullResult(t, room) : stream' = [stream EXCEPT ![k] = r]
    BY <1>1
<1>3. HandleFits(t)
    BY DEF Fits, StreamsFit
<1>4. ASSUME NEW u \in r PROVE HandleFits(u)
  <2>1. CASE t.remaining = 0
    <3>1. u \in Sent(t)
        BY <1>2, <2>1 DEF PullResult
    <3> QED BY <3>1, <2>1, <1>3, SentFits
  <2>2. CASE t.remaining # 0
    <3>1. Got(t, room) # 0 /\ u = Pulled(t, Got(t, room))
        BY <1>2, <2>2 DEF PullResult, BrokenOff
    <3> QED BY <3>1, <2>2, <1>1, <1>3, PulledFits
  <2> QED BY <2>1, <2>2
<1>5. StreamsFit(stream')
    BY <1>2, <1>4 DEF Fits, StreamsFit
<1> QED BY <1>5 DEF Pull, Fits

LEMMA HangupFits ==
  ASSUME Fits, NEW k \in Stream, Hangup(k)
  PROVE  Fits'
<1>1. stream' = [stream EXCEPT ![k] = {}]
    BY DEF Hangup, BrokenOff
<1>2. StreamsFit(stream')
    BY <1>1 DEF Fits, StreamsFit
<1> QED BY <1>2 DEF Hangup, Fits

LEMMA ShownFits ==
  ASSUME Fits, NEW u \in Upload, NEW w, WriteFits(w), Shown(u, w)
  PROVE  Fits'
<1>1. UploadsFit(upload')
    BY DEF Shown, Fits, UploadsFit
<1>2. FilesFit(file') /\ StreamsFit(stream')
  <2>1. CASE w.inPlace
    <3>1. w.body \in Bytes /\ At(w.at) \in Path
        BY DEF WriteFits, Spelling, At
    <3>2. FilesFit(file')
        BY <2>1, <3>1 DEF Shown, Fits, FilesFit
    <3>3. StreamsFit(stream')
        BY <2>1, <3>1, OverwrittenFits DEF Shown, Fits
    <3> QED BY <3>2, <3>3
  <2>2. CASE ~w.inPlace
      BY <2>2 DEF Shown, Fits
  <2> QED BY <2>1, <2>2
<1> QED BY <1>1, <1>2 DEF Shown, Fits

LEMMA PutOpenFits ==
  ASSUME Fits, NEW u \in Upload, NEW s \in Spelling, PutOpen(u, s)
  PROVE  Fits'
<1>1. PICK ip \in InPlace :
        Shown(u, [at |-> s, body |-> <<>>, inPlace |-> ip, before |-> file[At(s)]])
    BY DEF PutOpen
<1>2. <<>> \in Bytes /\ file[At(s)] \in SUBSET Bytes
    BY DEF Bytes, Fits, FilesFit, Spelling, At
<1>3. WriteFits([at |-> s, body |-> <<>>, inPlace |-> ip, before |-> file[At(s)]])
    BY <1>2 DEF WriteFits
<1> QED BY <1>1, <1>3, ShownFits

LEMMA PutWriteFits ==
  ASSUME Fits, NEW u \in Upload, NEW b \in Byte, PutWrite(u, b)
  PROVE  Fits'
<1>1. PICK w \in upload[u] : Shown(u, [w EXCEPT !.body = Append(@, b)])
    BY DEF PutWrite
<1>2. WriteFits(w)
    BY DEF Fits, UploadsFit
<1>3. Append(w.body, b) \in Bytes
    BY <1>2 DEF WriteFits, Bytes
<1>4. WriteFits([w EXCEPT !.body = Append(@, b)])
    BY <1>2, <1>3 DEF WriteFits
<1> QED BY <1>1, <1>4, ShownFits

LEMMA PutOverFits ==
  ASSUME UploadsFit(upload), NEW u \in Upload, PutOver(u)
  PROVE  UploadsFit(upload')
BY DEF PutOver, UploadsFit

LEMMA UnlinkedFits ==
  ASSUME StreamsFit(stream), NEW p
  PROVE  StreamsFit(Unlinked(p))
BY FollowFits DEF Unlinked

LEMMA PutCommitFits ==
  ASSUME Fits, NEW u \in Upload, PutCommit(u)
  PROVE  Fits'
<1>1. PICK w \in upload[u] :
       \/ /\ file' = [file EXCEPT ![At(w.at)] = {w.body}]
          /\ cache' = Invalidated({w.at})
          /\ stream' = IF w.inPlace THEN stream ELSE Unlinked(At(w.at))
       \/ /\ cache' = IF w.inPlace THEN Invalidated({w.at}) ELSE cache
          /\ UNCHANGED <<file, stream>>
    BY DEF PutCommit
<1>2. WriteFits(w)
    BY DEF Fits, UploadsFit
<1>3. FilesFit(file')
    BY <1>1, <1>2 DEF Fits, FilesFit, WriteFits
<1>4. SlotsFit(cache')
    BY <1>1, InvalidatedFits DEF Fits
<1>5. StreamsFit(stream')
    BY <1>1, UnlinkedFits DEF Fits
<1>6. UploadsFit(upload')
    BY PutOverFits DEF PutCommit, Fits
<1> QED BY <1>3, <1>4, <1>5, <1>6 DEF Fits

LEMMA PutDiscardFits ==
  ASSUME Fits, NEW u \in Upload, PutDiscard(u)
  PROVE  Fits'
<1>1. PICK w \in upload[u] :
       \/ /\ w.inPlace
          /\ cache' = Invalidated({w.at})
          /\ UNCHANGED <<file, stream>>
       \/ /\ IF w.inPlace
             THEN /\ file' = [file EXCEPT ![At(w.at)] = w.before]
                  /\ stream' = IF w.before = {} THEN Unlinked(At(w.at))
                               ELSE Overwritten(At(w.at), CHOOSE c \in w.before : TRUE)
             ELSE UNCHANGED <<file, stream>>
          /\ UNCHANGED cache
    BY DEF PutDiscard
<1>2. WriteFits(w)
    BY DEF Fits, UploadsFit
<1>3. FilesFit(file')
    BY <1>1, <1>2 DEF Fits, FilesFit, WriteFits
<1>4. SlotsFit(cache')
    BY <1>1, InvalidatedFits DEF Fits
<1>5. StreamsFit(stream')
  <2>1. StreamsFit(stream) /\ StreamsFit(Unlinked(At(w.at)))
      BY UnlinkedFits DEF Fits
  <2>2. w.before # {} => (CHOOSE c \in w.before : TRUE) \in Bytes
      BY <1>2 DEF WriteFits
  <2>3. w.before # {} => StreamsFit(Overwritten(At(w.at), CHOOSE c \in w.before : TRUE))
      BY <2>1, <2>2, OverwrittenFits
  <2> QED BY <1>1, <2>1, <2>3
<1>6. UploadsFit(upload')
    BY PutOverFits DEF PutDiscard, Fits
<1> QED BY <1>3, <1>4, <1>5, <1>6 DEF Fits

LEMMA RemovedFits ==
  ASSUME Fits, NEW s \in Spelling, DavRemove(s) \/ RestDelete(s)
  PROVE  Fits'
<1>1. Removed(At(s)) /\ (cache' = Invalidated({s}) \/ cache' = cache)
    BY DEF DavRemove, RestDelete
<1>2. FilesFit(file')
    BY <1>1 DEF Removed, Fits, FilesFit
<1>3. SlotsFit(cache')
    BY <1>1, InvalidatedFits DEF Fits
<1>4. StreamsFit(stream')
    BY <1>1, UnlinkedFits DEF Removed, Fits
<1> QED BY <1>1, <1>2, <1>3, <1>4 DEF Removed, Fits

LEMMA DavMoveFits ==
  ASSUME Fits, NEW s \in Spelling, NEW d \in Spelling, DavMove(s, d)
  PROVE  Fits'
<1>1. file[At(s)] \in SUBSET Bytes
    BY DEF Fits, FilesFit, Spelling, At
<1>2. FilesFit(file')
  <2>1. CASE Rename(s, d)
    <3>1. file' = [file EXCEPT ![At(s)] = {}, ![At(d)] = file[At(s)]]
        BY <2>1 DEF Rename
    <3> QED BY <3>1, <1>1 DEF Fits, FilesFit
  <2>2. CASE HalfMove(s, d)
      BY <2>2, <1>1 DEF HalfMove, Fits, FilesFit
  <2> QED BY <2>1, <2>2 DEF DavMove
<1>3. SlotsFit(cache')
    BY InvalidatedFits DEF DavMove, Rename, HalfMove, Fits
<1>4. StreamsFit(stream')
    BY FollowFits, UnlinkedFits DEF DavMove, Rename, HalfMove, Fits
<1> QED BY <1>2, <1>3, <1>4 DEF DavMove, Fits

LEMMA MoveDirFits ==
  ASSUME Fits, NEW d \in Movable, NEW e \in Movable, MoveDir(d, e)
  PROVE  Fits'
<1>1. FilesFit(file')
  <2>1. file' = [p \in Path |-> IF p[1] = d THEN {} ELSE
                               IF p[1] = e THEN file[<<d, p[2]>>] ELSE file[p]]
      BY DEF MoveDir
  <2>2. \A p \in Path : <<d, p[2]>> \in Path
      BY PathAssumption DEF Path
  <2> QED BY <2>1, <2>2 DEF Fits, FilesFit
<1>2. StreamsFit(stream')
    BY FollowFits DEF MoveDir, Fits
<1> QED BY <1>1, <1>2 DEF MoveDir, Fits

LEMMA ForgetFits ==
  ASSUME Fits, NEW s \in Spelling, Forget(s)
  PROVE  Fits'
<1>1. SlotsFit(cache')
    BY InvalidatedFits DEF Forget, Fits
<1> QED BY <1>1 DEF Forget, Fits

LEMMA LocalWriteFits ==
  ASSUME Fits, NEW p \in Path, NEW c \in Local, LocalWrite(p, c)
  PROVE  Fits'
<1>1. c \in Bytes
    BY BoundAssumption, ContentIsBytes
<1>2. FilesFit(file')
    BY <1>1 DEF LocalWrite, Fits, FilesFit
<1>3. StreamsFit(stream')
    BY <1>1, OverwrittenFits DEF LocalWrite, Fits
<1> QED BY <1>2, <1>3 DEF LocalWrite, Fits

LEMMA NextFits == Fits /\ [Next]_vars => Fits'
<1> SUFFICES ASSUME Fits, [Next]_vars PROVE Fits'
    OBVIOUS
<1>1. CASE UNCHANGED vars
    BY <1>1 DEF vars, Fits
<1>2. ASSUME NEW s \in Spelling, NEW k \in Stream, Get(k, s) PROVE Fits'
    BY <1>2, GetFits
<1>3. ASSUME NEW s \in Spelling, GetHeaders(s) PROVE Fits'
    BY <1>3, GetHeadersFits
<1>4. ASSUME NEW s \in Spelling, NEW u \in Upload, PutOpen(u, s) PROVE Fits'
    BY <1>4, PutOpenFits
<1>5. ASSUME NEW s \in Spelling, DavRemove(s) \/ RestDelete(s) PROVE Fits'
    BY <1>5, RemovedFits
<1>6. ASSUME NEW s \in Spelling, NEW d \in Spelling, DavMove(s, d) PROVE Fits'
    BY <1>6, DavMoveFits
<1>7. ASSUME NEW s \in Spelling, Forget(s) PROVE Fits'
    BY <1>7, ForgetFits
<1>8. ASSUME NEW k \in Stream, Pull(k) \/ Hangup(k) PROVE Fits'
    BY <1>8, PullFits, HangupFits
<1>9. ASSUME NEW u \in Upload, NEW b \in Byte, PutWrite(u, b) PROVE Fits'
    BY <1>9, PutWriteFits
<1>10. ASSUME NEW u \in Upload, PutCommit(u) \/ PutDiscard(u) PROVE Fits'
    BY <1>10, PutCommitFits, PutDiscardFits
<1>11. ASSUME NEW d \in Movable, NEW e \in Movable, MoveDir(d, e) PROVE Fits'
    BY <1>11, MoveDirFits
<1>12. ASSUME NEW p \in Path, NEW c \in Local, LocalWrite(p, c) PROVE Fits'
    BY <1>12, LocalWriteFits
<1> QED
    BY <1>1, <1>2, <1>3, <1>4, <1>5, <1>6, <1>7, <1>8, <1>9, <1>10, <1>11, <1>12 DEF Next

(***************************************************************************)
(* The invariant holds of every volume and any use of it.                  *)
(***************************************************************************)
THEOREM FitsHolds == Spec => []Fits
BY InitFits, NextFits, PTL DEF Spec

(***************************************************************************)
(* A response is as long as its Content-Length or broken off, whatever     *)
(* becomes of the file (get_streamer_pull, webfs-serve.c).                 *)
(***************************************************************************)
THEOREM BodyFitsLengthHolds == Spec => []BodyFitsLength
<1>1. Fits => BodyFitsLength
  <2> SUFFICES ASSUME Fits, NEW k \in Stream, NEW t \in stream[k]
               PROVE  Len(t.sent) + t.remaining = t.length /\ (t.stage = "sent" => Len(t.sent) = t.length)
      BY DEF BodyFitsLength
  <2>1. HandleFits(t)
      BY DEF Fits, StreamsFit
  <2>2. Len(t.sent) \in Nat
      BY <2>1 DEF HandleFits, Bytes
  <2> QED BY <2>1, <2>2 DEF HandleFits
<1> QED BY <1>1, FitsHolds, PTL

(***************************************************************************)
(* The digest sent is that of a content of the size sent, whatever changed *)
(* the file without dropping its digest (compute_file_digest).             *)
(***************************************************************************)
THEOREM DigestFitsSizeHolds == Spec => []DigestFitsSize
<1>1. Fits => DigestFitsSize
    BY DEF Fits, StreamsFit, HandleFits, DigestFitsSize
<1> QED BY <1>1, FitsHolds, PTL


-----------------------------------------------------------------------------
(***************************************************************************)
(* Where files change only through the server, by uploads to a temp and by *)
(* moves of files that succeed or change nothing, and a client has one     *)
(* spelling for a path, the digests are right.                             *)
(***************************************************************************)
ReplacedOnly ==
  /\ InPlace \subseteq {FALSE} /\ HalfMoves \subseteq {FALSE}
  /\ Local = {} /\ Movable = {}
  /\ \A a, b \in Case : a = b

Single(f) == \A p \in Path : AtMostOne(f[p])

Right(slots, f) ==
  \A s \in Spelling : \A e \in slots[s], c \in f[At(s)] : e.size = Len(c) => e.digest = c

ToTemps == \A u \in Upload : \A w \in upload[u] : ~w.inPlace

Faithful(t) ==
  /\ Len(t.bytes) = t.size
  /\ t.start + t.length <= Len(t.bytes)
  /\ t.sent = SubSeq(t.bytes, t.start + 1, t.start + Len(t.sent))
  /\ \A d \in t.digest : d = t.bytes

AllFaithful(s) == \A k \in Stream : \A t \in s[k] : Faithful(t)

Honest ==
  /\ Fits
  /\ Single(file) /\ Right(cache, file) /\ ToTemps /\ AllFaithful(stream)

(***************************************************************************)
(* The cache is right about what is not changed.                           *)
(***************************************************************************)
LEMMA OneSpelling ==
  ASSUME ReplacedOnly, NEW s \in Spelling, NEW r \in Spelling, At(s) = At(r)
  PROVE  s = r
BY DEF ReplacedOnly, Spelling, At

LEMMA RightWithout ==
  ASSUME Right(cache, file), NEW spellings, NEW f,
         \A s \in Spelling \ spellings : f[At(s)] \subseteq file[At(s)]
  PROVE  Right(Invalidated(spellings), f)
BY DEF Right, Invalidated

LEMMA DigestForRight ==
  ASSUME Fits, Right(cache, file), Single(file), NEW s \in Spelling, NEW c \in file[At(s)],
         NEW want, NEW d \in DigestFor(s, c, want)
  PROVE  /\ Right(d.cache, file)
         /\ \A x \in d.digest : x = c
<1> DEFINE hits == Hits(s, Len(c))
           known == Digested({e.digest : e \in hits}, cache)
           taken == Digested({c}, [cache EXCEPT ![s] = {Slot(c)}])
           none == Digested({}, cache)
<1>1. d \in {known, taken, none}
    BY DEF DigestFor, ComputeFileDigest
<1>2. CASE d = none
    BY <1>2 DEF Digested
<1>3. CASE d = known
  <2>1. d.cache = cache /\ d.digest = {e.digest : e \in hits}
      BY <1>3 DEF Digested
  <2>2. \A e \in hits : e.digest = c
      BY DEF Hits, Right
  <2> QED BY <2>1, <2>2
<1>4. CASE d = taken
  <2>1. d.cache = [cache EXCEPT ![s] = {Slot(c)}] /\ d.digest = {c}
      BY <1>4 DEF Digested
  <2>2. Slot(c).digest = c
      BY DEF Slot
  <2>3. \A x \in file[At(s)] : x = c
      BY DEF Single, AtMostOne, Spelling, At
  <2>4. DOMAIN cache = Spelling
      BY DEF Fits, SlotsFit
  <2>5. ASSUME NEW r \in Spelling, NEW e \in d.cache[r], NEW x \in file[At(r)], e.size = Len(x)
        PROVE  e.digest = x
    <3>1. CASE r = s
        BY <3>1, <2>1, <2>2, <2>3, <2>4, <2>5
    <3>2. CASE r # s
        BY <3>2, <2>1, <2>4, <2>5 DEF Right
    <3> QED BY <3>1, <3>2
  <2> QED BY <2>1, <2>5 DEF Right
<1> QED BY <1>1, <1>2, <1>3, <1>4

(***************************************************************************)
(* What is sent next is what comes next in the file.                       *)
(***************************************************************************)
LEMMA OpenedFaithful ==
  ASSUME NEW s, NEW c \in Bytes, NEW slice \in Slices(Len(c)), NEW digest,
         \A d \in digest : d = c
  PROVE  Faithful(Opened(s, c, slice, digest))
<1>1. Len(c) \in Nat
    BY DEF Bytes
<1>2. slice[1] \in Nat /\ slice[2] \in Nat /\ slice[1] + slice[2] <= Len(c)
    BY <1>1 DEF Slices
<1>3. SubSeq(c, slice[1] + 1, slice[1] + Len(<<>>)) = <<>>
  <2>1. slice[1] + Len(<<>>) < slice[1] + 1 /\ slice[1] + Len(<<>>) \in Int
      BY <1>2
  <2> QED BY <1>2, <2>1, SubSeqEmpty
<1> QED BY <1>2, <1>3 DEF Opened, Faithful

(***************************************************************************)
(* The bounds of adjacent pieces, for the concatenation below.             *)
(***************************************************************************)
LEMMA Between ==
  ASSUME NEW start \in Nat, NEW sent \in Nat, NEW n \in Nat, NEW len \in Nat,
         start + sent + n <= len
  PROVE  /\ start + 1 \in 1 .. len + 1
         /\ start + sent \in (start + 1) - 1 .. len
         /\ start + sent + n \in start + sent .. len
OBVIOUS

(***************************************************************************)
(* A piece is the next one of the slice, wherever the handle stands.       *)
(***************************************************************************)
LEMMA PulledFaithful ==
  ASSUME NEW t, HandleFits(t), Faithful(t), NEW room \in Rooms, t.remaining # 0,
         Got(t, room) # 0
  PROVE  Faithful(Pulled(t, Got(t, room)))
<1> DEFINE n == Got(t, room)
           at == Position(t)
           next == NextBytes(t, n)
           u == [t EXCEPT !.remaining = t.remaining - n, !.sent = t.sent \o next]
<1>1. /\ at \in Nat /\ n \in 1 .. t.remaining /\ at + n <= Len(t.bytes)
      /\ Len(t.sent \o next) = Len(t.sent) + n
    BY NextFitsHandle
<1>2. /\ t.bytes \in Seq(Byte) /\ Len(t.bytes) \in Nat /\ Len(t.sent) \in Nat
      /\ t.start \in Nat /\ t.remaining \in Nat
    BY DEF HandleFits, Bytes
<1>3. t.sent \o next = SubSeq(t.bytes, t.start + 1, at + n)
  <2>1. t.sent = SubSeq(t.bytes, t.start + 1, at) /\ next = SubSeq(t.bytes, at + 1, at + n)
      BY DEF Faithful, NextBytes, Position
  <2>2. at = t.start + Len(t.sent)
      BY DEF Position
  <2> HIDE DEF n, at, next
  <2>3. n \in Nat
      BY <1>1, <1>2
  <2>4. t.start + 1 \in 1 .. Len(t.bytes) + 1 /\ at \in (t.start + 1) - 1 .. Len(t.bytes)
        /\ at + n \in at .. Len(t.bytes)
      BY <2>2, <2>3, <1>1, <1>2, Between
  <2> QED BY <2>1, <2>4, <1>2, ConcatAdjacentSubSeq
<1>4. Pulled(t, n) = u
    BY DEF Pulled, NextBytes, Position
<1>5. /\ u.bytes = t.bytes /\ u.start = t.start /\ u.length = t.length /\ u.size = t.size
      /\ u.sent = t.sent \o next /\ u.digest = t.digest
  <2> HIDE DEF n, next
  <2> QED BY DEF HandleFits, Fields
<1>6. t.start + Len(u.sent) = at + n
  <2>1. at = t.start + Len(t.sent) /\ Len(u.sent) = Len(t.sent) + n
      BY <1>1, <1>5 DEF Position
  <2> HIDE DEF n, at, next, u
  <2> QED BY <2>1, <1>1, <1>2
<1>7. Faithful(u)
  <2> HIDE DEF n, at, next, u
  <2> QED BY <1>3, <1>5, <1>6 DEF Faithful
<1> QED BY <1>4, <1>7

LEMMA SentFaithful ==
  ASSUME NEW t, HandleFits(t), Faithful(t), NEW u \in Sent(t)
  PROVE  Faithful(u)
BY DEF Sent, HandleFits, Fields, Faithful

LEMMA FollowFaithful ==
  ASSUME StreamsFit(stream), AllFaithful(stream), NEW at
  PROVE  AllFaithful(Follow(at))
<1> SUFFICES ASSUME NEW k \in Stream, NEW t \in stream[k], NEW p
             PROVE  Faithful([t EXCEPT !.path = p])
    BY DEF AllFaithful, Follow
<1>1. HandleFits(t) /\ Faithful(t)
    BY DEF StreamsFit, AllFaithful
<1> QED BY <1>1 DEF HandleFits, Fields, Faithful


(***************************************************************************)
(* Every step keeps the digests right.  That the shape of the state is     *)
(* kept is known (NextFits).                                               *)
(***************************************************************************)
Same == Single(file') /\ Right(cache', file') /\ ToTemps' /\ AllFaithful(stream')

LEMMA GetHonest ==
  ASSUME Honest, NEW k \in Stream, NEW s \in Spelling, Get(k, s)
  PROVE  Same
<1>1. PICK c \in file[At(s)], want \in BOOLEAN :
        \E slice \in Slices(Len(c)), d \in DigestFor(s, c, want) :
          /\ cache' = d.cache
          /\ stream' = [stream EXCEPT ![k] = {Opened(s, c, slice, d.digest)}]
    BY DEF Get
<1>2. PICK slice \in Slices(Len(c)), d \in DigestFor(s, c, want) :
        /\ cache' = d.cache
        /\ stream' = [stream EXCEPT ![k] = {Opened(s, c, slice, d.digest)}]
    BY <1>1
<1>3. c \in Bytes
    BY DEF Honest, Fits, FilesFit, Spelling, At
<1>4. Right(d.cache, file) /\ \A x \in d.digest : x = c
    BY DigestForRight DEF Honest
<1>5. Faithful(Opened(s, c, slice, d.digest))
    BY <1>3, <1>4, OpenedFaithful
<1>6. AllFaithful(stream')
    BY <1>2, <1>5 DEF Honest, Fits, StreamsFit, AllFaithful
<1>7. file' = file /\ upload' = upload
    BY DEF Get
<1> QED BY <1>2, <1>4, <1>6, <1>7 DEF Honest, Same, ToTemps

LEMMA GetHeadersHonest ==
  ASSUME Honest, NEW s \in Spelling, GetHeaders(s)
  PROVE  Same
<1>1. PICK c \in file[At(s)] : \E d \in DigestFor(s, c, TRUE) : cache' = d.cache
    BY DEF GetHeaders
<1>2. PICK d \in DigestFor(s, c, TRUE) : cache' = d.cache
    BY <1>1
<1>3. Right(cache', file)
  <2>1. Right(d.cache, file)
      BY DigestForRight DEF Honest
  <2> QED BY <1>2, <2>1
<1>4. file' = file /\ upload' = upload /\ stream' = stream
    BY DEF GetHeaders
<1> QED BY <1>3, <1>4 DEF Honest, Same, ToTemps

LEMMA PullHonest ==
  ASSUME Honest, NEW k \in Stream, Pull(k)
  PROVE  Same
<1>1. PICK t \in stream[k], room \in Rooms :
        t.stage = "open" /\ \E r \in PullResult(t, room) : stream' = [stream EXCEPT ![k] = r]
    BY DEF Pull
<1>2. PICK r \in PullResult(t, room) : stream' = [stream EXCEPT ![k] = r]
    BY <1>1
<1>3. HandleFits(t) /\ Faithful(t)
    BY DEF Honest, Fits, StreamsFit, AllFaithful
<1>4. ASSUME NEW u \in r PROVE Faithful(u)
  <2>1. CASE t.remaining = 0
    <3>1. u \in Sent(t)
        BY <1>2, <2>1 DEF PullResult
    <3> QED BY <3>1, <1>3, SentFaithful
  <2>2. CASE t.remaining # 0
    <3>1. Got(t, room) # 0 /\ u = Pulled(t, Got(t, room))
        BY <1>2, <2>2 DEF PullResult, BrokenOff
    <3> QED BY <3>1, <2>2, <1>3, PulledFaithful
  <2> QED BY <2>1, <2>2
<1>5. AllFaithful(stream')
    BY <1>2, <1>4 DEF Honest, Fits, StreamsFit, AllFaithful
<1>6. file' = file /\ upload' = upload /\ cache' = cache
    BY DEF Pull
<1> QED BY <1>5, <1>6 DEF Honest, Same, ToTemps

LEMMA HangupHonest ==
  ASSUME Honest, NEW k \in Stream, Hangup(k)
  PROVE  Same
<1>1. stream' = [stream EXCEPT ![k] = {}]
    BY DEF Hangup, BrokenOff
<1>2. AllFaithful(stream')
    BY <1>1 DEF Honest, Fits, StreamsFit, AllFaithful
<1>3. file' = file /\ upload' = upload /\ cache' = cache
    BY DEF Hangup
<1> QED BY <1>2, <1>3 DEF Honest, Same, ToTemps

LEMMA ShownHonest ==
  ASSUME Honest, NEW u \in Upload, NEW w, ~w.inPlace, Shown(u, w)
  PROVE  Same
<1>1. upload' = [upload EXCEPT ![u] = {w}]
    BY DEF Shown
<1>2. ToTemps'
    BY <1>1 DEF Honest, Fits, UploadsFit, ToTemps
<1>3. file' = file /\ cache' = cache /\ stream' = stream
    BY DEF Shown
<1> QED BY <1>2, <1>3 DEF Honest, Same

LEMMA PutOpenHonest ==
  ASSUME Honest, ReplacedOnly, NEW u \in Upload, NEW s \in Spelling, PutOpen(u, s)
  PROVE  Same
<1>1. PICK ip \in InPlace :
        Shown(u, [at |-> s, body |-> <<>>, inPlace |-> ip, before |-> file[At(s)]])
    BY DEF PutOpen
<1>2. ip = FALSE
    BY DEF ReplacedOnly
<1>3. ~[at |-> s, body |-> <<>>, inPlace |-> ip, before |-> file[At(s)]].inPlace
    BY <1>2
<1> QED BY <1>1, <1>3, ShownHonest

LEMMA PutWriteHonest ==
  ASSUME Honest, NEW u \in Upload, NEW b \in Byte, PutWrite(u, b)
  PROVE  Same
<1>1. PICK w \in upload[u] : Shown(u, [w EXCEPT !.body = Append(@, b)])
    BY DEF PutWrite
<1>2. WriteFits(w) /\ ~w.inPlace
    BY DEF Honest, Fits, UploadsFit, ToTemps
<1>3. ~[w EXCEPT !.body = Append(@, b)].inPlace
    BY <1>2 DEF WriteFits
<1> QED BY <1>1, <1>3, ShownHonest

LEMMA PutOverHonest ==
  ASSUME UploadsFit(upload), ToTemps, NEW u \in Upload, PutOver(u)
  PROVE  ToTemps'
BY DEF PutOver, UploadsFit, ToTemps

(***************************************************************************)
(* A commit changes the bytes at a path, and drops the one digest there.   *)
(***************************************************************************)
LEMMA PutCommitHonest ==
  ASSUME Honest, ReplacedOnly, NEW u \in Upload, PutCommit(u)
  PROVE  Same
<1>1. PICK w \in upload[u] :
       \/ /\ file' = [file EXCEPT ![At(w.at)] = {w.body}]
          /\ cache' = Invalidated({w.at})
          /\ stream' = IF w.inPlace THEN stream ELSE Unlinked(At(w.at))
       \/ /\ cache' = IF w.inPlace THEN Invalidated({w.at}) ELSE cache
          /\ UNCHANGED <<file, stream>>
    BY DEF PutCommit
<1>2. w.at \in Spelling /\ ~w.inPlace
    BY DEF Honest, Fits, UploadsFit, WriteFits, ToTemps
<1>3. ToTemps'
    BY PutOverHonest DEF PutCommit, Honest, Fits
<1>4. CASE file' = file /\ cache' = cache /\ stream' = stream
    BY <1>3, <1>4 DEF Honest, Same
<1>5. CASE /\ file' = [file EXCEPT ![At(w.at)] = {w.body}]
           /\ cache' = Invalidated({w.at})
           /\ stream' = Unlinked(At(w.at))
  <2>1. \A s \in Spelling \ {w.at} : At(s) \in Path /\ At(s) # At(w.at)
      BY <1>2, OneSpelling DEF Spelling, At
  <2>2. \A s \in Spelling \ {w.at} : file'[At(s)] = file[At(s)]
      BY <1>5, <2>1 DEF Honest, Fits, FilesFit
  <2>3. Right(cache', file')
      BY <1>5, <2>2, RightWithout DEF Honest
  <2>4. Single(file')
      BY <1>5 DEF Honest, Fits, FilesFit, Single, AtMostOne
  <2>5. AllFaithful(stream')
      BY <1>5, FollowFaithful DEF Unlinked, Honest, Fits
  <2> QED BY <1>3, <2>3, <2>4, <2>5 DEF Same
<1> QED BY <1>1, <1>2, <1>4, <1>5

LEMMA PutDiscardHonest ==
  ASSUME Honest, NEW u \in Upload, PutDiscard(u)
  PROVE  Same
<1>1. \A w \in upload[u] : ~w.inPlace
    BY DEF Honest, ToTemps
<1>2. file' = file /\ cache' = cache /\ stream' = stream
    BY <1>1 DEF PutDiscard
<1>3. ToTemps'
    BY PutOverHonest DEF PutDiscard, Honest, Fits
<1> QED BY <1>2, <1>3 DEF Honest, Same

(***************************************************************************)
(* A removal leaves nothing the kept digest could be wrong about.          *)
(***************************************************************************)
LEMMA RemovedHonest ==
  ASSUME Honest, NEW s \in Spelling, DavRemove(s) \/ RestDelete(s)
  PROVE  Same
<1>1. Removed(At(s)) /\ (cache' = Invalidated({s}) \/ cache' = cache)
    BY DEF DavRemove, RestDelete
<1>2. file' = [file EXCEPT ![At(s)] = {}] /\ stream' = Unlinked(At(s)) /\ upload' = upload
    BY <1>1 DEF Removed
<1>3. \A p \in Path : file'[p] \subseteq file[p]
    BY <1>2 DEF Honest, Fits, FilesFit
<1>4. Single(file')
    BY <1>3 DEF Honest, Single, AtMostOne
<1>5. \A r \in Spelling : At(r) \in Path
    BY DEF Spelling, At
<1>6. Right(cache', file')
  <2>1. CASE cache' = Invalidated({s})
      BY <2>1, <1>3, <1>5, RightWithout DEF Honest
  <2>2. CASE cache' = cache
      BY <2>2, <1>3, <1>5 DEF Honest, Right
  <2> QED BY <2>1, <2>2, <1>1
<1>7. AllFaithful(stream')
    BY <1>2, FollowFaithful DEF Unlinked, Honest, Fits
<1> QED BY <1>2, <1>4, <1>6, <1>7 DEF Honest, Same, ToTemps

(***************************************************************************)
(* A move changes the bytes at two paths, and drops the digests of both.   *)
(***************************************************************************)
LEMMA DavMoveHonest ==
  ASSUME Honest, ReplacedOnly, NEW s \in Spelling, NEW d \in Spelling, DavMove(s, d)
  PROVE  Same
<1>1. Rename(s, d)
    BY DEF DavMove, HalfMove, ReplacedOnly
<1>2. PICK moved : moved = file[At(s)]
    OBVIOUS
<1>3. file' = [file EXCEPT ![At(s)] = {}, ![At(d)] = moved] /\ cache' = Invalidated({s, d})
    BY <1>1, <1>2 DEF Rename
<1>4. At(s) \in Path /\ At(d) \in Path /\ At(s) # At(d)
    BY DEF DavMove, Spelling, At
<1>5. \A p \in Path : file'[p] = IF p = At(d) THEN moved ELSE IF p = At(s) THEN {} ELSE file[p]
    BY <1>3, <1>4 DEF Honest, Fits, FilesFit
<1>6. \A r \in Spelling \ {s, d} : At(r) \in Path /\ At(r) # At(s) /\ At(r) # At(d)
    BY OneSpelling DEF Spelling, At
<1>7. Right(cache', file')
  <2>1. \A r \in Spelling \ {s, d} : file'[At(r)] = file[At(r)]
      BY <1>5, <1>6
  <2>2. Right(Invalidated({s, d}), file')
      BY <2>1, RightWithout DEF Honest
  <2> QED BY <1>3, <2>2
<1>8. Single(file')
    BY <1>2, <1>4, <1>5 DEF Honest, Single, AtMostOne
<1>9. AllFaithful(stream')
    BY <1>1, FollowFaithful DEF Rename, Honest, Fits
<1>10. upload' = upload
    BY DEF DavMove
<1> QED BY <1>7, <1>8, <1>9, <1>10 DEF Honest, Same, ToTemps

LEMMA ForgetHonest ==
  ASSUME Honest, NEW s \in Spelling, Forget(s)
  PROVE  Same
<1>1. Right(cache', file)
    BY RightWithout DEF Forget, Honest
<1>2. file' = file /\ upload' = upload /\ stream' = stream
    BY DEF Forget
<1> QED BY <1>1, <1>2 DEF Honest, Same, ToTemps

LEMMA NextHonest ==
  ASSUME ReplacedOnly, Honest, [Next]_vars
  PROVE  Honest'
<1>1. Fits'
    BY NextFits DEF Honest
<1>2. CASE UNCHANGED vars
    BY <1>1, <1>2 DEF vars, Honest, ToTemps
<1>3. CASE Next
  <2>1. ASSUME NEW s \in Spelling, NEW k \in Stream, Get(k, s) PROVE Same
      BY <2>1, GetHonest
  <2>2. ASSUME NEW s \in Spelling, GetHeaders(s) PROVE Same
      BY <2>2, GetHeadersHonest
  <2>3. ASSUME NEW s \in Spelling, NEW u \in Upload, PutOpen(u, s) PROVE Same
      BY <2>3, PutOpenHonest
  <2>4. ASSUME NEW s \in Spelling, DavRemove(s) \/ RestDelete(s) PROVE Same
      BY <2>4, RemovedHonest
  <2>5. ASSUME NEW s \in Spelling, NEW d \in Spelling, DavMove(s, d) PROVE Same
      BY <2>5, DavMoveHonest
  <2>6. ASSUME NEW s \in Spelling, Forget(s) PROVE Same
      BY <2>6, ForgetHonest
  <2>7. ASSUME NEW k \in Stream, Pull(k) \/ Hangup(k) PROVE Same
      BY <2>7, PullHonest, HangupHonest
  <2>8. ASSUME NEW u \in Upload, NEW b \in Byte, PutWrite(u, b) PROVE Same
      BY <2>8, PutWriteHonest
  <2>9. ASSUME NEW u \in Upload, PutCommit(u) \/ PutDiscard(u) PROVE Same
      BY <2>9, PutCommitHonest, PutDiscardHonest
  <2>10. Movable = {} /\ Local = {}
      BY DEF ReplacedOnly
  <2>11. Same
      BY <1>3, <2>1, <2>2, <2>3, <2>4, <2>5, <2>6, <2>7, <2>8, <2>9, <2>10 DEF Next
  <2> QED BY <1>1, <2>11 DEF Same, Honest
<1> QED BY <1>2, <1>3

LEMMA InitHonest == Init => Honest
<1> SUFFICES ASSUME Init PROVE Honest
    OBVIOUS
<1>1. Fits
    BY InitFits
<1>2. Single(file)
    BY DEF Init, Single, AtMostOne
<1>3. Right(cache, file) /\ ToTemps /\ AllFaithful(stream)
    BY DEF Init, Right, ToTemps, AllFaithful
<1> QED BY <1>1, <1>2, <1>3 DEF Honest

(***************************************************************************)
(* The invariant of a volume that only changes by uploads and moves.       *)
(***************************************************************************)
THEOREM HonestHolds ==
  ASSUME ReplacedOnly
  PROVE  Spec => []Honest
<1>1. Honest /\ [Next]_vars => Honest'
    BY NextHonest
<1> QED BY <1>1, InitHonest, PTL DEF Spec

(***************************************************************************)
(* A digest answered from the cache is that of the file as it is           *)
(* (compute_file_digest and the callers of invalidate_file_digest).        *)
(***************************************************************************)
THEOREM DigestIsOfFileHolds ==
  ASSUME ReplacedOnly
  PROVE  Spec => []DigestIsOfFile
<1>1. Honest => DigestIsOfFile
    BY DEF Honest, Right, DigestIsOfFile
<1> QED BY <1>1, HonestHolds, PTL

(***************************************************************************)
(* A download sent to its end is the slice of the file as it was when      *)
(* asked for, and its digest that of the same bytes, whatever is stored    *)
(* meanwhile (handle_get_path and get_streamer_pull).                      *)
(***************************************************************************)
THEOREM BodyIsTheSliceHolds ==
  ASSUME ReplacedOnly
  PROVE  Spec => []BodyIsTheSlice
<1>1. Honest => BodyIsTheSlice
  <2> SUFFICES ASSUME Honest, NEW k \in Stream, NEW t \in stream[k], t.stage = "sent"
               PROVE  /\ t.sent = SubSeq(t.bytes, t.start + 1, t.start + t.length)
                      /\ Len(t.bytes) = t.size
                      /\ \A d \in t.digest : d = t.bytes
      BY DEF BodyIsTheSlice
  <2>1. HandleFits(t) /\ Faithful(t)
      BY DEF Honest, Fits, StreamsFit, AllFaithful
  <2>2. Len(t.sent) \in Nat
      BY <2>1 DEF HandleFits, Bytes
  <2>3. Len(t.sent) = t.length
      BY <2>1, <2>2 DEF HandleFits
  <2> QED BY <2>1, <2>3 DEF Faithful
<1> QED BY <1>1, HonestHolds, PTL

=============================================================================
