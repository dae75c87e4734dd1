--------------------------- MODULE MountFileProofs ---------------------------
(***************************************************************************)
(* Proofs about MountFile, for any handles, names, paths and bytes, any    *)
(* bounds and any faults.                                                  *)
(***************************************************************************)
EXTENDS MountFile, SequenceTheorems, TLAPS

-----------------------------------------------------------------------------
(* The invariant.                                                          *)

Text == Seq(Byte)

(***************************************************************************)
(* part is what there is in whole from at on.                              *)
(***************************************************************************)
IsPart(part, whole, at) ==
  at + Len(part) <= Len(whole) /\ \A i \in 1..Len(part) : part[i] = whole[at + i]

HistValue ==
  [owed : Text, flushed : BOOLEAN, got : Text, offered : {{}} \cup {{c} : c \in Content},
   steady : BOOLEAN, clean : BOOLEAN]

(***************************************************************************)
(* What there is where a handle is.                                        *)
(***************************************************************************)
NodeAt(f, p) == IF p = Root THEN Dir ELSE f[p]

(***************************************************************************)
(* Only files are written to and summed.                                   *)
(***************************************************************************)
KindFits(r) ==
  /\ ~r.dir => r.path \in Path
  /\ r.dirty \/ r.digest # "off" => ~r.dir
  /\ r.buf # <<>> => r.dirty
  /\ r.digest # "active" => r.consumed = <<>>

(***************************************************************************)
(* What is staged is what is owed.                                         *)
(***************************************************************************)
StagedIsOwed(r, w) == w.owed = r.buf

(***************************************************************************)
(* While the reads are one after the other the bytes heard are the bytes   *)
(* summed, up to where the next read is.                                   *)
(***************************************************************************)
HeardIsSummed(r, w) ==
  IF w.offered = {} THEN w.got = <<>>
  ELSE r.digest = "active" /\ r.expected = w.offered /\ r.consumed = w.got /\ r.pos = Len(w.got)

(***************************************************************************)
(* Of a file nobody has changed, what is read ahead and what is summed are *)
(* parts, and the digest is its own; a write may have made the handle      *)
(* think it longer.                                                        *)
(***************************************************************************)
SteadyIsHad(r, w, n) ==
  w.steady =>
    /\ n.kind = "file" /\ Len(n.data) <= r.size
    /\ r.ra # <<>> => IsPart(r.ra, n.data, r.raStart)
    /\ r.digest = "active" => r.expected = {n.data} /\ IsPart(r.consumed, n.data, 0)

(***************************************************************************)
(* A clean read-ahead is part of the file, and its handle has nothing to   *)
(* upload: that would outdate it.                                          *)
(***************************************************************************)
CleanIsHad(r, w, n) ==
  w.clean /\ r.ra # <<>> => ~r.dirty /\ IsPart(r.ra, n.data, r.raStart)

Good(r, w, n) ==
  /\ r \in HandleValue /\ w \in HistValue
  /\ KindFits(r) /\ StagedIsOwed(r, w) /\ HeardIsSummed(r, w)
  /\ SteadyIsHad(r, w, n) /\ CleanIsHad(r, w, n)

Held == {{}} \cup {{l} : l \in ListingValue}

World ==
  /\ readOnly \in BOOLEAN /\ fs \in [Path -> Node] /\ cached \in [Directory -> Held]
  /\ reply \in {"ok", "error", "corrupted"}

HandlesGood ==
  /\ fh \in [Handle -> HandleValue \cup {Closed}]
  /\ hist \in [Handle -> HistValue]
  /\ \A h \in Handle : Opened(h) => Good(fh[h], hist[h], NodeAt(fs, fh[h].path))

Inv == World /\ HandlesGood

-----------------------------------------------------------------------------
(* Sequences.                                                              *)

LEMMA ContentIsText == \A c : c \in Content <=> c \in Text /\ Len(c) <= MaxLen
<1>1. ASSUME NEW c, c \in Content
      PROVE  c \in Text /\ Len(c) <= MaxLen
  <2>1. PICK n \in 0..MaxLen : c \in [1..n -> Byte]
    BY <1>1 DEF Content
  <2>2. n \in Nat /\ n <= MaxLen
    BY SizeAssumption
  <2>3. c \in Text
    BY <2>1, <2>2 DEF Text
  <2>4. Len(c) \in Nat /\ DOMAIN c = 1..Len(c)
    BY <2>3, LenProperties DEF Text
  <2>5. Len(c) = n
    BY <2>1, <2>2, <2>4
  <2> QED
    BY <2>2, <2>3, <2>5
<1>2. ASSUME NEW c, c \in Text, Len(c) <= MaxLen
      PROVE  c \in Content
  <2>1. Len(c) \in 0..MaxLen /\ c \in [1..Len(c) -> Byte]
    BY <1>2, SizeAssumption, LenProperties DEF Text
  <2> QED
    BY <2>1 DEF Content
<1> QED
  BY <1>1, <1>2

LEMMA Empty == <<>> \in Text /\ <<>> \in Content /\ Len(<<>>) = 0
<1>1. <<>> \in Text /\ Len(<<>>) = 0
  BY EmptySeq DEF Text
<1> QED
  BY <1>1, SizeAssumption, ContentIsText

LEMMA LenIsNat == \A s \in Text : Len(s) \in Nat /\ (Len(s) = 0 <=> s = <<>>)
BY LenProperties, EmptySeq DEF Text

LEMMA SameText ==
  ASSUME NEW s \in Text, NEW t \in Text, Len(s) = Len(t),
         \A i \in 1..Len(s) : s[i] = t[i]
  PROVE  s = t
BY SeqEqual DEF Text

LEMMA Piece ==
  ASSUME NEW s \in Text, NEW a \in Nat, NEW k \in Nat, a + k <= Len(s)
  PROVE  /\ SubSeq(s, a + 1, a + k) \in Text
         /\ Len(SubSeq(s, a + 1, a + k)) = k
         /\ \A i \in 1..k : SubSeq(s, a + 1, a + k)[i] = s[a + i]
<1> DEFINE m == a + 1
           n == a + k
<1>1. m \in Int /\ n \in Int /\ Len(s) \in Nat
  BY LenIsNat
<1>2. \A i \in m..n : s[i] \in Byte
  BY <1>1, ElementOfSeq DEF Text
<1>3. /\ SubSeq(s, m, n) \in Seq(Byte)
      /\ Len(SubSeq(s, m, n)) = IF m <= n THEN n - m + 1 ELSE 0
      /\ \A i \in 1..(n - m + 1) : SubSeq(s, m, n)[i] = s[m + i - 1]
  BY <1>1, <1>2, SubSeqProperties
<1>4. n - m + 1 = k /\ \A i \in 1..k : m + i - 1 = a + i
  OBVIOUS
<1> QED
  BY <1>1, <1>3, <1>4 DEF Text

LEMMA Joined ==
  ASSUME NEW s \in Text, NEW t \in Text
  PROVE  s \o t \in Text /\ Len(s \o t) = Len(s) + Len(t)
BY ConcatProperties DEF Text

LEMMA PartsJoin ==
  ASSUME NEW s \in Text, NEW t \in Text, NEW whole \in Text, NEW a \in Nat,
         IsPart(s, whole, a), IsPart(t, whole, a + Len(s))
  PROVE  IsPart(s \o t, whole, a)
<1>1. /\ Len(s) \in Nat /\ Len(t) \in Nat /\ Len(whole) \in Nat
      /\ Len(s \o t) = Len(s) + Len(t)
  BY Joined, LenIsNat
<1>2. ASSUME NEW i \in 1..Len(s \o t)
      PROVE  (s \o t)[i] = whole[a + i]
  <2>1. (s \o t)[i] = IF i <= Len(s) THEN s[i] ELSE t[i - Len(s)]
    BY <1>1, ConcatProperties DEF Text
  <2>2. CASE i <= Len(s)
    BY <2>1, <2>2, <1>1 DEF IsPart
  <2>3. CASE i > Len(s)
    <3> DEFINE j == i - Len(s)
    <3>1. j \in 1..Len(t) /\ a + Len(s) + j = a + i
      BY <2>3, <1>1
    <3>2. t[j] = whole[a + Len(s) + j]
      BY <3>1 DEF IsPart
    <3> QED
      BY <2>1, <2>3, <3>1, <3>2, <1>1
  <2> QED
    BY <2>2, <2>3, <1>1
<1> QED
  BY <1>1, <1>2 DEF IsPart

LEMMA PieceOfPart ==
  ASSUME NEW s \in Text, NEW whole \in Text, NEW a \in Nat, NEW b \in Nat, NEW k \in Nat,
         b + k <= Len(s), IsPart(s, whole, a)
  PROVE  IsPart(SubSeq(s, b + 1, b + k), whole, a + b)
<1> DEFINE t == SubSeq(s, b + 1, b + k)
<1>1. Len(s) \in Nat /\ Len(whole) \in Nat /\ Len(t) = k /\ \A i \in 1..k : t[i] = s[b + i]
  BY Piece, LenIsNat
<1>2. ASSUME NEW i \in 1..k
      PROVE  t[i] = whole[a + b + i]
  <2>1. b + i \in 1..Len(s) /\ a + (b + i) = a + b + i
    BY <1>1
  <2>2. s[b + i] = whole[a + (b + i)]
    BY <2>1 DEF IsPart
  <2> QED
    BY <1>1, <2>1, <2>2
<1>3. a + b + Len(t) <= Len(whole)
  BY <1>1 DEF IsPart
<1> HIDE DEF t
<1>4. IsPart(t, whole, a + b)
  BY <1>1, <1>2, <1>3 DEF IsPart
<1> QED
  BY <1>4 DEF t

LEMMA PieceIsPart ==
  ASSUME NEW whole \in Text, NEW a \in Nat, NEW k \in Nat, a + k <= Len(whole)
  PROVE  IsPart(SubSeq(whole, a + 1, a + k), whole, a)
BY Piece DEF IsPart

LEMMA PartIsPiece ==
  ASSUME NEW s \in Text, NEW whole \in Text, NEW a \in Nat, IsPart(s, whole, a)
  PROVE  s = SubSeq(whole, a + 1, a + Len(s))
<1> DEFINE t == SubSeq(whole, a + 1, a + Len(s))
<1>1. Len(s) \in Nat /\ a + Len(s) <= Len(whole)
  BY LenIsNat DEF IsPart
<1>2. t \in Text /\ Len(t) = Len(s) /\ \A i \in 1..Len(s) : t[i] = whole[a + i]
  BY <1>1, Piece
<1>3. \A i \in 1..Len(s) : s[i] = t[i]
  BY <1>2 DEF IsPart
<1> QED
  BY <1>2, <1>3, SameText

LEMMA PartOfAllIsAll ==
  ASSUME NEW s \in Text, NEW whole \in Text, IsPart(s, whole, 0), Len(whole) <= Len(s)
  PROVE  s = whole
<1>1. Len(s) \in Nat /\ Len(whole) \in Nat
  BY LenIsNat
<1>2. Len(s) = Len(whole) /\ \A i \in 1..Len(s) : 0 + i = i
  BY <1>1 DEF IsPart
<1>3. \A i \in 1..Len(s) : s[i] = whole[i]
  BY <1>2 DEF IsPart
<1> QED
  BY <1>2, <1>3, SameText

LEMMA LowerIs ==
  \A m, n \in Nat : /\ Lower(m, n) \in Nat /\ Lower(m, n) <= m /\ Lower(m, n) <= n
                    /\ Lower(m, n) = m \/ Lower(m, n) = n
BY DEF Lower

-----------------------------------------------------------------------------
(* Handles.                                                                *)

LEMMA HandleFields ==
  ASSUME NEW r \in HandleValue
  PROVE
    /\ r.open /\ r.path \in Directory /\ r.dir \in BOOLEAN
    /\ r.size \in Nat /\ r.size <= MaxLen /\ r.pos \in Nat /\ r.pos <= MaxLen
    /\ r.raStart \in Nat
    /\ r.ra \in Text /\ r.consumed \in Text /\ r.buf \in Text
    /\ r.digest \in {"want", "active", "off"} /\ r.expected \in SUBSET Content
    /\ r.dirty \in BOOLEAN
<1>1. r.size \in 0..MaxLen /\ r.pos \in 0..MaxLen /\ r.raStart \in 0..MaxLen
  BY DEF HandleValue
<1>2. r.ra \in Content /\ r.consumed \in Content /\ r.buf \in Content
  BY DEF HandleValue
<1>3. /\ r.open /\ r.path \in Directory /\ r.dir \in BOOLEAN /\ r.dirty \in BOOLEAN
      /\ r.digest \in {"want", "active", "off"} /\ r.expected \in SUBSET Content
  BY DEF HandleValue
<1>4. r.ra \in Text /\ r.consumed \in Text /\ r.buf \in Text
  BY <1>2, ContentIsText
<1> QED
  BY <1>1, <1>3, <1>4, SizeAssumption

LEMMA HistFields ==
  \A w \in HistValue :
    /\ w.owed \in Text /\ w.flushed \in BOOLEAN /\ w.got \in Text
    /\ w.steady \in BOOLEAN /\ w.clean \in BOOLEAN
    /\ w.offered = {} \/ \E c \in Content : w.offered = {c}
BY DEF HistValue

LEMMA NewHandleIs ==
  ASSUME NEW p \in Directory, NEW isDir \in BOOLEAN, NEW size \in 0..MaxLen
  PROVE  NewHandle(p, isDir, size) \in HandleValue
BY Empty, SizeAssumption DEF NewHandle, HandleValue, ListingValue

LEMMA NewHistIs == NewHist \in HistValue
BY Empty DEF NewHist, HistValue

(***************************************************************************)
(* Giving the checksum up.                                                 *)
(***************************************************************************)
LEMMA UnsummedIs ==
  ASSUME NEW r \in HandleValue, KindFits(r)
  PROVE  LET u == Unsummed(r)
         IN /\ u \in HandleValue /\ KindFits(u)
            /\ u.path = r.path /\ u.dir = r.dir /\ u.size = r.size /\ u.pos = r.pos
            /\ u.raStart = r.raStart /\ u.ra = r.ra /\ u.dirty = r.dirty /\ u.buf = r.buf
            /\ u.digest # "active"
            /\ r.digest = "off" => u.digest = "off"
BY Empty DEF Unsummed, HandleValue, KindFits

LEMMA ConsumedIs ==
  ASSUME NEW r \in HandleValue, KindFits(r), NEW at \in Nat, NEW bytes \in Text,
         at + Len(bytes) <= MaxLen
  PROVE  LET c == Consumed(r, at, bytes)
         IN /\ c \in HandleValue /\ KindFits(c)
            /\ c.path = r.path /\ c.dir = r.dir /\ c.size = r.size /\ c.pos = r.pos
            /\ c.raStart = r.raStart /\ c.ra = r.ra /\ c.dirty = r.dirty /\ c.buf = r.buf
            /\ r.digest # "active" => c = r
            /\ r.digest = "active" /\ at # Len(r.consumed) => c.digest = "off"
            /\ r.digest = "active" /\ at = Len(r.consumed) =>
                 /\ c.digest = "active" /\ c.expected = r.expected
                 /\ c.consumed = r.consumed \o bytes
<1> DEFINE c == Consumed(r, at, bytes)
<1>1. CASE r.digest # "active"
  <2>1. c = r
    BY <1>1 DEF Consumed
  <2> QED
    BY <1>1, <2>1
<1>2. CASE r.digest = "active" /\ at # Len(r.consumed)
  <2>1. c = [r EXCEPT !.digest = "off", !.expected = {}, !.consumed = <<>>]
    BY <1>2 DEF Consumed, Unsummed
  <2>2. c = Unsummed(r)
    BY <1>2 DEF Consumed
  <2>3. c.digest = "off"
    BY <2>1, <1>2 DEF HandleValue
  <2> QED
    BY <1>2, <2>2, <2>3, UnsummedIs
<1>3. CASE r.digest = "active" /\ at = Len(r.consumed)
  <2>1. c = [r EXCEPT !.consumed = r.consumed \o bytes]
    BY <1>3 DEF Consumed
  <2>2. r.consumed \in Text
    BY HandleFields
  <2>3. r.consumed \o bytes \in Content
    BY <1>3, <2>2, Joined, ContentIsText
  <2> QED
    BY <1>3, <2>1, <2>3 DEF HandleValue, KindFits
<1> QED
  BY <1>1, <1>2, <1>3

LEMMA StagedIs ==
  ASSUME NEW r \in HandleValue, KindFits(r), ~r.dir, NEW d \in Text,
         Len(r.buf) + Len(d) <= MaxLen, r.pos + Len(d) <= MaxLen
  PROVE  LET c == Staged(r, d)
         IN /\ c \in HandleValue /\ KindFits(c) /\ c.path = r.path /\ c.dirty
            /\ c.buf = r.buf \o d /\ c.ra = <<>> /\ c.size >= r.size
            /\ ~r.dirty => c.digest # "active"
            /\ r.dirty => /\ c.digest = r.digest /\ c.expected = r.expected
                          /\ c.consumed = r.consumed
<1> DEFINE u == IF r.dirty THEN r ELSE Unsummed(r)
           z == IF r.pos + Len(d) > r.size THEN r.pos + Len(d) ELSE r.size
<1>1. /\ u \in HandleValue /\ KindFits(u) /\ u.path = r.path /\ u.dir = r.dir
      /\ u.size = r.size /\ u.pos = r.pos /\ u.buf = r.buf
      /\ ~r.dirty => u.digest # "active"
      /\ r.dirty => u = r
  BY UnsummedIs
<1>2. r.buf \o d \in Content
  BY HandleFields, Joined, ContentIsText
<1>3. /\ r.pos + Len(d) \in 0..MaxLen /\ z \in 0..MaxLen /\ z >= r.size
      /\ 0 \in 0..MaxLen
  BY HandleFields, LenIsNat, SizeAssumption
<1> HIDE DEF u
<1>4. Staged(r, d) = [u EXCEPT !.dirty = TRUE, !.buf = u.buf \o d, !.pos = u.pos + Len(d),
                               !.size = IF r.pos + Len(d) > u.size THEN r.pos + Len(d) ELSE u.size,
                               !.raStart = 0, !.ra = <<>>]
  BY DEF Staged, u
<1> HIDE DEF z
<1>5. Staged(r, d) = [u EXCEPT !.dirty = TRUE, !.buf = r.buf \o d, !.pos = r.pos + Len(d),
                               !.size = z, !.raStart = 0, !.ra = <<>>]
  BY <1>1, <1>4 DEF z
<1> DEFINE b == r.buf \o d
           q == r.pos + Len(d)
           e == <<>>
           c == [u EXCEPT !.dirty = TRUE, !.buf = b, !.pos = q, !.size = z,
                          !.raStart = 0, !.ra = e]
<1>6. b \in Content /\ e \in Content
  BY <1>2, Empty
<1>7. q \in 0..MaxLen
  BY <1>3
<1> HIDE DEF b, q, e
<1>8. c \in HandleValue
  BY <1>1, <1>3, <1>6, <1>7 DEF HandleValue
<1>9. /\ c.path = u.path /\ c.dir = u.dir /\ c.dirty /\ c.buf = b /\ c.ra = e /\ c.size = z
      /\ c.digest = u.digest /\ c.expected = u.expected /\ c.consumed = u.consumed
  BY <1>1 DEF HandleValue
<1>10. KindFits(c)
  BY <1>1, <1>9 DEF KindFits
<1>11. Staged(r, d) = c /\ b = r.buf \o d /\ e = <<>>
  BY <1>5 DEF b, q, e
<1> HIDE DEF c
<1> QED
  BY <1>1, <1>3, <1>8, <1>9, <1>10, <1>11

LEMMA DirtiedIs ==
  ASSUME NEW r \in HandleValue, KindFits(r), ~r.dir, ~r.dirty
  PROVE  LET c == [Unsummed(r) EXCEPT !.dirty = TRUE]
         IN /\ c \in HandleValue /\ KindFits(c) /\ c.path = r.path
            /\ c.buf = r.buf /\ c.ra = r.ra /\ c.raStart = r.raStart /\ c.size = r.size
            /\ c.digest # "active"
<1> DEFINE u == Unsummed(r)
<1>1. /\ u \in HandleValue /\ KindFits(u) /\ u.path = r.path /\ u.dir = r.dir
      /\ u.buf = r.buf /\ u.ra = r.ra /\ u.raStart = r.raStart /\ u.size = r.size
      /\ u.digest # "active"
  BY UnsummedIs
<1> HIDE DEF u
<1>2. [u EXCEPT !.dirty = TRUE] \in HandleValue
  BY <1>1 DEF HandleValue
<1>3. KindFits([u EXCEPT !.dirty = TRUE])
  BY <1>1 DEF HandleValue, KindFits
<1> QED
  BY <1>1, <1>2, <1>3 DEF u, HandleValue

LEMMA DigestTakenIs ==
  ASSUME NEW r \in HandleValue, KindFits(r), ~r.dir, NEW given \in BOOLEAN,
         given => DigestAsked(r), fs[r.path].data \in Content
  PROVE  LET c == DigestTaken(r, given)
         IN /\ c \in HandleValue /\ KindFits(c)
            /\ c.path = r.path /\ c.dir = r.dir /\ c.size = r.size /\ c.pos = r.pos
            /\ c.raStart = r.raStart /\ c.ra = r.ra /\ c.dirty = r.dirty /\ c.buf = r.buf
            /\ r.digest = "active" => c = r
            /\ given => /\ r.digest = "want" /\ r.pos = 0 /\ c.digest = "active"
                        /\ c.expected = {fs[r.path].data} /\ c.consumed = <<>>
            /\ ~given /\ r.digest # "active" => c.digest # "active"
<1> DEFINE c == DigestTaken(r, given)
<1>1. CASE ~DigestAsked(r)
  <2>1. c = r /\ ~given
    BY <1>1 DEF DigestTaken
  <2> QED
    BY <2>1
<1>2. CASE DigestAsked(r) /\ given
  <2>1. c = [r EXCEPT !.digest = "active", !.expected = {fs[r.path].data}]
    BY <1>2 DEF DigestTaken
  <2>2. r.digest = "want" /\ r.pos = 0
    BY <1>2 DEF DigestAsked
  <2> DEFINE x == fs[r.path].data
  <2>3. {x} \in SUBSET Content
    OBVIOUS
  <2> HIDE DEF x
  <2>4. [r EXCEPT !.digest = "active", !.expected = {x}] \in HandleValue
    BY <2>3 DEF HandleValue
  <2>5. c = [r EXCEPT !.digest = "active", !.expected = {x}]
    BY <2>1 DEF x
  <2> QED
    BY <1>2, <2>2, <2>4, <2>5 DEF x, HandleValue, KindFits
<1>3. CASE DigestAsked(r) /\ ~given
  <2>1. c = [r EXCEPT !.digest = "off"]
    BY <1>3 DEF DigestTaken
  <2>2. r.digest = "want"
    BY <1>3 DEF DigestAsked
  <2>3. c \in HandleValue
    BY <2>1 DEF HandleValue
  <2> QED
    BY <1>3, <2>1, <2>2, <2>3 DEF HandleValue, KindFits
<1> QED
  BY <1>1, <1>2, <1>3

-----------------------------------------------------------------------------
(* What a step must show of a handle.                                      *)

(***************************************************************************)
(* The history of a handle that stays open; s says that what is where it   *)
(* is has not changed, m that or that the handle has changed it.           *)
(***************************************************************************)
WatchedOne(w, r, s, m) ==
  [w EXCEPT !.steady = @ /\ s /\ r.digest # "off",
            !.clean = @ /\ m /\ r.ra # <<>>,
            !.flushed = @ /\ m]

LEMMA WatchKeeps ==
  ASSUME NEW r, NEW w, NEW n, NEW n2, NEW s \in BOOLEAN, NEW m \in BOOLEAN,
         Good(r, w, n), s => n2 = n, m => s \/ ~w.clean \/ r.ra = <<>>
  PROVE  Good(r, WatchedOne(w, r, s, m), n2)
<1> DEFINE v == WatchedOne(w, r, s, m)
<1>1. w \in HistValue /\ r \in HandleValue
  BY DEF Good
<1>2. v \in HistValue
  BY <1>1 DEF WatchedOne, HistValue
<1>3. /\ v.owed = w.owed /\ v.got = w.got /\ v.offered = w.offered
      /\ v.steady = (w.steady /\ s /\ r.digest # "off")
      /\ v.clean = (w.clean /\ m /\ r.ra # <<>>)
  BY <1>1 DEF WatchedOne, HistValue
<1> HIDE DEF v
<1>4. KindFits(r) /\ StagedIsOwed(r, v) /\ HeardIsSummed(r, v)
  BY <1>3 DEF Good, StagedIsOwed, HeardIsSummed
<1>5. SteadyIsHad(r, v, n2)
  BY <1>3 DEF Good, SteadyIsHad
<1>6. CleanIsHad(r, v, n2)
  BY <1>3 DEF Good, CleanIsHad
<1> QED
  BY <1>1, <1>2, <1>4, <1>5, <1>6 DEF Good, v

LEMMA OpenedIsGood ==
  ASSUME NEW p \in Directory, NEW isDir \in BOOLEAN, NEW size \in 0..MaxLen,
         ~isDir => p \in Path, NEW steady \in BOOLEAN, NEW n,
         steady => n.kind = "file" /\ Len(n.data) = size
  PROVE  Good(NewHandle(p, isDir, size), [NewHist EXCEPT !.steady = steady], n)
<1> DEFINE r == NewHandle(p, isDir, size)
           w == [NewHist EXCEPT !.steady = steady]
<1>1. r \in HandleValue /\ w \in HistValue
  BY NewHandleIs, NewHistIs DEF HistValue
<1>2. /\ r.path = p /\ r.dir = isDir /\ r.size = size /\ r.ra = <<>> /\ ~r.dirty /\ r.buf = <<>>
      /\ r.consumed = <<>> /\ r.digest # "active" /\ (r.digest # "off" => ~isDir)
  BY DEF NewHandle
<1>3. w.owed = <<>> /\ w.got = <<>> /\ w.offered = {} /\ w.steady = steady /\ w.clean = FALSE
  BY DEF NewHist
<1> HIDE DEF r, w
<1>4. size \in Nat
  BY SizeAssumption
<1>5. Good(r, w, n)
  BY <1>1, <1>2, <1>3, <1>4 DEF Good, KindFits, StagedIsOwed, HeardIsSummed, SteadyIsHad, CleanIsHad
<1> QED
  BY <1>5 DEF r, w

(***************************************************************************)
(* How a handle may go on: it is closed; it is opened, on a file or a      *)
(* directory; or it stays open and is good for what was where it was, as   *)
(* the step has it, hs its history but for what the step notes of all.     *)
(***************************************************************************)
GoesOn(k, hs, mine) ==
  \/ fh'[k] = Closed
  \/ /\ ~Opened(k)
     /\ \E p \in Directory, isDir \in BOOLEAN, size \in 0..MaxLen :
          fh'[k] = NewHandle(p, isDir, size) /\ (~isDir => p \in Path)
  \/ /\ Opened(k) /\ fh'[k] \in HandleValue
     /\ (fh'[k].path = Root) = (fh[k].path = Root)
     /\ Good(fh'[k], hs[k], NodeAt(fs, fh[k].path))
     /\ k \in mine => ~hs[k].clean \/ fh'[k].ra = <<>>

LEMMA KindOfHandle ==
  ASSUME HandlesGood, NEW k \in Handle
  PROVE  /\ fh[k] \in HandleValue \cup {Closed}
         /\ Opened(k) \in BOOLEAN
         /\ Opened(k) => fh[k] \in HandleValue
         /\ ~Opened(k) => fh[k] = Closed
<1>1. fh[k] \in HandleValue \cup {Closed}
  BY DEF HandlesGood
<1>2. CASE fh[k] \in HandleValue
  BY <1>2 DEF Opened, HandleValue
<1>3. CASE fh[k] = Closed
  BY <1>3 DEF Opened, Closed
<1> QED
  BY <1>1, <1>2, <1>3

LEMMA StepKeeps ==
  ASSUME HandlesGood, NEW hs, NEW mine,
         hist' = Watched(hs, mine), fh' = [k \in Handle |-> fh'[k]],
         \A k \in Handle : GoesOn(k, hs, mine)
  PROVE  HandlesGood'
<1> SUFFICES ASSUME NEW k \in Handle
             PROVE  /\ fh'[k] \in HandleValue \cup {Closed}
                    /\ hist'[k] \in HistValue
                    /\ fh'[k].open => Good(fh'[k], hist'[k], NodeAt(fs', fh'[k].path))
  <2>1. hist' = [k \in Handle |-> hist'[k]]
    BY DEF Watched
  <2> QED
    BY <2>1 DEF HandlesGood, Opened
<1>1. GoesOn(k, hs, mine)
  OBVIOUS
<1>2. CASE fh'[k] = Closed
  <2>1. ~fh'[k].open
    BY <1>2 DEF Closed
  <2>2. hist'[k] = NewHist
    BY <2>1 DEF Watched
  <2> QED
    BY <1>2, <2>1, <2>2, NewHistIs
<1>3. ASSUME ~Opened(k), NEW p \in Directory, NEW isDir \in BOOLEAN, NEW size \in 0..MaxLen,
             fh'[k] = NewHandle(p, isDir, size), ~isDir => p \in Path
      PROVE  /\ fh'[k] \in HandleValue \cup {Closed}
             /\ hist'[k] \in HistValue
             /\ fh'[k].open => Good(fh'[k], hist'[k], NodeAt(fs', fh'[k].path))
  <2> DEFINE steady == ~isDir /\ fs'[p].kind = "file" /\ Len(fs'[p].data) = size
  <2>1. fh'[k].open /\ fh'[k].dir = isDir /\ fh'[k].path = p /\ fh'[k].size = size
    BY <1>3 DEF NewHandle
  <2>2. hist'[k] = [NewHist EXCEPT !.steady = steady]
    BY <1>3, <2>1 DEF Watched, Opened
  <2>3. ~isDir => NodeAt(fs', p) = fs'[p]
    BY <1>3, PathAssumption DEF NodeAt
  <2>4. steady \in BOOLEAN
    OBVIOUS
  <2>5. steady => NodeAt(fs', p).kind = "file" /\ Len(NodeAt(fs', p).data) = size
    BY <2>3
  <2> HIDE DEF steady
  <2>6. Good(fh'[k], hist'[k], NodeAt(fs', fh'[k].path))
    BY <1>3, <2>1, <2>2, <2>4, <2>5, OpenedIsGood
  <2> QED
    BY <2>6 DEF Good
<1>4. ASSUME Opened(k), fh'[k] \in HandleValue,
             (fh'[k].path = Root) = (fh[k].path = Root),
             Good(fh'[k], hs[k], NodeAt(fs, fh[k].path)),
             k \in mine => ~hs[k].clean \/ fh'[k].ra = <<>>
      PROVE  Good(fh'[k], hist'[k], NodeAt(fs', fh'[k].path))
  <2> DEFINE s == fh'[k].path = Root \/ fs'[fh'[k].path] = fs[fh[k].path]
             m == s \/ k \in mine
  <2>1. fh'[k].open
    BY <1>4 DEF HandleValue
  <2>2. hist'[k] = WatchedOne(hs[k], fh'[k], s, m)
    BY <1>4, <2>1 DEF Watched, WatchedOne, Opened
  <2>3. s => NodeAt(fs', fh'[k].path) = NodeAt(fs, fh[k].path)
    BY <1>4 DEF NodeAt
  <2>4. m => s \/ ~hs[k].clean \/ fh'[k].ra = <<>>
    BY <1>4
  <2>5. s \in BOOLEAN /\ m \in BOOLEAN
    OBVIOUS
  <2> HIDE DEF s, m
  <2> QED
    BY <1>4, <2>2, <2>3, <2>4, <2>5, WatchKeeps
<1>5. CASE /\ Opened(k) /\ fh'[k] \in HandleValue
           /\ (fh'[k].path = Root) = (fh[k].path = Root)
           /\ Good(fh'[k], hs[k], NodeAt(fs, fh[k].path))
           /\ k \in mine => ~hs[k].clean \/ fh'[k].ra = <<>>
  BY <1>4, <1>5 DEF Good
<1> QED
  BY <1>1, <1>2, <1>3, <1>5 DEF GoesOn

-----------------------------------------------------------------------------
(* The server's answers and the cache.                                     *)

Tree == [Path -> Node]

LEMMA NodeIs ==
  /\ None \in Node /\ Dir \in Node /\ \A d \in Content : File(d) \in Node
  /\ \A n \in Node : /\ n.data \in Content
                     /\ n.kind = "file" => n = File(n.data)
  /\ None.kind = "none" /\ Dir.kind = "dir"
  /\ \A d : File(d).kind = "file" /\ File(d).data = d
  /\ None # Dir
<1>1. <<>> \in Content
  BY Empty
<1>2. \A d : File(d).kind = "file" /\ File(d).data = d
  BY DEF File
<1>3. None.kind = "none" /\ Dir.kind = "dir" /\ None.data = <<>> /\ Dir.data = <<>>
  BY DEF None, Dir
<1>4. None \in Node /\ Dir \in Node /\ \A d \in Content : File(d) \in Node
  BY DEF Node
<1>5. ASSUME NEW n \in Node
      PROVE  n.data \in Content /\ (n.kind = "file" => n = File(n.data))
  BY <1>1, <1>2, <1>3 DEF Node
<1> QED
  BY <1>2, <1>3, <1>4, <1>5

LEMMA PathIs ==
  ASSUME NEW p \in Path
  PROVE  p # Root /\ Parent(p) \in Directory /\ p \in Directory /\ FileName(p) \in Name
<1>1. p \in Seq(Name) /\ p # Root /\ Parent(p) \in Directory
  BY PathAssumption
<1>2. Len(p) \in 1..Len(p)
  BY <1>1, EmptySeq, LenProperties DEF Root
<1> QED
  BY <1>1, <1>2, ElementOfSeq DEF FileName, Directory

LEMMA PutIs ==
  ASSUME fs \in Tree, NEW p \in Path, NEW d \in Content
  PROVE  /\ Put(p, d).fs \in Tree
         /\ \/ Put(p, d).code = 0 /\ Put(p, d).fs = fs
            \/ Put(p, d).code = 201 /\ Put(p, d).fs[p] = File(d)
<1>1. WithParents(fs, p) \in Tree
  BY NodeIs DEF WithParents, Tree
<1>2. [WithParents(fs, p) EXCEPT ![p] = File(d)] \in Tree
  BY <1>1, NodeIs DEF Tree
<1>3. [WithParents(fs, p) EXCEPT ![p] = File(d)][p] = File(d)
  BY <1>1 DEF Tree
<1> QED
  BY <1>2, <1>3 DEF Put, Answer

LEMMA MkdirIs ==
  ASSUME fs \in Tree, NEW p \in Path
  PROVE  /\ Mkdir(p).fs \in Tree
         /\ Mkdir(p).code \in {0, 201}
<1>1. WithParents(fs, p) \in Tree
  BY NodeIs DEF WithParents, Tree
<1>2. [WithParents(fs, p) EXCEPT ![p] = Dir] \in Tree
  BY <1>1, NodeIs DEF Tree
<1> QED
  BY <1>2 DEF Mkdir, Answer

LEMMA DeleteIs ==
  ASSUME fs \in Tree, NEW p \in Path
  PROVE  Delete(p).fs \in Tree /\ Delete(p).code \in {200, 404, 409}
<1>1. [fs EXCEPT ![p] = None] \in Tree
  BY NodeIs DEF Tree
<1> QED
  BY <1>1 DEF Delete, Answer

LEMMA RenameIs ==
  ASSUME fs \in Tree, NEW from \in Path, NEW to \in Path
  PROVE  Rename(from, to).fs \in Tree /\ Rename(from, to).code \in {200, 404, 409}
<1>1. \A old : old \in Path => fs[old] \in Node
  BY DEF Tree
<1>2. Moved(fs, from, to) \in Tree
  BY <1>1, NodeIs DEF Moved, Tree
<1> QED
  BY <1>2 DEF Rename, Answer

LEMMA SentIs ==
  ASSUME NEW fault \in RequestFaults, NEW a, a.fs \in Tree, fs \in Tree
  PROVE  /\ Sent(fault, a).fs \in Tree
         /\ fault = "none" => Sent(fault, a) = a
         /\ fault # "none" => Sent(fault, a).code \in {0, 403}
<1>1. fault \in {"none", "lost", "noreply", "refused"}
  BY DEF RequestFaults
<1> QED
  BY <1>1 DEF Sent, Answer

LEMMA UploadsAre ==
  ASSUME fs \in Tree, NEW h \in Handle, fh[h].path \in Path, fh[h].buf \in Content,
         NEW r \in Uploads(h)
  PROVE  /\ r.fs \in Tree
         /\ Uploaded(r) => r.fs[fh[h].path] = File(fh[h].buf)
<1> DEFINE p == fh[h].path
           b == fh[h].buf
<1>1. ASSUME NEW fault \in RequestFaults, r = Sent(fault, Put(p, b))
      PROVE  r.fs \in Tree /\ (Uploaded(r) => r.fs[p] = File(b))
  <2>1. Put(p, b).fs \in Tree
    BY PutIs
  <2>2. CASE fault = "none"
    BY <1>1, <2>1, <2>2, SentIs, PutIs DEF Uploaded
  <2>3. CASE fault # "none"
    BY <1>1, <2>1, <2>3, SentIs DEF Uploaded
  <2> QED
    BY <2>2, <2>3
<1>2. ASSUME NEW n \in 0..Len(b), r = Answer(0, Put(p, SubSeq(b, 1, n)).fs)
      PROVE  r.fs \in Tree /\ ~Uploaded(r)
  <2>1. b \in Text /\ Len(b) \in Nat /\ Len(b) <= MaxLen
    BY ContentIsText, LenIsNat
  <2> DEFINE a == 0
  <2>2. a \in Nat /\ n \in Nat /\ a + n <= Len(b) /\ n <= MaxLen /\ a + 1 = 1 /\ a + n = n
    BY <2>1, SizeAssumption
  <2> HIDE DEF a
  <2>3. SubSeq(b, a + 1, a + n) \in Text /\ Len(SubSeq(b, a + 1, a + n)) = n
    BY <2>1, <2>2, Piece
  <2>4. SubSeq(b, 1, n) \in Text /\ Len(SubSeq(b, 1, n)) = n
    BY <2>2, <2>3
  <2>5. SubSeq(b, 1, n) \in Content
    BY <2>2, <2>4, ContentIsText
  <2> QED
    BY <1>2, <2>5, PutIs DEF Answer, Uploaded
<1> QED
  BY <1>1, <1>2 DEF Uploads

LEMMA ListingOfIs ==
  ASSUME World, NEW d \in Directory
  PROVE  ListingOf(d) \in ListingValue
<1>1. CASE cached[d] # {}
  <2>1. cached[d] \in Held
    BY DEF World
  <2>2. PICK l \in ListingValue : cached[d] = {l}
    BY <1>1, <2>1 DEF Held
  <2>3. ListingOf(d) = l
    BY <1>1, <2>2 DEF ListingOf
  <2> QED
    BY <2>3
<1>2. CASE cached[d] = {}
  <2>1. ASSUME NEW p \in Path
        PROVE  Entry(fs, p) \in [name : Name, size : 0..MaxLen, dir : BOOLEAN]
    <3>1. fs[p].data \in Content
      BY NodeIs DEF World
    <3>2. Len(fs[p].data) \in 0..MaxLen
      BY <3>1, ContentIsText, LenIsNat, SizeAssumption
    <3> QED
      BY <3>2, PathIs DEF Entry
  <2>2. Listing(fs, d) \in ListingValue
    BY <2>1 DEF Listing, Children, ListingValue
  <2> QED
    BY <1>2, <2>2 DEF ListingOf
<1> QED
  BY <1>1, <1>2

LEMMA CacheIs ==
  ASSUME World
  PROVE  /\ \A d \in Directory : Fetched(d) \in [Directory -> Held]
         /\ \A c \in [Directory -> Held], p \in Path : Invalidated(c, p) \in [Directory -> Held]
<1>1. ASSUME NEW d \in Directory
      PROVE  Fetched(d) \in [Directory -> Held]
  <2>1. {ListingOf(d)} \in Held
    BY ListingOfIs DEF Held
  <2> QED
    BY <2>1 DEF Fetched, World
<1>2. ASSUME NEW c \in [Directory -> Held], NEW p \in Path
      PROVE  Invalidated(c, p) \in [Directory -> Held]
  <2>1. {} \in Held
    BY DEF Held
  <2> QED
    BY <2>1, PathIs DEF Invalidated
<1> QED
  BY <1>1, <1>2

-----------------------------------------------------------------------------
(* Steps that change no handle, or one.                                    *)

LEMMA OtherGoesOn ==
  ASSUME HandlesGood, NEW k \in Handle, NEW hs, NEW mine,
         fh'[k] = fh[k], hs[k] = hist[k], k \notin mine
  PROVE  GoesOn(k, hs, mine)
BY KindOfHandle DEF HandlesGood, GoesOn

LEMMA NoHandleChanges ==
  ASSUME HandlesGood, fh' = fh, hist' = Watched(hist, {})
  PROVE  HandlesGood'
<1>1. \A k \in Handle : GoesOn(k, hist, {})
  BY OtherGoesOn
<1>2. fh' = [k \in Handle |-> fh'[k]]
  BY DEF HandlesGood
<1> QED
  BY <1>1, <1>2, StepKeeps

LEMMA OneHandleOpens ==
  ASSUME HandlesGood, NEW h \in Handle, ~Opened(h), NEW p \in Directory, NEW isDir \in BOOLEAN,
         NEW size \in 0..MaxLen, ~isDir => p \in Path,
         fh' = [fh EXCEPT ![h] = NewHandle(p, isDir, size)], hist' = Watched(hist, {})
  PROVE  HandlesGood'
<1>1. fh' = [k \in Handle |-> fh'[k]]
  BY DEF HandlesGood
<1>2. fh'[h] = NewHandle(p, isDir, size) /\ \A k \in Handle \ {h} : fh'[k] = fh[k]
  BY DEF HandlesGood
<1>3. ASSUME NEW k \in Handle
      PROVE  GoesOn(k, hist, {})
  <2>1. CASE k = h
    BY <1>2, <2>1 DEF GoesOn
  <2>2. CASE k # h
    BY <1>2, <2>2, OtherGoesOn
  <2> QED
    BY <2>1, <2>2
<1> QED
  BY <1>1, <1>3, StepKeeps

LEMMA OneHandleCloses ==
  ASSUME HandlesGood, NEW h \in Handle, NEW mine \in {{}, {h}},
         fh' = [fh EXCEPT ![h] = Closed], hist' = Watched(hist, mine)
  PROVE  HandlesGood'
<1>1. fh' = [k \in Handle |-> fh'[k]]
  BY DEF HandlesGood
<1>2. fh'[h] = Closed /\ \A k \in Handle \ {h} : fh'[k] = fh[k]
  BY DEF HandlesGood
<1>3. ASSUME NEW k \in Handle
      PROVE  GoesOn(k, hist, mine)
  <2>1. CASE k = h
    BY <1>2, <2>1 DEF GoesOn
  <2>2. CASE k # h
    BY <1>2, <2>2, OtherGoesOn
  <2> QED
    BY <2>1, <2>2
<1> QED
  BY <1>1, <1>3, StepKeeps

LEMMA OneHandleChanges ==
  ASSUME HandlesGood, NEW h \in Handle, NEW mine \in {{}, {h}}, NEW r, NEW w,
         Opened(h), (r.path = Root) = (fh[h].path = Root),
         Good(r, w, NodeAt(fs, fh[h].path)), mine = {} \/ ~w.clean \/ r.ra = <<>>,
         fh' = [fh EXCEPT ![h] = r], hist' = Watched([hist EXCEPT ![h] = w], mine)
  PROVE  HandlesGood'
<1> DEFINE hs == [hist EXCEPT ![h] = w]
<1>1. fh' = [k \in Handle |-> fh'[k]]
  BY DEF HandlesGood
<1>2. fh'[h] = r /\ \A k \in Handle \ {h} : fh'[k] = fh[k]
  BY DEF HandlesGood
<1>3. hs[h] = w /\ \A k \in Handle \ {h} : hs[k] = hist[k]
  BY DEF HandlesGood
<1>4. hist' = Watched(hs, mine)
  OBVIOUS
<1> HIDE DEF hs
<1>5. ASSUME NEW k \in Handle
      PROVE  GoesOn(k, hs, mine)
  <2>1. CASE k = h
    BY <1>2, <1>3, <2>1 DEF GoesOn, Good
  <2>2. CASE k # h
    BY <1>2, <1>3, <2>2, OtherGoesOn
  <2> QED
    BY <2>1, <2>2
<1> QED
  BY <1>1, <1>4, <1>5, StepKeeps

-----------------------------------------------------------------------------
(* The callbacks leave the handle good.                                    *)

LEMMA HandleIsGood ==
  ASSUME Inv, NEW h \in Handle, Opened(h)
  PROVE  /\ fh[h] \in HandleValue /\ hist[h] \in HistValue
         /\ Good(fh[h], hist[h], NodeAt(fs, fh[h].path))
         /\ KindFits(fh[h]) /\ StagedIsOwed(fh[h], hist[h])
BY DEF Inv, HandlesGood, Good

LEMMA FileIsThere ==
  ASSUME Inv, NEW h \in Handle, FileHandle(h)
  PROVE  /\ Opened(h) /\ ~fh[h].dir /\ fh[h].path \in Path
         /\ NodeAt(fs, fh[h].path) = fs[fh[h].path]
         /\ fs[fh[h].path] \in Node /\ fs[fh[h].path].data \in Content
<1>1. Opened(h) /\ ~fh[h].dir
  BY DEF FileHandle
<1>2. fh[h].path \in Path
  BY <1>1, HandleIsGood DEF KindFits
<1>3. fs[fh[h].path] \in Node
  BY <1>2 DEF Inv, World
<1> QED
  BY <1>1, <1>2, <1>3, NodeIs, PathIs DEF NodeAt

LEMMA ConsumedHere ==
  ASSUME NEW r \in HandleValue, KindFits(r), NEW bytes \in Text, r.pos + Len(bytes) <= r.size
  PROVE  LET c == Consumed(r, r.pos, bytes)
         IN /\ c \in HandleValue /\ KindFits(c)
            /\ c.path = r.path /\ c.dir = r.dir /\ c.size = r.size /\ c.pos = r.pos
            /\ c.raStart = r.raStart /\ c.ra = r.ra /\ c.dirty = r.dirty /\ c.buf = r.buf
            /\ r.digest # "active" => c = r
            /\ r.digest = "active" /\ r.pos # Len(r.consumed) => c.digest = "off"
            /\ r.digest = "active" /\ r.pos = Len(r.consumed) =>
                 /\ c.digest = "active" /\ c.expected = r.expected
                 /\ c.consumed = r.consumed \o bytes
<1> DEFINE a == r.pos
           c == Consumed(r, a, bytes)
<1>1. a \in Nat /\ a + Len(bytes) <= MaxLen
  BY HandleFields, LenIsNat, SizeAssumption
<1> HIDE DEF a
<1>2. /\ c \in HandleValue /\ KindFits(c)
      /\ c.path = r.path /\ c.dir = r.dir /\ c.size = r.size /\ c.pos = r.pos
      /\ c.raStart = r.raStart /\ c.ra = r.ra /\ c.dirty = r.dirty /\ c.buf = r.buf
      /\ r.digest # "active" => c = r
      /\ r.digest = "active" /\ a # Len(r.consumed) => c.digest = "off"
      /\ r.digest = "active" /\ a = Len(r.consumed) =>
           c.digest = "active" /\ c.expected = r.expected /\ c.consumed = r.consumed \o bytes
  BY <1>1, ConsumedIs
<1> QED
  BY <1>2 DEF a

(***************************************************************************)
(* Bytes are read at the handle's position: what is read ahead by then,    *)
(* and what the histories say, must be true of the node.                   *)
(***************************************************************************)
LEMMA AdvanceIsGood ==
  ASSUME NEW r, NEW w, NEW n, Good(r, w, n), ~r.dir, n.data \in Text,
         NEW user \in Text, r.pos + Len(user) <= r.size,
         NEW at \in 0..MaxLen, NEW ahead \in Content, NEW steady \in BOOLEAN, NEW clean \in BOOLEAN,
         steady => /\ w.steady /\ IsPart(user, n.data, r.pos)
                   /\ ahead # <<>> => IsPart(ahead, n.data, at),
         clean => ~r.dirty /\ (ahead # <<>> => IsPart(ahead, n.data, at))
  PROVE  Good([Consumed(r, r.pos, user) EXCEPT !.pos = r.pos + Len(user), !.raStart = at, !.ra = ahead],
              [Heard(w, user) EXCEPT !.steady = steady, !.clean = clean], n)
<1> DEFINE c == Consumed(r, r.pos, user)
           q == r.pos + Len(user)
           r2 == [c EXCEPT !.pos = q, !.raStart = at, !.ra = ahead]
           o == Heard(w, user)
           w2 == [o EXCEPT !.steady = steady, !.clean = clean]
<1>1. r \in HandleValue /\ w \in HistValue /\ KindFits(r)
  BY DEF Good
<1>2. /\ r.pos \in Nat /\ r.size \in Nat /\ r.size <= MaxLen /\ Len(user) \in Nat
      /\ q \in 0..MaxLen /\ r.pos + Len(user) <= MaxLen
  BY <1>1, HandleFields, LenIsNat, SizeAssumption
<1>3. /\ c \in HandleValue /\ KindFits(c) /\ c.path = r.path /\ c.dir = r.dir /\ c.size = r.size
      /\ c.dirty = r.dirty /\ c.buf = r.buf
      /\ r.digest # "active" => c = r
      /\ r.digest = "active" /\ r.pos # Len(r.consumed) => c.digest = "off"
      /\ r.digest = "active" /\ r.pos = Len(r.consumed) =>
           c.digest = "active" /\ c.expected = r.expected /\ c.consumed = r.consumed \o user
  BY <1>1, ConsumedHere
<1>4. /\ w.offered = {} => o = w
      /\ w.offered # {} => /\ o.offered = w.offered /\ o.got = w.got \o user /\ o.owed = w.owed
      /\ o \in HistValue
  <2> DEFINE g == w.got \o user
  <2>1. g \in Text
    BY <1>1, HistFields, Joined
  <2> HIDE DEF g
  <2>2. [w EXCEPT !.got = g] \in HistValue /\ [w EXCEPT !.got = g].got = g
        /\ [w EXCEPT !.got = g].offered = w.offered /\ [w EXCEPT !.got = g].owed = w.owed
    BY <1>1, <2>1 DEF HistValue
  <2>3. o = IF w.offered = {} THEN w ELSE [w EXCEPT !.got = g]
    BY DEF Heard, g
  <2> QED
    BY <1>1, <2>2, <2>3 DEF g
<1> HIDE DEF c, o, q
<1>5. /\ r2 \in HandleValue /\ r2.path = c.path /\ r2.dir = c.dir /\ r2.size = c.size
      /\ r2.dirty = c.dirty /\ r2.buf = c.buf /\ r2.pos = q /\ r2.raStart = at /\ r2.ra = ahead
      /\ r2.digest = c.digest /\ r2.expected = c.expected /\ r2.consumed = c.consumed
  BY <1>2, <1>3 DEF HandleValue
<1>6. /\ w2 \in HistValue /\ w2.owed = o.owed /\ w2.got = o.got /\ w2.offered = o.offered
      /\ w2.steady = steady /\ w2.clean = clean
  BY <1>4 DEF HistValue
<1> HIDE DEF r2, w2
<1>7. KindFits(r2)
  BY <1>3, <1>5 DEF KindFits
<1>8. StagedIsOwed(r2, w2)
  BY <1>3, <1>4, <1>5, <1>6 DEF Good, StagedIsOwed
<1>9. HeardIsSummed(r2, w2)
  <2>1. CASE w.offered = {}
    BY <2>1, <1>4, <1>6 DEF Good, HeardIsSummed
  <2>2. CASE w.offered # {}
    <3>1. /\ r.digest = "active" /\ r.expected = w.offered /\ r.consumed = w.got
          /\ r.pos = Len(w.got)
      BY <2>2 DEF Good, HeardIsSummed
    <3>2. w.got \in Text /\ Len(w.got \o user) = Len(w.got) + Len(user)
      BY <1>1, HistFields, Joined
    <3>3. q = Len(w.got \o user)
      BY <3>1, <3>2 DEF q
    <3> QED
      BY <2>2, <3>1, <3>3, <1>3, <1>4, <1>5, <1>6 DEF HeardIsSummed
  <2> QED
    BY <2>1, <2>2
<1>10. SteadyIsHad(r2, w2, n)
  <2> SUFFICES ASSUME steady
               PROVE  /\ n.kind = "file" /\ Len(n.data) <= r2.size
                      /\ r2.ra # <<>> => IsPart(r2.ra, n.data, r2.raStart)
                      /\ r2.digest = "active" =>
                           r2.expected = {n.data} /\ IsPart(r2.consumed, n.data, 0)
    BY <1>6 DEF SteadyIsHad
  <2>1. /\ n.kind = "file" /\ Len(n.data) <= r.size
        /\ r.digest = "active" => r.expected = {n.data} /\ IsPart(r.consumed, n.data, 0)
    BY DEF Good, SteadyIsHad
  <2>2. ASSUME r2.digest = "active"
        PROVE  r2.expected = {n.data} /\ IsPart(r2.consumed, n.data, 0)
    <3>1. r.digest = "active" /\ r.pos = Len(r.consumed)
      BY <2>2, <1>3, <1>5
    <3>2. r.consumed \in Text /\ 0 + Len(r.consumed) = r.pos
      BY <3>1, <1>1, <1>2, HandleFields
    <3>3. IsPart(r.consumed \o user, n.data, 0)
      BY <2>1, <3>1, <3>2, PartsJoin
    <3> QED
      BY <2>1, <3>1, <3>3, <1>3, <1>5
  <2> QED
    BY <2>1, <2>2, <1>3, <1>5
<1>11. CleanIsHad(r2, w2, n)
  BY <1>3, <1>5, <1>6 DEF CleanIsHad
<1>12. Good(r2, w2, n)
  BY <1>5, <1>6, <1>7, <1>8, <1>9, <1>10, <1>11 DEF Good
<1> QED
  BY <1>12 DEF r2, w2, c, o, q

LEMMA AskedIsGood ==
  ASSUME NEW r, NEW w, NEW n, Good(r, w, n), ~r.dir, n = fs[r.path], n.data \in Content,
         NEW given \in BOOLEAN, given => DigestAsked(r)
  PROVE  Good(DigestTaken(r, given), IF given THEN Offered(w, n.data) ELSE w, n)
<1> DEFINE c == DigestTaken(r, given)
           v == IF given THEN Offered(w, n.data) ELSE w
<1>1. r \in HandleValue /\ w \in HistValue /\ KindFits(r)
  BY DEF Good
<1>2. /\ c \in HandleValue /\ KindFits(c)
      /\ c.path = r.path /\ c.dir = r.dir /\ c.size = r.size /\ c.pos = r.pos
      /\ c.raStart = r.raStart /\ c.ra = r.ra /\ c.dirty = r.dirty /\ c.buf = r.buf
      /\ r.digest = "active" => c = r
      /\ given => /\ r.digest = "want" /\ r.pos = 0 /\ c.digest = "active"
                  /\ c.expected = {n.data} /\ c.consumed = <<>>
      /\ ~given /\ r.digest # "active" => c.digest # "active"
  BY <1>1, DigestTakenIs
<1>3. /\ v \in HistValue /\ v.owed = w.owed /\ v.got = w.got
      /\ v.steady = w.steady /\ v.clean = w.clean
      /\ v.offered = IF given THEN {n.data} ELSE w.offered
  <2> DEFINE x == {n.data}
  <2>1. x \in {{}} \cup {{d} : d \in Content}
    OBVIOUS
  <2> HIDE DEF x
  <2>2. /\ [w EXCEPT !.offered = x] \in HistValue
        /\ [w EXCEPT !.offered = x].owed = w.owed /\ [w EXCEPT !.offered = x].got = w.got
        /\ [w EXCEPT !.offered = x].steady = w.steady /\ [w EXCEPT !.offered = x].clean = w.clean
        /\ [w EXCEPT !.offered = x].offered = x
    BY <1>1, <2>1 DEF HistValue
  <2>3. v = IF given THEN [w EXCEPT !.offered = x] ELSE w
    BY DEF x, Offered
  <2> HIDE DEF v
  <2> QED
    BY <1>1, <2>2, <2>3 DEF x
<1> HIDE DEF c, v
<1>4. StagedIsOwed(c, v)
  BY <1>2, <1>3 DEF Good, StagedIsOwed
<1>5. HeardIsSummed(c, v)
  <2>1. CASE given
    <3>1. w.offered = {} /\ w.got = <<>>
      BY <2>1, <1>2 DEF Good, HeardIsSummed
    <3>2. c.consumed = v.got /\ c.pos = Len(v.got)
      BY <2>1, <3>1, <1>2, <1>3, Empty
    <3> QED
      BY <2>1, <3>2, <1>2, <1>3 DEF HeardIsSummed
  <2>2. CASE ~given
    BY <2>2, <1>2, <1>3 DEF Good, HeardIsSummed
  <2> QED
    BY <2>1, <2>2
<1>6. SteadyIsHad(c, v, n)
  <2>1. IsPart(<<>>, n.data, 0)
    BY Empty, ContentIsText, LenIsNat DEF IsPart
  <2> QED
    BY <2>1, <1>2, <1>3 DEF Good, SteadyIsHad
<1>7. CleanIsHad(c, v, n)
  BY <1>2, <1>3 DEF Good, CleanIsHad
<1>8. Good(c, v, n)
  BY <1>2, <1>3, <1>4, <1>5, <1>6, <1>7 DEF Good
<1> QED
  BY <1>8 DEF c, v

LEMMA BrokenIs ==
  ASSUME NEW w \in HistValue
  PROVE  /\ Broken(w) \in HistValue /\ Broken(w).offered = {} /\ Broken(w).got = <<>>
         /\ Broken(w).owed = w.owed /\ Broken(w).steady = w.steady /\ Broken(w).clean = w.clean
         /\ Broken(w).flushed = w.flushed
<1> DEFINE e == <<>>
           z == {}
<1>1. e \in Text /\ z \in {{}} \cup {{c} : c \in Content}
  BY Empty
<1> HIDE DEF e, z
<1>2. LET b == [w EXCEPT !.offered = z, !.got = e]
      IN /\ b \in HistValue /\ b.offered = z /\ b.got = e
         /\ b.owed = w.owed /\ b.steady = w.steady /\ b.clean = w.clean /\ b.flushed = w.flushed
  BY <1>1 DEF HistValue
<1>3. Broken(w) = [w EXCEPT !.offered = z, !.got = e]
  BY DEF Broken, e, z
<1> QED
  BY <1>2, <1>3 DEF e, z

LEMMA WriteIsGood ==
  ASSUME NEW r, NEW w, NEW n, Good(r, w, n), ~r.dir, n.data \in Text, NEW d \in Text,
         Len(r.buf) + Len(d) <= PutMax, r.pos + Len(d) <= MaxLen
  PROVE  Good(Staged(r, d), [Broken(w) EXCEPT !.owed = Broken(w).owed \o d], n)
<1> DEFINE c == Staged(r, d)
           b == Broken(w)
           o == b.owed \o d
           v == [b EXCEPT !.owed = o]
<1>1. r \in HandleValue /\ w \in HistValue /\ KindFits(r)
  BY DEF Good
<1>2. Len(r.buf) + Len(d) <= MaxLen
  BY <1>1, HandleFields, LenIsNat, SizeAssumption
<1>3. /\ c \in HandleValue /\ KindFits(c) /\ c.dirty
      /\ c.buf = r.buf \o d /\ c.ra = <<>> /\ c.size >= r.size
      /\ ~r.dirty => c.digest # "active"
      /\ r.dirty => c.digest = r.digest /\ c.expected = r.expected /\ c.consumed = r.consumed
  BY <1>1, <1>2, StagedIs
<1>4. b \in HistValue /\ b.offered = {} /\ b.got = <<>> /\ b.owed = w.owed /\ b.steady = w.steady
  BY <1>1, BrokenIs
<1>5. o \in Text /\ o = w.owed \o d
  BY <1>1, <1>4, HistFields, Joined
<1> HIDE DEF b, o, c
<1>6. /\ v \in HistValue /\ v.offered = {} /\ v.got = <<>> /\ v.owed = o /\ v.steady = w.steady
  BY <1>4, <1>5 DEF HistValue
<1> HIDE DEF v
<1>7. StagedIsOwed(c, v) /\ HeardIsSummed(c, v) /\ CleanIsHad(c, v, n)
  BY <1>3, <1>5, <1>6 DEF Good, StagedIsOwed, HeardIsSummed, CleanIsHad
<1>8. SteadyIsHad(c, v, n)
  <2>1. Len(n.data) \in Nat /\ r.size \in Nat /\ c.size \in Nat
    BY <1>1, <1>3, HandleFields, LenIsNat
  <2> QED
    BY <2>1, <1>3, <1>6 DEF Good, SteadyIsHad
<1>9. Good(c, v, n)
  BY <1>3, <1>6, <1>7, <1>8 DEF Good
<1> QED
  BY <1>9 DEF c, v, b, o

LEMMA WriteFailsIsGood ==
  ASSUME NEW r, NEW w, NEW n, Good(r, w, n), ~r.dir
  PROVE  Good(IF r.dirty THEN r ELSE [Unsummed(r) EXCEPT !.dirty = TRUE],
              [Broken(w) EXCEPT !.clean = FALSE], n)
<1> DEFINE c == IF r.dirty THEN r ELSE [Unsummed(r) EXCEPT !.dirty = TRUE]
           b == Broken(w)
           v == [b EXCEPT !.clean = FALSE]
<1>1. r \in HandleValue /\ w \in HistValue /\ KindFits(r)
  BY DEF Good
<1>2. /\ c \in HandleValue /\ KindFits(c)
      /\ c.buf = r.buf /\ c.ra = r.ra /\ c.raStart = r.raStart /\ c.size = r.size
      /\ c.digest # "active" \/ c = r
  BY <1>1, DirtiedIs
<1>3. b \in HistValue /\ b.offered = {} /\ b.got = <<>> /\ b.owed = w.owed /\ b.steady = w.steady
  BY <1>1, BrokenIs
<1> HIDE DEF b, c
<1>4. /\ v \in HistValue /\ v.offered = {} /\ v.got = <<>> /\ v.owed = w.owed /\ v.steady = w.steady
      /\ v.clean = FALSE
  BY <1>3 DEF HistValue
<1> HIDE DEF v
<1>5. StagedIsOwed(c, v) /\ HeardIsSummed(c, v) /\ CleanIsHad(c, v, n) /\ SteadyIsHad(c, v, n)
  BY <1>2, <1>4 DEF Good, StagedIsOwed, HeardIsSummed, CleanIsHad, SteadyIsHad
<1>6. Good(c, v, n)
  BY <1>2, <1>4, <1>5 DEF Good
<1> QED
  BY <1>6 DEF c, v, b

LEMMA SeekIsGood ==
  ASSUME NEW r, NEW w, NEW n, Good(r, w, n), NEW at \in 0..MaxLen
  PROVE  Good([Unsummed(r) EXCEPT !.pos = at], [Broken(w) EXCEPT !.flushed = FALSE], n)
<1> DEFINE u == Unsummed(r)
           c == [u EXCEPT !.pos = at]
           b == Broken(w)
           v == [b EXCEPT !.flushed = FALSE]
<1>1. r \in HandleValue /\ w \in HistValue /\ KindFits(r)
  BY DEF Good
<1>2. /\ u \in HandleValue /\ KindFits(u) /\ u.size = r.size
      /\ u.raStart = r.raStart /\ u.ra = r.ra /\ u.dirty = r.dirty /\ u.buf = r.buf
      /\ u.digest # "active"
  BY <1>1, UnsummedIs
<1>3. /\ b \in HistValue /\ b.offered = {} /\ b.got = <<>> /\ b.owed = w.owed
      /\ b.steady = w.steady /\ b.clean = w.clean
  BY <1>1, BrokenIs
<1> HIDE DEF b, u
<1>4. /\ c \in HandleValue /\ c.path = u.path /\ c.dir = u.dir /\ c.size = u.size
      /\ c.raStart = u.raStart /\ c.ra = u.ra /\ c.dirty = u.dirty /\ c.buf = u.buf
      /\ c.digest = u.digest /\ c.consumed = u.consumed
  BY <1>2 DEF HandleValue
<1>5. /\ v \in HistValue /\ v.offered = {} /\ v.got = <<>> /\ v.owed = w.owed
      /\ v.steady = w.steady /\ v.clean = w.clean
  BY <1>3 DEF HistValue
<1> HIDE DEF v, c
<1>6. /\ KindFits(c) /\ StagedIsOwed(c, v) /\ HeardIsSummed(c, v) /\ CleanIsHad(c, v, n)
      /\ SteadyIsHad(c, v, n)
  BY <1>2, <1>4, <1>5 DEF Good, KindFits, StagedIsOwed, HeardIsSummed, CleanIsHad, SteadyIsHad
<1>7. Good(c, v, n)
  BY <1>4, <1>5, <1>6 DEF Good
<1> QED
  BY <1>7 DEF c, v, b, u

LEMMA FlushIsGood ==
  ASSUME NEW r, NEW w, NEW n, Good(r, w, n), r.dirty, NEW done \in BOOLEAN
  PROVE  LET c == [r EXCEPT !.dirty = FALSE, !.buf = <<>>]
             v == [w EXCEPT !.owed = <<>>, !.flushed = done]
         IN /\ Good(c, v, n) /\ c.path = r.path
            /\ ~v.clean \/ c.ra = <<>>
<1> DEFINE e == <<>>
           c == [r EXCEPT !.dirty = FALSE, !.buf = e]
           v == [w EXCEPT !.owed = e, !.flushed = done]
<1>1. r \in HandleValue /\ w \in HistValue /\ e \in Content /\ e \in Text
  BY Empty DEF Good
<1> HIDE DEF e
<1>2. /\ c \in HandleValue /\ c.path = r.path /\ c.dir = r.dir /\ c.size = r.size /\ c.pos = r.pos
      /\ c.raStart = r.raStart /\ c.ra = r.ra /\ c.dirty = FALSE /\ c.buf = e
      /\ c.digest = r.digest /\ c.expected = r.expected /\ c.consumed = r.consumed
  BY <1>1 DEF HandleValue
<1>3. /\ v \in HistValue /\ v.offered = w.offered /\ v.got = w.got /\ v.owed = e
      /\ v.steady = w.steady /\ v.clean = w.clean
  BY <1>1 DEF HistValue
<1> HIDE DEF v, c
<1>4. /\ StagedIsOwed(c, v) /\ HeardIsSummed(c, v) /\ CleanIsHad(c, v, n) /\ SteadyIsHad(c, v, n)
      /\ ~v.clean \/ c.ra = <<>>
  BY <1>2, <1>3 DEF Good, StagedIsOwed, HeardIsSummed, CleanIsHad, SteadyIsHad
<1>5. KindFits(c)
  BY <1>2 DEF Good, KindFits, e
<1>6. Good(c, v, n)
  BY <1>2, <1>3, <1>4, <1>5 DEF Good
<1> QED
  BY <1>2, <1>4, <1>6 DEF c, v, e

LEMMA SnapshotIsGood ==
  ASSUME NEW r, NEW w, NEW n, Good(r, w, n),
         NEW snap \in {{}} \cup {{l} : l \in ListingValue}, NEW left \in ListingValue
  PROVE  LET c == [r EXCEPT !.snap = snap, !.left = left]
         IN Good(c, w, n) /\ c.path = r.path
<1> DEFINE c == [r EXCEPT !.snap = snap, !.left = left]
<1>1. r \in HandleValue
  BY DEF Good
<1>2. /\ c \in HandleValue /\ c.path = r.path /\ c.dir = r.dir /\ c.size = r.size /\ c.pos = r.pos
      /\ c.raStart = r.raStart /\ c.ra = r.ra /\ c.dirty = r.dirty /\ c.buf = r.buf
      /\ c.digest = r.digest /\ c.expected = r.expected /\ c.consumed = r.consumed
  BY <1>1 DEF HandleValue
<1> HIDE DEF c
<1>3. Good(c, w, n)
  BY <1>2 DEF Good, KindFits, StagedIsOwed, HeardIsSummed, CleanIsHad, SteadyIsHad
<1> QED
  BY <1>2, <1>3 DEF c

LEMMA RenamedIsGood ==
  ASSUME NEW r, NEW w, NEW n, Good(r, w, n), NEW to \in Path
  PROVE  LET c == [r EXCEPT !.path = to]
         IN Good(c, w, n) /\ c.path = to
<1> DEFINE c == [r EXCEPT !.path = to]
<1>1. r \in HandleValue /\ to \in Directory
  BY PathIs DEF Good
<1>2. /\ c \in HandleValue /\ c.path = to /\ c.dir = r.dir /\ c.size = r.size /\ c.pos = r.pos
      /\ c.raStart = r.raStart /\ c.ra = r.ra /\ c.dirty = r.dirty /\ c.buf = r.buf
      /\ c.digest = r.digest /\ c.expected = r.expected /\ c.consumed = r.consumed
  BY <1>1 DEF HandleValue
<1> HIDE DEF c
<1>3. Good(c, w, n)
  BY <1>2 DEF Good, KindFits, StagedIsOwed, HeardIsSummed, CleanIsHad, SteadyIsHad
<1> QED
  BY <1>2, <1>3 DEF c

LEMMA HeardIs ==
  ASSUME NEW w \in HistValue, NEW bytes \in Text
  PROVE  /\ Heard(w, bytes) \in HistValue /\ Heard(w, bytes).steady = w.steady
         /\ Heard(w, bytes) = [Heard(w, bytes) EXCEPT !.steady = w.steady, !.clean = w.clean]
<1> DEFINE g == w.got \o bytes
           o == [w EXCEPT !.got = g]
<1>1. g \in Text
  BY HistFields, Joined
<1> HIDE DEF g
<1>2. o \in HistValue /\ o.steady = w.steady /\ o = [o EXCEPT !.steady = w.steady, !.clean = w.clean]
  BY <1>1 DEF HistValue
<1>3. w = [w EXCEPT !.steady = w.steady, !.clean = w.clean]
  BY DEF HistValue
<1>4. Heard(w, bytes) = IF w.offered = {} THEN w ELSE o
  BY DEF Heard, g
<1> HIDE DEF o
<1> QED
  BY <1>2, <1>3, <1>4

LEMMA WantedIs ==
  ASSUME NEW r \in HandleValue, r.pos < r.size, NEW n \in 1..MaxLen
  PROVE  Wanted(r, n) \in Nat /\ Wanted(r, n) <= r.size - r.pos /\ Wanted(r, n) >= 1
<1>1. r.pos \in Nat /\ r.size \in Nat /\ r.size - r.pos \in Nat /\ r.size - r.pos >= 1
  BY HandleFields
<1>2. n \in Nat /\ n >= 1
  BY SizeAssumption
<1> QED
  BY <1>1, <1>2 DEF Wanted, Lower

LEMMA HitIs ==
  ASSUME NEW r \in HandleValue, r.pos < r.size, InReadAhead(r), NEW n \in 1..MaxLen
  PROVE  LET skip == r.pos - r.raStart
             k == Lower(Wanted(r, n), Len(r.ra) - skip)
         IN /\ skip \in Nat /\ r.raStart + skip = r.pos /\ r.ra # <<>>
            /\ k \in Nat /\ skip + k <= Len(r.ra) /\ r.pos + k <= r.size
<1> DEFINE a == r.raStart
           p == r.pos
           z == r.size
           l == Len(r.ra)
           v == Wanted(r, n)
<1>1. p \in Nat /\ z \in Nat /\ a \in Nat /\ l \in Nat /\ (l = 0 <=> r.ra = <<>>)
  BY HandleFields, LenIsNat
<1>2. a <= p /\ p < a + l
  BY DEF InReadAhead
<1>3. v \in Nat /\ v <= z - p
  BY WantedIs
<1>4. r.pos < r.size
  OBVIOUS
<1> HIDE DEF a, p, z, l, v
<1>5. p - a \in Nat /\ a + (p - a) = p /\ l - (p - a) \in Nat /\ l # 0
  BY <1>1, <1>2
<1>6. Lower(v, l - (p - a)) \in Nat /\ Lower(v, l - (p - a)) <= v
      /\ Lower(v, l - (p - a)) <= l - (p - a)
  BY <1>3, <1>5, LowerIs
<1>7. (p - a) + Lower(v, l - (p - a)) <= l /\ p + Lower(v, l - (p - a)) <= z
  BY <1>1, <1>3, <1>5, <1>6
<1> QED
  BY <1>1, <1>5, <1>6, <1>7 DEF a, p, z, l, v

LEMMA ReadHitKeeps ==
  ASSUME Inv, NEW h \in Handle, NEW n \in 1..MaxLen, ReadHit(h, n)
  PROVE  HandlesGood'
<1> DEFINE r == fh[h]
           w == hist[h]
           nd == NodeAt(fs, r.path)
           skip == r.pos - r.raStart
           k == Lower(Wanted(r, n), Len(r.ra) - skip)
           bytes == SubSeq(r.ra, skip + 1, skip + k)
           c == Consumed(r, r.pos, bytes)
           o == Heard(w, bytes)
<1>1. /\ FileHandle(h) /\ r.pos < r.size /\ InReadAhead(r)
      /\ fh' = [fh EXCEPT ![h] = [c EXCEPT !.pos = @ + Len(bytes)]]
      /\ hist' = Watched([hist EXCEPT ![h] = Heard(@, bytes)], {})
  BY DEF ReadHit, Observe
<1>2. /\ Opened(h) /\ ~r.dir /\ r.path \in Path /\ nd.data \in Text
      /\ r \in HandleValue /\ w \in HistValue /\ Good(r, w, nd) /\ KindFits(r)
  BY <1>1, FileIsThere, HandleIsGood, ContentIsText
<1>3. /\ r.pos \in Nat /\ r.size \in Nat /\ r.size <= MaxLen /\ r.raStart \in Nat
      /\ r.ra \in Text /\ Len(r.ra) \in Nat
  BY <1>2, HandleFields, LenIsNat
<1> HIDE DEF r, w
<1>4. skip \in Nat /\ r.raStart + skip = r.pos /\ r.ra # <<>>
  BY <1>1, <1>2, HitIs
<1>5. k \in Nat /\ skip + k <= Len(r.ra) /\ r.pos + k <= r.size
  BY <1>1, <1>2, HitIs
<1>6. bytes \in Text /\ Len(bytes) = k
  BY <1>3, <1>4, <1>5, Piece
<1>7. ASSUME IsPart(r.ra, nd.data, r.raStart)
      PROVE  IsPart(bytes, nd.data, r.pos)
  <2>1. IsPart(bytes, nd.data, r.raStart + skip)
    BY <1>2, <1>3, <1>4, <1>5, <1>7, PieceOfPart
  <2> QED
    BY <2>1, <1>4
<1> HIDE DEF bytes, k, skip, nd
<1>8. /\ w.steady => /\ w.steady /\ IsPart(bytes, nd.data, r.pos)
                     /\ r.ra # <<>> => IsPart(r.ra, nd.data, r.raStart)
      /\ w.clean => ~r.dirty /\ (r.ra # <<>> => IsPart(r.ra, nd.data, r.raStart))
  BY <1>2, <1>4, <1>7 DEF Good, SteadyIsHad, CleanIsHad
<1>9. r.raStart \in 0..MaxLen /\ r.ra \in Content /\ w.steady \in BOOLEAN /\ w.clean \in BOOLEAN
  BY <1>2 DEF HandleValue, HistValue
<1>10. r.pos + Len(bytes) <= r.size
  BY <1>5, <1>6
<1>11. Good([c EXCEPT !.pos = r.pos + Len(bytes), !.raStart = r.raStart, !.ra = r.ra],
            [o EXCEPT !.steady = w.steady, !.clean = w.clean], nd)
  BY <1>2, <1>6, <1>8, <1>9, <1>10, AdvanceIsGood
<1>12. /\ c \in HandleValue /\ c.pos = r.pos /\ c.raStart = r.raStart /\ c.ra = r.ra
       /\ c.path = r.path
  BY <1>2, <1>6, <1>10, ConsumedHere
<1>13. o = [o EXCEPT !.steady = w.steady, !.clean = w.clean]
  BY <1>2, <1>6, HeardIs
<1> HIDE DEF c, o
<1> DEFINE r2 == [c EXCEPT !.pos = @ + Len(bytes)]
<1>14. r2 = [c EXCEPT !.pos = r.pos + Len(bytes), !.raStart = r.raStart, !.ra = r.ra]
  BY <1>12 DEF HandleValue
<1>15. r2.path = r.path
  BY <1>12 DEF HandleValue
<1>16. Good(r2, o, nd)
  BY <1>11, <1>13, <1>14
<1> HIDE DEF r2
<1>17. fh' = [fh EXCEPT ![h] = r2] /\ hist' = Watched([hist EXCEPT ![h] = o], {})
  BY <1>1 DEF r2, o, w
<1> QED
  BY <1>2, <1>15, <1>16, <1>17, OneHandleChanges DEF Inv, r, nd

LEMMA FrontIs ==
  ASSUME NEW s \in Text, NEW k \in Nat, k <= Len(s)
  PROVE  /\ SubSeq(s, 1, k) \in Text /\ Len(SubSeq(s, 1, k)) = k
         /\ \A whole \in Text, a \in Nat :
              IsPart(s, whole, a) => IsPart(SubSeq(s, 1, k), whole, a)
<1> DEFINE z == 0
<1>1. z \in Nat /\ z + 1 = 1 /\ z + k = k /\ z + k <= Len(s) /\ \A a \in Nat : a + z = a
  OBVIOUS
<1> HIDE DEF z
<1>2. SubSeq(s, z + 1, z + k) \in Text /\ Len(SubSeq(s, z + 1, z + k)) = k
  BY <1>1, Piece
<1>3. ASSUME NEW whole \in Text, NEW a \in Nat, IsPart(s, whole, a)
      PROVE  IsPart(SubSeq(s, 1, k), whole, a)
  <2>1. IsPart(SubSeq(s, z + 1, z + k), whole, a + z)
    BY <1>1, <1>3, PieceOfPart
  <2> QED
    BY <1>1, <2>1
<1> QED
  BY <1>1, <1>2, <1>3

(***************************************************************************)
(* What a GET asks for is there to be sent, and a garbled copy of it has   *)
(* its length.                                                             *)
(***************************************************************************)
Fetch(r, n) ==
  IF Wanted(r, n) < ReadAhead THEN Lower(ReadAhead, r.size - r.pos) ELSE Wanted(r, n)

LEMMA FetchIs ==
  ASSUME NEW r \in HandleValue, r.pos < r.size, NEW n \in 1..MaxLen, NEW data \in Text,
         r.pos < Len(data)
  PROVE  LET sent == SubSeq(data, r.pos + 1, r.pos + Lower(Fetch(r, n), Len(data) - r.pos))
         IN /\ sent \in Text /\ Len(sent) >= 1 /\ r.pos + Len(sent) <= r.size
            /\ IsPart(sent, data, r.pos)
<1> DEFINE p == r.pos
           z == r.size
           l == Len(data)
           v == Wanted(r, n)
           f == Fetch(r, n)
           k == Lower(f, l - p)
           sent == SubSeq(data, p + 1, p + k)
<1>1. p \in Nat /\ z \in Nat /\ l \in Nat /\ p < l /\ p < z
  BY HandleFields, LenIsNat
<1>2. v \in Nat /\ v <= z - p /\ v >= 1
  BY WantedIs
<1>3. f = IF v < ReadAhead THEN Lower(ReadAhead, z - p) ELSE v
  BY DEF Fetch
<1> HIDE DEF p, z, l, v, f
<1>4. f \in Nat /\ f >= 1 /\ f <= z - p
  BY <1>1, <1>2, <1>3, SizeAssumption DEF Lower
<1>5. k \in Nat /\ k >= 1 /\ p + k <= l /\ p + k <= z
  BY <1>1, <1>4 DEF Lower
<1> HIDE DEF k
<1>6. sent \in Text /\ Len(sent) = k /\ IsPart(sent, data, p)
  BY <1>1, <1>5, Piece, PieceIsPart DEF l
<1> QED
  BY <1>5, <1>6 DEF p, z, l, f, k

LEMMA ArrivedIs ==
  ASSUME NEW sent \in Text, Len(sent) >= 1, NEW bytes \in Arrived(sent)
  PROVE  bytes \in Text /\ Len(bytes) = Len(sent)
<1>1. 1 \in 1..Len(sent)
  BY LenIsNat
<1>2. \A b \in Byte : /\ [sent EXCEPT ![1] = b] \in Text
                      /\ Len([sent EXCEPT ![1] = b]) = Len(sent)
  BY <1>1, ExceptSeq DEF Text
<1> QED
  BY <1>2 DEF Arrived

LEMMA ReadMissKeeps ==
  ASSUME Inv, NEW h \in Handle, NEW n \in 1..MaxLen, ReadMiss(h, n)
  PROVE  HandlesGood'
<1> DEFINE r == fh[h]
           w == hist[h]
           nd == fs[r.path]
           ahead == Wanted(r, n) < ReadAhead
           sent == SubSeq(nd.data, r.pos + 1, r.pos + Lower(Fetch(r, n), Len(nd.data) - r.pos))
           User(bytes) == IF ahead THEN SubSeq(bytes, 1, Lower(Wanted(r, n), Len(bytes))) ELSE bytes
           Start == IF ahead THEN r.pos ELSE 0
           Kept(bytes) == IF ahead THEN bytes ELSE <<>>
           One(given) == DigestTaken(r, given)
           Was(given) == IF given THEN Offered(w, nd.data) ELSE w
           Two(bytes, given) ==
             [Consumed(One(given), r.pos, User(bytes)) EXCEPT
                !.pos = @ + Len(User(bytes)), !.raStart = Start, !.ra = Kept(bytes)]
           Is(bytes, given) ==
             [Heard(Was(given), User(bytes)) EXCEPT
                !.steady = @ /\ bytes = sent, !.clean = ~r.dirty /\ bytes = sent]
<1>1. /\ FileHandle(h) /\ r.pos < r.size /\ nd.kind = "file" /\ r.pos < Len(nd.data)
  BY DEF ReadMiss, HasRange
<1>0. sent = RangeOf(r.path, r.pos, Fetch(r, n))
  BY DEF RangeOf
<1> HIDE DEF sent
<1>2. PICK bytes \in Arrived(sent), given \in BOOLEAN :
        /\ given => DigestAsked(r)
        /\ fh' = [fh EXCEPT ![h] = Two(bytes, given)]
        /\ hist' = Watched([hist EXCEPT ![h] = Is(bytes, given)], {})
  <2>1. PICK bytes \in Arrived(RangeOf(r.path, r.pos, Fetch(r, n))), given \in BOOLEAN :
          /\ given => DigestAsked(r)
          /\ fh' = [fh EXCEPT ![h] = Two(bytes, given)]
          /\ Observe({}, {},
               [hist EXCEPT ![h] =
                  [Heard(Was(given), User(bytes)) EXCEPT
                     !.steady = @ /\ bytes = RangeOf(r.path, r.pos, Fetch(r, n)),
                     !.clean = ~r.dirty /\ bytes = RangeOf(r.path, r.pos, Fetch(r, n))]])
    BY ONLY ReadMiss(h, n), Zenon DEF ReadMiss, Fetch
  <2>2. bytes \in Arrived(sent) /\ Observe({}, {}, [hist EXCEPT ![h] = Is(bytes, given)])
    BY <1>0, <2>1
  <2> QED
    BY <2>1, <2>2, Zenon DEF Observe
<1> USE DEF sent
<1> DEFINE user == User(bytes)
           c == One(given)
           v == Was(given)
           kept == Kept(bytes)
           steady == w.steady /\ bytes = sent
           clean == ~r.dirty /\ bytes = sent
<1>3. /\ Opened(h) /\ ~r.dir /\ r.path \in Path /\ nd = NodeAt(fs, r.path)
      /\ nd.data \in Content /\ nd.data \in Text
      /\ r \in HandleValue /\ w \in HistValue /\ Good(r, w, nd) /\ KindFits(r)
  BY <1>1, FileIsThere, HandleIsGood, ContentIsText
<1> HIDE DEF r, w, nd
<1>4. /\ sent \in Text /\ Len(sent) >= 1 /\ r.pos + Len(sent) <= r.size
      /\ IsPart(sent, nd.data, r.pos)
  BY <1>1, <1>3, FetchIs
<1> HIDE DEF sent
<1>5. bytes \in Text /\ Len(bytes) = Len(sent)
  BY <1>2, <1>4, ArrivedIs
<1>6. /\ user \in Text /\ r.pos + Len(user) <= r.size
      /\ bytes = sent => IsPart(user, nd.data, r.pos)
  <2>1. r.pos \in Nat /\ r.size \in Nat /\ Wanted(r, n) \in Nat /\ Len(bytes) \in Nat
    BY <1>1, <1>3, <1>5, HandleFields, WantedIs, LenIsNat
  <2>2. Lower(Wanted(r, n), Len(bytes)) \in Nat /\ Lower(Wanted(r, n), Len(bytes)) <= Len(bytes)
    BY <2>1, LowerIs
  <2>3. CASE ahead
    <3>1. user = SubSeq(bytes, 1, Lower(Wanted(r, n), Len(bytes)))
      BY <2>3
    <3>2. user \in Text /\ Len(user) = Lower(Wanted(r, n), Len(bytes))
      BY <3>1, <2>2, <1>5, FrontIs
    <3>3. bytes = sent => IsPart(user, nd.data, r.pos)
      BY <3>1, <2>1, <2>2, <1>3, <1>4, <1>5, FrontIs
    <3> HIDE DEF user
    <3> QED
      BY <3>2, <3>3, <2>1, <2>2, <1>4, <1>5
  <2>4. CASE ~ahead
    BY <2>4, <1>4, <1>5
  <2> QED
    BY <2>3, <2>4
<1>7. /\ kept \in Content /\ Start \in 0..MaxLen
      /\ bytes = sent /\ kept # <<>> => IsPart(kept, nd.data, Start)
  <2>1. r.pos \in 0..MaxLen /\ 0 \in 0..MaxLen
    BY <1>3, SizeAssumption DEF HandleValue
  <2>2. Len(bytes) <= MaxLen
    BY <1>3, <1>4, <1>5, HandleFields, LenIsNat, SizeAssumption
  <2>3. bytes \in Content
    BY <1>5, <2>2, ContentIsText
  <2> QED
    BY <2>1, <2>3, <1>4, Empty
<1> HIDE DEF user, kept, ahead, Start
<1>8. Good(c, v, nd)
  BY <1>2, <1>3, AskedIsGood DEF nd
<1>9. c \in HandleValue /\ KindFits(c) /\ c.path = r.path /\ c.dir = r.dir /\ c.size = r.size
      /\ c.pos = r.pos /\ c.dirty = r.dirty
  BY <1>2, <1>3, DigestTakenIs DEF nd
<1>10. v \in HistValue /\ v.steady = w.steady
  <2>1. CASE given
    BY <2>1, <1>3, <1>8 DEF Good, HistValue, Offered
  <2>2. CASE ~given
    BY <2>2, <1>3
  <2> QED
    BY <2>1, <2>2
<1> HIDE DEF c, v
<1>11. steady \in BOOLEAN /\ clean \in BOOLEAN
  OBVIOUS
<1>12. /\ steady => /\ v.steady /\ IsPart(user, nd.data, c.pos)
                    /\ kept # <<>> => IsPart(kept, nd.data, Start)
       /\ clean => ~c.dirty /\ (kept # <<>> => IsPart(kept, nd.data, Start))
  BY <1>6, <1>7, <1>9, <1>10
<1> HIDE DEF steady, clean
<1>13. c.pos + Len(user) <= c.size /\ ~c.dir
  BY <1>3, <1>6, <1>9
<1>14. Good([Consumed(c, c.pos, user) EXCEPT !.pos = c.pos + Len(user), !.raStart = Start, !.ra = kept],
            [Heard(v, user) EXCEPT !.steady = steady, !.clean = clean], nd)
  BY <1>3, <1>6, <1>7, <1>8, <1>11, <1>12, <1>13, AdvanceIsGood
<1> DEFINE d == Consumed(c, c.pos, user)
           o == Heard(v, user)
           r2 == Two(bytes, given)
           w2 == Is(bytes, given)
<1>15. d \in HandleValue /\ d.pos = c.pos /\ d.path = c.path
  BY <1>6, <1>9, <1>13, ConsumedHere
<1>16. o \in HistValue /\ o.steady = v.steady
  BY <1>6, <1>10, HeardIs
<1>17. /\ r2 = [d EXCEPT !.pos = @ + Len(user), !.raStart = Start, !.ra = kept]
       /\ w2 = [o EXCEPT !.steady = @ /\ bytes = sent, !.clean = ~r.dirty /\ bytes = sent]
  BY <1>9 DEF user, kept, c, v
<1> HIDE DEF r2, w2, d, o
<1>18. /\ r2 = [d EXCEPT !.pos = c.pos + Len(user), !.raStart = Start, !.ra = kept]
       /\ r2.path = c.path
  BY <1>15, <1>17 DEF HandleValue
<1>19. w2 = [o EXCEPT !.steady = steady, !.clean = clean]
  BY <1>10, <1>16, <1>17 DEF HistValue, steady, clean
<1>20. Good(r2, w2, nd)
  BY <1>14, <1>18, <1>19 DEF d, o
<1>21. fh' = [fh EXCEPT ![h] = r2] /\ hist' = Watched([hist EXCEPT ![h] = w2], {})
  BY <1>2 DEF r2, w2
<1> QED
  BY <1>3, <1>9, <1>18, <1>20, <1>21, OneHandleChanges DEF Inv, r

LEMMA OpenKeeps ==
  ASSUME Inv, NEW h \in Handle,
         \/ OpenRoot(h)
         \/ \E p \in Path : OpenFound(h, p) \/ OpenRefused(h, p) \/ OpenCreate(h, p)
  PROVE  HandlesGood'
<1>1. HandlesGood
  BY DEF Inv
<1>2. 0 \in 0..MaxLen /\ Root \in Directory
  BY SizeAssumption DEF Directory
<1>3. CASE OpenRoot(h)
  BY <1>1, <1>2, <1>3, OneHandleOpens DEF OpenRoot, Observe
<1>4. ASSUME NEW p \in Path, OpenFound(h, p)
      PROVE  HandlesGood'
  <2>1. PICK e \in Matches(p) : fh' = [fh EXCEPT ![h] = NewHandle(p, e.dir, e.size)]
    BY <1>4 DEF OpenFound
  <2>2. ListingOf(Parent(p)) \in ListingValue
    BY PathIs, ListingOfIs DEF Inv
  <2>3. e \in ListingOf(Parent(p))
    BY DEF Matches
  <2>4. e.dir \in BOOLEAN /\ e.size \in 0..MaxLen
    BY <2>2, <2>3 DEF ListingValue
  <2> QED
    BY <1>1, <1>4, <2>1, <2>4, PathIs, OneHandleOpens DEF OpenFound, Observe
<1>5. ASSUME NEW p \in Path, OpenRefused(h, p)
      PROVE  HandlesGood'
  BY <1>1, <1>5, NoHandleChanges DEF OpenRefused, Observe
<1>6. ASSUME NEW p \in Path, OpenCreate(h, p)
      PROVE  HandlesGood'
  <2>1. PICK isDir \in BOOLEAN : fh' = fh \/ fh' = [fh EXCEPT ![h] = NewHandle(p, isDir, 0)]
    BY ONLY <1>6, ZenonT(60) DEF OpenCreate
  <2>2. ~Opened(h) /\ hist' = Watched(hist, {})
    BY <1>6 DEF OpenCreate, Observe
  <2>3. CASE fh' = fh
    BY <1>1, <2>2, <2>3, NoHandleChanges
  <2>4. CASE fh' = [fh EXCEPT ![h] = NewHandle(p, isDir, 0)]
    BY <1>1, <1>2, <2>2, <2>4, PathIs, OneHandleOpens
  <2> QED
    BY <2>1, <2>3, <2>4
<1> QED
  BY <1>3, <1>4, <1>5, <1>6

LEMMA WriteKeeps ==
  ASSUME Inv, NEW h \in Handle, NEW d \in Content \ {<<>>}, Write(h, d) \/ WriteFails(h, d)
  PROVE  HandlesGood'
<1> DEFINE r == fh[h]
           w == hist[h]
           nd == NodeAt(fs, r.path)
<1>1. FileHandle(h)
  BY DEF Write, WriteFails
<1>2. /\ HandlesGood /\ Opened(h) /\ ~r.dir /\ nd.data \in Text /\ d \in Text
      /\ r \in HandleValue /\ w \in HistValue /\ Good(r, w, nd) /\ KindFits(r)
  BY <1>1, FileIsThere, HandleIsGood, ContentIsText DEF Inv
<1>3. CASE Write(h, d)
  <2> DEFINE r2 == Staged(r, d)
             w2 == [Broken(w) EXCEPT !.owed = Broken(w).owed \o d]
  <2>1. /\ fh' = [fh EXCEPT ![h] = r2] /\ hist' = Watched([hist EXCEPT ![h] = w2], {})
        /\ Len(r.buf) + Len(d) <= PutMax /\ r.pos + Len(d) <= MaxLen
    BY <1>3 DEF Write, Observe
  <2> HIDE DEF r, w, nd
  <2>2. Good(r2, w2, nd)
    BY <1>2, <2>1, WriteIsGood
  <2>3. r2.path = r.path
    <3>1. Len(r.buf) + Len(d) <= MaxLen
      BY <1>2, <2>1, HandleFields, LenIsNat, SizeAssumption
    <3> QED
      BY <1>2, <2>1, <3>1, StagedIs
  <2> HIDE DEF r2, w2
  <2> QED
    BY <1>2, <2>1, <2>2, <2>3, OneHandleChanges DEF r, nd
<1>4. CASE WriteFails(h, d)
  <2> DEFINE r2 == IF r.dirty THEN r ELSE [Unsummed(r) EXCEPT !.dirty = TRUE]
             w2 == [Broken(w) EXCEPT !.clean = FALSE]
  <2>1. fh' = [fh EXCEPT ![h] = r2] /\ hist' = Watched([hist EXCEPT ![h] = w2], {})
    BY <1>4 DEF WriteFails, Observe
  <2> HIDE DEF r, w, nd
  <2>2. Good(r2, w2, nd)
    BY <1>2, WriteFailsIsGood
  <2>3. r2.path = r.path
    BY <1>2, DirtiedIs
  <2> HIDE DEF r2, w2
  <2> QED
    BY <1>2, <2>1, <2>2, <2>3, OneHandleChanges DEF r, nd
<1> QED
  BY <1>3, <1>4

LEMMA FlushKeeps ==
  ASSUME Inv, NEW h \in Handle, Flush(h)
  PROVE  HandlesGood'
<1> DEFINE r == fh[h]
           w == hist[h]
           nd == NodeAt(fs, r.path)
<1>1. Opened(h) /\ r.dirty
  BY DEF Flush
<1>2. HandlesGood /\ r \in HandleValue /\ w \in HistValue /\ Good(r, w, nd)
  BY <1>1, HandleIsGood DEF Inv
<1>3. PICK a \in Uploads(h) :
        /\ fh' = [fh EXCEPT ![h].dirty = FALSE, ![h].buf = <<>>]
        /\ hist' = Watched([hist EXCEPT ![h].owed = <<>>, ![h].flushed = Uploaded(a)], {h})
  BY DEF Flush, Observe
<1> DEFINE done == Uploaded(a)
           r2 == [r EXCEPT !.dirty = FALSE, !.buf = <<>>]
           w2 == [w EXCEPT !.owed = <<>>, !.flushed = done]
<1>4. done \in BOOLEAN
  BY DEF Uploaded
<1>5. fh' = [fh EXCEPT ![h] = r2]
  BY <1>2, <1>3 DEF HandlesGood
<1>6. [hist EXCEPT ![h].owed = <<>>, ![h].flushed = done] = [hist EXCEPT ![h] = w2]
  BY <1>2 DEF HandlesGood
<1> HIDE DEF done, r, w, nd
<1>7. Good(r2, w2, nd) /\ r2.path = r.path /\ (~w2.clean \/ r2.ra = <<>>)
  BY <1>1, <1>2, <1>4, FlushIsGood
<1> HIDE DEF r2, w2
<1>8. hist' = Watched([hist EXCEPT ![h] = w2], {h})
  BY <1>3, <1>6 DEF done
<1> QED
  BY <1>1, <1>2, <1>5, <1>7, <1>8, OneHandleChanges DEF r, nd

LEMMA CloseKeeps ==
  ASSUME Inv, NEW h \in Handle, Close(h)
  PROVE  HandlesGood'
<1>1. fh' = [fh EXCEPT ![h] = Closed]
  BY DEF Close
<1>2. \E mine \in {{}, {h}} : hist' = Watched(hist, mine)
  BY DEF Close, Observe
<1> QED
  BY <1>1, <1>2, OneHandleCloses DEF Inv

LEMMA SeekKeeps ==
  ASSUME Inv, NEW h \in Handle, NEW at \in 0..MaxLen, Seek(h, at)
  PROVE  HandlesGood'
<1> DEFINE r == fh[h]
           w == hist[h]
           nd == NodeAt(fs, r.path)
           r2 == [Unsummed(r) EXCEPT !.pos = at]
           w2 == [Broken(w) EXCEPT !.flushed = FALSE]
<1>1. /\ FileHandle(h) /\ fh' = [fh EXCEPT ![h] = r2]
      /\ hist' = Watched([hist EXCEPT ![h] = w2], {})
  BY DEF Seek, Observe
<1>2. HandlesGood /\ Opened(h) /\ r \in HandleValue /\ KindFits(r) /\ Good(r, w, nd)
  BY <1>1, HandleIsGood DEF Inv, FileHandle
<1> HIDE DEF r, w, nd
<1>3. Good(r2, w2, nd)
  BY <1>2, SeekIsGood
<1>4. r2.path = r.path
  <2> DEFINE u == Unsummed(r)
  <2>1. u \in HandleValue /\ u.path = r.path
    BY <1>2, UnsummedIs
  <2> HIDE DEF u
  <2>2. [u EXCEPT !.pos = at].path = u.path
    BY <2>1 DEF HandleValue
  <2> QED
    BY <2>1, <2>2 DEF u
<1> HIDE DEF r2, w2
<1> QED
  BY <1>1, <1>2, <1>3, <1>4, OneHandleChanges DEF r, nd

LEMMA DirectoryKeeps ==
  ASSUME Inv, NEW h \in Handle, Rewind(h) \/ LoadSnapshot(h) \/ ReadDir(h)
  PROVE  HandlesGood'
<1> DEFINE r == fh[h]
           w == hist[h]
           nd == NodeAt(fs, r.path)
           Has(snap, left) == [r EXCEPT !.snap = snap, !.left = left]
           Snaps == {{}} \cup {{l} : l \in ListingValue}
<1>1. Opened(h) /\ hist' = Watched(hist, {})
  BY DEF Rewind, LoadSnapshot, ReadDir, Observe
<1>2. HandlesGood /\ r \in HandleValue /\ w \in HistValue /\ Good(r, w, nd)
  BY <1>1, HandleIsGood DEF Inv
<1>3. r.snap \in Snaps /\ r.left \in ListingValue /\ r.path \in Directory
  BY <1>2 DEF HandleValue
<1>4. \A l \in ListingValue : \A left \in AfterOne(l) : left \in ListingValue
  BY DEF AfterOne, ListingValue
<1>5. fh' = fh \/ \E snap \in Snaps, left \in ListingValue : fh' = [fh EXCEPT ![h] = Has(snap, left)]
  <2>1. CASE Rewind(h)
    <3>1. UNION r.snap \in ListingValue
      BY <1>3 DEF ListingValue
    <3>2. fh' = [fh EXCEPT ![h] = [r EXCEPT !.left = UNION r.snap]]
      BY <2>1, <1>2 DEF Rewind, HandlesGood
    <3>3. [r EXCEPT !.left = UNION r.snap] = Has(r.snap, UNION r.snap)
      BY <1>2 DEF HandleValue
    <3> QED
      BY <1>3, <3>1, <3>2, <3>3
  <2>2. CASE ReadDir(h)
    <3>1. PICK left \in AfterOne(r.left) : fh' = [fh EXCEPT ![h].left = left]
      BY <2>2 DEF ReadDir
    <3>2. fh' = [fh EXCEPT ![h] = [r EXCEPT !.left = left]]
      BY <3>1, <1>2 DEF HandlesGood
    <3>3. [r EXCEPT !.left = left] = Has(r.snap, left)
      BY <1>2 DEF HandleValue
    <3> QED
      BY <1>3, <1>4, <3>1, <3>2, <3>3
  <2>3. CASE LoadSnapshot(h)
    <3> DEFINE l == ListingOf(r.path)
    <3>1. l \in ListingValue
      BY <1>3, ListingOfIs DEF Inv
    <3>2. fh' = fh \/ \E left \in AfterOne(l) : fh' = [fh EXCEPT ![h].snap = {l}, ![h].left = left]
      BY <2>3 DEF LoadSnapshot
    <3> HIDE DEF l
    <3>3. CASE fh' # fh
      <4>1. PICK left \in AfterOne(l) : fh' = [fh EXCEPT ![h].snap = {l}, ![h].left = left]
        BY <3>2, <3>3
      <4>2. fh' = [fh EXCEPT ![h] = Has({l}, left)]
        BY <4>1, <1>2 DEF HandlesGood
      <4>3. {l} \in Snaps /\ left \in ListingValue
        BY <3>1, <1>4
      <4> QED
        BY <4>2, <4>3
    <3> QED
      BY <3>3
  <2> QED
    BY <2>1, <2>2, <2>3
<1>6. CASE fh' = fh
  BY <1>1, <1>2, <1>6, NoHandleChanges
<1>7. ASSUME NEW snap \in Snaps, NEW left \in ListingValue, fh' = [fh EXCEPT ![h] = Has(snap, left)]
      PROVE  HandlesGood'
  <2> DEFINE r2 == Has(snap, left)
  <2>1. hist = [hist EXCEPT ![h] = w]
    BY <1>2 DEF HandlesGood
  <2> HIDE DEF r, w, nd
  <2>2. Good(r2, w, nd) /\ r2.path = r.path
    BY <1>2, SnapshotIsGood
  <2>3. fh' = [fh EXCEPT ![h] = r2]
    BY <1>7
  <2>4. hist' = Watched([hist EXCEPT ![h] = w], {})
    BY <1>1, <2>1
  <2> HIDE DEF r2
  <2> QED
    BY <1>1, <1>2, <2>2, <2>3, <2>4, OneHandleChanges DEF r, nd
<1> QED
  BY <1>5, <1>6, <1>7

LEMMA SetInfoKeeps ==
  ASSUME Inv, NEW h \in Handle, NEW name \in Name, SetInfo(h, name)
  PROVE  HandlesGood'
<1> DEFINE r == fh[h]
           w == hist[h]
           nd == NodeAt(fs, r.path)
           to == Parent(r.path) \o <<name>>
           r2 == [r EXCEPT !.path = to]
<1>1. Opened(h) /\ r.path # Root /\ to \in Path /\ hist' = Watched(hist, {})
  BY DEF SetInfo, Observe
<1>2. HandlesGood /\ r \in HandleValue /\ w \in HistValue /\ Good(r, w, nd)
  BY <1>1, HandleIsGood DEF Inv
<1>3. fh' = fh \/ fh' = [fh EXCEPT ![h].path = to]
  BY Zenon DEF SetInfo
<1>4. CASE fh' = fh
  BY <1>1, <1>2, <1>4, NoHandleChanges
<1>5. CASE fh' = [fh EXCEPT ![h].path = to]
  <2>1. fh' = [fh EXCEPT ![h] = r2] /\ hist = [hist EXCEPT ![h] = w]
    BY <1>2, <1>5 DEF HandlesGood
  <2> HIDE DEF r, w, nd, to
  <2>2. Good(r2, w, nd) /\ r2.path = to
    BY <1>1, <1>2, RenamedIsGood
  <2>3. (r2.path = Root) = (r.path = Root)
    BY <1>1, <2>2, PathIs
  <2>4. hist' = Watched([hist EXCEPT ![h] = w], {})
    BY <1>1, <2>1
  <2> HIDE DEF r2
  <2> QED
    BY <1>1, <1>2, <2>1, <2>2, <2>3, <2>4, OneHandleChanges DEF r, nd
<1> QED
  BY <1>3, <1>4, <1>5

LEMMA CallbackKeeps ==
  ASSUME Inv, NEW h \in Handle, Callback(h)
  PROVE  HandlesGood'
<1> HandlesGood
  BY DEF Inv
<1>1. CASE \E n \in 1..MaxLen : ReadHit(h, n) \/ ReadMiss(h, n)
  BY <1>1, ReadHitKeeps, ReadMissKeeps
<1>2. CASE ReadError(h)
  BY <1>2, NoHandleChanges DEF ReadError, Observe
<1>3. CASE Del(h)
  <2>1. fh' = fh /\ hist' = Watched(hist, {})
    BY <1>3, Zenon DEF Del, Observe
  <2> QED
    BY <2>1, NoHandleChanges
<1>4. CASE GetInfo(h)
  BY <1>4, NoHandleChanges DEF GetInfo, Observe
<1> QED
  BY <1>1, <1>2, <1>3, <1>4, OpenKeeps, WriteKeeps, FlushKeeps, CloseKeeps, SeekKeeps,
     DirectoryKeeps, SetInfoKeeps DEF Callback

LEMMA HandlesStayGood == Inv /\ [Next]_vars => HandlesGood'
<1> SUFFICES ASSUME Inv, [Next]_vars
             PROVE  HandlesGood'
  OBVIOUS
<1> HandlesGood
  BY DEF Inv
<1>1. CASE \E d \in Directory : Forget(d)
  BY <1>1, NoHandleChanges DEF Forget, Observe
<1>2. CASE \E p \in Path, node \in Node : OthersChange(p, node)
  BY <1>2, NoHandleChanges DEF OthersChange, Observe
<1>3. CASE UNCHANGED vars
  BY <1>3 DEF vars, HandlesGood, Opened
<1> QED
  BY <1>1, <1>2, <1>3, CallbackKeeps DEF Next

-----------------------------------------------------------------------------
(* The world keeps its types.                                              *)

Cache == [Directory -> Held]

LEMMA WorldIs ==
  ASSUME Inv
  PROVE  readOnly \in BOOLEAN /\ fs \in Tree /\ cached \in Cache
         /\ reply \in {"ok", "error", "corrupted"}
BY DEF Inv, World, Tree, Cache

LEMMA ListingKeepsCache ==
  ASSUME Inv, NEW d \in Directory
  PROVE  Fetched(d) \in Cache
BY CacheIs DEF Inv, Cache

LEMMA InvalidationKeepsCache ==
  ASSUME Inv, NEW c \in Cache, NEW p \in Path
  PROVE  Invalidated(c, p) \in Cache
BY CacheIs DEF Inv, Cache

(***************************************************************************)
(* A handle on the root is a directory's and never has anything to upload. *)
(***************************************************************************)
LEMMA DirtyIsFile ==
  ASSUME Inv, NEW h \in Handle, Opened(h), fh[h].dirty
  PROVE  fh[h].path \in Path /\ fh[h].buf \in Content /\ FileHandle(h)
<1>1. fh[h] \in HandleValue /\ KindFits(fh[h])
  BY HandleIsGood
<1> QED
  BY <1>1 DEF HandleValue, KindFits, FileHandle

LEMMA PathOfHandle ==
  ASSUME Inv, NEW h \in Handle, Opened(h)
  PROVE  fh[h].path \in Directory /\ (fh[h].path # Root => fh[h].path \in Path)
<1>1. fh[h] \in HandleValue
  BY HandleIsGood
<1>2. fh[h].path \in Directory
  BY <1>1 DEF HandleValue
<1> QED
  BY <1>2 DEF Directory

LEMMA WorldStays == Inv /\ [Next]_vars => World'
<1> SUFFICES ASSUME Inv, [Next]_vars
             PROVE  /\ readOnly' \in BOOLEAN /\ fs' \in Tree /\ cached' \in Cache
                    /\ reply' \in {"ok", "error", "corrupted"}
  BY DEF World, Tree, Cache
<1> USE WorldIs
<1>1. ASSUME NEW h \in Handle, OpenRoot(h)
      PROVE  /\ readOnly' \in BOOLEAN /\ fs' \in Tree /\ cached' \in Cache
             /\ reply' \in {"ok", "error", "corrupted"}
  BY <1>1 DEF OpenRoot
<1>2. ASSUME NEW h \in Handle, NEW p \in Path, OpenFound(h, p)
      PROVE  /\ readOnly' \in BOOLEAN /\ fs' \in Tree /\ cached' \in Cache
             /\ reply' \in {"ok", "error", "corrupted"}
  BY <1>2, PathIs, ListingKeepsCache DEF OpenFound
<1>3. ASSUME NEW h \in Handle, NEW p \in Path, OpenRefused(h, p)
      PROVE  /\ readOnly' \in BOOLEAN /\ fs' \in Tree /\ cached' \in Cache
             /\ reply' \in {"ok", "error", "corrupted"}
  BY <1>3, PathIs, ListingKeepsCache DEF OpenRefused, AfterLookup
<1>4. ASSUME NEW h \in Handle, NEW p \in Path, OpenCreate(h, p)
      PROVE  /\ readOnly' \in BOOLEAN /\ fs' \in Tree /\ cached' \in Cache
             /\ reply' \in {"ok", "error", "corrupted"}
  <2> DEFINE Asked(isDir) == IF isDir THEN Mkdir(p) ELSE Put(p, <<>>)
             Done(isDir, fault) ==
               IF isDir THEN Sent(fault, Asked(isDir)).code \in {200, 201}
               ELSE Sent(fault, Asked(isDir)).code # 0
  <2>1. PICK listed \in BOOLEAN, isDir \in BOOLEAN, fault \in RequestFaults :
          /\ fs' = Sent(fault, Asked(isDir)).fs
          /\ cached' = IF Done(isDir, fault) THEN Invalidated(AfterLookup(p, listed), p)
                       ELSE AfterLookup(p, listed)
          /\ reply' = IF Done(isDir, fault) THEN "ok" ELSE "error"
    BY <1>4, SMTT(60) DEF OpenCreate
  <2> HIDE DEF Done
  <2>2. AfterLookup(p, listed) \in Cache
    BY PathIs, ListingKeepsCache DEF AfterLookup
  <2>3. Asked(isDir).fs \in Tree
    BY MkdirIs, PutIs, Empty
  <2>4. fs' \in Tree
    <3>1. \E f \in Tree : f = Sent(fault, Asked(isDir)).fs
      BY <2>3, SentIs
    <3> QED
      BY ONLY <2>1, <3>1
  <2> QED
    BY <1>4, <2>1, <2>2, <2>4, InvalidationKeepsCache DEF OpenCreate
<1>5. ASSUME NEW h \in Handle, NEW n \in 1..MaxLen, ReadHit(h, n) \/ ReadMiss(h, n)
      PROVE  /\ readOnly' \in BOOLEAN /\ fs' \in Tree /\ cached' \in Cache
             /\ reply' \in {"ok", "error", "corrupted"}
  BY <1>5, Zenon DEF ReadHit, ReadMiss
<1>6. ASSUME NEW h \in Handle, ReadError(h)
      PROVE  /\ readOnly' \in BOOLEAN /\ fs' \in Tree /\ cached' \in Cache
             /\ reply' \in {"ok", "error", "corrupted"}
  BY <1>6 DEF ReadError
<1>7. ASSUME NEW h \in Handle, NEW d \in Content \ {<<>>}, Write(h, d) \/ WriteFails(h, d)
      PROVE  /\ readOnly' \in BOOLEAN /\ fs' \in Tree /\ cached' \in Cache
             /\ reply' \in {"ok", "error", "corrupted"}
  BY <1>7 DEF Write, WriteFails
<1>8. ASSUME NEW h \in Handle, Flush(h)
      PROVE  /\ readOnly' \in BOOLEAN /\ fs' \in Tree /\ cached' \in Cache
             /\ reply' \in {"ok", "error", "corrupted"}
  <2>1. Opened(h) /\ fh[h].dirty /\ readOnly' = readOnly
    BY <1>8 DEF Flush
  <2>2. PICK r \in Uploads(h) :
          /\ fs' = r.fs /\ (cached' = Invalidated(cached, fh[h].path) \/ cached' = cached)
          /\ reply' \in {"ok", "error"}
    BY <1>8 DEF Flush
  <2>3. fh[h].path \in Path /\ r.fs \in Tree
    BY <2>1, DirtyIsFile, UploadsAre
  <2> QED
    BY <2>1, <2>2, <2>3, InvalidationKeepsCache
<1>9. ASSUME NEW h \in Handle, Close(h)
      PROVE  /\ readOnly' \in BOOLEAN /\ fs' \in Tree /\ cached' \in Cache
             /\ reply' \in {"ok", "error", "corrupted"}
  <2>1. Opened(h) /\ readOnly' = readOnly /\ reply' \in {"ok", "error", "corrupted"}
    BY <1>9 DEF Close, CloseStatus
  <2>2. CASE fh[h].dirty
    <3>1. PICK r \in Uploads(h) :
            fs' = r.fs /\ (cached' = Invalidated(cached, fh[h].path) \/ cached' = cached)
      BY <1>9, <2>2 DEF Close
    <3>2. fh[h].path \in Path /\ r.fs \in Tree
      BY <2>1, <2>2, DirtyIsFile, UploadsAre
    <3> QED
      BY <2>1, <3>1, <3>2, InvalidationKeepsCache
  <2>3. CASE ~fh[h].dirty
    BY <1>9, <2>1, <2>3 DEF Close
  <2> QED
    BY <2>2, <2>3
<1>10. ASSUME NEW h \in Handle, NEW n \in 0..MaxLen, Seek(h, n)
       PROVE  /\ readOnly' \in BOOLEAN /\ fs' \in Tree /\ cached' \in Cache
              /\ reply' \in {"ok", "error", "corrupted"}
  BY <1>10 DEF Seek
<1>11. ASSUME NEW h \in Handle, Rewind(h) \/ ReadDir(h)
       PROVE  /\ readOnly' \in BOOLEAN /\ fs' \in Tree /\ cached' \in Cache
              /\ reply' \in {"ok", "error", "corrupted"}
  BY <1>11 DEF Rewind, ReadDir
<1>12. ASSUME NEW h \in Handle, Del(h)
       PROVE  /\ readOnly' \in BOOLEAN /\ fs' \in Tree /\ cached' \in Cache
              /\ reply' \in {"ok", "error", "corrupted"}
  <2>1. fh[h].path \in Path
    BY <1>12, PathOfHandle DEF Del
  <2>2. PICK fault \in RequestFaults :
          fs' = Sent(fault, Delete(fh[h].path)).fs /\ reply' \in {"ok", "error"}
    BY <1>12, Zenon DEF Del
  <2>3. fs' \in Tree
    BY <2>1, <2>2, DeleteIs, SentIs
  <2> QED
    BY <1>12, <2>1, <2>2, <2>3, InvalidationKeepsCache DEF Del
<1>13. ASSUME NEW h \in Handle, NEW name \in Name, SetInfo(h, name)
       PROVE  /\ readOnly' \in BOOLEAN /\ fs' \in Tree /\ cached' \in Cache
              /\ reply' \in {"ok", "error", "corrupted"}
  <2> DEFINE to == Parent(fh[h].path) \o <<name>>
  <2>1. fh[h].path \in Path /\ to \in Path /\ readOnly' = readOnly
    BY <1>13, PathOfHandle DEF SetInfo
  <2> DEFINE Done(fault) == Sent(fault, Rename(fh[h].path, to)).code \in {200, 201, 204}
  <2>2. PICK fault \in RequestFaults :
          /\ fs' = Sent(fault, Rename(fh[h].path, to)).fs
          /\ reply' = IF Done(fault) THEN "ok" ELSE "error"
          /\ cached' = IF Done(fault) THEN Invalidated(cached, fh[h].path) ELSE cached
    BY <1>13, Zenon DEF SetInfo
  <2> HIDE DEF to
  <2>3. fs' \in Tree
    BY <2>1, <2>2, RenameIs, SentIs
  <2> QED
    BY <2>1, <2>2, <2>3, InvalidationKeepsCache
<1>14. ASSUME NEW h \in Handle, GetInfo(h)
       PROVE  /\ readOnly' \in BOOLEAN /\ fs' \in Tree /\ cached' \in Cache
              /\ reply' \in {"ok", "error", "corrupted"}
  <2>1. fh[h].path \in Path
    BY <1>14, PathOfHandle DEF GetInfo
  <2> QED
    BY <1>14, <2>1, PathIs, ListingKeepsCache DEF GetInfo
<1>15. ASSUME NEW h \in Handle, LoadSnapshot(h)
       PROVE  /\ readOnly' \in BOOLEAN /\ fs' \in Tree /\ cached' \in Cache
              /\ reply' \in {"ok", "error", "corrupted"}
  <2>1. fh[h].path \in Directory
    BY <1>15, PathOfHandle DEF LoadSnapshot
  <2> QED
    BY <1>15, <2>1, ListingKeepsCache DEF LoadSnapshot
<1>16. ASSUME NEW d \in Directory, Forget(d)
       PROVE  /\ readOnly' \in BOOLEAN /\ fs' \in Tree /\ cached' \in Cache
              /\ reply' \in {"ok", "error", "corrupted"}
  <2>1. {} \in Held
    BY DEF Held
  <2> QED
    BY <1>16, <2>1 DEF Forget, Cache
<1>17. ASSUME NEW p \in Path, NEW node \in Node, OthersChange(p, node)
       PROVE  /\ readOnly' \in BOOLEAN /\ fs' \in Tree /\ cached' \in Cache
              /\ reply' \in {"ok", "error", "corrupted"}
  BY <1>17 DEF OthersChange, Tree
<1>18. CASE UNCHANGED vars
  BY <1>18 DEF vars
<1> QED
  BY <1>1, <1>2, <1>3, <1>4, <1>5, <1>6, <1>7, <1>8, <1>9, <1>10, <1>11, <1>12, <1>13, <1>14,
     <1>15, <1>16, <1>17, <1>18 DEF Next, Callback

-----------------------------------------------------------------------------
(* Theorems.                                                               *)

LEMMA InvStarts == Init => Inv
<1> SUFFICES ASSUME Init
             PROVE  Inv
  OBVIOUS
<1>1. World
  <2>1. fs \in [Path -> Node]
    BY NodeIs DEF Init
  <2>2. cached \in [Directory -> Held]
    BY DEF Init, Held
  <2> QED
    BY <2>1, <2>2 DEF Init, World
<1>2. HandlesGood
  <2>1. \A h \in Handle : fh[h] = Closed /\ ~Opened(h)
    BY DEF Init, Opened, Closed
  <2> QED
    BY <2>1, NewHistIs DEF Init, HandlesGood
<1> QED
  BY <1>1, <1>2 DEF Inv

(***************************************************************************)
(* The invariant holds: for every open handle, what is staged is what is   *)
(* owed, what was heard is what was summed, and what it holds of a file    *)
(* that nobody else has changed is part of that file; whatever the order   *)
(* of callbacks, faults and other users' changes.                          *)
(***************************************************************************)
THEOREM InvHolds == Spec => []Inv
<1>1. Init => Inv
  BY InvStarts
<1>2. Inv /\ [Next]_vars => Inv'
  BY HandlesStayGood, WorldStays DEF Inv
<1> QED
  BY <1>1, <1>2, PTL DEF Spec

(***************************************************************************)
(* The provider, the cache and the server's tree keep their types.         *)
(***************************************************************************)
THEOREM TypeCorrect == Spec => []TypeOK
<1>1. Inv => TypeOK
  <2> SUFFICES ASSUME Inv
               PROVE  TypeOK
    OBVIOUS
  <2>1. \A d \in Directory : cached[d] = {} \/ \E l \in ListingValue : cached[d] = {l}
    <3>1. \A d \in Directory : cached[d] \in Held
      BY DEF Inv, World
    <3> QED
      BY <3>1 DEF Held
  <2>2. ASSUME NEW h \in Handle, fh[h] # Closed
        PROVE  fh[h] \in HandleValue /\ (fh[h].buf # <<>> => fh[h].dirty)
    <3>1. Opened(h)
      BY <2>2, KindOfHandle DEF Inv
    <3> QED
      BY <3>1, HandleIsGood DEF KindFits
  <2> QED
    BY <2>1, <2>2 DEF Inv, World, TypeOK
<1> QED
  BY <1>1, InvHolds, PTL

(***************************************************************************)
(* Of a file that nobody has changed since it was listed for this open,    *)
(* and of which no byte has come garbled, close reports no corruption,     *)
(* whatever was read, sought, written and flushed in whatever order.       *)
(***************************************************************************)
THEOREM NoFalseAlarmHolds == Spec => []NoFalseAlarm
<1>1. Inv => NoFalseAlarm
  <2> SUFFICES ASSUME Inv, NEW h \in Handle, Opened(h), Verdict(fh[h]) = "mismatch",
                      hist[h].steady
               PROVE  FALSE
    BY DEF NoFalseAlarm
  <2> DEFINE r == fh[h]
             w == hist[h]
             n == NodeAt(fs, r.path)
  <2>1. r.digest = "active" /\ Len(r.consumed) = r.size /\ r.consumed \notin r.expected
    BY DEF Verdict
  <2>2. r \in HandleValue /\ Good(r, w, n)
    BY HandleIsGood
  <2>3. Len(n.data) <= r.size /\ r.expected = {n.data} /\ IsPart(r.consumed, n.data, 0)
    BY <2>1, <2>2 DEF Good, SteadyIsHad
  <2>4. r.consumed \in Text /\ n.data \in Text
    <3>1. r.expected \in SUBSET Content
      BY <2>2, HandleFields
    <3> QED
      BY <2>2, <2>3, <3>1, HandleFields, ContentIsText
  <2> HIDE DEF r, n, w
  <2>5. r.consumed = n.data
    BY <2>1, <2>3, <2>4, PartOfAllIsAll
  <2> QED
    BY <2>1, <2>3, <2>5
<1> QED
  BY <1>1, InvHolds, PTL

(***************************************************************************)
(* A file read from beginning to end, in whatever pieces, with bytes other *)
(* than those the server gave the digest of, is reported at close.         *)
(***************************************************************************)
THEOREM CorruptionCaughtHolds == Spec => []CorruptionCaught
<1>1. Inv => CorruptionCaught
  <2> SUFFICES ASSUME Inv, NEW h \in Handle, FileHandle(h), hist[h].offered # {},
                      Len(hist[h].got) = fh[h].size, hist[h].got \notin hist[h].offered
               PROVE  Verdict(fh[h]) = "mismatch"
    BY DEF CorruptionCaught
  <2>1. Good(fh[h], hist[h], NodeAt(fs, fh[h].path))
    BY HandleIsGood DEF FileHandle
  <2>2. /\ fh[h].digest = "active" /\ fh[h].expected = hist[h].offered
        /\ fh[h].consumed = hist[h].got
    BY <2>1 DEF Good, HeardIsSummed
  <2> QED
    BY <2>2 DEF Verdict
<1> QED
  BY <1>1, InvHolds, PTL

(***************************************************************************)
(* What is read ahead is what the server has: the read-ahead does not      *)
(* outlive a write of its handle, and others' changes are the only excuse  *)
(* beside a write that failed.                                             *)
(***************************************************************************)
THEOREM ReadAheadCoherentHolds == Spec => []ReadAheadCoherent
<1>1. Inv => ReadAheadCoherent
  <2> SUFFICES ASSUME Inv, NEW h \in Handle, FileHandle(h), hist[h].clean, fh[h].ra # <<>>
               PROVE  LET data == fs[fh[h].path].data
                          end == fh[h].raStart + Len(fh[h].ra)
                      IN end <= Len(data) /\ fh[h].ra = SubSeq(data, fh[h].raStart + 1, end)
    BY DEF ReadAheadCoherent
  <2> DEFINE r == fh[h]
             data == fs[r.path].data
  <2>1. Opened(h) /\ NodeAt(fs, r.path) = fs[r.path] /\ data \in Text
    BY FileIsThere, ContentIsText
  <2>2. r \in HandleValue /\ IsPart(r.ra, data, r.raStart)
    BY <2>1, HandleIsGood DEF Good, CleanIsHad
  <2>3. r.ra \in Text /\ r.raStart \in Nat
    BY <2>2, HandleFields
  <2> HIDE DEF r, data
  <2>4. r.ra = SubSeq(data, r.raStart + 1, r.raStart + Len(r.ra))
    BY <2>1, <2>2, <2>3, PartIsPiece
  <2>5. r.raStart + Len(r.ra) <= Len(data)
    BY <2>2 DEF IsPart
  <2> QED
    BY <2>4, <2>5 DEF r, data
<1> QED
  BY <1>1, InvHolds, PTL

(***************************************************************************)
(* A flush or close that reports success has left on the server what was   *)
(* written since the flush before, whatever broke on the way; and one whose*)
(* upload broke never reports success.                                     *)
(***************************************************************************)
THEOREM FlushedWholeHolds == Spec => FlushedWhole
<1>1. ASSUME Inv, NEW h \in Handle, FileHandle(h), fh[h].dirty, Flush(h) \/ Close(h), reply' = "ok"
      PROVE  fs'[fh[h].path] = File(hist[h].owed)
  <2>1. Opened(h) /\ fh[h].path \in Path /\ fh[h].buf \in Content
    BY <1>1, DirtyIsFile DEF FileHandle
  <2>2. hist[h].owed = fh[h].buf
    BY <1>1, <2>1, HandleIsGood DEF StagedIsOwed
  <2>3. \E r \in Uploads(h) : fs' = r.fs /\ Uploaded(r)
    <3>1. CASE Flush(h)
      BY <1>1, <3>1 DEF Flush
    <3>2. CASE Close(h)
      BY <1>1, <3>2 DEF Close, CloseStatus
    <3> QED
      BY <1>1, <3>1, <3>2
  <2> QED
    BY <1>1, <2>1, <2>2, <2>3, WorldIs, UploadsAre
<1>2. Inv /\ [Next]_vars =>
        [\A h \in Handle :
           FileHandle(h) /\ fh[h].dirty /\ (Flush(h) \/ Close(h)) /\ reply' = "ok" =>
             fs'[fh[h].path] = File(hist[h].owed)]_vars
  BY <1>1, ZenonT(60)
<1> QED
  BY <1>2, InvHolds, PTL DEF Spec, FlushedWhole

-----------------------------------------------------------------------------
(* The cache shows the mount's own changes.                                *)

LEMMA PathSplits ==
  ASSUME NEW p \in Path
  PROVE  p = Parent(p) \o <<FileName(p)>> /\ Parent(p) \in Seq(Name)
<1>1. p \in Seq(Name) /\ p # <<>>
  BY PathAssumption DEF Root
<1>2. Len(p) \in Nat /\ Len(p) >= 1
  BY <1>1, EmptySeq, LenProperties
<1>3. SubSeq(p, 1, Len(p)) = p
  BY <1>1, SubSeqFull
<1>4. SubSeq(p, 1, Len(p)) = SubSeq(p, 1, Len(p) - 1) \o <<p[Len(p)]>>
  BY <1>1, <1>2, SubSeqRecursiveSecond
<1>5. \A i \in 1..(Len(p) - 1) : p[i] \in Name
  BY <1>1, <1>2, ElementOfSeq
<1>6. SubSeq(p, 1, Len(p) - 1) \in Seq(Name)
  BY <1>2, <1>5, SubSeqProperties
<1> QED
  BY <1>3, <1>4, <1>6, Zenon DEF Parent, FileName

LEMMA PathsDiffer ==
  ASSUME NEW p \in Path, NEW q \in Path, Parent(p) = Parent(q), FileName(p) = FileName(q)
  PROVE  p = q
BY PathSplits

LEMMA ParentOfChild ==
  ASSUME NEW s \in Seq(Name), NEW n \in Name
  PROVE  Parent(s \o <<n>>) = s
<1> DEFINE t == <<n>>
           c == s \o t
<1>1. t \in Seq(Name) /\ Len(t) = 1 /\ Len(s) \in Nat
  BY LenProperties
<1> HIDE DEF t
<1>2. Len(c) = Len(s) + 1
  <2>1. Len(s \o t) = Len(s) + Len(t)
    BY <1>1, ConcatProperties
  <2> QED
    BY <1>1, <2>1
<1>3. Parent(c) = SubSeq(c, 1, Len(s))
  BY <1>1, <1>2 DEF Parent
<1>4. CASE s = <<>>
  <2>1. Len(s) = 0
    BY <1>4
  <2> HIDE DEF c
  <2>2. SubSeq(c, 1, 0) = <<>>
    BY SubSeqEmpty
  <2> QED
    BY <1>3, <1>4, <2>1, <2>2 DEF c, t
<1>5. CASE s # <<>>
  <2>1. 1 \in 1..Len(s) /\ Len(s) \in 1..Len(s)
    BY <1>1, <1>5, EmptySeq
  <2>2. SubSeq(c, 1, Len(s)) = SubSeq(s, 1, Len(s))
    BY <1>1, <2>1, SubSeqOfConcat1
  <2>3. SubSeq(s, 1, Len(s)) = s
    BY SubSeqFull
  <2> QED
    BY <1>3, <2>2, <2>3 DEF t
<1> QED
  BY <1>4, <1>5

(***************************************************************************)
(* A fresh listing shows a path exactly if there is something.             *)
(***************************************************************************)
LEMMA FreshIsTrue ==
  ASSUME fs \in Tree, NEW p \in Path
  PROVE  {e \in Listing(fs, Parent(p)) : e.name = FileName(p)} =
           IF fs[p] = None THEN {} ELSE {Entry(fs, p)}
<1> DEFINE shown == {e \in Listing(fs, Parent(p)) : e.name = FileName(p)}
<1>1. \A q : Entry(fs, q).name = FileName(q)
  BY DEF Entry
<1>2. fs[p] = None <=> fs[p].kind = "none"
  <2>1. fs[p] \in Node
    BY DEF Tree
  <2> QED
    BY <2>1 DEF Node, None, Dir, File
<1>3. \A e \in shown : e = Entry(fs, p) /\ fs[p].kind # "none"
  <2> SUFFICES ASSUME NEW e \in shown
               PROVE  e = Entry(fs, p) /\ fs[p].kind # "none"
    OBVIOUS
  <2>1. PICK q \in Path : Parent(q) = Parent(p) /\ fs[q].kind # "none" /\ e = Entry(fs, q)
    BY DEF Listing, Children
  <2>2. FileName(q) = FileName(p)
    BY <1>1, <2>1
  <2>3. q = p
    BY <2>1, <2>2, PathsDiffer
  <2> QED
    BY <2>1, <2>3
<1>4. fs[p].kind # "none" => Entry(fs, p) \in shown
  BY <1>1 DEF Listing, Children
<1> HIDE DEF shown
<1>5. shown = IF fs[p] = None THEN {} ELSE {Entry(fs, p)}
  BY <1>2, <1>3, <1>4
<1> QED
  BY <1>5 DEF shown

(***************************************************************************)
(* What a step may do to the listing of a directory: drop it, leave it, or *)
(* get one where there was none.                                           *)
(***************************************************************************)
ListingMoves(c, d) ==
  c[d] = {} \/ c[d] = cached[d] \/ (cached[d] = {} /\ c[d] = {Listing(fs, d)})

Excuses(named) ==
  /\ foreign' = StillExcused(foreign) \cup IF named = {} THEN Changed ELSE {}
  /\ side' = StillExcused(side) \cup IF named = {} THEN {} ELSE Changed \ named

LEMMA OwnChangesStayListed ==
  ASSUME OwnChangesListed, fs \in Tree, \A d \in Directory : ListingMoves(cached', d),
         NEW named, Excuses(named), \A p \in named : cached'[Parent(p)] = {}
  PROVE  OwnChangesListed'
<1> SUFFICES ASSUME NEW p \in Path, p \notin foreign', p \notin side', cached'[Parent(p)] # {}
             PROVE  {e \in ListingOf(Parent(p))' : e.name = FileName(p)} =
                      IF fs'[p] = None THEN {} ELSE {Entry(fs', p)}
  BY DEF OwnChangesListed
<1> DEFINE d == Parent(p)
           l == ListingOf(d)'
<1>1. d \in Directory /\ p \notin named
  BY PathIs
<1>2. p \notin Changed
  BY <1>1 DEF Excuses
<1>3. fs'[p] = fs[p] /\ Entry(fs', p) = Entry(fs, p)
  BY <1>2 DEF Changed, Entry
<1>4. l = CHOOSE x \in cached'[d] : TRUE
  BY DEF ListingOf
<1>5. CASE cached[d] = {} /\ cached'[d] = {Listing(fs, d)}
  <2>1. l = Listing(fs, d)
    BY <1>4, <1>5
  <2> QED
    BY <1>3, <2>1, FreshIsTrue
<1>6. CASE cached'[d] = cached[d]
  <2>1. p \notin foreign /\ p \notin side
    BY <1>6 DEF Excuses, StillExcused
  <2>2. l = ListingOf(d)
    BY <1>4, <1>6 DEF ListingOf
  <2>3. {e \in ListingOf(d) : e.name = FileName(p)} = IF fs[p] = None THEN {} ELSE {Entry(fs, p)}
    BY <1>6, <2>1 DEF OwnChangesListed
  <2> QED
    BY <1>3, <2>2, <2>3
<1> QED
  BY <1>1, <1>5, <1>6 DEF ListingMoves

LEMMA FetchedMoves ==
  ASSUME Inv, NEW d \in Directory
  PROVE  \A e \in Directory : ListingMoves(Fetched(d), e)
<1> SUFFICES ASSUME NEW e \in Directory
             PROVE  ListingMoves(Fetched(d), e)
  OBVIOUS
<1>1. cached \in Cache /\ cached[e] \in Held
  BY WorldIs DEF Cache
<1>2. CASE e # d
  BY <1>1, <1>2 DEF Fetched, ListingMoves, Cache
<1>3. CASE e = d /\ cached[d] = {}
  BY <1>1, <1>3 DEF Fetched, ListingMoves, ListingOf, Cache
<1>4. CASE e = d /\ cached[d] # {}
  <2>1. PICK l \in ListingValue : cached[d] = {l}
    BY <1>1, <1>4 DEF Held
  <2>2. ListingOf(d) = l
    BY <1>4, <2>1 DEF ListingOf
  <2>3. Fetched(d)[d] = cached[d]
    BY <1>1, <2>1, <2>2 DEF Fetched, Cache
  <2> QED
    BY <1>4, <2>3 DEF ListingMoves
<1> QED
  BY <1>2, <1>3, <1>4

LEMMA InvalidatedMoves ==
  ASSUME NEW c \in Cache, \A d \in Directory : ListingMoves(c, d), NEW p \in Path
  PROVE  /\ \A d \in Directory : ListingMoves(Invalidated(c, p), d)
         /\ Invalidated(c, p)[Parent(p)] = {}
BY PathIs DEF ListingMoves, Invalidated, Cache

LEMMA CacheRests == \A d \in Directory : ListingMoves(cached, d)
BY DEF ListingMoves

(***************************************************************************)
(* What a step must show to keep the cache told.                           *)
(***************************************************************************)
Tells ==
  /\ \A d \in Directory : ListingMoves(cached', d)
  /\ \E named : Excuses(named) /\ \A p \in named : cached'[Parent(p)] = {}

LEMMA StepTells == ASSUME Inv, [Next]_vars PROVE Tells \/ UNCHANGED vars
<1> USE WorldIs
<1> DEFINE Nobody == {}
<1>1. ASSUME NEW h \in Handle,
             OpenRoot(h) \/ ReadError(h) \/ Rewind(h) \/ ReadDir(h)
               \/ (\E n \in 1..MaxLen : ReadHit(h, n) \/ ReadMiss(h, n))
               \/ (\E d \in Content \ {<<>>} : Write(h, d) \/ WriteFails(h, d))
               \/ (\E n \in 0..MaxLen : Seek(h, n))
      PROVE  Tells
  <2>1. cached' = cached
    BY <1>1, Zenon DEF OpenRoot, ReadError, Rewind, ReadDir, ReadHit, ReadMiss, Write, WriteFails, Seek
  <2>2. Excuses(Nobody)
    <3>1. \A hs : Observe({}, {}, hs) => Excuses(Nobody)
      BY DEF Observe, Excuses
    <3>2. CASE OpenRoot(h) \/ ReadError(h) \/ Rewind(h) \/ ReadDir(h)
      BY <3>1, <3>2 DEF OpenRoot, ReadError, Rewind, ReadDir
    <3>3. ASSUME NEW n \in 1..MaxLen, ReadHit(h, n)
          PROVE  Excuses(Nobody)
      BY <3>1, <3>3 DEF ReadHit
    <3>4. ASSUME NEW n \in 1..MaxLen, ReadMiss(h, n)
          PROVE  Excuses(Nobody)
      BY <3>1, <3>4 DEF ReadMiss
    <3>5. ASSUME NEW d \in Content \ {<<>>}, Write(h, d) \/ WriteFails(h, d)
          PROVE  Excuses(Nobody)
      BY <3>1, <3>5 DEF Write, WriteFails
    <3>6. ASSUME NEW n \in 0..MaxLen, Seek(h, n)
          PROVE  Excuses(Nobody)
      BY <3>1, <3>6 DEF Seek
    <3> HIDE DEF Nobody
    <3> QED
      BY <1>1, <3>2, <3>3, <3>4, <3>5, <3>6, ZenonT(60)
  <2>3. \A d \in Directory : cached'[d] = cached[d]
    BY <2>1
  <2>4. \A p \in Nobody : cached'[Parent(p)] = {}
    OBVIOUS
  <2> HIDE DEF Nobody
  <2> QED
    BY ONLY <2>1, <2>2, <2>3, <2>4, CacheRests, SMT DEF Tells
<1>2. ASSUME NEW h \in Handle, NEW p \in Path, OpenFound(h, p) \/ OpenRefused(h, p)
      PROVE  Tells
  <2>1. cached' = cached \/ cached' = Fetched(Parent(p))
    BY <1>2 DEF OpenFound, OpenRefused, AfterLookup
  <2>2. Excuses(Nobody)
    BY <1>2 DEF OpenFound, OpenRefused, Observe, Excuses
  <2>3. \A d \in Directory : ListingMoves(cached', d)
    BY <2>1, PathIs, FetchedMoves, CacheRests
  <2> QED
    BY <2>2, <2>3 DEF Tells
<1>3. ASSUME NEW h \in Handle, NEW p \in Path, OpenCreate(h, p)
      PROVE  Tells
  <2> DEFINE Asked(isDir) == IF isDir THEN Mkdir(p) ELSE Put(p, <<>>)
             R(isDir, fault) == Sent(fault, Asked(isDir))
             Done(isDir, fault) ==
               IF isDir THEN R(isDir, fault).code \in {200, 201} ELSE R(isDir, fault).code # 0
             Named(isDir, fault) == IF R(isDir, fault).code \in {200, 201} THEN {p} ELSE {}
  <2>1. PICK listed \in BOOLEAN, isDir \in BOOLEAN, fault \in RequestFaults :
          /\ cached' = IF Done(isDir, fault) THEN Invalidated(AfterLookup(p, listed), p)
                       ELSE AfterLookup(p, listed)
          /\ Observe(Named(isDir, fault), {}, hist)
    BY <1>3 DEF OpenCreate
  <2> DEFINE named == Named(isDir, fault)
             seen == AfterLookup(p, listed)
  <2>2. named = {} \/ (named = {p} /\ Done(isDir, fault))
    OBVIOUS
  <2>3. Excuses(named)
    BY <2>1 DEF Observe, Excuses
  <2>4. seen \in Cache /\ \A d \in Directory : ListingMoves(seen, d)
    BY PathIs, ListingKeepsCache, FetchedMoves, CacheRests DEF AfterLookup
  <2> HIDE DEF named, seen, Done
  <2>5. cached' = seen \/ cached' = Invalidated(seen, p)
    BY <2>1 DEF seen
  <2>6. named = {p} => cached' = Invalidated(seen, p)
    BY <2>1, <2>2 DEF seen
  <2>7. \A d \in Directory : ListingMoves(cached', d)
    BY <2>4, <2>5, InvalidatedMoves
  <2>8. \A q \in named : cached'[Parent(q)] = {}
    BY <2>2, <2>4, <2>6, InvalidatedMoves
  <2> QED
    BY <2>3, <2>7, <2>8 DEF Tells
<1>4. ASSUME NEW h \in Handle, Flush(h) \/ Close(h)
      PROVE  Tells
  <2> DEFINE Named(r) == IF Uploaded(r) THEN {fh[h].path} ELSE {}
  <2>1. CASE Close(h) /\ ~fh[h].dirty
    <3>1. cached' = cached /\ Excuses(Nobody)
      BY <2>1 DEF Close, Observe, Excuses
    <3> QED
      BY <3>1, CacheRests DEF Tells
  <2>2. CASE fh[h].dirty
    <3>1. Opened(h) /\ fh[h].path \in Path
      BY <1>4, <2>2, DirtyIsFile DEF Flush, Close
    <3>2. PICK r \in Uploads(h) :
            /\ cached' = IF Uploaded(r) THEN Invalidated(cached, fh[h].path) ELSE cached
            /\ Excuses(Named(r))
      BY <1>4, <2>2 DEF Flush, Close, Observe, Excuses
    <3>3. CASE Uploaded(r)
      <4>1. Named(r) = {fh[h].path} /\ cached' = Invalidated(cached, fh[h].path)
        BY <3>2, <3>3
      <4>2. /\ \A d \in Directory : ListingMoves(cached', d)
            /\ cached'[Parent(fh[h].path)] = {}
        BY <3>1, <4>1, CacheRests, InvalidatedMoves
      <4> QED
        BY <3>2, <4>1, <4>2 DEF Tells
    <3>4. CASE ~Uploaded(r)
      <4>1. Named(r) = {} /\ cached' = cached
        BY <3>2, <3>4
      <4> QED
        BY <3>2, <4>1, CacheRests DEF Tells
    <3> QED
      BY <3>3, <3>4
  <2> QED
    BY <1>4, <2>1, <2>2 DEF Flush
<1>5. ASSUME NEW h \in Handle, Del(h)
      PROVE  Tells
  <2> DEFINE p == fh[h].path
             Done(fault) == Sent(fault, Delete(p)).code \in {200, 204, 404}
             Named(fault) == IF Done(fault) THEN {p} ELSE {}
  <2>1. p \in Path /\ cached' = Invalidated(cached, p)
    BY <1>5, PathOfHandle DEF Del
  <2>2. PICK fault \in RequestFaults : Observe(Named(fault), {}, hist)
    BY <1>5 DEF Del
  <2>3. Excuses(Named(fault)) /\ \A q \in Named(fault) : q = p
    BY <2>2 DEF Observe, Excuses
  <2> HIDE DEF p, Named
  <2>4. (\A d \in Directory : ListingMoves(cached', d)) /\ cached'[Parent(p)] = {}
    BY <2>1, CacheRests, InvalidatedMoves
  <2> QED
    BY <2>3, <2>4 DEF Tells
<1>6. ASSUME NEW h \in Handle, NEW name \in Name, SetInfo(h, name)
      PROVE  Tells
  <2> DEFINE from == fh[h].path
             to == Parent(from) \o <<name>>
             Done(fault) == Sent(fault, Rename(from, to)).code \in {200, 201, 204}
             Named(fault) == IF Done(fault) THEN {from, to} ELSE {}
  <2>1. from \in Path /\ to \in Path
    BY <1>6, PathOfHandle DEF SetInfo
  <2>2. Parent(to) = Parent(from)
    BY <2>1, PathSplits, ParentOfChild
  <2>3. PICK fault \in RequestFaults :
          /\ cached' = IF Done(fault) THEN Invalidated(cached, from) ELSE cached
          /\ Observe(Named(fault), {}, hist)
    BY <1>6 DEF SetInfo
  <2> DEFINE named == Named(fault)
  <2>4. Excuses(named)
    BY <2>3 DEF Observe, Excuses
  <2> HIDE DEF from, to, Done
  <2>5. CASE Done(fault)
    <3>1. named = {from, to} /\ cached' = Invalidated(cached, from)
      BY <2>3, <2>5
    <3>2. (\A d \in Directory : ListingMoves(cached', d)) /\ cached'[Parent(from)] = {}
      BY <2>1, <3>1, CacheRests, InvalidatedMoves
    <3> QED
      BY <2>2, <2>4, <3>1, <3>2 DEF Tells
  <2>6. CASE ~Done(fault)
    <3>1. named = {} /\ cached' = cached
      BY <2>3, <2>6
    <3> QED
      BY <2>4, <3>1, CacheRests DEF Tells
  <2> QED
    BY <2>5, <2>6
<1>7. ASSUME NEW h \in Handle, GetInfo(h) \/ LoadSnapshot(h)
      PROVE  Tells
  <2>1. Opened(h) /\ fh[h].path \in Directory /\ (fh[h].path # Root => fh[h].path \in Path)
    BY <1>7, PathOfHandle DEF GetInfo, LoadSnapshot
  <2>2. \/ cached' = cached
        \/ fh[h].path # Root /\ cached' = Fetched(Parent(fh[h].path))
        \/ cached' = Fetched(fh[h].path)
    BY <1>7 DEF GetInfo, LoadSnapshot
  <2>3. Excuses(Nobody)
    BY <1>7 DEF GetInfo, LoadSnapshot, Observe, Excuses
  <2>4. \A d \in Directory : ListingMoves(cached', d)
    BY <2>1, <2>2, PathIs, FetchedMoves, CacheRests
  <2> QED
    BY <2>3, <2>4 DEF Tells
<1>8. ASSUME NEW d \in Directory, Forget(d)
      PROVE  Tells
  <2>1. \A e \in Directory : ListingMoves(cached', e)
    BY <1>8 DEF Forget, ListingMoves, Cache
  <2>2. Excuses(Nobody)
    BY <1>8 DEF Forget, Observe, Excuses
  <2> QED
    BY <2>1, <2>2 DEF Tells
<1>9. ASSUME NEW p \in Path, NEW node \in Node, OthersChange(p, node)
      PROVE  Tells
  <2>1. cached' = cached /\ Excuses(Nobody)
    BY <1>9 DEF OthersChange, Observe, Excuses
  <2> QED
    BY <2>1, CacheRests DEF Tells
<1> QED
  BY <1>1, <1>2, <1>3, <1>4, <1>5, <1>6, <1>7, <1>8, <1>9 DEF Next, Callback

(***************************************************************************)
(* A listing in the cache shows every change the mount was told its own    *)
(* requests had made, through creates, uploads, deletes and renames in any *)
(* tree, with listings expiring and answers lost at any moment.            *)
(***************************************************************************)
THEOREM OwnChangesListedHolds == Spec => []OwnChangesListed
<1>1. Init => OwnChangesListed
  BY PathIs DEF Init, OwnChangesListed
<1>2. Inv /\ OwnChangesListed /\ [Next]_vars => OwnChangesListed'
  <2> SUFFICES ASSUME Inv, OwnChangesListed, [Next]_vars
               PROVE  OwnChangesListed'
    OBVIOUS
  <2>1. CASE Tells
    BY <2>1, WorldIs, OwnChangesStayListed DEF Tells
  <2>2. CASE UNCHANGED vars
    BY <2>2 DEF vars, OwnChangesListed, ListingOf, Listing, Children, Entry
  <2> QED
    BY <2>1, <2>2, StepTells
<1> QED
  BY <1>1, <1>2, InvHolds, PTL DEF Spec

=============================================================================
