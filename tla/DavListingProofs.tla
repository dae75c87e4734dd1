-------------------------- MODULE DavListingProofs --------------------------
(***************************************************************************)
(* Proofs about DavListing, for answers whose properties hold no href but  *)
(* that of their resource, and whose statuses and lengths are not split.   *)
(*                                                                         *)
(* The properties follow from an invariant that says, for every place in   *)
(* the answer, what the reader's flags, text, entry and snapshot are.      *)
(***************************************************************************)
EXTENDS DavListing, SequenceTheorems, TLAPS

\* The answers the reader is made for.
Plain == Held = {} /\ Split \subseteq {"href", "held", "displayname"}

First(v) == <<<<v, 1>>>>

Second(v) == <<<<v, 2>>>>

Word == Href \cup Size \cup Status \cup {"name"}

-----------------------------------------------------------------------------
(* Facts about texts and hrefs.                                            *)

(***************************************************************************)
(* A text, its halves, and what is taken from it and put together again.   *)
(***************************************************************************)
LEMMA TextHalves ==
  ASSUME NEW v
  PROVE  /\ Len(Text(v)) = 2 /\ Text(v) # <<>>
         /\ SubSeq(Text(v), 1, 2) = Text(v) /\ SubSeq(Text(v), 3, 2) = <<>>
         /\ SubSeq(Text(v), 1, 1) = First(v) /\ SubSeq(Text(v), 2, 2) = Second(v)
         /\ Len(Second(v)) = 1 /\ Second(v) # <<>>
         /\ SubSeq(Second(v), 1, 1) = Second(v) /\ SubSeq(Second(v), 2, 1) = <<>>
         /\ <<>> \o Text(v) = Text(v) /\ <<>> \o First(v) = First(v)
         /\ First(v) \o Second(v) = Text(v)
<1> DEFINE a == <<v, 1>>
           b == <<v, 2>>
           S == {a, b}
<1>1. Text(v) = <<a, b>> /\ First(v) = <<a>> /\ Second(v) = <<b>>
  BY DEF Text, First, Second
<1>2. a \in S /\ b \in S
  OBVIOUS
<1> HIDE DEF a, b, S
<1>3. /\ Text(v) \in Seq(S) /\ Len(Text(v)) = 2 /\ Text(v)[1] = a /\ Text(v)[2] = b
      /\ First(v) \in Seq(S) /\ Len(First(v)) = 1 /\ First(v)[1] = a
      /\ Second(v) \in Seq(S) /\ Len(Second(v)) = 1 /\ Second(v)[1] = b
      /\ Text(v) # <<>> /\ Second(v) # <<>>
  BY <1>1, <1>2
<1>4. SubSeq(Text(v), 1, 2) = Text(v) /\ SubSeq(Second(v), 1, 1) = Second(v)
  BY <1>3, SubSeqFull
<1>5. SubSeq(Text(v), 3, 2) = <<>> /\ SubSeq(Second(v), 2, 1) = <<>>
  BY SubSeqEmpty
<1>6. SubSeq(Text(v), 1, 1) = First(v)
  <2>1. /\ SubSeq(Text(v), 1, 1) \in Seq(S) /\ Len(SubSeq(Text(v), 1, 1)) = 1
        /\ SubSeq(Text(v), 1, 1)[1] = Text(v)[1]
    BY <1>2, <1>3, SubSeqProperties
  <2> QED
    BY <2>1, <1>3, SeqEqual
<1>7. SubSeq(Text(v), 2, 2) = Second(v)
  <2>1. /\ SubSeq(Text(v), 2, 2) \in Seq(S) /\ Len(SubSeq(Text(v), 2, 2)) = 1
        /\ SubSeq(Text(v), 2, 2)[1] = Text(v)[2]
    BY <1>2, <1>3, SubSeqProperties
  <2> QED
    BY <2>1, <1>3, SeqEqual
<1>8. <<>> \o Text(v) = Text(v) /\ <<>> \o First(v) = First(v)
  BY <1>3, ConcatEmptySeq
<1>9. First(v) \o Second(v) = Text(v)
  <2> DEFINE c == First(v) \o Second(v)
  <2>1. c \in Seq(S) /\ Len(c) = 2
    BY <1>3, ConcatProperties
  <2>2. c[1] = a /\ c[2] = b
    <3>1. \A i \in 1..Len(First(v)) + Len(Second(v)) :
            c[i] = IF i <= Len(First(v)) THEN First(v)[i] ELSE Second(v)[i - Len(First(v))]
      BY <1>3, ConcatProperties
    <3> HIDE DEF c
    <3> QED
      BY <3>1, <1>3
  <2> HIDE DEF c
  <2>3. c = Text(v)
    BY <2>1, <2>2, <1>3, SeqEqual
  <2> QED
    BY <2>3 DEF c
<1> QED
  BY <1>3, <1>4, <1>5, <1>6, <1>7, <1>8, <1>9

\* Two texts are equal only if they are of the same word.
LEMMA TextInjective ==
  ASSUME NEW v, NEW w, Text(v) = Text(w)
  PROVE  v = w
<1>1. Text(v)[1] = <<v, 1>> /\ Text(w)[1] = <<w, 1>>
  BY DEF Text
<1>2. <<v, 1>>[1] = v /\ <<w, 1>>[1] = w
  OBVIOUS
<1> QED
  BY <1>1, <1>2

\* What an element's text can be.
LEMMA TextTypes ==
  /\ <<>> \in Texts
  /\ \A v \in Word : Text(v) \in Texts /\ First(v) \in Texts /\ Second(v) \in Texts
<1>1. \A v \in Word :
        Text(v) \in {Text(v), SubSeq(Text(v), 1, 1), SubSeq(Text(v), 2, 2)}
        /\ First(v) \in {Text(v), SubSeq(Text(v), 1, 1), SubSeq(Text(v), 2, 2)}
        /\ Second(v) \in {Text(v), SubSeq(Text(v), 1, 1), SubSeq(Text(v), 2, 2)}
  BY TextHalves
<1> QED
  BY <1>1 DEF Texts, Word

(***************************************************************************)
(* What is wrong with an href.                                             *)
(***************************************************************************)
LEMMA FlagFacts ==
  /\ FlagsOf(NoHref) = {} /\ FlagsOf(Self) = {} /\ \A h \in Child : FlagsOf(h) = {}
  /\ \A h \in Href : "bad" \in FlagsOf(h) <=> h \in Unreadable
  /\ \A h : FlagsOf(h) \subseteq {"foreign", "too_long", "bad"}
  /\ NoHref \notin Child /\ NoHref # Self /\ Self \notin Child
BY HrefAssumption DEF FlagsOf, Href

\* An entry takes its path and flags from the text of its href.
LEMMA LocatedText ==
  ASSUME NEW e, NEW h \in Href
  PROVE  Located(e, Text(h)) = LocatedAt(e, h)
<1>1. \E g \in Href : Text(h) = Text(g)
  OBVIOUS
<1>2. (CHOOSE g \in Href : Text(h) = Text(g)) = h
  <2>1. PICK g \in Href : g = CHOOSE x \in Href : Text(h) = Text(x)
    BY <1>1
  <2>2. Text(h) = Text(g)
    BY <1>1, <2>1
  <2> QED
    BY <2>1, <2>2, TextInjective
<1> QED
  BY <1>1, <1>2 DEF Located

-----------------------------------------------------------------------------
(* The invariant.                                                          *)

InPropstat == where \notin {"multistatus", "response", "href"}

(***************************************************************************)
(* The flags are those of the element the server is in and of the          *)
(* elements around it.                                                     *)
(***************************************************************************)
InsideIsWhere ==
  inside = (IF where = "multistatus" THEN {} ELSE {"response"})
           \cup (IF InPropstat THEN {"propstat"} ELSE {})
           \cup (IF where = "held" THEN {"href"} ELSE {where} \cap Leaf)

\* What has come of the text v, and what is still to come.
Gathers(v) ==
  \/ left = Text(v) /\ text = <<>>
  \/ left = Second(v) /\ text = First(v)
  \/ left = <<>> /\ text = Text(v)

TextIsRead ==
  /\ where \in {"href", "held"} => told.href \in Href /\ Gathers(told.href)
  /\ where = "displayname" => Gathers("name")
  /\ where \notin Leaf \/ where = "resourcetype" => left = <<>>

StatusIsRead ==
  InPropstat =>
    \/ where = "status" /\ left = Text(block.status)
    \/ (propstat_ok <=> block.status = "200") /\ (where = "status" => left = <<>>)

(***************************************************************************)
(* The entry is what was told of the resource; in a propstat, with what it *)
(* says added whatever its status.                                         *)
(***************************************************************************)
PathOf(h) == IF FlagsOf(h) = {} THEN h ELSE NoHref

ReadsHref(e, h) == e.path = PathOf(h) /\ e.flags = FlagsOf(h)

Reads(e, t) == ReadsHref(e, t.href) /\ e.kind = t.kind /\ e.size = t.size

KindWith(t, b) == IF b.kind = "dir" THEN "dir" ELSE t.kind

SizeWith(t, b) == IF b.size = <<>> THEN t.size ELSE b.size

LengthIsRead ==
  \/ cur.size = SizeWith(told, block) /\ (where = "getcontentlength" => left = <<>>)
  \/ /\ where = "getcontentlength"
     /\ \E n \in Size : left = Text(n) /\ block.size = Text(n)

EntryIsTold ==
  /\ where = "response" => Reads(cur, told)
  /\ where = "href" => ReadsHref(cur, NoHref) /\ cur.kind = told.kind /\ cur.size = told.size
  /\ InPropstat =>
       /\ Reads(snapshot, told) /\ ReadsHref(cur, told.href)
       /\ cur.kind = KindWith(told, block) /\ LengthIsRead

SoFar == trouble = {} /\ out = listing /\ (saw_self <=> selfTold)

Reading == SoFar /\ InsideIsWhere /\ TextIsRead /\ StatusIsRead /\ EntryIsTold

Inv ==
  /\ TypeOK /\ ListingIsTheAnswer /\ RefusedForCause
  /\ result = "reading" => Reading

(***************************************************************************)
(* An answer that is given up fails the listing for a reason.              *)
(***************************************************************************)
LEMMA FailKeeps ==
  ASSUME Inv, result = "reading", Fail, NEW c \in {"memory", "broken"}, trouble' = trouble \cup {c},
         where' \in {where, "multistatus"}, left' \in Texts, UNCHANGED <<told, block>>,
         listing' \in Seq(EntryValue), selfTold' \in BOOLEAN
  PROVE  Inv'
<1>1. /\ where' \in {"multistatus", "response", "propstat"} \cup Leaf
      /\ trouble' \subseteq {"unreadable", "long", "memory", "elsewhere", "broken"}
      /\ result' \in {"reading", "ok", "failed"}
  BY DEF Inv, TypeOK, Fail
<1>2. /\ told' \in [href : Href \cup {NoHref}, kind : Kind, size : Texts]
      /\ block' \in [status : Status, kind : Kind, size : Texts]
  BY DEF Inv, TypeOK
<1>3. /\ inside' \subseteq {"response", "propstat"} \cup (Leaf \ {"held"})
      /\ propstat_ok' \in BOOLEAN /\ text' \in Texts
      /\ cur' \in DavEntry /\ snapshot' \in DavEntry
      /\ out' \in Seq(EntryValue) /\ Len(out') <= MaxEntries /\ saw_self' \in BOOLEAN
  BY DEF Inv, TypeOK, Fail
<1>4. TypeOK'
  BY <1>1, <1>2, <1>3 DEF TypeOK
<1> QED
  BY <1>4 DEF Inv, Fail, ListingIsTheAnswer, RefusedForCause

(***************************************************************************)
(* A step that goes on reading keeps the properties.                       *)
(***************************************************************************)
LEMMA GoesOn ==
  ASSUME result' = "reading", TypeOK', Reading'
  PROVE  Inv'
BY DEF Inv, ListingIsTheAnswer, RefusedForCause

LEMMA InitInv == Init => Inv
<1> SUFFICES ASSUME Init PROVE Inv
  OBVIOUS
<1>1. TypeOK
  <2>1. NothingTold \in [href : Href \cup {NoHref}, kind : Kind, size : Texts]
    BY TextTypes DEF NothingTold, Kind
  <2>2. NothingSaid \in [status : Status, kind : Kind, size : Texts]
    BY TextTypes DEF NothingSaid, Status, Kind
  <2>3. EmptyEntry \in DavEntry
    BY TextTypes DEF EmptyEntry, DavEntry, Kind
  <2>4. <<>> \in Seq(EntryValue) /\ Len(<<>>) <= MaxEntries
    BY BoundAssumption
  <2> QED
    BY <2>1, <2>2, <2>3, <2>4, TextTypes DEF Init, TypeOK
<1>2. Reading
  BY DEF Init, Reading, SoFar, InsideIsWhere, TextIsRead, StatusIsRead, EntryIsTold, InPropstat, Leaf
<1> QED
  BY <1>1, <1>2 DEF Inv, Init, ListingIsTheAnswer, RefusedForCause

LEMMA WriteResponseInv ==
  ASSUME Inv, WriteResponse
  PROVE  Inv'
<1> USE DEF WriteResponse, Start
<1>1. TypeOK'
  BY TextTypes DEF Inv, TypeOK, NothingTold, EmptyEntry, DavEntry, Kind, Noticed
<1>2. inside = {} /\ inside' = {"response"}
  BY DEF Inv, Reading, InsideIsWhere, InPropstat, Leaf, Noticed
<1>3. Reading'
  <2>1. SoFar'
    BY DEF Inv, Reading, SoFar
  <2>2. InsideIsWhere'
    BY <1>2 DEF InsideIsWhere, InPropstat, Leaf
  <2>3. TextIsRead' /\ StatusIsRead'
    BY DEF Inv, Reading, TextIsRead, StatusIsRead, InPropstat, Leaf
  <2>4. EntryIsTold'
    BY FlagFacts DEF EntryIsTold, InPropstat, Reads, ReadsHref, PathOf, EmptyEntry, NothingTold
  <2> QED
    BY <2>1, <2>2, <2>3, <2>4 DEF Reading
<1> QED
  BY <1>1, <1>3, GoesOn

LEMMA WriteHrefInv ==
  ASSUME Inv, NEW h \in Href, WriteHref(h)
  PROVE  Inv'
<1> USE DEF WriteHref, Start
<1>1. inside = {"response"} /\ inside' = {"response", "href"} /\ Noticed("href")
  BY DEF Inv, Reading, InsideIsWhere, InPropstat, Leaf, Noticed
<1>2. TypeOK'
  BY <1>1, TextTypes DEF Inv, TypeOK, Word, Leaf
<1>3. told' = [told EXCEPT !.href = h] /\ told'.href = h /\ told'.kind = told.kind /\ told'.size = told.size
  BY DEF Inv, TypeOK
<1>4. Reading'
  <2>1. SoFar'
    BY DEF Inv, Reading, SoFar
  <2>2. InsideIsWhere'
    BY <1>1 DEF InsideIsWhere, InPropstat, Leaf
  <2>3. TextIsRead' /\ StatusIsRead'
    BY <1>1, <1>3 DEF TextIsRead, StatusIsRead, InPropstat, Leaf, Gathers
  <2>4. EntryIsTold'
    BY <1>1, <1>3 DEF Inv, Reading, EntryIsTold, InPropstat, Reads
  <2> QED
    BY <2>1, <2>2, <2>3, <2>4 DEF Reading
<1> QED
  BY <1>2, <1>4, GoesOn

LEMMA WritePropstatInv ==
  ASSUME Inv, WritePropstat
  PROVE  Inv'
<1> USE DEF WritePropstat, Start
<1>1. inside = {"response"} /\ inside' = {"response", "propstat"} /\ Noticed("propstat")
  BY DEF Inv, Reading, InsideIsWhere, InPropstat, Leaf, Noticed
<1>2. TypeOK'
  BY <1>1, TextTypes DEF Inv, TypeOK, NothingSaid, Status, Kind, Leaf
<1>3. block'.status = "200" /\ block'.kind = "file" /\ block'.size = <<>>
  BY DEF NothingSaid
<1>4. Reading'
  <2>1. SoFar'
    BY DEF Inv, Reading, SoFar
  <2>2. InsideIsWhere'
    BY <1>1 DEF InsideIsWhere, InPropstat, Leaf
  <2>3. TextIsRead' /\ StatusIsRead'
    BY <1>1, <1>3 DEF Inv, Reading, TextIsRead, StatusIsRead, InPropstat, Leaf
  <2>4. EntryIsTold'
    BY <1>1, <1>3 DEF Inv, Reading, EntryIsTold, InPropstat, Reads, KindWith, SizeWith, LengthIsRead
  <2> QED
    BY <2>1, <2>2, <2>3, <2>4 DEF Reading
<1> QED
  BY <1>2, <1>4, GoesOn

(***************************************************************************)
(* Where a propstat is written, no element in it is open; and the start of *)
(* one is noticed.                                                         *)
(***************************************************************************)
LEMMA InPropstatFacts ==
  ASSUME Inv, result = "reading", where = "propstat"
  PROVE  /\ inside = {"response", "propstat"} /\ left = <<>>
         /\ \A e : e # "response" => Noticed(e)
         /\ propstat_ok <=> block.status = "200"
         /\ Reads(snapshot, told) /\ ReadsHref(cur, told.href)
         /\ cur.kind = KindWith(told, block) /\ cur.size = SizeWith(told, block)
<1>1. inside = {"response", "propstat"}
  BY DEF Inv, Reading, InsideIsWhere, InPropstat, Leaf
<1>2. left = <<>> /\ (propstat_ok <=> block.status = "200")
  BY DEF Inv, Reading, TextIsRead, StatusIsRead, InPropstat, Leaf
<1>3. /\ Reads(snapshot, told) /\ ReadsHref(cur, told.href)
      /\ cur.kind = KindWith(told, block) /\ cur.size = SizeWith(told, block)
  BY DEF Inv, Reading, EntryIsTold, InPropstat, LengthIsRead
<1> QED
  BY <1>1, <1>2, <1>3 DEF Noticed

(***************************************************************************)
(* The start of an element in a propstat, up to what is said there.        *)
(***************************************************************************)
LEMMA WriteKeeps ==
  ASSUME Inv, NEW e \in Leaf \ {"href"}, NEW t \in Texts, NEW b, Write(e, t, b),
         b \in [status : Status, kind : Kind, size : Texts],
         Start(IF e = "held" THEN "href" ELSE e)
  PROVE  /\ TypeOK' /\ SoFar' /\ InsideIsWhere' /\ result' = "reading"
         /\ cur' = cur /\ snapshot' = snapshot /\ told' = told
         /\ (propstat_ok' <=> propstat_ok)
         /\ where' = e /\ left' = t /\ block' = b
         /\ e \in {"held", "displayname"} => text' = <<>>
<1> DEFINE n == IF e = "held" THEN "href" ELSE e
<1>1. /\ n \in Leaf \ {"held"} /\ n \notin {"response", "propstat"}
      /\ e \in {"held", "displayname"} => n \in {"href", "displayname"}
  BY DEF Leaf
<1> HIDE DEF n
<1>2. result = "reading" /\ where = "propstat"
  BY DEF Write
<1>3. Noticed(n) /\ inside = {"response", "propstat"}
  BY <1>1, <1>2, InPropstatFacts
<1>4. Start(n)
  BY DEF n
<1>5. /\ inside' = {"response", "propstat", n} /\ cur' = cur /\ snapshot' = snapshot
      /\ propstat_ok' = propstat_ok /\ UNCHANGED <<out, saw_self, result>>
      /\ text' \in {<<>>, text} /\ (e \in {"held", "displayname"} => text' = <<>>)
  BY <1>1, <1>3, <1>4 DEF Start
<1>6. TypeOK'
  BY <1>1, <1>5, TextTypes DEF Inv, TypeOK, Write, Leaf
<1>7. SoFar'
  BY <1>2, <1>5 DEF Inv, Reading, SoFar, Write
<1>8. InsideIsWhere'
  BY <1>5 DEF InsideIsWhere, InPropstat, Leaf, Write, n
<1> QED
  BY <1>2, <1>5, <1>6, <1>7, <1>8 DEF Write

LEMMA WriteStatusInv ==
  ASSUME Inv, NEW s \in Status, WriteStatus(s)
  PROVE  Inv'
<1> DEFINE b == [block EXCEPT !.status = s]
<1>1. Write("status", Text(s), b) /\ Start("status") /\ result = "reading" /\ where = "propstat"
  BY DEF WriteStatus, Write
<1>2. /\ b \in [status : Status, kind : Kind, size : Texts]
      /\ b.status = s /\ b.kind = block.kind /\ b.size = block.size
  BY DEF Inv, TypeOK
<1> HIDE DEF b
<1>3. Text(s) \in Texts
  BY TextTypes DEF Word
<1>4. /\ TypeOK' /\ SoFar' /\ InsideIsWhere' /\ result' = "reading"
      /\ cur' = cur /\ snapshot' = snapshot /\ told' = told
      /\ where' = "status" /\ left' = Text(s) /\ block' = b
  BY <1>1, <1>2, <1>3, WriteKeeps DEF Leaf
<1>5. TextIsRead' /\ StatusIsRead'
  BY <1>2, <1>4 DEF TextIsRead, StatusIsRead, InPropstat, Leaf
<1>6. EntryIsTold'
  BY <1>1, <1>2, <1>4, InPropstatFacts
     DEF EntryIsTold, InPropstat, Reads, ReadsHref, KindWith, SizeWith, LengthIsRead
<1> QED
  BY <1>4, <1>5, <1>6, GoesOn DEF Reading

LEMMA WriteNameInv ==
  ASSUME Inv, WriteName
  PROVE  Inv'
<1>1. /\ Write("displayname", Text("name"), block) /\ Start("displayname")
      /\ result = "reading" /\ where = "propstat"
  BY DEF WriteName, Write
<1>2. Text("name") \in Texts /\ block \in [status : Status, kind : Kind, size : Texts]
  BY TextTypes DEF Word, Inv, TypeOK
<1>3. /\ TypeOK' /\ SoFar' /\ InsideIsWhere' /\ result' = "reading"
      /\ cur' = cur /\ snapshot' = snapshot /\ told' = told
      /\ (propstat_ok' <=> propstat_ok)
      /\ where' = "displayname" /\ left' = Text("name") /\ block' = block /\ text' = <<>>
  BY <1>1, <1>2, WriteKeeps DEF Leaf
<1>4. TextIsRead' /\ StatusIsRead'
  BY <1>1, <1>3, InPropstatFacts DEF TextIsRead, StatusIsRead, InPropstat, Leaf, Gathers
<1>5. EntryIsTold'
  BY <1>1, <1>3, InPropstatFacts
     DEF EntryIsTold, InPropstat, Reads, ReadsHref, KindWith, SizeWith, LengthIsRead
<1> QED
  BY <1>3, <1>4, <1>5, GoesOn DEF Reading

LEMMA WriteTypeInv ==
  ASSUME Inv, WriteType
  PROVE  Inv'
<1>1. /\ Write("resourcetype", <<>>, block) /\ Start("resourcetype")
      /\ result = "reading" /\ where = "propstat"
  BY DEF WriteType, Write
<1>2. <<>> \in Texts /\ block \in [status : Status, kind : Kind, size : Texts]
  BY TextTypes DEF Inv, TypeOK
<1>3. /\ TypeOK' /\ SoFar' /\ InsideIsWhere' /\ result' = "reading"
      /\ cur' = cur /\ snapshot' = snapshot /\ told' = told
      /\ (propstat_ok' <=> propstat_ok)
      /\ where' = "resourcetype" /\ left' = <<>> /\ block' = block
  BY <1>1, <1>2, WriteKeeps DEF Leaf
<1>4. TextIsRead' /\ StatusIsRead'
  BY <1>1, <1>3, InPropstatFacts DEF TextIsRead, StatusIsRead, InPropstat, Leaf
<1>5. EntryIsTold'
  BY <1>1, <1>3, InPropstatFacts
     DEF EntryIsTold, InPropstat, Reads, ReadsHref, KindWith, SizeWith, LengthIsRead
<1> QED
  BY <1>3, <1>4, <1>5, GoesOn DEF Reading

LEMMA WriteLengthInv ==
  ASSUME Inv, NEW t, t = <<>> \/ \E n \in Size : t = Text(n), WriteLength(t)
  PROVE  Inv'
<1> DEFINE b == [block EXCEPT !.size = IF t = <<>> THEN @ ELSE t]
<1>1. /\ Write("getcontentlength", t, b) /\ Start("getcontentlength")
      /\ result = "reading" /\ where = "propstat"
  BY DEF WriteLength, Write
<1>2. t \in Texts
  BY TextTypes DEF Word
<1>3. /\ b \in [status : Status, kind : Kind, size : Texts]
      /\ b.status = block.status /\ b.kind = block.kind
      /\ b.size = IF t = <<>> THEN block.size ELSE t
  BY <1>2 DEF Inv, TypeOK
<1> HIDE DEF b
<1>4. /\ TypeOK' /\ SoFar' /\ InsideIsWhere' /\ result' = "reading"
      /\ cur' = cur /\ snapshot' = snapshot /\ told' = told
      /\ (propstat_ok' <=> propstat_ok)
      /\ where' = "getcontentlength" /\ left' = t /\ block' = b
  BY <1>1, <1>2, <1>3, WriteKeeps DEF Leaf
<1>5. TextIsRead' /\ StatusIsRead'
  BY <1>1, <1>3, <1>4, InPropstatFacts DEF TextIsRead, StatusIsRead, InPropstat, Leaf
<1>6. LengthIsRead'
  BY <1>1, <1>3, <1>4, InPropstatFacts, TextHalves DEF SizeWith, LengthIsRead
<1>7. EntryIsTold'
  BY <1>1, <1>3, <1>4, <1>6, InPropstatFacts DEF EntryIsTold, InPropstat, Reads, ReadsHref, KindWith
<1> QED
  BY <1>4, <1>5, <1>7, GoesOn DEF Reading

LEMMA WriteHeldInv ==
  ASSUME Plain, Inv, NEW h \in Href, h \in Held \cup {told.href}, WriteHeld(h)
  PROVE  Inv'
<1>1. /\ Write("held", Text(h), block) /\ Start("href") /\ h = told.href
      /\ result = "reading" /\ where = "propstat"
  BY DEF WriteHeld, Write, Plain
<1>2. Text(h) \in Texts /\ block \in [status : Status, kind : Kind, size : Texts]
  BY TextTypes DEF Word, Inv, TypeOK
<1>3. /\ TypeOK' /\ SoFar' /\ InsideIsWhere' /\ result' = "reading"
      /\ cur' = cur /\ snapshot' = snapshot /\ told' = told
      /\ (propstat_ok' <=> propstat_ok)
      /\ where' = "held" /\ left' = Text(h) /\ block' = block /\ text' = <<>>
  BY <1>1, <1>2, WriteKeeps DEF Leaf
<1>4. TextIsRead' /\ StatusIsRead'
  BY <1>1, <1>3, InPropstatFacts DEF TextIsRead, StatusIsRead, InPropstat, Leaf, Gathers
<1>5. EntryIsTold'
  BY <1>1, <1>3, InPropstatFacts
     DEF EntryIsTold, InPropstat, Reads, ReadsHref, KindWith, SizeWith, LengthIsRead
<1> QED
  BY <1>3, <1>4, <1>5, GoesOn DEF Reading

LEMMA WriteCollectionInv ==
  ASSUME Inv, WriteCollection
  PROVE  Inv'
<1> USE DEF WriteCollection, StartCollection
<1>1. inside = {"response", "propstat", "resourcetype"}
  BY DEF Inv, Reading, InsideIsWhere, InPropstat, Leaf
<1>2. /\ cur' \in DavEntry /\ cur'.kind = "dir" /\ cur'.path = cur.path
      /\ cur'.flags = cur.flags /\ cur'.size = cur.size
  BY <1>1 DEF Inv, TypeOK, DavEntry, Kind
<1>3. /\ block' \in [status : Status, kind : Kind, size : Texts]
      /\ block'.kind = "dir" /\ block'.status = block.status /\ block'.size = block.size
  BY DEF Inv, TypeOK, Kind
<1>4. TypeOK'
  BY <1>2, <1>3 DEF Inv, TypeOK
<1>5. SoFar' /\ InsideIsWhere' /\ TextIsRead'
  BY DEF Inv, Reading, SoFar, InsideIsWhere, InPropstat, TextIsRead, Leaf
<1>6. StatusIsRead'
  BY <1>3 DEF Inv, Reading, StatusIsRead, InPropstat
<1>7. EntryIsTold'
  BY <1>2, <1>3 DEF Inv, Reading, EntryIsTold, InPropstat, Reads, ReadsHref, KindWith, SizeWith, LengthIsRead
<1> QED
  BY <1>4, <1>5, <1>6, <1>7, GoesOn DEF Reading

(***************************************************************************)
(* A token of an element's text: the rest is still to come.                *)
(***************************************************************************)
LEMMA GathersOn ==
  ASSUME NEW v, Gathers(v), NEW n \in {1, 2}, left # <<>>, n <= Len(left),
         left' = SubSeq(left, n + 1, Len(left)), text' = text \o SubSeq(left, 1, n)
  PROVE  Gathers(v)' /\ text' \in {First(v), Text(v)} /\ left' \in {<<>>, Second(v)}
<1>1. CASE left = Text(v) /\ text = <<>> /\ n = 2
  <2>1. left' = SubSeq(Text(v), 3, 2) /\ text' = <<>> \o SubSeq(Text(v), 1, 2)
    BY <1>1, TextHalves
  <2> QED
    BY <2>1, TextHalves DEF Gathers
<1>2. CASE left = Text(v) /\ text = <<>> /\ n = 1
  <2>1. left' = SubSeq(Text(v), 2, 2) /\ text' = <<>> \o SubSeq(Text(v), 1, 1)
    BY <1>2, TextHalves
  <2> QED
    BY <2>1, TextHalves DEF Gathers
<1>3. CASE left = Second(v) /\ text = First(v)
  <2>1. n = 1
    BY <1>3, TextHalves
  <2>2. left' = SubSeq(Second(v), 2, 1) /\ text' = First(v) \o SubSeq(Second(v), 1, 1)
    BY <1>3, <2>1, TextHalves
  <2> QED
    BY <2>2, TextHalves DEF Gathers
<1> QED
  BY <1>1, <1>2, <1>3 DEF Gathers

\* A text that comes in one token.
LEMMA WholeText ==
  ASSUME NEW v, left = Text(v), NEW n \in {1, 2}, n = Len(left),
         left' = SubSeq(left, n + 1, Len(left))
  PROVE  SubSeq(left, 1, n) = Text(v) /\ left' = <<>>
<1>1. n = 2
  BY TextHalves
<1>2. left' = SubSeq(Text(v), 3, 2) /\ SubSeq(left, 1, n) = SubSeq(Text(v), 1, 2)
  BY <1>1, TextHalves
<1> QED
  BY <1>2, TextHalves

LEMMA SaysOkText ==
  ASSUME NEW s
  PROVE  SaysOk(Text(s)) <=> s = "200"
<1>1. DOMAIN Text(s) = {1, 2} /\ Text(s)[1] = <<s, 1>> /\ Text(s)[2] = <<s, 2>>
  BY DEF Text
<1>2. <<s, 1>> = <<"200", 1>> <=> s = "200"
  OBVIOUS
<1>3. <<s, 2>> # <<"200", 1>>
  OBVIOUS
<1> QED
  BY <1>1, <1>2, <1>3 DEF SaysOk

LEMMA ReadTextInv ==
  ASSUME Plain, Inv, NEW n \in {1, 2}, result = "reading", left # <<>>,
         n = Len(left) \/ (n < Len(left) /\ where \in Split),
         left' = SubSeq(left, n + 1, Len(left)),
         UNCHANGED <<where, told, block, listing, selfTold, trouble>>,
         ReadText(SubSeq(left, 1, n))
  PROVE  Inv'
<1> USE DEF ReadText
<1>1. Reading /\ TypeOK
  BY DEF Inv
<1>2. SoFar' /\ InsideIsWhere'
  BY <1>1 DEF Reading, SoFar, InsideIsWhere, InPropstat
<1>3. n <= Len(left)
  <2>1. Len(left) \in Nat
    <3>1. CASE n = Len(left)
      BY <3>1
    <3>2. CASE where \in Split
      <4>1. \E v : Gathers(v)
        BY <1>1, <3>2 DEF Reading, TextIsRead, Plain
      <4> QED
        BY <4>1, TextHalves DEF Gathers
    <3> QED
      BY <3>1, <3>2
  <2> QED
    BY <2>1
<1>4. CASE where \in {"href", "held", "displayname"}
  <2>1. PICK v \in Word : Gathers(v) /\ v = IF where = "displayname" THEN "name" ELSE told.href
    BY <1>1, <1>4 DEF Reading, TextIsRead, Word
  <2>2. /\ Gathering /\ "status" \notin inside
        /\ inside \cap {"status", "href", "displayname"} # {}
    BY <1>1, <1>4 DEF Reading, InsideIsWhere, InPropstat, Leaf, Gathering
  <2>3. text' = text \o SubSeq(left, 1, n) /\ (propstat_ok' <=> propstat_ok)
    BY <2>2
  <2>4. cur' \in DavEntry /\ cur'.path = cur.path /\ cur'.flags = cur.flags
        /\ cur'.kind = cur.kind /\ cur'.size = cur.size
    BY <1>1, <2>2 DEF TypeOK, DavEntry
  <2>5. Gathers(v)' /\ text' \in {First(v), Text(v)} /\ left' \in {<<>>, Second(v)}
    BY <2>1, <2>3, <1>3, GathersOn
  <2>6. text' \in Texts /\ left' \in Texts
    BY <2>1, <2>5, TextTypes
  <2>7. TypeOK'
    BY <1>1, <2>2, <2>4, <2>6 DEF TypeOK
  <2>8. TextIsRead'
    <3>1. where' = "displayname" => v = "name"
      BY <2>1
    <3>2. where' \in {"href", "held"} => told'.href = v /\ told'.href \in Href
      BY <1>1, <2>1 DEF Reading, TextIsRead
    <3>3. where' \in Leaf \ {"resourcetype"}
      BY <1>4 DEF Leaf
    <3> QED
      BY <2>5, <3>1, <3>2, <3>3 DEF TextIsRead, Gathers
  <2>9. StatusIsRead' /\ EntryIsTold'
    BY <1>1, <1>4, <2>3, <2>4
       DEF Reading, StatusIsRead, EntryIsTold, InPropstat, Reads, ReadsHref, KindWith, SizeWith, LengthIsRead
  <2> QED
    BY <1>2, <2>7, <2>8, <2>9, GoesOn DEF Reading
<1>5. CASE where = "status"
  <2>1. inside = {"response", "propstat", "status"} /\ n = Len(left) /\ left = Text(block.status)
    BY <1>1, <1>5 DEF Reading, InsideIsWhere, InPropstat, Leaf, StatusIsRead, Plain
  <2>2. SubSeq(left, 1, n) = Text(block.status) /\ left' = <<>>
    BY <2>1, WholeText
  <2>3. propstat_ok' <=> block.status = "200"
    BY <2>1, <2>2, SaysOkText
  <2>4. cur' \in DavEntry /\ cur'.path = cur.path /\ cur'.flags = cur.flags
        /\ cur'.kind = cur.kind /\ cur'.size = cur.size /\ text' = text /\ propstat_ok' \in BOOLEAN
    BY <1>1, <2>1 DEF TypeOK, DavEntry, Gathering, SaysOk
  <2>5. TypeOK'
    BY <1>1, <2>2, <2>4, TextTypes DEF TypeOK
  <2>6. TextIsRead' /\ StatusIsRead'
    <3>1. where' = "status" /\ block' = block
      BY <1>5
    <3>2. TextIsRead'
      BY <3>1, <2>2 DEF TextIsRead, Leaf
    <3>3. propstat_ok' <=> block'.status = "200"
      BY <3>1, <2>3
    <3>4. StatusIsRead'
      BY <3>3, <2>2 DEF StatusIsRead
    <3> QED
      BY <3>2, <3>4
  <2>7. EntryIsTold'
    BY <1>1, <1>5, <2>4
       DEF Reading, EntryIsTold, InPropstat, Reads, ReadsHref, KindWith, SizeWith, LengthIsRead
  <2> QED
    BY <1>2, <2>5, <2>6, <2>7, GoesOn DEF Reading
<1>6. CASE where = "getcontentlength"
  <2>1. inside = {"response", "propstat", "getcontentlength"} /\ n = Len(left)
    BY <1>1, <1>6 DEF Reading, InsideIsWhere, InPropstat, Leaf, Plain
  <2>2. PICK m \in Size : left = Text(m) /\ block.size = Text(m)
    BY <1>1, <1>6 DEF Reading, EntryIsTold, InPropstat, LengthIsRead
  <2>3. SubSeq(left, 1, n) = Text(m) /\ left' = <<>>
    BY <2>1, <2>2, WholeText
  <2>4. Text(m) \in Texts /\ Text(m) # <<>>
    BY TextTypes, TextHalves DEF Word
  <2>5. /\ cur' \in DavEntry /\ cur'.path = cur.path /\ cur'.flags = cur.flags
        /\ cur'.kind = cur.kind /\ cur'.size = Text(m)
        /\ text' = text /\ (propstat_ok' <=> propstat_ok) /\ propstat_ok' \in BOOLEAN
    BY <1>1, <2>1, <2>3, <2>4 DEF TypeOK, DavEntry, Gathering
  <2>6. TypeOK'
    BY <1>1, <2>3, <2>5, TextTypes DEF TypeOK
  <2>7. TextIsRead' /\ StatusIsRead'
    BY <1>1, <1>6, <2>3, <2>5 DEF Reading, TextIsRead, StatusIsRead, InPropstat, Leaf
  <2>8. EntryIsTold'
    BY <1>1, <1>6, <2>2, <2>3, <2>4, <2>5
       DEF Reading, EntryIsTold, InPropstat, Reads, ReadsHref, KindWith, SizeWith, LengthIsRead
  <2> QED
    BY <1>2, <2>6, <2>7, <2>8, GoesOn DEF Reading
<1> QED
  BY <1>1, <1>4, <1>5, <1>6 DEF Reading, TextIsRead, Leaf

LEMMA WriteTextInv ==
  ASSUME Plain, Inv, NEW n \in {1, 2}, WriteText(n)
  PROVE  Inv'
<1>1. CASE ReadText(SubSeq(left, 1, n)) /\ UNCHANGED trouble
  BY <1>1, ReadTextInv DEF WriteText
<1>2. CASE Fail /\ trouble' = trouble \cup {"memory"}
  <2>1. left' \in Texts
    <3>1. CASE n = Len(left)
      <4>1. SubSeq(left, n + 1, n) = <<>>
        BY SubSeqEmpty
      <4> QED
        BY <3>1, <4>1, TextTypes DEF WriteText
    <3>2. CASE n < Len(left) /\ where \in Split
      <4>1. PICK v \in Word : Gathers(v)
        BY <3>2 DEF WriteText, Inv, Reading, TextIsRead, Plain, Word
      <4>2. n = 1 /\ left = Text(v)
        BY <3>2, <4>1, TextHalves DEF Gathers
      <4>3. left' = Second(v)
        BY <4>2, TextHalves DEF WriteText
      <4> QED
        BY <4>3, TextTypes
    <3> QED
      BY <3>1, <3>2 DEF WriteText
  <2> QED
    BY <1>2, <2>1, FailKeeps DEF WriteText, Inv, TypeOK
<1> QED
  BY <1>1, <1>2 DEF WriteText

\* An entry that is located again by the href of its resource is as it was.
LEMMA LocatedFacts ==
  ASSUME NEW e \in DavEntry, NEW h \in Href, e.path \in {NoHref, PathOf(h)}, e.flags \subseteq FlagsOf(h),
         e.path = NoHref \/ FlagsOf(h) = {}
  PROVE  /\ Located(e, Text(h)) \in DavEntry /\ ReadsHref(Located(e, Text(h)), h)
         /\ Located(e, Text(h)).kind = e.kind /\ Located(e, Text(h)).size = e.size
<1> DEFINE l == LocatedAt(e, h)
<1>1. Located(e, Text(h)) = l
  BY LocatedText
<1>2. /\ l \in DavEntry /\ l.kind = e.kind /\ l.size = e.size
      /\ l.path = (IF FlagsOf(h) = {} THEN h ELSE e.path) /\ l.flags = e.flags \cup FlagsOf(h)
  BY FlagFacts DEF LocatedAt, DavEntry
<1> HIDE DEF l
<1>3. ReadsHref(l, h)
  BY <1>2 DEF ReadsHref, PathOf
<1> QED
  BY <1>1, <1>2, <1>3

LEMMA WriteEndInv ==
  ASSUME Inv, WriteEnd
  PROVE  Inv'
<1> DEFINE e == IF where = "held" THEN "href" ELSE where
<1>1. /\ result = "reading" /\ result' = "reading" /\ where \in Leaf /\ left = <<>> /\ left' = <<>>
      /\ where' = (IF where = "href" THEN "response" ELSE "propstat")
      /\ UNCHANGED <<told, block, listing, selfTold, trouble, propstat_ok, snapshot, text, out, saw_self>>
      /\ inside' = inside \ {e}
      /\ cur' = IF e = "href" /\ e \in inside THEN Located(cur, text) ELSE cur
  BY DEF WriteEnd, End
<1>2. Reading /\ TypeOK
  BY <1>1 DEF Inv
<1>3. SoFar' /\ TextIsRead'
  BY <1>1, <1>2 DEF Reading, SoFar, TextIsRead, Leaf
<1>4. InsideIsWhere'
  BY <1>1, <1>2 DEF Reading, InsideIsWhere, InPropstat, Leaf
<1>5. ASSUME cur' \in DavEntry PROVE TypeOK'
  BY <1>1, <1>2, <1>5 DEF TypeOK
<1>6. StatusIsRead'
  BY <1>1, <1>2, TextHalves DEF Reading, StatusIsRead, InPropstat, Leaf
<1>7. CASE where \in {"href", "held"}
  <2>1. e = "href" /\ e \in inside /\ told.href \in Href /\ text = Text(told.href)
    BY <1>1, <1>2, <1>7, TextHalves
       DEF Reading, InsideIsWhere, InPropstat, Leaf, TextIsRead, Gathers
  <2>2. cur' = Located(cur, Text(told.href))
    BY <1>1, <2>1
  <2>3. /\ cur.path \in {NoHref, PathOf(told.href)} /\ cur.flags \subseteq FlagsOf(told.href)
        /\ cur.path = NoHref \/ FlagsOf(told.href) = {}
    BY <1>2, <1>7, FlagFacts DEF Reading, EntryIsTold, InPropstat, ReadsHref, PathOf
  <2>4. cur \in DavEntry
    BY <1>2 DEF TypeOK
  <2>5. cur' \in DavEntry /\ ReadsHref(cur', told.href) /\ cur'.kind = cur.kind /\ cur'.size = cur.size
    BY <2>1, <2>2, <2>3, <2>4, LocatedFacts
  <2>6. EntryIsTold'
    BY <1>1, <1>2, <1>7, <2>5
       DEF Reading, EntryIsTold, InPropstat, Reads, ReadsHref, KindWith, SizeWith, LengthIsRead
  <2> QED
    BY <1>1, <1>3, <1>4, <1>5, <1>6, <2>5, <2>6, GoesOn DEF Reading
<1>8. CASE where \notin {"href", "held"}
  <2>1. cur' = cur
    BY <1>1, <1>8
  <2>2. cur' \in DavEntry
    BY <1>2, <2>1 DEF TypeOK
  <2>3. LengthIsRead'
    BY <1>1, <1>2, <1>8, <2>1, TextHalves
       DEF Reading, EntryIsTold, InPropstat, Leaf, SizeWith, LengthIsRead
  <2>4. EntryIsTold'
    BY <1>1, <1>2, <1>8, <2>1, <2>3
       DEF Reading, EntryIsTold, InPropstat, Leaf, Reads, ReadsHref, KindWith
  <2> QED
    BY <1>1, <1>3, <1>4, <1>5, <1>6, <2>2, <2>4, GoesOn DEF Reading
<1> QED
  BY <1>7, <1>8

(***************************************************************************)
(* The end of a propstat: what it said stays in the entry exactly if it is *)
(* accepted.                                                               *)
(***************************************************************************)
LEMMA EndWritePropstatInv ==
  ASSUME Inv, EndWritePropstat
  PROVE  Inv'
<1>1. /\ result = "reading" /\ result' = "reading" /\ where = "propstat" /\ where' = "response"
      /\ told' = Accepted(told, block)
      /\ UNCHANGED <<left, block, listing, selfTold, trouble, snapshot, text, out, saw_self>>
  BY DEF EndWritePropstat, EndPropstat
<1>2. /\ inside = {"response", "propstat"} /\ left = <<>>
      /\ Reads(snapshot, told) /\ ReadsHref(cur, told.href)
      /\ cur.kind = KindWith(told, block) /\ cur.size = SizeWith(told, block)
  BY <1>1, InPropstatFacts
<1>3. propstat_ok <=> block.status = "200"
  BY <1>1, InPropstatFacts
<1>4. inside' = {"response"} /\ cur' = Reverted /\ propstat_ok' = TRUE
  BY <1>2 DEF EndWritePropstat, EndPropstat
<1>5. Reading /\ TypeOK
  BY <1>1 DEF Inv
<1>6. /\ told' \in [href : Href \cup {NoHref}, kind : Kind, size : Texts]
      /\ told'.href = told.href
      /\ told'.kind = (IF block.status = "200" THEN KindWith(told, block) ELSE told.kind)
      /\ told'.size = (IF block.status = "200" THEN SizeWith(told, block) ELSE told.size)
  <2>1. CASE block.status # "200"
    BY <1>1, <1>5, <2>1 DEF TypeOK, Accepted
  <2>2. CASE block.status = "200"
    <3>1. told' = [told EXCEPT !.kind = KindWith(told, block), !.size = SizeWith(told, block)]
      BY <1>1, <1>5, <2>2 DEF TypeOK, Accepted, KindWith, SizeWith
    <3>2. KindWith(told, block) \in Kind /\ SizeWith(told, block) \in Texts
      BY <1>5 DEF TypeOK, Kind, KindWith, SizeWith
    <3> HIDE DEF KindWith, SizeWith
    <3> QED
      BY <1>5, <2>2, <3>1, <3>2 DEF TypeOK
  <2> QED
    BY <2>1, <2>2
<1>7. cur' \in DavEntry /\ Reads(cur', told')
  <2>1. CASE block.status = "200"
    BY <1>2, <1>3, <1>4, <1>5, <1>6, <2>1 DEF Reverted, Reads, ReadsHref, TypeOK
  <2>2. CASE block.status # "200"
    BY <1>2, <1>3, <1>4, <1>5, <1>6, <2>2 DEF Reverted, Reads, ReadsHref, TypeOK
  <2> QED
    BY <2>1, <2>2
<1>8. TypeOK'
  BY <1>1, <1>4, <1>5, <1>6, <1>7 DEF TypeOK
<1>9. SoFar' /\ InsideIsWhere' /\ TextIsRead' /\ StatusIsRead' /\ EntryIsTold'
  BY <1>1, <1>2, <1>4, <1>5, <1>7
     DEF Reading, SoFar, InsideIsWhere, InPropstat, Leaf, TextIsRead, StatusIsRead, EntryIsTold
<1> QED
  BY <1>1, <1>8, <1>9, GoesOn DEF Reading

(***************************************************************************)
(* The end of a response: the reader adds the entry that was told.         *)
(***************************************************************************)
LEMMA EndWriteResponseInv ==
  ASSUME Inv, EndWriteResponse
  PROVE  Inv'
<1>1. /\ result = "reading" /\ where = "response" /\ where' = "multistatus"
      /\ listing' = Responded /\ selfTold' = (selfTold \/ told.href = Self)
      /\ UNCHANGED <<left, told, block>>
  BY DEF EndWriteResponse
<1>2. Reading /\ TypeOK
  BY <1>1 DEF Inv
<1>3. inside = {"response"} /\ Reads(cur, told) /\ left = <<>> /\ out = listing /\ trouble = {}
  BY <1>1, <1>2 DEF Reading, SoFar, InsideIsWhere, InPropstat, Leaf, TextIsRead, EntryIsTold
<1>4. /\ told.href \in Href \cup {NoHref} /\ told.kind \in Kind /\ told.size \in Texts
      /\ <<>> \in Texts
  BY <1>2, TextTypes DEF TypeOK
<1>5. /\ IsEntry <=> told.href \in Child
      /\ Here <=> told.href = Self
      /\ "bad" \in cur.flags <=> told.href \in Unreadable
  <2>1. cur.path = PathOf(told.href) /\ cur.flags = FlagsOf(told.href)
    BY <1>3 DEF Reads, ReadsHref
  <2>2. IsEntry <=> told.href \in Child
    BY <2>1, FlagFacts DEF IsEntry, PathOf
  <2>3. Here <=> told.href = Self
    BY <2>1, FlagFacts DEF Here, PathOf
  <2>4. "bad" \in cur.flags <=> told.href \in Unreadable
    BY <2>1, <1>4, FlagFacts, HrefAssumption DEF Href
  <2> QED
    BY <2>2, <2>3, <2>4
<1> DEFINE new == Entry(told.href, told.kind, told.size)
<1>6. /\ Responded = (IF told.href \in Child THEN Append(listing, new) ELSE listing)
      /\ told.href \in Child => cur.path = told.href /\ new \in EntryValue
                                /\ Entry(cur.path, cur.kind, cur.size) = new
  BY <1>3, <1>4, FlagFacts DEF Responded, Reads, ReadsHref, PathOf, Entry, EntryValue, Kind
<1> HIDE DEF new
<1>7. /\ listing \in Seq(EntryValue) /\ Len(listing) \in Nat /\ Len(listing) <= MaxEntries
      /\ Responded \in Seq(EntryValue)
      /\ Len(Responded) = Len(listing) + (IF told.href \in Child THEN 1 ELSE 0)
  BY <1>2, <1>3, <1>6 DEF TypeOK
<1>8. CASE /\ EndResponse
           /\ trouble' = trouble \cup (IF told.href \in Unreadable THEN {"unreadable"} ELSE {})
                                 \cup (IF Len(Responded) > MaxEntries THEN {"long"} ELSE {})
  <2>1. /\ inside' = {} /\ UNCHANGED <<propstat_ok, cur, snapshot, text>>
        /\ saw_self' = (saw_self \/ Here)
    BY <1>3, <1>8 DEF EndResponse
  <2>2. Len(Responded) > MaxEntries <=> IsEntry /\ Full
    BY <1>3, <1>5, <1>7, BoundAssumption DEF Full
  <2>3. /\ result' = IF trouble' # {} THEN "failed" ELSE "reading"
        /\ trouble' \subseteq {"unreadable", "long"}
    BY <1>1, <1>3, <1>5, <1>8, <2>2 DEF EndResponse
  <2>4. /\ out' \in Seq(EntryValue) /\ Len(out') <= MaxEntries
        /\ trouble' = {} => out' = Responded
    <3>1. CASE IsEntry /\ ~Full
      <4>1. out' = Append(listing, new) /\ out' = Responded
        BY <1>3, <1>5, <1>6, <1>8, <3>1 DEF EndResponse
      <4>2. ~(Len(Responded) > MaxEntries)
        BY <2>2, <3>1
      <4> QED
        BY <4>1, <4>2, <1>7, BoundAssumption
    <3>2. CASE ~(IsEntry /\ ~Full)
      <4>1. out' = listing
        BY <1>3, <1>8, <3>2 DEF EndResponse
      <4>2. trouble' = {} => ~IsEntry
        BY <1>8, <2>2, <3>2
      <4> QED
        BY <4>1, <4>2, <1>5, <1>6, <1>7
    <3> QED
      BY <3>1, <3>2
  <2>5. selfTold' \in BOOLEAN /\ saw_self' \in BOOLEAN /\ (saw_self' <=> selfTold')
    <3>1. (saw_self <=> selfTold) /\ saw_self \in BOOLEAN /\ selfTold \in BOOLEAN
      BY <1>2 DEF Reading, SoFar, TypeOK
    <3> QED
      BY <1>1, <1>5, <2>1, <3>1
  <2>6. TypeOK'
    BY <1>1, <1>2, <1>7, <2>1, <2>3, <2>4, <2>5 DEF TypeOK
  <2>7. CASE trouble' # {}
    BY <2>3, <2>6, <2>7 DEF Inv, ListingIsTheAnswer, RefusedForCause
  <2>8. CASE trouble' = {}
    <3>1. SoFar' /\ InsideIsWhere' /\ TextIsRead' /\ StatusIsRead' /\ EntryIsTold'
      BY <1>1, <1>3, <2>1, <2>4, <2>5, <2>8
         DEF SoFar, InsideIsWhere, InPropstat, Leaf, TextIsRead, StatusIsRead, EntryIsTold
    <3> QED
      BY <2>3, <2>6, <2>8, <3>1, GoesOn DEF Reading
  <2> QED
    BY <2>7, <2>8
<1>9. CASE IsEntry /\ Fail /\ trouble' = trouble \cup {"memory"}
  <2>1. left' \in Texts /\ listing' \in Seq(EntryValue) /\ selfTold' \in BOOLEAN
    BY <1>1, <1>2, <1>7 DEF TypeOK
  <2> QED
    BY <1>1, <1>9, <2>1, FailKeeps
<1> QED
  BY <1>8, <1>9 DEF EndWriteResponse

(***************************************************************************)
(* The end of the answer: the listing is returned if it was of the         *)
(* directory asked for.                                                    *)
(***************************************************************************)
LEMMA EndWriteInv ==
  ASSUME Inv, EndWrite
  PROVE  Inv'
<1>1. /\ result = "reading" /\ result' = Return
      /\ trouble' = (IF selfTold THEN trouble ELSE trouble \cup {"elsewhere"})
      /\ UNCHANGED <<where, left, told, block, listing, selfTold>>
      /\ UNCHANGED <<inside, propstat_ok, cur, snapshot, text, out, saw_self>>
  BY DEF EndWrite, Finish
<1>2. TypeOK /\ trouble = {} /\ out = listing /\ (saw_self <=> selfTold)
  BY <1>1 DEF Inv, Reading, SoFar
<1>3. /\ selfTold => result' = "ok" /\ trouble' = {}
      /\ ~selfTold => result' = "failed" /\ trouble' = {"elsewhere"}
  BY <1>1, <1>2 DEF Return
<1>4. trouble' \subseteq {"elsewhere"} /\ result' \in {"ok", "failed"}
  BY <1>3
<1>5. TypeOK'
  BY <1>1, <1>2, <1>4 DEF TypeOK
<1> QED
  BY <1>1, <1>2, <1>3, <1>5 DEF Inv, ListingIsTheAnswer, RefusedForCause

LEMMA BreakOffInv ==
  ASSUME Inv, BreakOff
  PROVE  Inv'
BY FailKeeps DEF BreakOff, Inv, TypeOK

LEMMA ListAgainInv ==
  ASSUME ListAgain
  PROVE  Inv'
<1>1. TypeOK'
  <2>1. NothingTold \in [href : Href \cup {NoHref}, kind : Kind, size : Texts]
    BY TextTypes DEF NothingTold, Kind
  <2>2. NothingSaid \in [status : Status, kind : Kind, size : Texts]
    BY TextTypes DEF NothingSaid, Status, Kind
  <2>3. EmptyEntry \in DavEntry
    BY TextTypes DEF EmptyEntry, DavEntry, Kind
  <2>4. <<>> \in Seq(EntryValue) /\ Len(<<>>) <= MaxEntries
    BY BoundAssumption
  <2> QED
    BY <2>1, <2>2, <2>3, <2>4, TextTypes DEF ListAgain, TypeOK
<1>2. Reading'
  BY DEF ListAgain, Reading, SoFar, InsideIsWhere, TextIsRead, StatusIsRead, EntryIsTold, InPropstat, Leaf
<1> QED
  BY <1>1, <1>2, GoesOn DEF ListAgain

-----------------------------------------------------------------------------
(* The theorems.                                                           *)

LEMMA NextInv ==
  ASSUME Plain, Inv, [Next]_vars
  PROVE  Inv'
<1>1. CASE UNCHANGED vars
  BY <1>1 DEF vars, Inv, TypeOK, ListingIsTheAnswer, RefusedForCause, Reading, SoFar, InsideIsWhere,
              InPropstat, TextIsRead, Gathers, StatusIsRead, EntryIsTold, Reads, ReadsHref, KindWith,
              SizeWith, LengthIsRead
<1>2. CASE Next
  BY <1>2, WriteResponseInv, WriteHrefInv, WritePropstatInv, WriteStatusInv, WriteNameInv, WriteTypeInv,
     WriteCollectionInv, WriteLengthInv, WriteHeldInv, WriteTextInv, WriteEndInv, EndWritePropstatInv,
     EndWriteResponseInv, EndWriteInv, BreakOffInv, ListAgainInv
     DEF Next
<1> QED
  BY <1>1, <1>2

(***************************************************************************)
(* While an answer is read, the reader has taken from it what it says, at  *)
(* every place in it.                                                      *)
(***************************************************************************)
THEOREM InvHolds == Plain => (Spec => []Inv)
<1> SUFFICES ASSUME Plain PROVE Spec => []Inv
  OBVIOUS
<1>1. Inv /\ [Next]_vars => Inv'
  BY NextInv
<1> QED
  BY <1>1, InitInv, PTL DEF Spec

\* The variables keep their types, and the listing stays within its cap.
THEOREM TypeCorrect == Plain => (Spec => []TypeOK)
BY InvHolds, PTL DEF Inv

(***************************************************************************)
(* A listing that is returned is the whole of the answer.                  *)
(***************************************************************************)
THEOREM ListingIsTheAnswerHolds == Plain => (Spec => []ListingIsTheAnswer)
BY InvHolds, PTL DEF Inv

(***************************************************************************)
(* A listing is refused for a reason only.                                 *)
(***************************************************************************)
THEOREM RefusedForCauseHolds == Plain => (Spec => []RefusedForCause)
BY InvHolds, PTL DEF Inv
=============================================================================
