---------------------------- MODULE TextsProofs ----------------------------
(***************************************************************************)
(* What the modules about texts promise, for texts of any length and       *)
(* buffers of any size: VolumePath, DirListing, DigestClaim and HrefPath.  *)
(* A part of a text is the text up to the least separator after a          *)
(* position, and the k-th of a set of positions is found from the least k  *)
(* that has none.  What is computed character by character or part by part *)
(* (Joined, Split, NonEmpty, Normal, a scan) is related to the same of one *)
(* character or part less, and what follows for all texts is proved from   *)
(* the shortest that is an exception.                                      *)
(***************************************************************************)
EXTENDS VolumePath, DirListing, DigestClaim, HrefPath,
        FiniteSetTheorems, SequenceTheorems, WellFoundedInduction, TLAPS

-----------------------------------------------------------------------------
(* Sets of numbers.                                                        *)

LEMMA LeastExists ==
  ASSUME NEW T \in SUBSET Nat, T # {}
  PROVE  \E x \in T : \A y \in T : x <= y
<1>1. PICK x \in T : \A y \in T : ~ (<<y, x>> \in OpToRel(<, Nat))
  BY WFMin, NatLessThanWellFounded
<1>2. \A y \in T : ~ (y < x)
  BY <1>1 DEF OpToRel
<1>3. \A y \in T : y \in Nat
  OBVIOUS
<1> QED
  BY <1>2, <1>3

LEMMA MinIs ==
  ASSUME NEW T \in SUBSET Nat, T # {}
  PROVE  Min(T) \in T /\ \A y \in T : Min(T) <= y
BY LeastExists DEF Min

Below(S, n) == {m \in S : m < n}

LEMMA BelowIs ==
  ASSUME NEW S \in SUBSET Nat, NEW n \in S
  PROVE  /\ (\A m \in S : ~ (n < m)) => S = Below(S, n) \cup {n}
         /\ (\A m \in S : n <= m) => Below(S, n) = {}
         /\ \A a \in S : n < a /\ (\A m \in S : n < m => a <= m) =>
                         Below(S, a) = Below(S, n) \cup {n}
<1>1. \A m \in S : m \in Nat
  OBVIOUS
<1>2. (\A m \in S : ~ (n < m)) => \A m \in S : m < n \/ m = n
  BY <1>1
<1>3. ASSUME NEW a \in S, n < a, \A m \in S : n < m => a <= m
      PROVE  \A m \in S : m < a <=> m < n \/ m = n
  BY <1>1, <1>3
<1>4. \A m \in S : n <= m => ~ (m < n)
  BY <1>1
<1>5. n \notin Below(S, n)
  BY <1>1 DEF Below
<1> QED
  BY <1>2, <1>3, <1>4, Zenon DEF Below

LEMMA BelowIsFinite ==
  ASSUME NEW S \in SUBSET Nat, IsFiniteSet(S), NEW n \in Nat
  PROVE  IsFiniteSet(Below(S, n)) /\ Cardinality(Below(S, n)) \in Nat
BY FS_Subset, FS_CardinalityType DEF Below

LEMMA NextHasNextRank ==
  ASSUME NEW S \in SUBSET Nat, IsFiniteSet(S), NEW n \in S,
         Cardinality(Below(S, n)) + 1 < Cardinality(S)
  PROVE  \E a \in S : Cardinality(Below(S, a)) = Cardinality(Below(S, n)) + 1
<1> DEFINE Above == {m \in S : n < m}
<1>0. /\ \A m \in S : m \in Nat
      /\ Cardinality(S) \in Nat /\ Cardinality(Below(S, n)) \in Nat
  BY FS_CardinalityType, BelowIsFinite
<1>1. /\ IsFiniteSet(Below(S, n) \cup {n})
      /\ Cardinality(Below(S, n) \cup {n}) = Cardinality(Below(S, n)) + 1
  <2>1. n \notin Below(S, n)
    BY DEF Below
  <2> QED
    BY <2>1, BelowIsFinite, FS_AddElement
<1>2. Above # {}
  <2> SUFFICES ASSUME Above = {} PROVE FALSE
    OBVIOUS
  <2>1. \A m \in S : ~ (n < m)
    OBVIOUS
  <2>2. S = Below(S, n) \cup {n}
    BY <2>1, BelowIs
  <2> QED
    BY <1>0, <1>1, <2>2
<1>3. PICK a \in Above : \A y \in Above : a <= y
  <2>1. Above \in SUBSET Nat
    BY <1>0
  <2> HIDE DEF Above
  <2> QED
    BY <1>2, <2>1, LeastExists
<1>4. Below(S, a) = Below(S, n) \cup {n}
  <2>1. a \in S /\ n < a /\ \A m \in S : n < m => a <= m
    BY <1>3
  <2> QED
    BY <2>1, BelowIs
<1> QED
  BY <1>1, <1>3, <1>4

(***************************************************************************)
(* The k-th of a finite set of numbers is one of it, with k - 1 below it.  *)
(***************************************************************************)
LEMMA NthIs ==
  ASSUME NEW S \in SUBSET Nat, IsFiniteSet(S), NEW k \in 1..Cardinality(S)
  PROVE  Nth(S, k) \in S /\ Cardinality(Below(S, Nth(S, k))) = k - 1
<1> DEFINE Has(j) == \E n \in S : Cardinality(Below(S, n)) = j - 1
           T == {j \in 1..Cardinality(S) : ~Has(j)}
<1>1. Cardinality(S) \in Nat /\ \A m \in S : m \in Nat
  BY FS_CardinalityType
<1>2. T = {}
  <2> SUFFICES ASSUME T # {} PROVE FALSE
    OBVIOUS
  <2>1. PICK j \in T : \A i \in T : j <= i
    <3>1. T \in SUBSET Nat
      BY <1>1
    <3> HIDE DEF T
    <3> QED
      BY <3>1, LeastExists
  <2>2. j \in 1..Cardinality(S) /\ ~Has(j)
    OBVIOUS
  <2>3. CASE j = 1
    <3>1. S # {}
      BY <1>1, <2>2, <2>3, FS_EmptySet
    <3>2. PICK n \in S : \A y \in S : n <= y
      BY <3>1, LeastExists
    <3>3. Below(S, n) = {}
      BY <3>2, BelowIs
    <3>4. Cardinality(Below(S, n)) = j - 1
      BY <2>3, <3>3, FS_EmptySet
    <3> QED
      BY <2>2, <3>4
  <2>4. CASE j > 1
    <3>1. Has(j - 1)
      BY <1>1, <2>1, <2>2, <2>4
    <3>2. PICK n \in S : Cardinality(Below(S, n)) = j - 2
      BY <1>1, <2>2, <3>1
    <3>3. PICK a \in S : Cardinality(Below(S, a)) = j - 1
      BY <1>1, <2>2, <3>2, NextHasNextRank
    <3> QED
      BY <2>2, <3>3
  <2> QED
    BY <1>1, <2>2, <2>3, <2>4
<1>3. PICK n \in S : Cardinality(Below(S, n)) = k - 1
  BY <1>2
<1> QED
  BY <1>3 DEF Nth, Below

LEMMA NthOfInterval ==
  ASSUME NEW n \in Nat, NEW k \in 1..n
  PROVE  Nth(1..n, k) = k
<1>1. IsFiniteSet(1..n) /\ Cardinality(1..n) = n
  BY FS_Interval
<1>2. Nth(1..n, k) \in 1..n /\ Cardinality(Below(1..n, Nth(1..n, k))) = k - 1
  BY <1>1, NthIs
<1>3. \A j \in 1..n : Below(1..n, j) = 1..j - 1
  BY DEF Below
<1>4. \A j \in 1..n : Cardinality(1..j - 1) = j - 1
  BY FS_Interval
<1> QED
  BY <1>2, <1>3, <1>4

-----------------------------------------------------------------------------
(* Parts of a text.                                                        *)

(***************************************************************************)
(* A part runs from a position to the next separator or the end.           *)
(***************************************************************************)
LEMMA PartIs ==
  ASSUME NEW C, NEW text \in Seq(C), NEW seps, NEW i \in 0..Len(text)
  PROVE  \E e \in i + 1..Len(text) + 1 :
           /\ PartAfter(text, seps, i) = SubSeq(text, i + 1, e - 1)
           /\ \A j \in i + 1..e - 1 : text[j] \notin seps
           /\ e = Len(text) + 1 \/ text[e] \in seps
<1> DEFINE Ends == {j \in i + 1..Len(text) : text[j] \in seps} \cup {Len(text) + 1}
<1>1. Len(text) \in Nat
  BY LenProperties
<1>2. Ends \in SUBSET Nat /\ Ends # {}
  BY <1>1
<1>3. PICK e : e = Min(Ends)
  OBVIOUS
<1>4. e \in Ends /\ \A y \in Ends : e <= y
  BY <1>2, <1>3, MinIs
<1>5. PartAfter(text, seps, i) = SubSeq(text, i + 1, e - 1)
  BY <1>3 DEF PartAfter
<1>6. \A j \in i + 1..e - 1 : text[j] \notin seps
  BY <1>1, <1>4
<1> QED
  BY <1>1, <1>4, <1>5, <1>6

Cuts(text, seps) == {0} \cup {i \in DOMAIN text : text[i] \in seps}

LEMMA CutsAre ==
  ASSUME NEW C, NEW text \in Seq(C), NEW seps
  PROVE  /\ Cuts(text, seps) \in SUBSET (0..Len(text)) /\ Cuts(text, seps) \in SUBSET Nat
         /\ IsFiniteSet(Cuts(text, seps)) /\ Cardinality(Cuts(text, seps)) \in Nat
         /\ Split(text, seps) = [k \in 1..Cardinality(Cuts(text, seps)) |->
                                   PartAfter(text, seps, Nth(Cuts(text, seps), k))]
<1>1. Len(text) \in Nat /\ DOMAIN text = 1..Len(text)
  BY LenProperties
<1>2. Cuts(text, seps) \in SUBSET (0..Len(text))
  BY <1>1 DEF Cuts
<1>3. IsFiniteSet(0..Len(text))
  BY <1>1, FS_Interval
<1>4. IsFiniteSet(Cuts(text, seps)) /\ Cardinality(Cuts(text, seps)) \in Nat
  BY <1>2, <1>3, FS_Subset, FS_CardinalityType
<1> QED
  BY <1>1, <1>2, <1>4 DEF Split, Cuts

LEMMA SplitParts ==
  ASSUME NEW C, NEW text \in Seq(C), NEW seps, NEW k \in DOMAIN Split(text, seps)
  PROVE  \E i \in Cuts(text, seps) : Split(text, seps)[k] = PartAfter(text, seps, i)
<1> DEFINE cuts == Cuts(text, seps)
<1>1. k \in 1..Cardinality(cuts) /\ Split(text, seps)[k] = PartAfter(text, seps, Nth(cuts, k))
  BY CutsAre
<1>2. Nth(cuts, k) \in cuts
  BY <1>1, CutsAre, NthIs
<1> QED
  BY <1>1, <1>2

(***************************************************************************)
(* A part is a text of the characters that do not separate.                *)
(***************************************************************************)
LEMMA PartIsText ==
  ASSUME NEW C, NEW text \in Seq(C), NEW seps, NEW i \in 0..Len(text)
  PROVE  /\ PartAfter(text, seps, i) \in Seq(C \ seps)
         /\ Len(PartAfter(text, seps, i)) <= Len(text)
<1> DEFINE part == PartAfter(text, seps, i)
<1>1. Len(text) \in Nat /\ \A j \in 1..Len(text) : text[j] \in C
  BY LenProperties, ElementOfSeq
<1>2. PICK e \in i + 1..Len(text) + 1 :
        part = SubSeq(text, i + 1, e - 1) /\ \A j \in i + 1..e - 1 : text[j] \notin seps
  BY PartIs
<1>3. e - 1 <= Len(text) /\ i + 1 \in 1..Len(text) + 1 /\ e - 1 \in i..Len(text)
  BY <1>1
<1>4. /\ part \in Seq(C) /\ Len(part) = e - 1 - i
      /\ \A j \in 1..e - 1 - i : part[j] = text[i + j]
  <2>1. PICK m \in Int, l \in Int : m = i + 1 /\ l = e - 1
    OBVIOUS
  <2>2. \A j \in m..l : text[j] \in C
    BY <1>1, <1>3, <2>1
  <2>3. /\ SubSeq(text, m, l) \in Seq(C)
        /\ Len(SubSeq(text, m, l)) = IF m <= l THEN l - m + 1 ELSE 0
        /\ \A j \in 1..l - m + 1 : SubSeq(text, m, l)[j] = text[m + j - 1]
    <3> HIDE DEF part
    <3> QED
      BY <2>2, SubSeqProperties
  <2>4. part = SubSeq(text, m, l)
    BY <1>2, <2>1
  <2> HIDE DEF part
  <2> QED
    BY <1>3, <2>1, <2>3, <2>4
<1>5. \A j \in 1..Len(part) : part[j] \in C \ seps
  BY <1>1, <1>2, <1>3, <1>4
<1>6. part \in Seq(C \ seps)
  BY <1>4, <1>5, SeqDef
<1> QED
  BY <1>1, <1>3, <1>4, <1>6

LEMMA SplitIsOfTexts ==
  ASSUME NEW C, NEW text \in Seq(C), NEW seps
  PROVE  \A c \in ToSet(Split(text, seps)) : c \in Seq(C \ seps)
<1> SUFFICES ASSUME NEW k \in DOMAIN Split(text, seps)
             PROVE  Split(text, seps)[k] \in Seq(C \ seps)
  BY DEF ToSet
<1>1. PICK i \in Cuts(text, seps) : Split(text, seps)[k] = PartAfter(text, seps, i)
  BY SplitParts
<1>2. i \in 0..Len(text)
  BY CutsAre
<1> QED
  BY <1>1, <1>2, PartIsText

(***************************************************************************)
(* Separators that do not occur make no difference.                        *)
(***************************************************************************)
LEMMA SplitDependsOnWhatOccurs ==
  ASSUME NEW C, NEW text \in Seq(C), NEW seps, NEW more,
         \A i \in 1..Len(text) : text[i] \in seps <=> text[i] \in more
  PROVE  Split(text, seps) = Split(text, more)
<1>1. DOMAIN text = 1..Len(text) /\ Len(text) \in Nat
  BY LenProperties
<1>2. Cuts(text, seps) = Cuts(text, more)
  BY <1>1 DEF Cuts
<1>3. ASSUME NEW i \in 0..Len(text)
      PROVE  PartAfter(text, seps, i) = PartAfter(text, more, i)
  <2>1. \A j \in i + 1..Len(text) : j \in 1..Len(text)
    BY <1>1
  <2>2. {j \in i + 1..Len(text) : text[j] \in seps} = {j \in i + 1..Len(text) : text[j] \in more}
    BY <2>1
  <2> QED
    BY <2>2, Zenon DEF PartAfter
<1>4. \A k \in 1..Cardinality(Cuts(text, seps)) : Nth(Cuts(text, seps), k) \in 0..Len(text)
  BY CutsAre, NthIs
<1> QED
  BY <1>2, <1>3, <1>4, CutsAre

-----------------------------------------------------------------------------
(* Dropping the empty parts.                                               *)

LEMMA NonEmptyParts ==
  ASSUME NEW n \in Nat, NEW parts, DOMAIN parts = 1..n
  PROVE  \E m \in Nat :
           /\ DOMAIN NonEmpty(parts) = 1..m
           /\ \A k \in 1..m : NonEmpty(parts)[k] \in ToSet(parts) \ {<<>>}
           /\ (\A k \in 1..n : parts[k] = <<>>) => m = 0
           /\ (\A k \in 1..n : parts[k] # <<>>) =>
                m = n /\ \A k \in 1..n : NonEmpty(parts)[k] = parts[k]
<1> DEFINE kept == {i \in DOMAIN parts : parts[i] # <<>>}
           m == Cardinality(kept)
<1>1. kept \in SUBSET (1..n) /\ kept \in SUBSET Nat
  OBVIOUS
<1>0. IsFiniteSet(1..n) /\ Cardinality(1..n) = n
  BY FS_Interval
<1>2. IsFiniteSet(kept) /\ m \in Nat
  <2> HIDE DEF kept
  <2> QED
    BY <1>0, <1>1, FS_Subset, FS_CardinalityType
<1>3. NonEmpty(parts) = [k \in 1..m |-> parts[Nth(kept, k)]]
  BY DEF NonEmpty
<1>4. ASSUME NEW k \in 1..m PROVE parts[Nth(kept, k)] \in ToSet(parts) \ {<<>>}
  <2>1. Nth(kept, k) \in kept
    BY <1>1, <1>2, NthIs
  <2> QED
    BY <2>1 DEF ToSet
<1>5. ASSUME \A k \in 1..n : parts[k] = <<>> PROVE m = 0
  <2>1. kept = {}
    BY <1>5
  <2> QED
    BY <2>1, FS_EmptySet
<1>6. ASSUME \A k \in 1..n : parts[k] # <<>>
      PROVE  m = n /\ \A k \in 1..n : NonEmpty(parts)[k] = parts[k]
  <2>1. kept = 1..n
    BY <1>6
  <2>2. m = n
    BY <1>0, <2>1, Zenon
  <2> QED
    BY <1>3, <2>1, <2>2, NthOfInterval
<1> HIDE DEF kept
<1> QED
  BY <1>2, <1>3, <1>4, <1>5, <1>6

-----------------------------------------------------------------------------
(* A path: its volume's name and the rest.                                 *)

LEMMA PathParts ==
  ASSUME NEW text \in Seq(Char)
  PROVE  /\ VolumeName(text) \in Seq(Char) /\ SubPath(text) \in Seq(Char)
         /\ Len(text) <= 1 + Len(VolumeName(text)) + Len(SubPath(text))
         /\ Len(VolumeName(text)) + Len(SubPath(text)) <= Len(text)
         /\ text \in {<<>>, <<"/">>} => VolumeName(text) = <<>>
<1> DEFINE u == Unslashed(text)
<1>0. Len(text) \in Nat /\ (Len(text) = 0 <=> text = <<>>)
  BY LenProperties, EmptySeq
<1>1. u \in Seq(Char) /\ Len(u) \in Nat /\ Len(text) <= Len(u) + 1 /\ Len(u) <= Len(text)
  <2>1. CASE text # <<>> /\ Head(text) = "/"
    BY <1>0, <2>1, HeadTailProperties DEF Unslashed
  <2>2. CASE ~(text # <<>> /\ Head(text) = "/")
    BY <1>0, <2>2 DEF Unslashed
  <2> QED
    BY <2>1, <2>2
<1>2. PICK e \in 1..Len(u) + 1 : UpTo(u, {"/"}) = SubSeq(u, 1, e - 1)
  BY <1>1, PartIs DEF UpTo
<1>3. VolumeName(text) = SubSeq(u, 1, e - 1)
  BY <1>2 DEF VolumeName
<1>4. e - 1 <= Len(u) /\ e - 1 \in 0..Len(u)
  BY <1>1
<1>5. VolumeName(text) \in Seq(Char) /\ Len(VolumeName(text)) = e - 1
  BY <1>1, <1>3, <1>4, SubSeqProperties
<1>6. SubPath(text) = SubSeq(u, e, Len(u))
  BY <1>3, <1>5 DEF SubPath, From, VolumeName
<1>7. SubPath(text) \in Seq(Char) /\ Len(SubPath(text)) = Len(u) - (e - 1)
  BY <1>1, <1>4, <1>6, SubSeqProperties
<1>8. ASSUME text \in {<<>>, <<"/">>} PROVE VolumeName(text) = <<>>
  <2>1. u = <<>>
    <3>1. CASE text = <<>>
      BY <3>1 DEF Unslashed
    <3>2. CASE text = <<"/">>
      <4>1. text # <<>> /\ Head(text) = "/" /\ Len(text) = 1
        BY <3>2
      <4>2. Tail(text) \in Seq(Char) /\ Len(Tail(text)) = 0
        BY <4>1, HeadTailProperties
      <4> QED
        BY <4>1, <4>2, EmptySeq DEF Unslashed
    <3> QED
      BY <1>8, <3>1, <3>2
  <2> QED
    BY <1>3, <1>4, <1>5, <2>1, EmptySeq
<1> QED
  BY <1>1, <1>5, <1>7, <1>8

(***************************************************************************)
(* "/", which both surfaces take the root of a volume for.                 *)
(***************************************************************************)
LEMMA SlashIs ==
  /\ <<"/">> \in Seq(Char) /\ Len(<<"/">>) = 1
  /\ \A c \in ToSet(Split(<<"/">>, {"/"})) : c = <<>>
  /\ UefiFree(<<"/">>) /\ PathComponentsOk(<<"/">>)
<1> DEFINE slash == <<"/">>
<1>1. slash \in Seq({"/"}) /\ slash \in Seq(Char) /\ Len(slash) = 1 /\ slash[1] = "/"
  BY DEF Char
<1> HIDE DEF slash
<1>2. \A c \in ToSet(Split(slash, {"/"})) : c = <<>>
  <2> SUFFICES ASSUME NEW k \in DOMAIN Split(slash, {"/"})
               PROVE  Split(slash, {"/"})[k] = <<>>
    BY DEF ToSet
  <2>1. PICK i \in Cuts(slash, {"/"}) : Split(slash, {"/"})[k] = PartAfter(slash, {"/"}, i)
    BY <1>1, SplitParts
  <2>2. i \in 0..1
    BY <1>1, CutsAre
  <2>3. PICK e \in i + 1..2 :
          /\ PartAfter(slash, {"/"}, i) = SubSeq(slash, i + 1, e - 1)
          /\ \A j \in i + 1..e - 1 : slash[j] \notin {"/"}
    <3>1. i \in 0..Len(slash) /\ i + 1..Len(slash) + 1 = i + 1..2
      BY <1>1, <2>2
    <3>2. \E e \in i + 1..Len(slash) + 1 :
            /\ PartAfter(slash, {"/"}, i) = SubSeq(slash, i + 1, e - 1)
            /\ \A j \in i + 1..e - 1 : slash[j] \notin {"/"}
            /\ e = Len(slash) + 1 \/ slash[e] \in {"/"}
      BY ONLY <1>1, <3>1, PartIs
    <3> QED
      BY ONLY <3>1, <3>2
  <2>4. e = i + 1
    BY <1>1, <2>2, <2>3
  <2>5. SubSeq(slash, i + 1, i) = <<>>
    BY <1>1, <2>2, SubSeqEmpty
  <2> QED
    BY <2>1, <2>2, <2>3, <2>4, <2>5
<1>3. PathComponentsOk(slash)
  BY <1>2 DEF PathComponentsOk
<1>4. UefiFree(slash)
  BY <1>1 DEF UefiFree, Contains
<1> QED
  BY <1>1, <1>2, <1>3, <1>4

-----------------------------------------------------------------------------
(* The two surfaces.                                                       *)

(***************************************************************************)
(* On any path, of any length, REST and /dav name the same object of the   *)
(* same volume or both refuse it (parse_volume_path, parse_dav_path).      *)
(***************************************************************************)
THEOREM SurfacesAgreeOnAll == \A text \in Seq(Char) : SurfacesAgree(text)
<1> SUFFICES ASSUME NEW text \in Seq(Char), ~ Contains(text, "NUL"), VolumeName(text) \in Rooted
             PROVE  IF ParseVolumePath(text).kind = "ok"
                    THEN ParseVolumePath(text) = ParseDavPath(text)
                    ELSE ParseDavPath(text).kind # "ok"
  BY DEF SurfacesAgree
<1> DEFINE vol == VolumeName(text)
           sub == SubPath(text)
           fine == UefiFree(sub) /\ PathComponentsOk(sub)
<1>1. /\ vol \in Volume /\ text \notin {<<>>, <<"/">>}
      /\ PathMax \in Nat /\ VolMax \in Nat /\ VolMax + 1 < PathMax
  BY PathParts, NameAssumption
<1>2. /\ Len(text) \in Nat /\ Len(vol) \in Nat /\ Len(sub) \in Nat
      /\ Len(text) <= 1 + Len(vol) + Len(sub) /\ (Len(sub) = 0 <=> sub = <<>>)
  BY PathParts, LenProperties, EmptySeq
<1>3. vol \in Volume /\ vol \in Rooted /\ text \notin {<<>>, <<"/">>}
  BY <1>1
<1>4. /\ Refused("bad").kind # "ok" /\ Refused("too long").kind # "ok"
      /\ Refused("invalid").kind # "ok" /\ Refused("no volume").kind # "ok"
  BY DEF Refused
<1> HIDE DEF fine, vol, sub
<1>5. CASE Len(vol) >= VolMax
  <2>1. ParseDavPath(text) = Refused("invalid")
    <3>1. ~ IsVolume(vol, Rooted)
      BY <1>1, <1>2, <1>5 DEF IsVolume
    <3> QED
      BY <1>3, <3>1 DEF ParseDavPath, vol
  <2>2. ParseVolumePath(text) \in {Refused("too long"), Refused("no volume")}
    <3>1. ~ IsVolume(vol, Volume)
      BY <1>1, <1>2, <1>5 DEF IsVolume
    <3> QED
      BY <3>1 DEF ParseVolumePath, vol
  <2> QED
    BY <1>4, <2>1, <2>2
<1>6. CASE Len(vol) < VolMax /\ sub = <<>>
  <2>1. ParseDavPath(text) = Object(vol, <<"/">>)
    BY <1>3, <1>6 DEF ParseDavPath, IsVolume, vol, sub
  <2>2. FitsVolume(vol, <<"/">>) /\ ~ (Len(<<"/">>) >= PathMax) /\ ~ (Len(text) >= PathMax)
    BY <1>1, <1>2, <1>6, SlashIs DEF FitsVolume
  <2>3. ParseVolumePath(text) = Object(vol, <<"/">>)
    BY <1>3, <1>6, <2>2, SlashIs DEF ParseVolumePath, IsVolume, vol, sub
  <2> QED
    BY <1>4, <2>1, <2>3
<1>7. CASE Len(vol) < VolMax /\ sub # <<>>
  <2>1. ParseDavPath(text) = IF Len(sub) >= PathMax \/ ~FitsVolume(vol, sub) \/ ~fine
                             THEN Refused("bad") ELSE Object(vol, sub)
    BY <1>3, <1>7 DEF ParseDavPath, IsVolume, fine, vol, sub
  <2>2. ParseVolumePath(text) = IF Len(text) >= PathMax \/ Len(sub) >= PathMax \/ ~FitsVolume(vol, sub)
                                THEN Refused("too long")
                                ELSE IF ~fine THEN Refused("bad") ELSE Object(vol, sub)
    BY <1>3, <1>7 DEF ParseVolumePath, IsVolume, fine, vol, sub
  <2>3. Len(text) >= PathMax => ~FitsVolume(vol, sub)
    BY <1>1, <1>2 DEF FitsVolume
  <2>4. Object(vol, sub).kind = "ok"
    BY DEF Object
  <2> QED
    BY <1>4, <2>1, <2>2, <2>3, <2>4
<1> QED
  BY <1>1, <1>2, <1>5, <1>6, <1>7

-----------------------------------------------------------------------------
(* What an accepted path is on the volume.                                 *)

(***************************************************************************)
(* A name FAT would trim nothing of, in whatever letter case.              *)
(***************************************************************************)
LEMMA NothingIsTrimmed ==
  ASSUME NEW c \in Seq(Char), c # <<>>, Head(c) # "SP", Last(c) \notin {"SP", "."}
  PROVE  Trimmed(FoldedName(c)) = FoldedName(c) /\ FoldedName(c) # <<>>
<1>a. PICK n : n = Len(c)
  OBVIOUS
<1>0. n \in Nat /\ 1 <= n /\ 1 \in 1..n /\ n \in 1..n
  <2>1. Len(c) \in Nat \ {0}
    BY EmptySeq
  <2>2. n \in Nat /\ n # 0
    BY ONLY <1>a, <2>1
  <2> QED
    BY ONLY <2>2
<1>1. DOMAIN c = 1..n /\ \A i \in 1..n : c[i] \in Char
  BY <1>a, LenProperties, ElementOfSeq
<1>b. PICK f : f = [i \in 1..n |-> IF c[i] \in Name THEN Fold[c[i]] ELSE c[i]]
  OBVIOUS
<1>2. FoldedName(c) = f
  BY <1>1, <1>b DEF FoldedName
<1>3. \A i \in 1..n : f[i] \in Char /\ (f[i] \in {"SP", "."} => f[i] = c[i])
  <2> SUFFICES ASSUME NEW i \in 1..n
               PROVE  f[i] \in Char /\ (f[i] \in {"SP", "."} => f[i] = c[i])
    OBVIOUS
  <2>1. CASE c[i] \in Name
    <3>1. f[i] = Fold[c[i]] /\ Fold[c[i]] \in Name
      BY <1>b, <2>1, NameAssumption
    <3>2. f[i] \notin {"SP", "."}
      BY <3>1, NameAssumption, Zenon
    <3> QED
      BY <3>1, <3>2, Zenon DEF Char
  <2>2. CASE c[i] \notin Name
    <3>1. f[i] = c[i]
      BY <1>b, <2>2
    <3> QED
      BY <1>1, <3>1
  <2> QED
    BY <2>1, <2>2
<1>4. f \in Seq(Char) /\ DOMAIN f = 1..n /\ Len(f) = n
  <2>1. f \in [1..n -> Char]
    BY <1>b, <1>3
  <2>2. f \in Seq(Char)
    BY <1>0, <2>1, SeqDef
  <2>3. Len(f) = n /\ DOMAIN f = 1..n
    BY <1>0, <2>1
  <2> QED
    BY <2>2, <2>3
<1>5. f[1] # "SP" /\ f[n] \notin {"SP", "."}
  <2>1. Head(c) = c[1]
    OBVIOUS
  <2>2. Last(c) = c[n]
    BY ONLY <1>a DEF Last
  <2>3. f[1] = "SP" => f[1] = c[1]
    BY <1>0, <1>3
  <2>4. f[n] \in {"SP", "."} => f[n] = c[n]
    BY <1>0, <1>3
  <2> QED
    BY <2>1, <2>2, <2>3, <2>4
<1> DEFINE First == {i \in 1..n : f[i] # "SP"}
           Final == {i \in 1..n : f[i] \notin {"SP", "."}}
<1>6. 1 \in First /\ First \in SUBSET Nat /\ (\A i \in First : 1 <= i)
  BY ONLY <1>0, <1>5
<1>7. n \in Final /\ \A i \in Final : i <= n /\ i \in Nat
  BY ONLY <1>0, <1>5
<1> HIDE DEF First, Final
<1>8. Min(First) = 1
  <2>1. Min(First) \in First /\ Min(First) <= 1 /\ Min(First) \in Nat
    BY <1>6, MinIs
  <2>2. 1 <= Min(First)
    BY <1>6, <2>1
  <2> QED
    BY ONLY <2>1, <2>2
<1>9. Max(Final) = n
  <2>1. \A y \in Final : n >= y
    BY <1>0, <1>7
  <2>2. \E x \in Final : \A y \in Final : x >= y
    BY <1>7, <2>1
  <2>3. Max(Final) \in Final /\ \A y \in Final : Max(Final) >= y
    BY <2>2, Zenon DEF Max
  <2>4. Max(Final) \in Nat /\ Max(Final) <= n /\ Max(Final) >= n
    BY <1>7, <2>3
  <2> QED
    BY ONLY <1>0, <2>4
<1>10. Trimmed(f) = SubSeq(f, 1, n)
  <2>1. Trimmed(f) = IF Final = {} THEN <<>> ELSE SubSeq(f, Min(First), Max(Final))
    BY <1>4 DEF Trimmed, First, Final
  <2> QED
    BY <1>7, <1>8, <1>9, <2>1
<1>11. SubSeq(f, 1, n) = f
  BY <1>4, SubSeqFull
<1>12. f # <<>>
  BY ONLY <1>0, <1>4, EmptySeq
<1> QED
  BY <1>2, <1>10, <1>11, <1>12

LEMMA CleanPathOnVolume ==
  ASSUME NEW sub \in Seq(Char), UefiFree(sub), PathComponentsOk(sub)
  PROVE  LET given == NonEmpty(Split(sub, {"/"}))
             named == [i \in DOMAIN given |-> FoldedName(given[i])]
         IN  OnVolume(sub) = named /\ Spelled(sub) = named
<1> DEFINE parts == Split(sub, {"/"})
           given == NonEmpty(parts)
           named == [i \in DOMAIN given |-> FoldedName(given[i])]
<1>1. Split(sub, UefiSeparator) = parts
  <2>1. \A i \in 1..Len(sub) : sub[i] \in UefiSeparator <=> sub[i] \in {"/"}
    BY DEF UefiFree, Contains, UefiSeparator
  <2> QED
    BY <2>1, SplitDependsOnWhatOccurs
<1>2. PICK n \in Nat : DOMAIN parts = 1..n
  BY CutsAre
<1>3. PICK m \in Nat :
        DOMAIN given = 1..m /\ \A k \in 1..m : given[k] \in ToSet(parts) \ {<<>>}
  BY <1>2, NonEmptyParts
<1>4. \A k \in 1..m : Trimmed(FoldedName(given[k])) = FoldedName(given[k])
                     /\ FoldedName(given[k]) # <<>>
  <2> SUFFICES ASSUME NEW k \in 1..m
               PROVE  Trimmed(FoldedName(given[k])) = FoldedName(given[k])
                      /\ FoldedName(given[k]) # <<>>
    OBVIOUS
  <2>1. given[k] \in ToSet(parts) /\ given[k] # <<>>
    BY <1>3
  <2>2. given[k] \in Seq(Char)
    <3>1. given[k] \in Seq(Char \ {"/"})
      BY <2>1, SplitIsOfTexts
    <3>2. Char \ {"/"} \subseteq Char
      OBVIOUS
    <3> QED
      BY <3>1, <3>2, SeqMonotonic
  <2>3. Head(given[k]) # "SP" /\ Last(given[k]) \notin {"SP", "."}
    BY <2>1 DEF PathComponentsOk
  <2> QED
    BY <2>1, <2>2, <2>3, NothingIsTrimmed
<1>5. Spelled(sub) = named
  BY <1>1 DEF Spelled
<1> HIDE DEF given
<1>6. DOMAIN named = 1..m /\ \A k \in 1..m : named[k] = FoldedName(given[k])
  BY <1>3
<1> HIDE DEF named
<1>7. OnVolume(sub) = NonEmpty([i \in DOMAIN named |-> Trimmed(named[i])])
  BY <1>5 DEF OnVolume
<1>8. [i \in DOMAIN named |-> Trimmed(named[i])] = named
  <2>1. named = [i \in DOMAIN named |-> named[i]]
    BY DEF named
  <2> QED
    BY <1>4, <1>6, <2>1
<1>9. NonEmpty(named) = named
  <2>1. PICK l \in Nat :
          DOMAIN NonEmpty(named) = 1..l
          /\ ((\A k \in 1..m : named[k] # <<>>) =>
                l = m /\ \A k \in 1..m : NonEmpty(named)[k] = named[k])
    BY <1>6, NonEmptyParts
  <2>2. l = m /\ \A k \in 1..m : NonEmpty(named)[k] = named[k]
    BY <1>4, <1>6, <2>1
  <2>3. NonEmpty(named) = [k \in 1..m |-> NonEmpty(named)[k]]
    BY <2>1, <2>2 DEF NonEmpty
  <2>4. named = [k \in 1..m |-> named[k]]
    BY <1>6 DEF named
  <2> QED
    BY <2>2, <2>3, <2>4
<1> QED
  BY <1>5, <1>7, <1>8, <1>9 DEF named, given

(***************************************************************************)
(* "/" and no path at all spell no names.                                  *)
(***************************************************************************)
LEMMA NoNames ==
  ASSUME NEW text \in Seq(Char), \A c \in ToSet(Split(text, {"/"})) : c = <<>>
  PROVE  DOMAIN NonEmpty(Split(text, {"/"})) = {}
<1>1. PICK n \in Nat : DOMAIN Split(text, {"/"}) = 1..n
  BY CutsAre
<1>2. \A k \in 1..n : Split(text, {"/"})[k] = <<>>
  BY <1>1 DEF ToSet
<1>3. DOMAIN NonEmpty(Split(text, {"/"})) = 1..0
  BY <1>1, <1>2, NonEmptyParts
<1> QED
  BY <1>3

LEMMA EmptyTextHasNoNames == DOMAIN NonEmpty(Split(<<>>, {"/"})) = {}
<1>1. PICK text \in Seq(Char) : text = <<>> /\ Len(text) = 0
  BY EmptySeq
<1>2. \A c \in ToSet(Split(text, {"/"})) : c = <<>>
  <2> SUFFICES ASSUME NEW k \in DOMAIN Split(text, {"/"})
               PROVE  Split(text, {"/"})[k] = <<>>
    BY DEF ToSet
  <2>1. PICK i \in 0..Len(text) : Split(text, {"/"})[k] = PartAfter(text, {"/"}, i)
    BY SplitParts, CutsAre
  <2>2. /\ PartAfter(text, {"/"}, i) \in Seq(Char \ {"/"})
        /\ Len(PartAfter(text, {"/"}, i)) <= Len(text)
    BY PartIsText
  <2> QED
    BY <1>1, <2>1, <2>2, EmptySeq, LenProperties
<1> QED
  BY <1>1, <1>2, NoNames

(***************************************************************************)
(* The path either surface takes a text for: the rest after the volume's   *)
(* name, or "/" if there is none, and it passed the checks.                *)
(***************************************************************************)
LEMMA AcceptedIs ==
  ASSUME NEW text \in Seq(Char), NEW parsed \in {ParseVolumePath(text), ParseDavPath(text)},
         parsed.kind = "ok"
  PROVE  /\ parsed.sub = IF SubPath(text) = <<>> THEN <<"/">> ELSE SubPath(text)
         /\ UefiFree(parsed.sub) /\ PathComponentsOk(parsed.sub)
<1> DEFINE vol == VolumeName(text)
           sub == SubPath(text)
           taken == IF sub = <<>> THEN <<"/">> ELSE sub
           refused == {Refused("too long"), Refused("bad"), Refused("no volume"),
                       Refused("root"), Refused("invalid")}
<1>1. \A r \in refused : r.kind # "ok"
  <2>1. \A why : Refused(why).kind = why
    BY DEF Refused
  <2> HIDE DEF refused
  <2>2. \A r \in refused : r.kind \in {"too long", "bad", "no volume", "root", "invalid"}
    BY ONLY <2>1, Zenon DEF refused
  <2> QED
    BY <2>2
<1>2. Object(vol, taken).sub = taken
  BY DEF Object
<1> HIDE DEF vol, sub, refused
<1>3. ASSUME parsed = ParseVolumePath(text)
      PROVE  parsed = Object(vol, taken) /\ UefiFree(taken) /\ PathComponentsOk(taken)
  <2>1. \/ ParseVolumePath(text) \in refused
        \/ /\ ParseVolumePath(text) = Object(vol, taken)
           /\ UefiFree(taken) /\ PathComponentsOk(taken)
    BY DEF ParseVolumePath, vol, sub, refused
  <2> QED
    BY <1>1, <1>3, <2>1
<1>4. ASSUME parsed = ParseDavPath(text)
      PROVE  parsed = Object(vol, taken) /\ UefiFree(taken) /\ PathComponentsOk(taken)
  <2>1. CASE sub = <<>>
    <3>1. ParseDavPath(text) \in refused \/ ParseDavPath(text) = Object(vol, <<"/">>)
      BY <2>1 DEF ParseDavPath, vol, sub, refused
    <3> QED
      BY <1>1, <1>4, <2>1, <3>1, SlashIs
  <2>2. CASE sub # <<>>
    <3>1. \/ ParseDavPath(text) \in refused
          \/ /\ ParseDavPath(text) = Object(vol, sub)
             /\ UefiFree(sub) /\ PathComponentsOk(sub)
      BY <2>2 DEF ParseDavPath, vol, sub, refused
    <3> QED
      BY <1>1, <1>4, <2>2, <3>1
  <2> QED
    BY <2>1, <2>2
<1> QED
  BY <1>2, <1>3, <1>4 DEF sub

(***************************************************************************)
(* A path of any length that is accepted opens the file its components     *)
(* spell: the volume, which has other separators and trims names, reads    *)
(* the same names in it (ft_path_components_ok and the character checks).  *)
(***************************************************************************)
THEOREM NamesWhatItSpellsOnAll == \A text \in Seq(Char) : NamesWhatItSpells(text)
<1> SUFFICES ASSUME NEW text \in Seq(Char),
                    NEW parsed \in {ParseVolumePath(text), ParseDavPath(text)},
                    parsed.kind = "ok"
             PROVE  LET given == NonEmpty(Split(SubPath(text), {"/"}))
                    IN  OnVolume(parsed.sub) = [i \in DOMAIN given |-> FoldedName(given[i])]
  BY DEF NamesWhatItSpells
<1> DEFINE given(sub) == NonEmpty(Split(sub, {"/"}))
<1>1. SubPath(text) \in Seq(Char)
  BY PathParts
<1>2. /\ parsed.sub = IF SubPath(text) = <<>> THEN <<"/">> ELSE SubPath(text)
      /\ UefiFree(parsed.sub) /\ PathComponentsOk(parsed.sub)
  BY AcceptedIs
<1>3. parsed.sub \in Seq(Char)
  BY <1>1, <1>2, SlashIs
<1>4. OnVolume(parsed.sub) = [i \in DOMAIN given(parsed.sub) |-> FoldedName(given(parsed.sub)[i])]
  BY <1>2, <1>3, CleanPathOnVolume
<1>5. CASE SubPath(text) = <<>>
  <2>1. DOMAIN given(SubPath(text)) = {}
    BY <1>5, EmptyTextHasNoNames
  <2>2. DOMAIN given(parsed.sub) = {}
    BY <1>2, <1>5, SlashIs, NoNames
  <2> HIDE DEF given
  <2>3. [i \in DOMAIN given(parsed.sub) |-> FoldedName(given(parsed.sub)[i])]
          = [i \in DOMAIN given(SubPath(text)) |-> FoldedName(given(SubPath(text))[i])]
    BY <2>1, <2>2
  <2> QED
    BY <1>4, <2>3 DEF given
<1>6. CASE SubPath(text) # <<>>
  BY <1>2, <1>4, <1>6
<1> QED
  BY <1>5, <1>6

-----------------------------------------------------------------------------
(* The same, of every request.                                             *)

PathIsText == path \in Seq(Char)

LEMMA PathStaysText == PathSpec => []PathIsText
<1>1. PathInit => PathIsText
  BY EmptySeq DEF PathInit, PathIsText
<1>2. PathIsText /\ [PathNext]_path => PathIsText'
  BY AppendProperties DEF PathNext, PathGrows, PathIsText
<1> QED
  BY <1>1, <1>2, PTL DEF PathSpec

(***************************************************************************)
(* Whatever path a client sends, REST and /dav take it for the same object *)
(* or both refuse it (parse_volume_path, parse_dav_path).                  *)
(***************************************************************************)
THEOREM SurfacesAgreeHolds == PathSpec => []SurfacesAgreeOnPaths
<1>1. PathIsText => SurfacesAgreeOnPaths
  BY SurfacesAgreeOnAll DEF SurfacesAgreeOnPaths, PathIsText
<1> QED
  BY <1>1, PathStaysText, PTL

(***************************************************************************)
(* An accepted path opens the file its components spell                    *)
(* (ft_path_components_ok and the character checks of both parsers).       *)
(***************************************************************************)
THEOREM PathsNameHolds == PathSpec => []PathsNameWhatTheySpell
<1>1. PathIsText => PathsNameWhatTheySpell
  BY NamesWhatItSpellsOnAll DEF PathsNameWhatTheySpell, PathIsText
<1> QED
  BY <1>1, PathStaysText, PTL

-----------------------------------------------------------------------------
(* Directories.                                                            *)

Listing == [pos : Nat, cut : BOOLEAN, shown : Seq(EntryValue), stopped : BOOLEAN]

\* No entry so far is longer than the margin allows for.
AllFit == \A i \in DOMAIN dir : Comma + dir[i].length + Closing <= Margin

(***************************************************************************)
(* The inductive invariant.  What is shown is the start of what is         *)
(* visible, and all of it as long as the loop runs; the loop runs as long  *)
(* as there is more than the margin left, so that what an entry leaves of  *)
(* it is room for the closing.                                             *)
(***************************************************************************)
ListTypes ==
  /\ dir \in Seq(EntryValue) /\ visible \in Seq(EntryValue)
  /\ out \in Listing /\ array \in Seq(EntryValue)

ListRoom ==
  Opening + Margin < BufSize /\ AllFit =>
    /\ ~ out.cut /\ out.pos + Closing < BufSize
    /\ ~ out.stopped => out.pos + Margin < BufSize

ListShown ==
  /\ IsPrefix(out.shown, visible)
  /\ out.stopped \/ out.shown = visible
  /\ out.stopped => out.pos >= BufSize - Margin

ListArray ==
  /\ IsPrefix(array, visible)
  /\ Len(array) = MaxEntries \/ array = visible

ListInv ==
  ListTypes /\ ListRoom /\ ListShown /\ ListArray /\ bare = [out |-> out, array |-> array]

LEMMA ConstantsAre ==
  /\ BufSize \in Nat /\ Margin \in Nat /\ Opening \in Nat /\ Comma \in Nat
  /\ Closing \in Nat /\ MaxEntries \in Nat /\ Margin < BufSize /\ Closing < Margin
BY ListingAssumption

LEMMA AppendedIs ==
  ASSUME NEW listing \in Listing, NEW length \in Nat
  PROVE  /\ Appended(listing, length) \in Listing
         /\ Appended(listing, length).shown = listing.shown
         /\ Appended(listing, length).stopped = listing.stopped
         /\ listing.pos + length < BufSize =>
              /\ Appended(listing, length).pos = listing.pos + length
              /\ Appended(listing, length).cut = listing.cut
<1>1. BufSize - 1 \in Nat /\ listing.pos + length \in Nat /\ BufSize \in Nat
  BY ConstantsAre DEF Listing
<1>2. CASE listing.pos + length >= BufSize
  <2>1. Appended(listing, length) = [listing EXCEPT !.pos = BufSize - 1, !.cut = TRUE]
    BY <1>2 DEF Appended
  <2>2. ~ (listing.pos + length < BufSize)
    BY <1>1, <1>2
  <2>3. Appended(listing, length) \in Listing
    BY <1>1, <2>1 DEF Listing
  <2>4. /\ Appended(listing, length).shown = listing.shown
        /\ Appended(listing, length).stopped = listing.stopped
    BY <2>1 DEF Listing
  <2> QED
    BY <2>2, <2>3, <2>4
<1>3. CASE ~ (listing.pos + length >= BufSize)
  <2>1. Appended(listing, length) = [listing EXCEPT !.pos = listing.pos + length]
    BY <1>3 DEF Appended
  <2> QED
    BY <1>1, <1>3, <2>1 DEF Listing
<1> QED
  BY <1>2, <1>3

LEMMA OpenedIs ==
  /\ Opened \in Listing /\ Opened.shown = <<>> /\ ~ Opened.stopped
  /\ Opening + Margin < BufSize => Opened.pos = Opening /\ ~ Opened.cut
<1> DEFINE empty == [pos |-> 0, cut |-> FALSE, shown |-> <<>>, stopped |-> FALSE]
<1>1. /\ empty \in Listing /\ empty.shown = <<>> /\ ~ empty.stopped
      /\ empty.pos = 0 /\ ~ empty.cut
  BY EmptySeq DEF Listing
<1>2. Opened = Appended(empty, Opening)
  BY DEF Opened
<1> HIDE DEF empty
<1>3. Opening \in Nat /\ Margin \in Nat /\ BufSize \in Nat
  BY ConstantsAre
<1>4. Opening + Margin < BufSize => empty.pos + Opening < BufSize
  BY <1>1, <1>3
<1>5. /\ Appended(empty, Opening) \in Listing
      /\ Appended(empty, Opening).shown = empty.shown
      /\ Appended(empty, Opening).stopped = empty.stopped
      /\ empty.pos + Opening < BufSize =>
           /\ Appended(empty, Opening).pos = empty.pos + Opening
           /\ Appended(empty, Opening).cut = empty.cut
  BY <1>1, <1>3, AppendedIs
<1>6. empty.pos + Opening = Opening
  BY <1>1, <1>3
<1> QED
  BY ONLY <1>1, <1>2, <1>4, <1>5, <1>6, ZenonT(60)

(***************************************************************************)
(* The turn of the loop for an entry that is shown.                        *)
(***************************************************************************)
LEMMA ListedIs ==
  ASSUME NEW listing \in Listing, ~ listing.stopped, NEW e \in EntryValue, ~ e.hidden
  PROVE  /\ Listed(listing, e) \in Listing
         /\ Listed(listing, e).shown = Append(listing.shown, e)
         /\ Listed(listing, e).stopped <=> Listed(listing, e).pos >= BufSize - Margin
         /\ listing.pos + Comma + e.length < BufSize =>
              /\ Listed(listing, e).pos <= listing.pos + Comma + e.length
              /\ Listed(listing, e).cut = listing.cut
<1>1. e.length \in Nat /\ Comma \in Nat /\ listing.pos \in Nat /\ BufSize \in Nat
  BY ConstantsAre DEF EntryValue, Listing
<1>2. PICK comma \in {0, Comma} : comma = IF listing.shown = <<>> THEN 0 ELSE Comma
  OBVIOUS
<1>3. comma \in Nat /\ comma <= Comma
  BY <1>1
<1>4. PICK mid : mid = Appended(listing, comma)
  OBVIOUS
<1>5. PICK new : new = Appended(mid, e.length)
  OBVIOUS
<1>6. /\ mid \in Listing /\ mid.shown = listing.shown
      /\ listing.pos + comma < BufSize => mid.pos = listing.pos + comma /\ mid.cut = listing.cut
  BY <1>3, <1>4, AppendedIs
<1>7. /\ new \in Listing /\ new.shown = listing.shown
      /\ mid.pos + e.length < BufSize => new.pos = mid.pos + e.length /\ new.cut = mid.cut
  BY <1>1, <1>5, <1>6, AppendedIs
<1>8. Listed(listing, e) = [new EXCEPT !.shown = Append(new.shown, e), !.stopped = Full(new)]
  BY <1>2, <1>4, <1>5 DEF Listed
<1>9. Full(new) \in BOOLEAN /\ (Full(new) <=> new.pos >= BufSize - Margin)
  BY DEF Full
<1>10. Append(new.shown, e) \in Seq(EntryValue)
  BY <1>7, AppendProperties DEF Listing
<1>11. /\ Listed(listing, e) \in Listing
       /\ Listed(listing, e).shown = Append(listing.shown, e)
       /\ Listed(listing, e).stopped = Full(new)
       /\ Listed(listing, e).pos = new.pos /\ Listed(listing, e).cut = new.cut
  BY <1>7, <1>8, <1>9, <1>10 DEF Listing
<1>12. listing.pos + Comma + e.length < BufSize =>
         /\ new.pos <= listing.pos + Comma + e.length /\ new.cut = listing.cut
  BY <1>1, <1>3, <1>6, <1>7
<1> QED
  BY <1>9, <1>11, <1>12

LEMMA AppendExtends ==
  ASSUME NEW C, NEW s \in Seq(C), NEW t \in Seq(C), NEW x \in C
  PROVE  /\ IsPrefix(s, s)
         /\ IsPrefix(s, t) => IsPrefix(s, Append(t, x))
<1>1. /\ Len(s) \in Nat /\ Len(t) \in Nat /\ Len(Append(t, x)) = Len(t) + 1
      /\ \A i \in 1..Len(t) : Append(t, x)[i] = t[i]
      /\ Append(t, x) \in Seq(C)
  BY LenProperties, AppendProperties
<1>2. ASSUME IsPrefix(s, t) PROVE IsPrefix(s, Append(t, x))
  <2>1. Len(s) <= Len(t) /\ SubSeq(s, 1, Len(s)) = SubSeq(t, 1, Len(s))
    BY <1>2 DEF IsPrefix
  <2>2. SubSeq(t, 1, Len(s)) = SubSeq(Append(t, x), 1, Len(s))
    BY <1>1, <2>1
  <2> QED
    BY <1>1, <2>1, <2>2 DEF IsPrefix
<1> QED
  BY <1>1, <1>2 DEF IsPrefix

LEMMA ListInvInit == ListInit => ListInv
<1> SUFFICES ASSUME ListInit PROVE ListInv
  OBVIOUS
<1>1. /\ dir = <<>> /\ visible = <<>> /\ array = <<>> /\ out = Opened
      /\ bare = [out |-> out, array |-> array]
  BY DEF ListInit
<1>2. /\ <<>> \in Seq(EntryValue) /\ Len(<<>>) = 0 /\ IsPrefix(<<>>, <<>>)
  BY EmptySeq DEF IsPrefix
<1>3. ListTypes
  BY <1>1, <1>2, OpenedIs DEF ListTypes
<1>4. ListRoom
  BY <1>1, OpenedIs, ConstantsAre DEF ListRoom
<1>5. ListShown
  BY <1>1, <1>2, OpenedIs DEF ListShown
<1>6. ListArray
  BY <1>1, <1>2 DEF ListArray
<1> QED
  BY <1>1, <1>3, <1>4, <1>5, <1>6 DEF ListInv

LEMMA DirGrows ==
  ASSUME ListInv, NEW e \in EntryValue, ListEntry(e)
  PROVE  /\ dir' \in Seq(EntryValue)
         /\ AllFit' => AllFit /\ Comma + e.length + Closing <= Margin
<1>1. dir \in Seq(EntryValue) /\ dir' = Append(dir, e)
  BY DEF ListInv, ListTypes, ListEntry
<1>2. /\ dir' \in Seq(EntryValue) /\ Len(dir) \in Nat /\ Len(dir') = Len(dir) + 1
      /\ \A i \in 1..Len(dir) : dir'[i] = dir[i]
      /\ dir'[Len(dir) + 1] = e
  BY <1>1, AppendProperties, LenProperties
<1>3. DOMAIN dir = 1..Len(dir) /\ DOMAIN dir' = 1..Len(dir) + 1
  BY <1>1, <1>2, LenProperties
<1>4. /\ \A i \in DOMAIN dir : i \in DOMAIN dir' /\ dir'[i] = dir[i]
      /\ Len(dir) + 1 \in DOMAIN dir'
  BY <1>2, <1>3
<1>5. AllFit' => AllFit
  BY <1>4 DEF AllFit
<1>6. AllFit' => Comma + e.length + Closing <= Margin
  BY <1>2, <1>4 DEF AllFit
<1> QED
  BY <1>2, <1>5, <1>6

LEMMA ListInvStep ==
  ASSUME ListInv, NEW e \in EntryValue, ListEntry(e)
  PROVE  ListInv'
<1>1. /\ ListTypes /\ ListRoom /\ ListShown /\ ListArray
      /\ bare.out = out /\ bare.array = array
  BY DEF ListInv
<1>2. /\ out' = Listed(out, e) /\ array' = DavListed(array, e)
      /\ e.hidden => visible' = visible /\ bare' = bare
      /\ ~ e.hidden => /\ visible' = Append(visible, e)
                       /\ bare' = [out |-> Listed(bare.out, e), array |-> DavListed(bare.array, e)]
  BY DEF ListEntry
<1>3. CASE e.hidden
  <2>1. out' = out /\ array' = array /\ visible' = visible /\ bare' = bare
    BY <1>2, <1>3 DEF Listed, DavListed
  <2> QED
    BY <2>1, DirGrows DEF ListInv, ListTypes, ListRoom, ListShown, ListArray
<1>4. CASE ~ e.hidden
  <2>1. bare' = [out |-> out', array |-> array'] /\ visible' = Append(visible, e)
    BY <1>1, <1>2, <1>4
  <2>2. visible' \in Seq(EntryValue) /\ visible \in Seq(EntryValue) /\ array \in Seq(EntryValue)
    BY <1>1, <2>1, AppendProperties DEF ListTypes
  <2>3. array' \in Seq(EntryValue) /\ ListArray'
    <3>1. CASE Len(array) = MaxEntries
      <4>1. array' = array
        BY <1>2, <3>1 DEF DavListed
      <4> QED
        BY <1>1, <2>1, <2>2, <3>1, <4>1, AppendExtends DEF ListArray
    <3>2. CASE Len(array) # MaxEntries
      <4>1. array' = Append(array, e) /\ array = visible
        BY <1>1, <1>2, <1>4, <3>2 DEF DavListed, ListArray
      <4>2. IsPrefix(visible', visible')
        BY <2>2, AppendExtends
      <4> QED
        BY <2>1, <2>2, <4>1, <4>2 DEF ListArray
    <3> QED
      BY <3>1, <3>2
  <2>4. CASE out.stopped
    <3>1. out' = out
      BY <1>2, <2>4 DEF Listed
    <3>2. ListTypes'
      BY <1>1, <2>2, <2>3, <3>1, DirGrows DEF ListTypes
    <3>3. IsPrefix(out.shown, visible')
      BY <1>1, <2>1, <2>2, AppendExtends DEF ListTypes, ListShown, Listing
    <3>4. ListShown'
      BY <1>1, <2>4, <3>1, <3>3 DEF ListShown
    <3>5. ListRoom'
      BY <1>1, <3>1, DirGrows DEF ListRoom
    <3> QED
      BY <2>1, <2>3, <3>2, <3>4, <3>5 DEF ListInv
  <2>5. CASE ~ out.stopped
    <3>1. out \in Listing /\ out.pos \in Nat /\ e.length \in Nat
      BY <1>1 DEF ListTypes, Listing, EntryValue
    <3>2. /\ out' \in Listing /\ out'.shown = Append(out.shown, e)
          /\ out'.stopped <=> out'.pos >= BufSize - Margin
          /\ out.pos + Comma + e.length < BufSize =>
                out'.pos <= out.pos + Comma + e.length /\ out'.cut = out.cut
      BY <1>2, <1>4, <2>5, <3>1, ListedIs
    <3>3. ListTypes'
      BY <2>2, <2>3, <3>2, DirGrows DEF ListTypes
    <3>4. ListShown'
      <4>1. out'.shown = visible' /\ IsPrefix(visible', visible')
        BY <1>1, <2>1, <2>2, <2>5, <3>2, AppendExtends DEF ListShown
      <4> QED
        BY <3>2, <4>1 DEF ListShown
    <3>5. ASSUME Opening + Margin < BufSize, AllFit'
          PROVE  /\ ~ out'.cut /\ out'.pos + Closing < BufSize
                 /\ ~ out'.stopped => out'.pos + Margin < BufSize
      <4>1. /\ ~ out.cut /\ out.pos + Margin < BufSize
            /\ Comma + e.length + Closing <= Margin
        BY <1>1, <2>5, <3>5, DirGrows DEF ListRoom
      <4>2. out.pos + Comma + e.length + Closing < BufSize
        BY <3>1, <4>1, ConstantsAre
      <4>3. out.pos + Comma + e.length < BufSize
        BY <3>1, <4>2, ConstantsAre
      <4>4. out'.pos \in Nat
        BY <3>2 DEF Listing
      <4>5. out'.pos + Closing < BufSize
        BY <3>1, <3>2, <4>2, <4>3, <4>4, ConstantsAre
      <4>6. ~ out'.stopped => out'.pos + Margin < BufSize
        BY <3>2, <4>4, ConstantsAre
      <4> QED
        BY <3>2, <4>1, <4>3, <4>5, <4>6
    <3>6. ListRoom'
      BY <3>5 DEF ListRoom
    <3> QED
      BY <2>1, <2>3, <3>3, <3>4, <3>6 DEF ListInv
  <2> QED
    BY <2>4, <2>5
<1> QED
  BY <1>3, <1>4

LEMMA ListInvHolds == ListSpec => []ListInv
<1>1. ListInv /\ [ListNext]_listingVars => ListInv'
  <2> SUFFICES ASSUME ListInv, [ListNext]_listingVars PROVE ListInv'
    OBVIOUS
  <2>1. CASE ListNext
    BY <2>1, ListInvStep DEF ListNext
  <2>2. CASE UNCHANGED listingVars
    BY <2>2 DEF listingVars, ListInv, ListTypes, ListRoom, ListShown, ListArray, AllFit
  <2> QED
    BY <2>1, <2>2
<1> QED
  BY <1>1, ListInvInit, PTL DEF ListSpec

(***************************************************************************)
(* For directories of any length and buffers of any size: ft_list_dir cuts *)
(* neither an entry nor the closing, both listings leave entries out only  *)
(* at the end and for want of room, and temps of PUTs in flight change no  *)
(* byte of either.                                                         *)
(***************************************************************************)
THEOREM ListingsAreWholeHolds == ListSpec => []ListingsAreWhole
<1>1. ListInv => ListingsAreWhole
  <2> SUFFICES ASSUME ListInv PROVE ListingsAreWhole
    OBVIOUS
  <2>1. /\ ListTypes /\ ListRoom /\ ListShown /\ ListArray
        /\ bare.out = out /\ bare.array = array
    BY DEF ListInv
  <2>2. EntriesAreWhole
    <3> SUFFICES ASSUME Opening + Margin < BufSize, AllFit PROVE ~ Closed(out).cut
      BY DEF EntriesAreWhole, AllFit
    <3>1. out \in Listing /\ ~ out.cut /\ out.pos + Closing < BufSize
      BY <2>1 DEF ListTypes, ListRoom
    <3> QED
      BY <3>1, AppendedIs, ConstantsAre DEF Closed
  <2>3. HiddenTakeNoRoom
    BY <2>1 DEF HiddenTakeNoRoom
  <2>4. LeftOutForRoom
    BY <2>1 DEF LeftOutForRoom, ListShown, ListArray
  <2> QED
    BY <2>2, <2>3, <2>4 DEF ListingsAreWhole
<1> QED
  BY <1>1, ListInvHolds, PTL

-----------------------------------------------------------------------------
(* Texts that grow: induction and recursion.                               *)

\* Append, \o and a text of one character under names of their own, which the
\* provers do not look into.
Grown(s, c) == Append(s, c)
Cat(s, t) == s \o t
One(c) == <<c>>

(***************************************************************************)
(* A text with one more character.                                         *)
(***************************************************************************)
LEMMA GrownText ==
  ASSUME NEW C, NEW s \in Seq(C), NEW c \in C
  PROVE  /\ Grown(s, c) \in Seq(C) /\ Grown(s, c) # <<>>
         /\ Cat(s, One(c)) = Grown(s, c) /\ Grown(<<>>, c) = One(c)
         /\ One(c) \in Seq(C) /\ <<>> \in Seq(C)
<1>1. <<>> \in Seq(C) /\ <<c>> \in Seq(C) /\ Append(<<>>, c) = <<c>>
  OBVIOUS
<1>2. Append(s, c) \in Seq(C) /\ Append(s, c) # <<>> /\ Append(s, c) = s \o <<c>>
  BY AppendProperties, AppendIsConcat
<1> QED
  BY ONLY <1>1, <1>2 DEF Grown, Cat, One

(***************************************************************************)
(* Concatenation.                                                          *)
(***************************************************************************)
LEMMA CatIs ==
  ASSUME NEW C, NEW s \in Seq(C), NEW t \in Seq(C)
  PROVE  /\ Cat(s, t) \in Seq(C) /\ Cat(s, <<>>) = s /\ Cat(<<>>, s) = s
         /\ \A u \in Seq(C) : Cat(Cat(s, t), u) = Cat(s, Cat(t, u))
         /\ \A c \in C : Cat(s, Grown(t, c)) = Grown(Cat(s, t), c)
<1>1. /\ s \o t \in Seq(C) /\ s \o <<>> = s /\ <<>> \o s = s
  BY ConcatProperties, ConcatEmptySeq
<1>2. ASSUME NEW u \in Seq(C) PROVE (s \o t) \o u = s \o (t \o u)
  BY ConcatAssociative
<1>3. ASSUME NEW c \in C PROVE s \o Append(t, c) = Append(s \o t, c)
  <2>1. <<c>> \in Seq(C)
    OBVIOUS
  <2>2. Append(t, c) = t \o <<c>> /\ Append(s \o t, c) = (s \o t) \o <<c>>
    BY <1>1, AppendIsConcat
  <2>3. s \o (t \o <<c>>) = (s \o t) \o <<c>>
    BY <1>2, <2>1
  <2> QED
    BY <2>2, <2>3
<1> QED
  BY <1>1, <1>2, <1>3, Zenon DEF Cat, Grown

(***************************************************************************)
(* A text that is not empty has a last character.                          *)
(***************************************************************************)
LEMMA EmptyOrGrown ==
  ASSUME NEW C, NEW s \in Seq(C), s # <<>>
  PROVE  \E t \in Seq(C), c \in C : s = Grown(t, c)
BY SequenceEmptyOrAppend DEF Grown

\* u is s with one more character, position by position.
IsGrown(u, s, c) ==
  /\ u = Grown(s, c) /\ Len(u) = Len(s) + 1
  /\ u[Len(s) + 1] = c /\ \A j \in 1..Len(s) : u[j] = s[j]

LEMMA GrownIs ==
  ASSUME NEW C, NEW s \in Seq(C), NEW c \in C
  PROVE  \E u \in Seq(C) : IsGrown(u, s, c)
<1>1. PICK u : u = Append(s, c)
  OBVIOUS
<1>2. /\ u \in Seq(C) /\ Len(u) = Len(s) + 1
      /\ u[Len(s) + 1] = c /\ \A j \in 1..Len(s) : u[j] = s[j]
  BY <1>1, AppendProperties
<1> QED
  BY <1>1, <1>2 DEF IsGrown, Grown

(***************************************************************************)
(* What holds of the empty text and of one more character holds of every   *)
(* text: the shortest text it did not hold of would have a last character. *)
(***************************************************************************)
LEMMA TextInduction ==
  ASSUME NEW C, NEW T, <<>> \in T, \A t \in Seq(C), c \in C : t \in T => Grown(t, c) \in T
  PROVE  \A t \in Seq(C) : t \in T
<1> DEFINE Bad == {n \in Nat : \E t \in Seq(C) : Len(t) = n /\ t \notin T}
<1> SUFFICES ASSUME Bad # {} PROVE FALSE
  <2>1. ASSUME NEW t \in Seq(C), t \notin T PROVE Len(t) \in Bad
    BY <2>1
  <2> QED
    BY <2>1
<1>1. PICK n \in Bad : \A m \in Bad : n <= m
  <2>1. Bad \in SUBSET Nat
    OBVIOUS
  <2> HIDE DEF Bad
  <2> QED
    BY <2>1, LeastExists
<1>2. PICK t \in Seq(C) : Len(t) = n /\ t \notin T
  OBVIOUS
<1>3. t # <<>>
  BY <1>2
<1>4. PICK s \in Seq(C), c \in C : t = Grown(s, c)
  BY <1>3, EmptyOrGrown
<1>5. Len(s) + 1 = n /\ Len(s) \in Nat /\ s \notin T
  <2>1. \E u \in Seq(C) : IsGrown(u, s, c)
    BY GrownIs
  <2> QED
    BY <1>2, <1>4, <2>1, LenProperties DEF IsGrown
<1>6. Len(s) \in Bad
  BY <1>5
<1> QED
  BY <1>1, <1>5, <1>6

\* A recursion on 1..N: the step at n turns one value of V into another.
Turns(V, N, step) == \A n \in 1..N, v \in V : step[n][v] \in V

Solves(f, base, N, step) == f[0] = base /\ \A n \in 1..N : f[n] = step[n][f[n - 1]]

(***************************************************************************)
(* A recursion over the positions of a text has a solution: the greatest n *)
(* up to which there is one would have a next.                             *)
(***************************************************************************)
LEMMA RecursionExists ==
  ASSUME NEW V, NEW base \in V, NEW N \in Nat, NEW step, Turns(V, N, step)
  PROVE  \E f \in [0..N -> V] : Solves(f, base, N, step)
<1> DEFINE Bad == {m \in 0..N : ~ \E f \in [0..m -> V] : Solves(f, base, m, step)}
<1> SUFFICES ASSUME Bad # {} PROVE FALSE
  <2>1. N \in 0..N
    OBVIOUS
  <2> QED
    BY <2>1
<1>1. PICK m \in Bad : \A k \in Bad : m <= k
  <2>1. Bad \in SUBSET Nat
    OBVIOUS
  <2> HIDE DEF Bad
  <2> QED
    BY <2>1, LeastExists
<1>2. m \in 0..N /\ ~ \E f \in [0..m -> V] : Solves(f, base, m, step)
  OBVIOUS
<1>3. CASE m = 0
  <2>1. /\ Solves([n \in 0..0 |-> base], base, 0, step)
        /\ [n \in 0..0 |-> base] \in [0..0 -> V]
    BY DEF Solves
  <2> QED
    BY <1>2, <1>3, <2>1
<1>4. CASE m # 0
  <2>1. m \in 1..N /\ m - 1 \in 0..N /\ ~ (m <= m - 1)
    BY <1>2, <1>4
  <2>2. PICK f \in [0..m - 1 -> V] : Solves(f, base, m - 1, step)
    BY <1>1, <2>1
  <2>3. step[m][f[m - 1]] \in V
    BY <2>1 DEF Turns
  <2> DEFINE g == [n \in 0..m |-> IF n = m THEN step[m][f[m - 1]] ELSE f[n]]
  <2>4. g \in [0..m -> V]
    BY <2>1, <2>3
  <2>5. \A n \in 0..m - 1 : g[n] = f[n]
    BY <2>1
  <2>6. g[m] = step[m][f[m - 1]]
    BY <2>1
  <2> HIDE DEF g
  <2>7. g[0] = base
    BY <2>1, <2>2, <2>5 DEF Solves
  <2>8. ASSUME NEW n \in 1..m PROVE g[n] = step[n][g[n - 1]]
    <3>1. CASE n = m
      BY <2>1, <2>5, <2>6, <3>1
    <3>2. CASE n # m
      <4>1. n \in 1..m - 1 /\ n - 1 \in 0..m - 1 /\ n \in 0..m - 1
        BY <2>1, <3>2
      <4> QED
        BY <2>2, <2>5, <4>1 DEF Solves
    <3> QED
      BY <3>1, <3>2
  <2> QED
    BY <1>2, <2>4, <2>7, <2>8 DEF Solves
<1> QED
  BY <1>3, <1>4

LEMMA JoinedIs ==
  ASSUME NEW C, "/" \in C, NEW parts \in Seq(Seq(C))
  PROVE  \E f \in [0..Len(parts) -> Seq(C)] :
           /\ f[0] = <<>> /\ f[Len(parts)] = Joined(parts)
           /\ \A n \in 1..Len(parts) : f[n] = f[n - 1] \o <<"/">> \o parts[n]
<1> DEFINE N == Len(parts)
           V == Seq(C)
           Body(f) == [n \in 0..N |-> IF n = 0 THEN <<>> ELSE f[n - 1] \o <<"/">> \o parts[n]]
           step == [n \in 1..N |-> [v \in V |-> v \o <<"/">> \o parts[n]]]
<1>1. N \in Nat /\ \A n \in 1..N : parts[n] \in V
  BY LenProperties, ElementOfSeq
<1>2. \A n \in 1..N, v \in V : step[n][v] \in V
  BY <1>1, ConcatProperties
<1>3. PICK empty \in V : empty = <<>>
  <2>1. <<>> \in V
    BY EmptySeq
  <2> QED
    BY <2>1
<1>4. PICK f \in [0..N -> V] : f[0] = empty /\ \A n \in 1..N : f[n] = step[n][f[n - 1]]
  <2>1. Turns(V, N, step)
    BY <1>2 DEF Turns
  <2>2. N \in Nat
    BY <1>1
  <2> HIDE DEF V, N, step
  <2>3. \E f \in [0..N -> V] : Solves(f, empty, N, step)
    BY <2>1, <2>2, RecursionExists
  <2> QED
    BY <2>3 DEF Solves
<1>5. \A n \in 1..N : f[n] = f[n - 1] \o <<"/">> \o parts[n]
  <2> SUFFICES ASSUME NEW n \in 1..N PROVE f[n] = f[n - 1] \o <<"/">> \o parts[n]
    OBVIOUS
  <2>1. n - 1 \in 0..N
    BY <1>1
  <2>2. f[n - 1] \in V /\ f[n] = step[n][f[n - 1]]
    BY <1>4, <2>1
  <2> QED
    BY <2>2
<1>6. f = Body(f)
  <2>1. \A n \in 0..N : n # 0 => n \in 1..N
    BY <1>1
  <2>2. f = [n \in 0..N |-> f[n]]
    BY <1>4
  <2> QED
    BY <1>3, <1>4, <1>5, <2>1, <2>2
<1>7. PICK g : g = CHOOSE h : h = Body(h)
  OBVIOUS
<1>8. g = Body(g)
  BY <1>6, <1>7
<1>9. Joined(parts) = g[N]
  BY <1>7 DEF Joined
<1>10. DOMAIN g = 0..N /\ g[0] = <<>> /\ \A n \in 1..N : g[n] = g[n - 1] \o <<"/">> \o parts[n]
  <2>1. DOMAIN g = 0..N
    BY <1>8, Zenon
  <2>2. \A n \in 0..N : g[n] = Body(g)[n]
    BY <1>8
  <2>3. 0 \in 0..N /\ \A n \in 1..N : n \in 0..N /\ n # 0
    BY <1>1
  <2> QED
    BY <2>1, <2>2, <2>3
<1>11. \A n \in 0..N : g[n] = f[n]
  <2> DEFINE Bad == {n \in 0..N : g[n] # f[n]}
  <2> SUFFICES ASSUME Bad # {} PROVE FALSE
    OBVIOUS
  <2>1. PICK n \in Bad : \A m \in Bad : n <= m
    <3>1. Bad \in SUBSET Nat
      BY <1>1
    <3> HIDE DEF Bad
    <3> QED
      BY <3>1, LeastExists
  <2>2. n \in 0..N /\ g[n] # f[n]
    OBVIOUS
  <2>3. n \in 1..N
    BY <1>1, <1>3, <1>4, <1>10, <2>2
  <2>4. n - 1 \notin Bad /\ n - 1 \in 0..N
    BY <1>1, <2>1, <2>3
  <2>5. g[n - 1] = f[n - 1]
    BY <2>4
  <2> QED
    BY <1>5, <1>10, <2>2, <2>3, <2>5
<1>12. f[N] = Joined(parts)
  BY <1>1, <1>9, <1>11
<1> QED
  BY <1>3, <1>4, <1>5, <1>12

-----------------------------------------------------------------------------
(* Joined and Nth, one part more.                                          *)

(***************************************************************************)
(* Joined, part by part.                                                   *)
(***************************************************************************)
LEMMA JoinedEmpty == Joined(<<>>) = <<>>
<1>1. PICK parts \in Seq(Seq({"/"})) : parts = <<>> /\ Len(parts) = 0
  BY EmptySeq
<1>2. PICK f \in [0..Len(parts) -> Seq({"/"})] : f[0] = <<>> /\ f[Len(parts)] = Joined(parts)
  BY JoinedIs
<1> QED
  BY <1>1, <1>2

LEMMA JoinedGrows ==
  ASSUME NEW C, "/" \in C, NEW P \in Seq(Seq(C)), NEW p \in Seq(C)
  PROVE  /\ Joined(P) \in Seq(C)
         /\ Joined(Grown(P, p)) = Cat(Grown(Joined(P), "/"), p)
<1> DEFINE N == Len(P)
<1>1. N \in Nat /\ \A n \in 1..N : P[n] \in Seq(C)
  BY LenProperties, ElementOfSeq
<1>2. PICK Q \in Seq(Seq(C)) : /\ Q = Grown(P, p) /\ Len(Q) = N + 1
                               /\ Q[N + 1] = p /\ \A n \in 1..N : Q[n] = P[n]
  <2> DEFINE V == Seq(C)
  <2>1. P \in Seq(V) /\ p \in V
    OBVIOUS
  <2> HIDE DEF V
  <2>2. \E q \in Seq(V) : IsGrown(q, P, p)
    BY <2>1, GrownIs
  <2> QED
    BY <2>2 DEF IsGrown, V
<1>3. PICK f \in [0..N -> Seq(C)] :
        /\ f[0] = <<>> /\ f[N] = Joined(P)
        /\ \A n \in 1..N : f[n] = f[n - 1] \o <<"/">> \o P[n]
  BY JoinedIs
<1>4. PICK g \in [0..N + 1 -> Seq(C)] :
        /\ g[0] = <<>> /\ g[N + 1] = Joined(Q)
        /\ \A n \in 1..N + 1 : g[n] = g[n - 1] \o <<"/">> \o Q[n]
  <2>1. \E h \in [0..Len(Q) -> Seq(C)] :
           /\ h[0] = <<>> /\ h[Len(Q)] = Joined(Q)
           /\ \A n \in 1..Len(Q) : h[n] = h[n - 1] \o <<"/">> \o Q[n]
    BY JoinedIs
  <2> QED
    BY <1>2, <2>1
<1>5. \A n \in 0..N : g[n] = f[n]
  <2> DEFINE Bad == {n \in 0..N : g[n] # f[n]}
  <2> SUFFICES ASSUME Bad # {} PROVE FALSE
    OBVIOUS
  <2>1. PICK n \in Bad : \A m \in Bad : n <= m
    <3>1. Bad \in SUBSET Nat
      BY <1>1
    <3> HIDE DEF Bad
    <3> QED
      BY <3>1, LeastExists
  <2>2. n \in 0..N /\ g[n] # f[n]
    OBVIOUS
  <2>3. n \in 1..N /\ n \in 1..N + 1
    BY <1>1, <1>3, <1>4, <2>2
  <2>4. n - 1 \notin Bad /\ n - 1 \in 0..N
    <3>1. n \in Nat /\ n - 1 \in 0..N /\ ~ (n <= n - 1)
      BY <1>1, <2>3
    <3> QED
      BY <2>1, <3>1
  <2>5. g[n - 1] = f[n - 1]
    BY <2>4
  <2>6. Q[n] = P[n]
    BY <1>2, <2>3
  <2>7. g[n] = g[n - 1] \o <<"/">> \o Q[n] /\ f[n] = f[n - 1] \o <<"/">> \o P[n]
    BY <1>3, <1>4, <2>3
  <2> QED
    BY <2>2, <2>5, <2>6, <2>7
<1>6. g[N + 1] = g[N] \o <<"/">> \o Q[N + 1]
  <2>1. N + 1 \in 1..N + 1 /\ (N + 1) - 1 = N
    BY <1>1
  <2> QED
    BY <1>4, <2>1
<1>7. f[N] \in Seq(C) /\ g[N] = f[N]
  BY <1>1, <1>3, <1>5
<1>8. g[N] \o <<"/">> = Grown(g[N], "/")
  BY <1>7, AppendIsConcat DEF Grown
<1> QED
  BY <1>2, <1>3, <1>4, <1>6, <1>7, <1>8, Zenon DEF Cat

LEMMA RanksDiffer ==
  ASSUME NEW S \in SUBSET Nat, IsFiniteSet(S), NEW m \in S, NEW n \in S, m < n
  PROVE  Cardinality(Below(S, m)) < Cardinality(Below(S, n))
<1>0. m \in Nat /\ n \in Nat /\ \A x \in S : x \in Nat
  OBVIOUS
<1>1. Below(S, m) \subseteq Below(S, n) /\ m \in Below(S, n) /\ m \notin Below(S, m)
  <2>1. ~ (m < m) /\ \A x \in S : x < m => x < n
    BY <1>0
  <2> QED
    BY <2>1, Zenon DEF Below
<1>2. IsFiniteSet(Below(S, n))
  BY <1>0, BelowIsFinite
<1>3. Below(S, m) # Below(S, n)
  BY <1>1
<1> QED
  BY <1>1, <1>2, <1>3, FS_Subset, FS_CardinalityType

(***************************************************************************)
(* The k-th is the one with k - 1 below it.                                *)
(***************************************************************************)
LEMMA NthUnique ==
  ASSUME NEW S \in SUBSET Nat, IsFiniteSet(S), NEW n \in S, NEW k,
         Cardinality(Below(S, n)) = k - 1, k \in 1..Cardinality(S)
  PROVE  Nth(S, k) = n
<1>1. Nth(S, k) \in S /\ Cardinality(Below(S, Nth(S, k))) = k - 1
  BY NthIs
<1> DEFINE a == Nth(S, k)
<1>2. a \in Nat /\ n \in Nat
  BY <1>1
<1>3. ~ (a < n) /\ ~ (n < a)
  <2>1. Cardinality(Below(S, n)) \in Nat /\ Cardinality(Below(S, a)) = Cardinality(Below(S, n))
    BY <1>1, <1>2, BelowIsFinite
  <2>2. a < n => Cardinality(Below(S, a)) < Cardinality(Below(S, n))
    BY <1>1, RanksDiffer
  <2>3. n < a => Cardinality(Below(S, n)) < Cardinality(Below(S, a))
    BY <1>1, RanksDiffer
  <2> QED
    BY ONLY <2>1, <2>2, <2>3
<1> QED
  BY ONLY <1>2, <1>3

(***************************************************************************)
(* A set with one more number, above all of it.                            *)
(***************************************************************************)
LEMMA NthOfMore ==
  ASSUME NEW S \in SUBSET Nat, IsFiniteSet(S), NEW n \in Nat, \A m \in S : m < n
  PROVE  LET More == S \cup {n}
         IN  /\ IsFiniteSet(More) /\ Cardinality(More) = Cardinality(S) + 1
             /\ Nth(More, Cardinality(S) + 1) = n
             /\ \A k \in 1..Cardinality(S) : Nth(More, k) = Nth(S, k)
<1> DEFINE More == S \cup {n}
<1>0. Cardinality(S) \in Nat /\ \A m \in S : m \in Nat
  BY FS_CardinalityType
<1>1. IsFiniteSet(More) /\ Cardinality(More) = Cardinality(S) + 1
  <2>1. n \notin S
    BY <1>0
  <2> QED
    BY <2>1, FS_AddElement
<1>2. /\ Below(More, n) = S
      /\ \A m \in S : Below(More, m) = Below(S, m)
  <2>1. ~ (n < n) /\ \A m \in S : m < n /\ ~ (n < m)
    BY <1>0
  <2> QED
    BY <2>1, Zenon DEF Below
<1>3. More \in SUBSET Nat /\ n \in More /\ S \subseteq More
  BY <1>0
<1> HIDE DEF More
<1>4. Nth(More, Cardinality(S) + 1) = n
  <2>1. Cardinality(S) + 1 \in 1..Cardinality(More) /\ (Cardinality(S) + 1) - 1 = Cardinality(S)
    BY <1>0, <1>1
  <2> QED
    BY <1>1, <1>2, <1>3, <2>1, NthUnique
<1>5. ASSUME NEW k \in 1..Cardinality(S) PROVE Nth(More, k) = Nth(S, k)
  <2>1. Nth(S, k) \in S /\ Cardinality(Below(S, Nth(S, k))) = k - 1
    BY NthIs
  <2>2. k \in 1..Cardinality(More)
    BY <1>0, <1>1
  <2> DEFINE a == Nth(S, k)
  <2>3. a \in More /\ Cardinality(Below(More, a)) = k - 1
    BY <1>2, <1>3, <2>1
  <2> HIDE DEF a
  <2>4. Nth(More, k) = a
    BY <1>1, <1>3, <2>2, <2>3, NthUnique
  <2> QED
    BY <2>4 DEF a
<1> QED
  BY <1>1, <1>4, <1>5 DEF More

(***************************************************************************)
(* The last is the greatest.                                               *)
(***************************************************************************)
LEMMA NthIsLast ==
  ASSUME NEW S \in SUBSET Nat, IsFiniteSet(S), NEW k \in 1..Cardinality(S)
  PROVE  /\ k = Cardinality(S) => \A m \in S : m <= Nth(S, k)
         /\ k # Cardinality(S) => \E m \in S : m > Nth(S, k)
<1>0. Cardinality(S) \in Nat /\ \A m \in S : m \in Nat
  BY FS_CardinalityType
<1>1. Nth(S, k) \in S /\ Cardinality(Below(S, Nth(S, k))) = k - 1
  BY NthIs
<1>2. ASSUME k = Cardinality(S), NEW m \in S, ~ (m <= Nth(S, k)) PROVE FALSE
  <2>1. Nth(S, k) < m
    <3>1. m \in Nat /\ Nth(S, k) \in Nat
      BY <1>0, <1>1
    <3> QED
      BY <1>2, <3>1
  <2>2. k - 1 < Cardinality(Below(S, m))
    BY <1>1, <2>1, RanksDiffer
  <2>3. /\ m \notin Below(S, m) /\ IsFiniteSet(Below(S, m)) /\ Cardinality(Below(S, m)) \in Nat
        /\ Below(S, m) \cup {m} \subseteq S
    BY <1>0, BelowIsFinite DEF Below
  <2>4. Cardinality(Below(S, m) \cup {m}) = Cardinality(Below(S, m)) + 1
    BY <2>3, FS_AddElement
  <2>5. Cardinality(Below(S, m) \cup {m}) <= Cardinality(S)
    BY <2>3, FS_Subset
  <2> QED
    BY <1>0, <1>2, <2>2, <2>3, <2>4, <2>5
<1>3. ASSUME k # Cardinality(S) PROVE \E m \in S : m > Nth(S, k)
  <2>1. Nth(S, k + 1) \in S /\ Cardinality(Below(S, Nth(S, k + 1))) = k
    <3>1. k + 1 \in 1..Cardinality(S) /\ (k + 1) - 1 = k
      BY <1>0, <1>3
    <3> QED
      BY <3>1, NthIs
  <2> DEFINE a == Nth(S, k)
             b == Nth(S, k + 1)
  <2>2. a \in Nat /\ b \in Nat /\ k \in Nat
    <3>1. k \in Nat
      BY ONLY <1>0, k \in 1..Cardinality(S)
    <3> QED
      BY <1>0, <1>1, <2>1, <3>1
  <2>3. b < a => Cardinality(Below(S, b)) < Cardinality(Below(S, a))
    BY <1>1, <2>1, RanksDiffer
  <2>4. ~ (b < a) /\ b # a
    BY <1>1, <2>1, <2>2, <2>3
  <2>5. b > a
    BY ONLY <2>2, <2>4
  <2> QED
    BY <2>1, <2>5
<1> QED
  BY <1>0, <1>2, <1>3

-----------------------------------------------------------------------------
(* Split, one character more.                                              *)

\* There is a separator behind position i.
HasMore(t, seps, i) == \E j \in i + 1..Len(t) : t[j] \in seps

(***************************************************************************)
(* A part of a text that grows.                                            *)
(***************************************************************************)
LEMMA PartGrows ==
  ASSUME NEW C, NEW t \in Seq(C), NEW c \in C, NEW seps, NEW i \in 0..Len(t)
  PROVE  PartAfter(Grown(t, c), seps, i) =
           IF c \in seps \/ HasMore(t, seps, i)
           THEN PartAfter(t, seps, i) ELSE Grown(PartAfter(t, seps, i), c)
<1>1. PICK n \in Nat : n = Len(t)
  BY LenProperties
<1>2. PICK u \in Seq(C) : /\ u = Grown(t, c) /\ Len(u) = n + 1
                          /\ u[n + 1] = c /\ \A j \in 1..n : u[j] = t[j]
  <2>1. \E u \in Seq(C) : IsGrown(u, t, c)
    BY GrownIs
  <2> QED
    BY <1>1, <2>1 DEF IsGrown
<1>3. PICK e \in i + 1..n + 1 :
         /\ PartAfter(t, seps, i) = SubSeq(t, i + 1, e - 1)
         /\ \A j \in i + 1..e - 1 : t[j] \notin seps
         /\ e = n + 1 \/ t[e] \in seps
  BY <1>1, PartIs
<1>4. PICK d \in i + 1..n + 2 :
         /\ PartAfter(u, seps, i) = SubSeq(u, i + 1, d - 1)
         /\ \A j \in i + 1..d - 1 : u[j] \notin seps
         /\ d = n + 2 \/ u[d] \in seps
  <2>1. i \in 0..Len(u) /\ Len(u) + 1 = n + 2
    BY <1>1, <1>2
  <2>2. \E d \in i + 1..Len(u) + 1 :
           /\ PartAfter(u, seps, i) = SubSeq(u, i + 1, d - 1)
           /\ \A j \in i + 1..d - 1 : u[j] \notin seps
           /\ d = Len(u) + 1 \/ u[d] \in seps
    BY <2>1, PartIs
  <2> QED
    BY <2>1, <2>2
<1>5. CASE e # n + 1
  <2>1. e \in i + 1..n /\ t[e] \in seps /\ u[e] = t[e]
    BY <1>1, <1>2, <1>3, <1>5
  <2>2. d <= e
    BY <1>1, <1>4, <2>1
  <2>3. ~ (d < e)
    <3> SUFFICES ASSUME d < e PROVE FALSE
      OBVIOUS
    <3>1. d \in i + 1..e - 1 /\ d \in 1..n /\ d # n + 2
      BY <1>1, <1>4, <2>1
    <3> QED
      BY <1>2, <1>3, <1>4, <3>1
  <2>4. d = e
    BY <1>4, <2>1, <2>2, <2>3
  <2>5. SubSeq(u, i + 1, e - 1) = SubSeq(t, i + 1, e - 1)
    BY <1>1, <1>2, <2>1
  <2> QED
    BY <1>1, <1>2, <1>3, <1>4, <2>1, <2>4, <2>5 DEF HasMore
<1>6. CASE e = n + 1
  <2>0. ~ \E j \in i + 1..n : t[j] \in seps
    BY <1>1, <1>3, <1>6
  <2>1. d >= n + 1
    <3> SUFFICES ASSUME d < n + 1 PROVE FALSE
      BY <1>1, <1>4
    <3>1. d \in i + 1..n /\ d \in 1..n /\ d # n + 2
      BY <1>1, <1>4
    <3> QED
      BY <1>2, <1>4, <2>0, <3>1
  <2>2. CASE c \in seps
    <3>1. d = n + 1
      <4>1. d # n + 2
        BY <1>1, <1>2, <1>4, <2>2
      <4> QED
        BY ONLY <1>1, d \in i + 1..n + 2, i \in 0..n, <2>1, <4>1
    <3>2. SubSeq(u, i + 1, n) = SubSeq(t, i + 1, n)
      BY <1>1, <1>2
    <3> QED
      BY <1>2, <1>3, <1>4, <1>6, <2>2, <3>1, <3>2
  <2>3. CASE c \notin seps
    <3>1. d = n + 2
      <4>1. d # n + 1
        BY <1>1, <1>2, <1>4, <2>3
      <4> QED
        BY <1>1, <1>4, <2>1, <4>1
    <3>2. SubSeq(u, i + 1, n + 1) = Grown(SubSeq(t, i + 1, n), c)
      <4>1. i + 1 \in 1..n + 1 /\ n + 1 \in i + 1..n + 1 /\ n + 1 \in 1..n + 1
        BY <1>1
      <4>2. SubSeq(u, i + 1, n + 1) = SubSeq(u, i + 1, n) \o <<c>>
        <5>1. i + 1 \in 1..Len(u) /\ n + 1 \in i + 1..Len(u) /\ (n + 1) - 1 = n
          BY <1>2, <4>1
        <5>2. SubSeq(u, i + 1, n + 1) = SubSeq(u, i + 1, (n + 1) - 1) \o <<u[n + 1]>>
          BY <5>1, SubSeqRecursiveSecond
        <5> QED
          BY <1>2, <5>1, <5>2
      <4>3. SubSeq(u, i + 1, n) = SubSeq(t, i + 1, n)
        BY <1>1, <1>2
      <4>4. SubSeq(t, i + 1, n) \in Seq(C)
        BY <1>1, ElementOfSeq, SubSeqProperties
      <4> QED
        BY <4>2, <4>3, <4>4, AppendIsConcat DEF Grown
    <3>3. /\ PartAfter(u, seps, i) = SubSeq(u, i + 1, n + 1)
          /\ PartAfter(t, seps, i) = SubSeq(t, i + 1, n)
      <4>1. (n + 2) - 1 = n + 1 /\ (n + 1) - 1 = n
        BY <1>1
      <4> QED
        BY <1>3, <1>4, <1>6, <3>1, <4>1
    <3> QED
      BY <1>1, <1>2, <2>0, <2>3, <3>2, <3>3, Zenon DEF HasMore
  <2> QED
    BY <2>2, <2>3
<1> QED
  BY <1>5, <1>6

(***************************************************************************)
(* Behind the last position is the empty part.                             *)
(***************************************************************************)
LEMMA NoPartAfterEnd ==
  ASSUME NEW C, NEW t \in Seq(C), NEW seps
  PROVE  PartAfter(t, seps, Len(t)) = <<>>
<1>1. Len(t) \in Nat /\ Len(t) \in 0..Len(t)
  BY LenProperties
<1>2. PICK e \in Len(t) + 1..Len(t) + 1 :
         PartAfter(t, seps, Len(t)) = SubSeq(t, Len(t) + 1, e - 1)
  BY <1>1, PartIs
<1>3. e - 1 = Len(t)
  BY <1>1, <1>2
<1> QED
  BY <1>1, <1>2, <1>3, SubSeqEmpty

(***************************************************************************)
(* The parts of the empty text, and of any: there is a last one.           *)
(***************************************************************************)
LEMMA SplitEmpty == ASSUME NEW seps PROVE Split(<<>>, seps) = <<<<>>>>
<1>1. PICK t \in Seq({}) : t = <<>> /\ Len(t) = 0
  BY EmptySeq
<1>2. Cuts(t, seps) = {0}
  BY <1>1 DEF Cuts
<1>3. Cardinality({0}) = 1 /\ IsFiniteSet({0}) /\ {0} \in SUBSET Nat
  <2>1. Cardinality({0}) = 1 /\ IsFiniteSet({0})
    BY FS_Singleton, Zenon
  <2> QED
    BY <2>1
<1>4. Nth({0}, 1) = 0
  <2>1. 1 \in 1..Cardinality({0})
    BY <1>3
  <2> QED
    BY <1>3, <2>1, NthIs
<1>5. PartAfter(t, seps, 0) = <<>>
  BY <1>1, NoPartAfterEnd
<1>6. Split(t, seps) = [k \in 1..1 |-> PartAfter(t, seps, Nth({0}, k))]
  <2>1. Split(t, seps) = [k \in 1..Cardinality(Cuts(t, seps)) |->
                            PartAfter(t, seps, Nth(Cuts(t, seps), k))]
    BY CutsAre
  <2> QED
    BY <1>2, <1>3, <2>1, Zenon
<1>7. \A k \in 1..1 : PartAfter(t, seps, Nth({0}, k)) = <<>>
  BY <1>4, <1>5
<1> QED
  BY <1>1, <1>6, <1>7

LEMMA SplitIsSeq ==
  ASSUME NEW C, NEW t \in Seq(C), NEW seps
  PROVE  /\ Split(t, seps) \in Seq(Seq(C \ seps))
         /\ Len(Split(t, seps)) = Cardinality(Cuts(t, seps))
         /\ \E P \in Seq(Seq(C \ seps)), p \in Seq(C \ seps) : Split(t, seps) = Grown(P, p)
<1> DEFINE V == Seq(C \ seps)
           K == Cardinality(Cuts(t, seps))
           parts == Split(t, seps)
<1>1. K \in Nat /\ DOMAIN parts = 1..K /\ parts = [k \in 1..K |-> parts[k]]
  BY CutsAre
<1>2. \A k \in 1..K : parts[k] \in V
  BY <1>1, SplitIsOfTexts DEF ToSet
<1>3. K # 0
  <2>1. 0 \in Cuts(t, seps) /\ IsFiniteSet(Cuts(t, seps))
    <3>1. IsFiniteSet(Cuts(t, seps))
      BY CutsAre
    <3> QED
      BY <3>1, Zenon DEF Cuts
  <2> QED
    BY <2>1, FS_EmptySet
<1> HIDE DEF V, K, parts
<1>4. parts \in Seq(V) /\ Len(parts) = K
  <2>1. parts \in [1..K -> V]
    BY <1>1, <1>2
  <2> QED
    BY <1>1, <2>1, SeqDef
<1>5. parts # <<>>
  BY <1>1, <1>3, <1>4, EmptySeq
<1>6. \E P \in Seq(V), p \in V : parts = Grown(P, p)
  BY <1>4, <1>5, EmptyOrGrown
<1> QED
  BY <1>4, <1>6 DEF V, K, parts

(***************************************************************************)
(* What a character more makes of the parts of a text.                     *)
(***************************************************************************)
LEMMA SplitGrows ==
  ASSUME NEW C, NEW t \in Seq(C), NEW c \in C, NEW seps,
         NEW P \in Seq(Seq(C)), NEW p \in Seq(C), Split(t, seps) = Grown(P, p)
  PROVE  /\ c \in seps => Split(Grown(t, c), seps) = Grown(Grown(P, p), <<>>)
         /\ c \notin seps => Split(Grown(t, c), seps) = Grown(P, Grown(p, c))
<1> DEFINE V == Seq(C)
           cuts == Cuts(t, seps)
           K == Cardinality(cuts)
           n == Len(t)
<1>0. n \in Nat /\ n \in 0..n
  BY LenProperties
<1>1. /\ cuts \in SUBSET (0..n) /\ cuts \in SUBSET Nat /\ IsFiniteSet(cuts) /\ K \in Nat
      /\ Split(t, seps) = [k \in 1..K |-> PartAfter(t, seps, Nth(cuts, k))]
  BY CutsAre
<1>2. PICK u \in Seq(C) : /\ u = Grown(t, c) /\ Len(u) = n + 1
                          /\ u[n + 1] = c /\ \A j \in 1..n : u[j] = t[j]
  <2>1. \E u \in Seq(C) : IsGrown(u, t, c)
    BY GrownIs
  <2> QED
    BY <2>1 DEF IsGrown
<1>3. /\ Cuts(u, seps) \in SUBSET (0..n + 1) /\ Cuts(u, seps) \in SUBSET Nat
      /\ Split(u, seps) = [k \in 1..Cardinality(Cuts(u, seps)) |->
                                   PartAfter(u, seps, Nth(Cuts(u, seps), k))]
      /\ Split(u, seps) \in Seq(Seq(C))
  <2>1. Split(u, seps) \in Seq(Seq(C))
    <3>1. Split(u, seps) \in Seq(Seq(C \ seps))
      BY SplitIsSeq
    <3>2. Seq(C \ seps) \subseteq Seq(C)
      BY SeqMonotonic
    <3> HIDE DEF V
    <3> QED
      BY <3>1, <3>2, SeqMonotonic
  <2>2. /\ Cuts(u, seps) \in SUBSET (0..Len(u)) /\ Cuts(u, seps) \in SUBSET Nat
        /\ Split(u, seps) = [k \in 1..Cardinality(Cuts(u, seps)) |->
                                   PartAfter(u, seps, Nth(Cuts(u, seps), k))]
    BY CutsAre
  <2> QED
    BY <1>2, <2>1, <2>2
<1>4. DOMAIN t = 1..n /\ DOMAIN u = 1..n + 1
  BY <1>2, LenProperties
<1>5. Cuts(u, seps) = IF c \in seps THEN cuts \cup {n + 1} ELSE cuts
  <2>1. \A i \in 1..n + 1 : i \in 1..n \/ i = n + 1
    BY <1>0
  <2>2. n + 1 \in 1..n + 1 /\ n + 1 \notin 1..n /\ \A i \in 1..n : i \in 1..n + 1
    BY <1>0
  <2> QED
    BY <1>2, <1>4, <2>1, <2>2 DEF Cuts
<1>6. ASSUME NEW i \in 0..n
      PROVE  PartAfter(u, seps, i) =
               IF c \in seps \/ \E j \in i + 1..n : t[j] \in seps
               THEN PartAfter(t, seps, i) ELSE Grown(PartAfter(t, seps, i), c)
  <2>1. PartAfter(Grown(t, c), seps, i) =
           IF c \in seps \/ HasMore(t, seps, i)
           THEN PartAfter(t, seps, i) ELSE Grown(PartAfter(t, seps, i), c)
    BY PartGrows
  <2> QED
    BY <1>2, <2>1, Zenon DEF HasMore
<1>7. PICK M \in Nat : /\ Len(P) = M /\ K = M + 1 /\ p = PartAfter(t, seps, Nth(cuts, K))
                       /\ \A k \in 1..M : P[k] = PartAfter(t, seps, Nth(cuts, k))
  <2>1. P \in Seq(V) /\ p \in V
    OBVIOUS
  <2> HIDE DEF V, cuts
  <2>2. PICK q \in Seq(V) : /\ q = Grown(P, p) /\ Len(q) = Len(P) + 1
                            /\ q[Len(P) + 1] = p /\ \A j \in 1..Len(P) : q[j] = P[j]
    <3>1. \E q \in Seq(V) : IsGrown(q, P, p)
      BY <2>1, GrownIs
    <3> QED
      BY <3>1 DEF IsGrown
  <2>3. Len(P) \in Nat /\ DOMAIN q = 1..Len(P) + 1
    BY <2>1, <2>2, LenProperties
  <2>4. DOMAIN q = 1..K /\ \A k \in 1..K : q[k] = PartAfter(t, seps, Nth(cuts, k))
    BY <1>1, <2>2
  <2>5. Len(q) = K
    BY <1>1, <2>2, <2>4, LenProperties
  <2>6. K = Len(P) + 1 /\ \A k \in 1..Len(P) : k \in 1..K
    BY <1>1, <2>2, <2>3, <2>5
  <2>7. K \in 1..K
    BY <2>3, <2>6
  <2> QED
    BY <2>2, <2>3, <2>4, <2>6, <2>7
<1>8. \A k \in 1..K : Nth(cuts, k) \in cuts /\ Nth(cuts, k) \in 0..n
  BY <1>1, NthIs
<1>9. CASE c \in seps
  <2>1. \A m \in cuts : m < n + 1
    BY <1>0, <1>1
  <2>2. /\ Cuts(u, seps) = cuts \cup {n + 1} /\ n + 1 \in Nat
    BY <1>0, <1>5, <1>9
  <2>3. /\ Cardinality(Cuts(u, seps)) = K + 1 /\ Nth(Cuts(u, seps), K + 1) = n + 1
        /\ \A k \in 1..K : Nth(Cuts(u, seps), k) = Nth(cuts, k)
    <3>1. PICK S : S = cuts
      OBVIOUS
    <3>2. PICK b \in Nat : b = n + 1
      BY <1>0
    <3>3. S \in SUBSET Nat /\ IsFiniteSet(S) /\ \A m \in S : m < b
      BY <1>1, <2>1, <3>1, <3>2
    <3>4. /\ Cardinality(S \cup {b}) = Cardinality(S) + 1
          /\ Nth(S \cup {b}, Cardinality(S) + 1) = b
          /\ \A k \in 1..Cardinality(S) : Nth(S \cup {b}, k) = Nth(S, k)
      BY <3>3, NthOfMore
    <3> QED
      BY <2>2, <3>1, <3>2, <3>4, Zenon
  <2>4. PartAfter(u, seps, n + 1) = <<>>
    BY <1>2, NoPartAfterEnd
  <2>5. PICK q \in Seq(V) : /\ q = Grown(P, p) /\ Len(q) = M + 1
                            /\ q[M + 1] = p /\ \A j \in 1..M : q[j] = P[j]
    <3>1. P \in Seq(V) /\ p \in V
      OBVIOUS
    <3> HIDE DEF V
    <3>2. \E q \in Seq(V) : IsGrown(q, P, p)
      BY <3>1, GrownIs
    <3> QED
      BY <1>7, <3>2 DEF IsGrown
  <2>6. PICK r \in Seq(V) : /\ r = Grown(q, <<>>) /\ Len(r) = K + 1
                            /\ r[K + 1] = <<>> /\ \A j \in 1..K : r[j] = q[j]
    <3>1. <<>> \in V
      BY EmptySeq
    <3> HIDE DEF V
    <3>2. \E r \in Seq(V) : IsGrown(r, q, <<>>)
      BY <3>1, GrownIs
    <3> QED
      BY <1>7, <2>5, <3>2 DEF IsGrown
  <2>7. ASSUME NEW k \in 1..K PROVE PartAfter(u, seps, Nth(Cuts(u, seps), k)) = r[k]
    <3>1. PartAfter(u, seps, Nth(Cuts(u, seps), k)) = PartAfter(t, seps, Nth(cuts, k))
      BY <1>6, <1>8, <1>9, <2>3
    <3>2. PartAfter(t, seps, Nth(cuts, k)) = q[k]
      BY <1>7, <2>5
    <3> QED
      BY <2>6, <3>1, <3>2
  <2>8. DOMAIN r = 1..K + 1 /\ r = [k \in 1..K + 1 |-> r[k]]
    <3> HIDE DEF V
    <3> QED
      BY <2>6, LenProperties
  <2>9. Split(u, seps) = r
    <3>1. \A k \in 1..K + 1 : k \in 1..K \/ k = K + 1
      BY <1>1
    <3>2. \A k \in 1..K + 1 : PartAfter(u, seps, Nth(Cuts(u, seps), k)) = r[k]
      BY <2>3, <2>4, <2>6, <2>7, <3>1
    <3> HIDE DEF cuts
    <3> QED
      BY <1>3, <2>3, <2>8, <3>2
  <2> QED
    BY <1>2, <1>9, <2>5, <2>6, <2>9
<1>10. CASE c \notin seps
  <2>1. Cuts(u, seps) = cuts
    BY <1>5, <1>10
  <2>2. PICK r \in Seq(V) : /\ r = Grown(P, Grown(p, c)) /\ Len(r) = K
                            /\ r[K] = Grown(p, c) /\ \A j \in 1..M : r[j] = P[j]
    <3>1. P \in Seq(V) /\ Grown(p, c) \in V
      BY GrownText
    <3> HIDE DEF V
    <3>2. \E r \in Seq(V) : IsGrown(r, P, Grown(p, c))
      BY <3>1, GrownIs
    <3> QED
      BY <1>7, <3>2 DEF IsGrown
  <2>3. ASSUME NEW k \in 1..K PROVE PartAfter(u, seps, Nth(cuts, k)) = r[k]
    <3> DEFINE i == Nth(cuts, k)
    <3>1. i \in cuts /\ i \in 0..n
      BY <1>8
    <3>2. CASE k = K
      <4>1. \A m \in cuts : m <= i
        BY <1>1, <3>2, NthIsLast
      <4>2. ~ \E j \in i + 1..n : t[j] \in seps
        <5> SUFFICES ASSUME NEW j \in i + 1..n, t[j] \in seps PROVE FALSE
          OBVIOUS
        <5>1. j \in 1..n /\ ~ (j <= i)
          BY <1>0, <3>1
        <5>2. j \in cuts
          BY <1>4, <5>1 DEF Cuts
        <5> QED
          BY <4>1, <5>1, <5>2
      <4> QED
        BY <1>6, <1>7, <1>10, <2>2, <3>1, <3>2, <4>2
    <3>3. CASE k # K
      <4>1. k \in 1..M /\ r[k] = P[k] /\ P[k] = PartAfter(t, seps, i)
        BY <1>7, <2>2, <3>3
      <4>2. PICK m \in cuts : m > i
        BY <1>1, <3>3, NthIsLast
      <4>3. m \in i + 1..n /\ m \in Nat /\ m # 0
        BY <1>0, <1>1, <3>1, <4>2
      <4>4. t[m] \in seps
        BY <4>2, <4>3 DEF Cuts
      <4> QED
        BY <1>6, <3>1, <4>1, <4>3, <4>4
    <3> QED
      BY <3>2, <3>3
  <2>4. DOMAIN r = 1..K /\ r = [k \in 1..K |-> r[k]]
    <3> HIDE DEF V
    <3> QED
      BY <2>2, LenProperties
  <2>5. Split(u, seps) = r
    <3> HIDE DEF cuts
    <3> QED
      BY <1>3, <2>1, <2>3, <2>4
  <2> QED
    BY <1>2, <1>10, <2>2, <2>5
<1> QED
  BY <1>9, <1>10

(***************************************************************************)
(* The parts over all characters.                                          *)
(***************************************************************************)
LEMMA SplitEnds ==
  ASSUME NEW C, NEW t \in Seq(C), NEW seps
  PROVE  /\ Split(t, seps) \in Seq(Seq(C))
         /\ \E P \in Seq(Seq(C)), p \in Seq(C) : Split(t, seps) = Grown(P, p)
<1>1. Split(t, seps) \in Seq(Seq(C \ seps))
  BY SplitIsSeq
<1>2. PICK P \in Seq(Seq(C \ seps)), p \in Seq(C \ seps) : Split(t, seps) = Grown(P, p)
  BY SplitIsSeq
<1> DEFINE V == Seq(C)
           U == Seq(C \ seps)
<1>3. U \subseteq V
  <2>1. C \ seps \subseteq C
    OBVIOUS
  <2> QED
    BY <2>1, SeqMonotonic
<1>4. Split(t, seps) \in Seq(U) /\ P \in Seq(U) /\ p \in U
  BY <1>1, <1>2
<1> HIDE DEF U, V
<1>5. Split(t, seps) \in Seq(V) /\ P \in Seq(V) /\ p \in V
  BY <1>3, <1>4, SeqMonotonic
<1> QED
  BY <1>2, <1>5 DEF V

(***************************************************************************)
(* The parts of two texts with a separator between them.                   *)
(***************************************************************************)
LEMMA SplitConcat ==
  ASSUME NEW C, NEW t \in Seq(C), NEW seps, NEW s \in C, s \in seps, NEW v \in Seq(C)
  PROVE  Split(Cat(Grown(t, s), v), seps) = Cat(Split(t, seps), Split(v, seps))
<1> DEFINE V == Seq(C)
           T == {u \in Seq(C) : Split(Cat(Grown(t, s), u), seps) = Cat(Split(t, seps), Split(u, seps))}
<1>0. PICK h \in Seq(C) : h = Grown(t, s)
  BY GrownText
<1>1. PICK S \in Seq(V) : S = Split(t, seps)
  BY SplitEnds
<1>2. <<>> \in T
  <2>1. Split(<<>>, seps) = One(<<>>)
    BY SplitEmpty DEF One
  <2>2. Cat(h, <<>>) = h
    BY CatIs
  <2>3. Split(h, seps) = Grown(S, <<>>)
    <3>1. PICK P \in Seq(Seq(C)), p \in Seq(C) : Split(t, seps) = Grown(P, p)
      BY SplitEnds
    <3>2. Split(Grown(t, s), seps) = Grown(Grown(P, p), <<>>)
      BY <3>1, SplitGrows
    <3> QED
      BY <1>0, <1>1, <3>1, <3>2
  <2>4. Grown(S, <<>>) = Cat(S, One(<<>>))
    <3>1. <<>> \in V
      BY EmptySeq
    <3> HIDE DEF V
    <3> QED
      BY <3>1, GrownText
  <2>5. <<>> \in Seq(C)
    BY EmptySeq
  <2> QED
    BY <1>0, <1>1, <2>1, <2>2, <2>3, <2>4, <2>5
<1>3. ASSUME NEW u \in Seq(C), NEW c \in C, u \in T PROVE Grown(u, c) \in T
  <2>1. PICK P \in Seq(Seq(C)), p \in Seq(C) : Split(u, seps) = Grown(P, p)
    BY SplitEnds
  <2>2. P \in Seq(V) /\ p \in V /\ Grown(p, c) \in V /\ <<>> \in V
    BY GrownText, EmptySeq
  <2>3. PICK w \in Seq(C) : w = Cat(h, u)
    BY CatIs
  <2>4. Cat(h, Grown(u, c)) = Grown(w, c)
    BY <2>3, CatIs
  <2>5. Split(w, seps) = Cat(S, Grown(P, p))
    BY <1>0, <1>1, <1>3, <2>1, <2>3
  <2>6. PICK Q \in Seq(V) : Q = Cat(S, P)
    <3> HIDE DEF V
    <3> QED
      BY <2>2, CatIs
  <2>7. Cat(S, Grown(P, p)) = Grown(Q, p)
    <3> HIDE DEF V
    <3> QED
      BY <2>2, <2>6, CatIs
  <2>8. Grown(u, c) \in Seq(C)
    BY GrownText
  <2>9. CASE c \in seps
    <3>1. Split(Grown(u, c), seps) = Grown(Grown(P, p), <<>>)
      BY <2>1, <2>9, SplitGrows
    <3>2. Split(Grown(w, c), seps) = Grown(Grown(Q, p), <<>>)
      BY <2>5, <2>7, <2>9, SplitGrows
    <3>3. Cat(S, Grown(Grown(P, p), <<>>)) = Grown(Grown(Q, p), <<>>)
      <4> HIDE DEF V
      <4>1. Grown(P, p) \in Seq(V)
        BY <2>2, GrownText
      <4>2. Cat(S, Grown(Grown(P, p), <<>>)) = Grown(Cat(S, Grown(P, p)), <<>>)
        BY <2>2, <4>1, CatIs
      <4> QED
        BY <2>7, <4>2
    <3> QED
      BY <1>0, <1>1, <2>4, <2>8, <3>1, <3>2, <3>3
  <2>10. CASE c \notin seps
    <3>1. Split(Grown(u, c), seps) = Grown(P, Grown(p, c))
      BY <2>1, <2>10, SplitGrows
    <3>2. Split(Grown(w, c), seps) = Grown(Q, Grown(p, c))
      BY <2>5, <2>7, <2>10, SplitGrows
    <3>3. Cat(S, Grown(P, Grown(p, c))) = Grown(Q, Grown(p, c))
      <4> HIDE DEF V
      <4> QED
        BY <2>2, <2>6, CatIs
    <3> QED
      BY <1>0, <1>1, <2>4, <2>8, <3>1, <3>2, <3>3
  <2> QED
    BY <2>9, <2>10
<1> HIDE DEF T
<1>4. v \in T
  BY <1>2, <1>3, TextInduction
<1> QED
  BY <1>4 DEF T

(***************************************************************************)
(* A text without a separator is its only part.                            *)
(***************************************************************************)
LEMMA SplitOne ==
  ASSUME NEW C, NEW seps, NEW t \in Seq(C \ seps)
  PROVE  Split(t, seps) = One(t)
<1> DEFINE D == C \ seps
           T == {u \in Seq(D) : Split(u, seps) = One(u)}
<1>1. <<>> \in T
  <2>1. Split(<<>>, seps) = One(<<>>)
    BY SplitEmpty DEF One
  <2>2. <<>> \in Seq(D)
    BY EmptySeq
  <2> QED
    BY <2>1, <2>2
<1>2. ASSUME NEW u \in Seq(D), NEW c \in D, u \in T PROVE Grown(u, c) \in T
  <2>1. u \in Seq(C) /\ c \in C /\ c \notin seps /\ Grown(u, c) \in Seq(D)
    <3>1. D \subseteq C
      OBVIOUS
    <3> QED
      BY <3>1, SeqMonotonic, GrownText
  <2> DEFINE V == Seq(C)
  <2>2. \A x \in V : Grown(<<>>, x) = One(x)
    <3>1. <<>> \in Seq(V)
      BY EmptySeq
    <3> HIDE DEF V
    <3> QED
      BY <3>1, GrownText
  <2>3. <<>> \in Seq(Seq(C)) /\ Split(u, seps) = Grown(<<>>, u)
    <3>1. <<>> \in Seq(V)
      BY EmptySeq
    <3> QED
      BY <1>2, <2>1, <2>2, <3>1
  <2>4. Split(Grown(u, c), seps) = Grown(<<>>, Grown(u, c))
    <3>1. PICK e \in Seq(Seq(C)) : e = <<>>
      BY <2>3
    <3>2. Split(u, seps) = Grown(e, u)
      BY <2>3, <3>1
    <3>3. Split(Grown(u, c), seps) = Grown(e, Grown(u, c))
      BY <2>1, <3>2, SplitGrows
    <3> QED
      BY <3>1, <3>3
  <2>5. Grown(u, c) \in V
    BY <2>1, GrownText
  <2> QED
    BY <2>1, <2>2, <2>4, <2>5
<1> HIDE DEF T, D
<1>3. t \in T
  <2>1. t \in Seq(D)
    BY DEF D
  <2> QED
    BY <1>1, <1>2, <2>1, TextInduction
<1> QED
  BY <1>3 DEF T

-----------------------------------------------------------------------------
(* NonEmpty, one part more.                                                *)

(***************************************************************************)
(* NonEmpty, part by part.                                                 *)
(***************************************************************************)
LEMMA NonEmptyOfNone == NonEmpty(<<>>) = <<>>
<1>1. PICK P \in Seq({}) : P = <<>> /\ Len(P) = 0
  BY EmptySeq
<1>2. {i \in DOMAIN P : P[i] # <<>>} = {}
  BY <1>1
<1>3. NonEmpty(P) = [k \in 1..0 |-> P[Nth({}, k)]]
  BY <1>2, FS_EmptySet DEF NonEmpty
<1> QED
  BY <1>1, <1>3

\* The positions of the parts that are kept.
Kept(P) == {i \in DOMAIN P : P[i] # <<>>}

LEMMA KeptIs ==
  ASSUME NEW V, NEW P \in Seq(V)
  PROVE  /\ Kept(P) \in SUBSET (1..Len(P)) /\ Kept(P) \in SUBSET Nat
         /\ IsFiniteSet(Kept(P)) /\ Cardinality(Kept(P)) \in Nat
         /\ NonEmpty(P) = [k \in 1..Cardinality(Kept(P)) |-> P[Nth(Kept(P), k)]]
         /\ NonEmpty(P) \in Seq(V \ {<<>>}) /\ Len(NonEmpty(P)) = Cardinality(Kept(P))
<1>1. Len(P) \in Nat /\ DOMAIN P = 1..Len(P)
  BY LenProperties
<1>2. Kept(P) \in SUBSET (1..Len(P)) /\ Kept(P) \in SUBSET Nat
  BY <1>1 DEF Kept
<1>3. IsFiniteSet(Kept(P)) /\ Cardinality(Kept(P)) \in Nat
  <2>1. IsFiniteSet(1..Len(P))
    BY <1>1, FS_Interval
  <2> QED
    BY <1>2, <2>1, FS_Subset, FS_CardinalityType
<1> DEFINE K == Cardinality(Kept(P))
<1>4. NonEmpty(P) = [k \in 1..K |-> P[Nth(Kept(P), k)]]
  BY DEF NonEmpty, Kept
<1>5. \A k \in 1..K : P[Nth(Kept(P), k)] \in V \ {<<>>}
  <2> SUFFICES ASSUME NEW k \in 1..K PROVE P[Nth(Kept(P), k)] \in V \ {<<>>}
    OBVIOUS
  <2>1. Nth(Kept(P), k) \in Kept(P)
    BY <1>2, <1>3, NthIs
  <2> QED
    BY <1>1, <2>1, ElementOfSeq DEF Kept
<1> HIDE DEF K
<1>6. NonEmpty(P) \in [1..K -> V \ {<<>>}]
  BY <1>4, <1>5
<1>7. K \in Nat
  BY <1>3 DEF K
<1>8. NonEmpty(P) \in Seq(V \ {<<>>}) /\ Len(NonEmpty(P)) = K
  BY <1>6, <1>7, SeqDef
<1> QED
  BY <1>2, <1>3, <1>4, <1>8 DEF K

(***************************************************************************)
(* One more part is kept unless it is empty.                               *)
(***************************************************************************)
LEMMA NonEmptyGrows ==
  ASSUME NEW V, NEW P \in Seq(V), NEW p \in V
  PROVE  /\ p = <<>> => NonEmpty(Grown(P, p)) = NonEmpty(P)
         /\ p # <<>> => NonEmpty(Grown(P, p)) = Grown(NonEmpty(P), p)
<1> DEFINE n == Len(P)
           kept == Kept(P)
           K == Cardinality(kept)
<1>0. n \in Nat /\ DOMAIN P = 1..n
  BY LenProperties
<1>1. PICK Q \in Seq(V) : /\ Q = Grown(P, p) /\ Len(Q) = n + 1
                          /\ Q[n + 1] = p /\ \A j \in 1..n : Q[j] = P[j]
  <2>1. \E q \in Seq(V) : IsGrown(q, P, p)
    BY GrownIs
  <2> QED
    BY <2>1 DEF IsGrown
<1>2. DOMAIN Q = 1..n + 1 /\ (n + 1 \in 1..n + 1)
      /\ \A i \in 1..n + 1 : i \in 1..n \/ i = n + 1
  BY <1>0, <1>1, LenProperties
<1>3. Kept(Q) = IF p = <<>> THEN kept ELSE kept \cup {n + 1}
  <2>1. n + 1 \notin 1..n /\ \A i \in 1..n : i \in 1..n + 1
    BY <1>0
  <2> QED
    BY <1>0, <1>1, <1>2, <2>1 DEF Kept
<1>4. /\ kept \in SUBSET (1..n) /\ kept \in SUBSET Nat /\ IsFiniteSet(kept) /\ K \in Nat
      /\ NonEmpty(P) = [k \in 1..K |-> P[Nth(kept, k)]]
      /\ NonEmpty(P) \in Seq(V \ {<<>>}) /\ Len(NonEmpty(P)) = K
  BY KeptIs
<1>5. /\ NonEmpty(Q) = [k \in 1..Cardinality(Kept(Q)) |-> Q[Nth(Kept(Q), k)]]
  BY KeptIs
<1>6. \A k \in 1..K : Nth(kept, k) \in 1..n
  BY <1>4, NthIs
<1> HIDE DEF n, kept
<1>7. CASE p = <<>>
  <2>1. Kept(Q) = kept
    BY <1>3, <1>7
  <2>2. \A k \in 1..K : Q[Nth(kept, k)] = P[Nth(kept, k)]
    BY <1>1, <1>6
  <2> QED
    BY <1>1, <1>4, <1>5, <1>7, <2>1, <2>2
<1>8. CASE p # <<>>
  <2>1. Kept(Q) = kept \cup {n + 1} /\ n + 1 \in Nat /\ \A m \in kept : m < n + 1
    BY <1>0, <1>3, <1>4, <1>8
  <2>2. /\ Cardinality(Kept(Q)) = K + 1 /\ Nth(Kept(Q), K + 1) = n + 1
        /\ \A k \in 1..K : Nth(Kept(Q), k) = Nth(kept, k)
    <3>1. PICK b \in Nat : b = n + 1
      BY <1>0
    <3>2. kept \in SUBSET Nat /\ IsFiniteSet(kept) /\ \A m \in kept : m < b
      BY <1>4, <2>1, <3>1
    <3>3. /\ Cardinality(kept \cup {b}) = Cardinality(kept) + 1
          /\ Nth(kept \cup {b}, Cardinality(kept) + 1) = b
          /\ \A k \in 1..Cardinality(kept) : Nth(kept \cup {b}, k) = Nth(kept, k)
      BY <3>2, NthOfMore
    <3> QED
      BY <2>1, <3>1, <3>3, Zenon
  <2>3. PICK r \in Seq(V \ {<<>>}) : IsGrown(r, NonEmpty(P), p)
    <3>1. p \in V \ {<<>>}
      BY <1>8
    <3> QED
      BY <1>4, <3>1, GrownIs
  <2>4. /\ r = Grown(NonEmpty(P), p) /\ Len(r) = K + 1 /\ r[K + 1] = p
        /\ \A k \in 1..K : r[k] = NonEmpty(P)[k]
    BY <1>4, <2>3 DEF IsGrown
  <2>5. DOMAIN r = 1..K + 1 /\ r = [k \in 1..K + 1 |-> r[k]]
    BY <2>4, LenProperties
  <2>6. \A k \in 1..K + 1 : Q[Nth(Kept(Q), k)] = r[k]
    <3>1. \A k \in 1..K : Q[Nth(Kept(Q), k)] = r[k]
      BY <1>1, <1>4, <1>6, <2>2, <2>4
    <3>2. \A k \in 1..K + 1 : k \in 1..K \/ k = K + 1
      BY <1>4
    <3> QED
      BY <1>1, <2>2, <2>4, <3>1, <3>2
  <2> QED
    BY <1>1, <1>5, <1>8, <2>2, <2>4, <2>5, <2>6
<1> QED
  BY <1>7, <1>8

(***************************************************************************)
(* The parts kept of two lists of parts.                                   *)
(***************************************************************************)
LEMMA NonEmptyCat ==
  ASSUME NEW V, NEW P \in Seq(V), NEW R \in Seq(V)
  PROVE  /\ NonEmpty(Cat(P, R)) = Cat(NonEmpty(P), NonEmpty(R))
         /\ NonEmpty(P) \in Seq(V)
<1> DEFINE T == {Q \in Seq(V) : NonEmpty(Cat(P, Q)) = Cat(NonEmpty(P), NonEmpty(Q))}
<1>1. \A Q \in Seq(V) : NonEmpty(Q) \in Seq(V)
  <2> SUFFICES ASSUME NEW Q \in Seq(V) PROVE NonEmpty(Q) \in Seq(V)
    OBVIOUS
  <2>1. NonEmpty(Q) \in Seq(V \ {<<>>}) /\ V \ {<<>>} \subseteq V
    BY KeptIs
  <2> QED
    BY <2>1, SeqMonotonic
<1>2. <<>> \in T
  <2>1. Cat(P, <<>>) = P /\ Cat(NonEmpty(P), <<>>) = NonEmpty(P) /\ <<>> \in Seq(V)
    BY <1>1, CatIs, EmptySeq
  <2> QED
    BY <2>1, NonEmptyOfNone
<1>3. ASSUME NEW Q \in Seq(V), NEW q \in V, Q \in T PROVE Grown(Q, q) \in T
  <2>1. /\ Cat(P, Grown(Q, q)) = Grown(Cat(P, Q), q) /\ Cat(P, Q) \in Seq(V)
        /\ Grown(Q, q) \in Seq(V)
    <3>1. Cat(P, Grown(Q, q)) = Grown(Cat(P, Q), q) /\ Cat(P, Q) \in Seq(V)
      BY CatIs
    <3>2. Grown(Q, q) \in Seq(V)
      BY GrownText
    <3> QED
      BY <3>1, <3>2
  <2>2. NonEmpty(Cat(P, Q)) = Cat(NonEmpty(P), NonEmpty(Q))
    BY <1>3
  <2>3. CASE q = <<>>
    <3>1. /\ NonEmpty(Grown(Cat(P, Q), q)) = NonEmpty(Cat(P, Q))
          /\ NonEmpty(Grown(Q, q)) = NonEmpty(Q)
      BY <2>1, <2>3, NonEmptyGrows
    <3> QED
      BY <2>1, <2>2, <3>1
  <2>4. CASE q # <<>>
    <3>1. /\ NonEmpty(Grown(Cat(P, Q), q)) = Grown(NonEmpty(Cat(P, Q)), q)
          /\ NonEmpty(Grown(Q, q)) = Grown(NonEmpty(Q), q)
      BY <2>1, <2>4, NonEmptyGrows
    <3>2. Cat(NonEmpty(P), Grown(NonEmpty(Q), q)) = Grown(Cat(NonEmpty(P), NonEmpty(Q)), q)
      BY <1>1, CatIs
    <3> QED
      BY <2>1, <2>2, <3>1, <3>2
  <2> QED
    BY <2>3, <2>4
<1> HIDE DEF T
<1>4. R \in T
  BY <1>2, <1>3, TextInduction
<1> QED
  BY <1>1, <1>4 DEF T

(***************************************************************************)
(* Without empty parts, all are kept.                                      *)
(***************************************************************************)
LEMMA NonEmptyFull ==
  ASSUME NEW V, <<>> \notin V, NEW P \in Seq(V)
  PROVE  NonEmpty(P) = P
<1> DEFINE T == {Q \in Seq(V) : NonEmpty(Q) = Q}
<1>1. <<>> \in T
  BY NonEmptyOfNone, EmptySeq
<1>2. ASSUME NEW Q \in Seq(V), NEW q \in V, Q \in T PROVE Grown(Q, q) \in T
  <2>1. NonEmpty(Grown(Q, q)) = Grown(NonEmpty(Q), q) /\ Grown(Q, q) \in Seq(V)
    BY NonEmptyGrows, GrownText
  <2> QED
    BY <1>2, <2>1
<1> HIDE DEF T
<1>3. P \in T
  BY <1>1, <1>2, TextInduction
<1> QED
  BY <1>3 DEF T

-----------------------------------------------------------------------------
(* Splitting what was joined, and joining what was split.                  *)

(***************************************************************************)
(* Lengths.                                                                *)
(***************************************************************************)
LEMMA LenIs ==
  ASSUME NEW C, NEW s \in Seq(C)
  PROVE  /\ Len(s) \in Nat /\ (Len(s) = 0 <=> s = <<>>)
         /\ \A c \in C : Len(Grown(s, c)) = Len(s) + 1
         /\ \A t \in Seq(C) : Len(Cat(s, t)) = Len(s) + Len(t)
<1>1. Len(s) \in Nat /\ (Len(s) = 0 <=> s = <<>>)
  BY LenProperties, EmptySeq
<1>2. ASSUME NEW c \in C PROVE Len(Grown(s, c)) = Len(s) + 1
  BY AppendProperties DEF Grown
<1>3. ASSUME NEW t \in Seq(C) PROVE Len(Cat(s, t)) = Len(s) + Len(t)
  BY ConcatProperties DEF Cat
<1> QED
  BY <1>1, <1>2, <1>3

(***************************************************************************)
(* A path made of two lists of parts.                                      *)
(***************************************************************************)
LEMMA JoinedCat ==
  ASSUME NEW C, "/" \in C, NEW P \in Seq(Seq(C)), NEW R \in Seq(Seq(C))
  PROVE  /\ Joined(Cat(P, R)) = Cat(Joined(P), Joined(R))
         /\ Joined(P) \in Seq(C)
<1> DEFINE V == Seq(C)
           T == {Q \in Seq(V) : Joined(Cat(P, Q)) = Cat(Joined(P), Joined(Q))}
<1>1. \A Q \in Seq(V) : Joined(Q) \in Seq(C)
  <2> SUFFICES ASSUME NEW Q \in Seq(V) PROVE Joined(Q) \in Seq(C)
    OBVIOUS
  <2>1. <<>> \in Seq(C)
    BY EmptySeq
  <2> QED
    BY <2>1, JoinedGrows
<1>2. <<>> \in T
  <2>1. Cat(Joined(P), <<>>) = Joined(P)
    BY <1>1, CatIs
  <2>2. Cat(P, <<>>) = P /\ <<>> \in Seq(V)
    <3> HIDE DEF V
    <3>1. P \in Seq(V)
      BY DEF V
    <3> QED
      BY <3>1, CatIs, EmptySeq
  <2> QED
    BY <2>1, <2>2, JoinedEmpty
<1>3. ASSUME NEW Q \in Seq(V), NEW q \in V, Q \in T PROVE Grown(Q, q) \in T
  <2>1. Cat(P, Grown(Q, q)) = Grown(Cat(P, Q), q) /\ Cat(P, Q) \in Seq(V) /\ Grown(Q, q) \in Seq(V)
    <3>1. P \in Seq(V)
      OBVIOUS
    <3> HIDE DEF V
    <3>2. Cat(P, Grown(Q, q)) = Grown(Cat(P, Q), q) /\ Cat(P, Q) \in Seq(V)
      BY <3>1, CatIs
    <3>3. Grown(Q, q) \in Seq(V)
      BY GrownText
    <3> QED
      BY <3>2, <3>3
  <2>2. Joined(Grown(Cat(P, Q), q)) = Cat(Grown(Joined(Cat(P, Q)), "/"), q)
    BY <2>1, JoinedGrows
  <2>3. Joined(Grown(Q, q)) = Cat(Grown(Joined(Q), "/"), q)
    BY JoinedGrows
  <2>4. Joined(Cat(P, Q)) = Cat(Joined(P), Joined(Q))
    BY <1>3
  <2>5. Joined(P) \in Seq(C) /\ Joined(Q) \in Seq(C) /\ q \in Seq(C) /\ Grown(Joined(Q), "/") \in Seq(C)
    BY <1>1, GrownText
  <2>6. Grown(Cat(Joined(P), Joined(Q)), "/") = Cat(Joined(P), Grown(Joined(Q), "/"))
    BY <2>5, CatIs
  <2>7. Cat(Cat(Joined(P), Grown(Joined(Q), "/")), q) = Cat(Joined(P), Cat(Grown(Joined(Q), "/"), q))
    BY <2>5, CatIs
  <2> QED
    BY <2>1, <2>2, <2>3, <2>4, <2>6, <2>7
<1>4. P \in Seq(V) /\ R \in Seq(V)
  OBVIOUS
<1> HIDE DEF T, V
<1>5. R \in T
  BY <1>2, <1>3, <1>4, TextInduction
<1> QED
  BY <1>1, <1>4, <1>5 DEF T

(***************************************************************************)
(* The parts of a path that is joined are the ones it was joined from,     *)
(* after the empty one in front of the first separator.                    *)
(***************************************************************************)
LEMMA SplitJoined ==
  ASSUME NEW C, "/" \in C, NEW parts \in Seq(Seq(C \ {"/"}))
  PROVE  Split(Joined(parts), {"/"}) = Cat(One(<<>>), parts) /\ Joined(parts) \in Seq(C)
<1> DEFINE V == Seq(C \ {"/"})
           T == {P \in Seq(V) : Split(Joined(P), {"/"}) = Cat(One(<<>>), P)}
<1>1. V \subseteq Seq(C)
  <2>1. C \ {"/"} \subseteq C
    OBVIOUS
  <2> QED
    BY <2>1, SeqMonotonic
<1>2. \A P \in Seq(V) : P \in Seq(Seq(C)) /\ Joined(P) \in Seq(C)
  <2> SUFFICES ASSUME NEW P \in Seq(V) PROVE P \in Seq(Seq(C)) /\ Joined(P) \in Seq(C)
    OBVIOUS
  <2> HIDE DEF V
  <2>1. P \in Seq(Seq(C))
    BY <1>1, SeqMonotonic
  <2>2. <<>> \in Seq(C)
    BY EmptySeq
  <2> QED
    BY <2>1, <2>2, JoinedGrows
<1>3. <<>> \in V
  BY EmptySeq
<1>4. One(<<>>) \in Seq(V) /\ <<>> \in Seq(V) /\ Cat(One(<<>>), <<>>) = One(<<>>)
  <2> HIDE DEF V
  <2>1. <<>> \in Seq(V)
    BY EmptySeq
  <2>2. One(<<>>) \in Seq(V)
    BY <1>3, <2>1, GrownText
  <2> QED
    BY <2>1, <2>2, CatIs
<1>5. <<>> \in T
  <2>1. Split(<<>>, {"/"}) = One(<<>>)
    BY SplitEmpty DEF One
  <2> QED
    BY <1>4, <2>1, JoinedEmpty
<1>6. ASSUME NEW P \in Seq(V), NEW p \in V, P \in T PROVE Grown(P, p) \in T
  <2>1. Joined(Grown(P, p)) = Cat(Grown(Joined(P), "/"), p) /\ Joined(P) \in Seq(C) /\ p \in Seq(C)
    <3>1. P \in Seq(Seq(C)) /\ p \in Seq(C)
      BY <1>1, <1>2
    <3> QED
      BY <3>1, JoinedGrows
  <2>2. Split(Cat(Grown(Joined(P), "/"), p), {"/"}) = Cat(Split(Joined(P), {"/"}), Split(p, {"/"}))
    <3>0. PICK seps : seps = {"/"}
      OBVIOUS
    <3>1. PICK d \in Seq(C), q \in Seq(C) : d = Joined(P) /\ q = p
      BY <2>1
    <3>2. "/" \in seps
      BY <3>0
    <3>3. Split(Cat(Grown(d, "/"), q), seps) = Cat(Split(d, seps), Split(q, seps))
      BY ONLY "/" \in C, <3>2, SplitConcat
    <3> QED
      BY <3>0, <3>1, <3>3
  <2>3. Split(p, {"/"}) = One(p)
    BY SplitOne
  <2>4. Split(Joined(P), {"/"}) = Cat(One(<<>>), P)
    BY <1>6
  <2>5. Cat(Cat(One(<<>>), P), One(p)) = Cat(One(<<>>), Grown(P, p)) /\ Grown(P, p) \in Seq(V)
    <3> HIDE DEF V
    <3>1. One(p) \in Seq(V) /\ Cat(P, One(p)) = Grown(P, p) /\ Grown(P, p) \in Seq(V)
      BY GrownText
    <3>2. Cat(Cat(One(<<>>), P), One(p)) = Cat(One(<<>>), Cat(P, One(p)))
      BY <1>4, <3>1, CatIs
    <3> QED
      BY <3>1, <3>2
  <2> QED
    BY <2>1, <2>2, <2>3, <2>4, <2>5
<1>7. parts \in Seq(V)
  OBVIOUS
<1> HIDE DEF T, V
<1>8. parts \in T
  BY <1>5, <1>6, <1>7, TextInduction
<1> QED
  BY <1>2, <1>7, <1>8 DEF T

(***************************************************************************)
(* Joining the parts of a text puts a separator in front of it.            *)
(***************************************************************************)
LEMMA JoinedSplit ==
  ASSUME NEW C, "/" \in C, NEW t \in Seq(C)
  PROVE  Joined(Split(t, {"/"})) = Cat(One("/"), t)
<1> DEFINE T == {u \in Seq(C) : Joined(Split(u, {"/"})) = Cat(One("/"), u)}
<1>0. One("/") \in Seq(C) /\ <<>> \in Seq(C) /\ Grown(<<>>, "/") = One("/")
  BY GrownText, EmptySeq
<1>1. <<>> \in T
  <2>1. Split(<<>>, {"/"}) = One(<<>>)
    BY SplitEmpty DEF One
  <2> DEFINE V == Seq(C)
  <2>2. PICK e \in Seq(V) : e = <<>>
    <3>1. <<>> \in Seq(V)
      BY EmptySeq
    <3> QED
      BY <3>1
  <2>3. Grown(e, <<>>) = One(<<>>)
    <3>1. <<>> \in V
      BY <1>0
    <3> HIDE DEF V
    <3> QED
      BY <2>2, <3>1, GrownText
  <2>4. Joined(Grown(e, <<>>)) = Cat(Grown(Joined(e), "/"), <<>>)
    BY <1>0, JoinedGrows
  <2> QED
    BY <1>0, <2>1, <2>2, <2>3, <2>4, JoinedEmpty
<1>2. ASSUME NEW u \in Seq(C), NEW c \in C, u \in T PROVE Grown(u, c) \in T
  <2>1. PICK P \in Seq(Seq(C)), p \in Seq(C) : Split(u, {"/"}) = Grown(P, p)
    BY SplitEnds
  <2> DEFINE V == Seq(C)
  <2>2. Joined(Grown(P, p)) = Cat(Grown(Joined(P), "/"), p) /\ Joined(P) \in Seq(C)
    BY JoinedGrows
  <2>3. PICK h \in Seq(C) : h = Grown(Joined(P), "/")
    BY <2>2, GrownText
  <2>4. Cat(h, p) = Cat(One("/"), u)
    BY <1>2, <2>1, <2>2, <2>3
  <2>5. Grown(u, c) \in Seq(C) /\ Cat(One("/"), Grown(u, c)) = Grown(Cat(One("/"), u), c)
    <3>1. Cat(One("/"), Grown(u, c)) = Grown(Cat(One("/"), u), c)
      BY <1>0, CatIs
    <3> QED
      BY <3>1, GrownText
  <2>6. CASE c \in {"/"}
    <3>1. Split(Grown(u, c), {"/"}) = Grown(Grown(P, p), <<>>)
      BY <2>1, <2>6, SplitGrows
    <3>2. Grown(P, p) \in Seq(V)
      <4>1. P \in Seq(V) /\ p \in V
        OBVIOUS
      <4> HIDE DEF V
      <4> QED
        BY <4>1, GrownText
    <3>3. Joined(Grown(Grown(P, p), <<>>)) = Cat(Grown(Joined(Grown(P, p)), "/"), <<>>)
      BY <1>0, <3>2, JoinedGrows
    <3>4. Cat(h, p) \in Seq(C) /\ Grown(Cat(h, p), "/") \in Seq(C)
      <4>1. Cat(h, p) \in Seq(C)
        BY CatIs
      <4> QED
        BY <4>1, GrownText
    <3>5. Cat(Grown(Cat(h, p), "/"), <<>>) = Grown(Cat(h, p), "/")
      BY <1>0, <3>4, CatIs
    <3> QED
      BY <2>2, <2>3, <2>4, <2>5, <2>6, <3>1, <3>3, <3>5
  <2>7. CASE c \notin {"/"}
    <3>1. Split(Grown(u, c), {"/"}) = Grown(P, Grown(p, c))
      BY <2>1, <2>7, SplitGrows
    <3>2. Grown(p, c) \in Seq(C)
      BY GrownText
    <3>3. Joined(Grown(P, Grown(p, c))) = Cat(h, Grown(p, c))
      BY <2>3, <3>2, JoinedGrows
    <3>4. Cat(h, Grown(p, c)) = Grown(Cat(h, p), c)
      BY CatIs
    <3> QED
      BY <2>4, <2>5, <3>1, <3>3, <3>4
  <2> QED
    BY <2>6, <2>7
<1> HIDE DEF T
<1>3. t \in T
  BY <1>1, <1>2, TextInduction
<1> QED
  BY <1>3 DEF T

(***************************************************************************)
(* A path is no longer without its empty parts.                            *)
(***************************************************************************)
LEMMA JoinedNonEmptyIsShorter ==
  ASSUME NEW C, "/" \in C, NEW parts \in Seq(Seq(C))
  PROVE  Len(Joined(NonEmpty(parts))) <= Len(Joined(parts))
<1> DEFINE V == Seq(C)
           T == {P \in Seq(V) : Len(Joined(NonEmpty(P))) <= Len(Joined(P))}
<1>0. \A P \in Seq(V) : NonEmpty(P) \in Seq(V)
  <2> HIDE DEF V
  <2> QED
    BY NonEmptyCat
<1>1. \A P \in Seq(V) : Joined(P) \in Seq(C)
  BY JoinedCat
<1>2. <<>> \in T
  <2>1. <<>> \in Seq(V) /\ <<>> \in Seq(C)
    BY EmptySeq
  <2> QED
    BY <2>1, JoinedEmpty, NonEmptyOfNone, LenIs
<1>3. ASSUME NEW P \in Seq(V), NEW p \in V, P \in T PROVE Grown(P, p) \in T
  <2>1. Grown(P, p) \in Seq(V)
    <3> HIDE DEF V
    <3> QED
      BY GrownText
  <2>2. ASSUME NEW Q \in Seq(V)
        PROVE  Len(Joined(Grown(Q, p))) = Len(Joined(Q)) + 1 + Len(p) /\ Len(Joined(Q)) \in Nat
    <3>1. Joined(Grown(Q, p)) = Cat(Grown(Joined(Q), "/"), p) /\ Joined(Q) \in Seq(C)
      BY JoinedGrows
    <3>2. Grown(Joined(Q), "/") \in Seq(C)
      BY <3>1, GrownText
    <3>3. Len(Cat(Grown(Joined(Q), "/"), p)) = Len(Grown(Joined(Q), "/")) + Len(p)
      BY <3>2, LenIs
    <3>4. Len(Grown(Joined(Q), "/")) = Len(Joined(Q)) + 1 /\ Len(Joined(Q)) \in Nat
      BY <3>1, LenIs
    <3> QED
      BY <3>1, <3>3, <3>4
  <2>3. Len(p) \in Nat
    BY LenIs
  <2>4. Len(Joined(NonEmpty(P))) <= Len(Joined(P))
    BY <1>3
  <2>5. CASE p = <<>>
    <3>1. NonEmpty(Grown(P, p)) = NonEmpty(P)
      <4> HIDE DEF V
      <4> QED
        BY <2>5, NonEmptyGrows
    <3>2. NonEmpty(P) \in Seq(V)
      BY <1>0
    <3>3. Len(Joined(NonEmpty(P))) \in Nat
      BY <2>2, <3>2
    <3>4. Len(Joined(Grown(P, p))) = Len(Joined(P)) + 1 + Len(p) /\ Len(Joined(P)) \in Nat
      BY <2>2
    <3>5. Len(Joined(NonEmpty(Grown(P, p)))) <= Len(Joined(Grown(P, p)))
      BY ONLY <2>3, <2>4, <3>1, <3>3, <3>4
    <3> QED
      BY <2>1, <3>5
  <2>6. CASE p # <<>>
    <3>1. NonEmpty(Grown(P, p)) = Grown(NonEmpty(P), p)
      <4> HIDE DEF V
      <4> QED
        BY <2>6, NonEmptyGrows
    <3>2. NonEmpty(P) \in Seq(V)
      BY <1>0
    <3>3. /\ Len(Joined(Grown(NonEmpty(P), p))) = Len(Joined(NonEmpty(P))) + 1 + Len(p)
          /\ Len(Joined(NonEmpty(P))) \in Nat
      BY <2>2, <3>2
    <3>4. Len(Joined(Grown(P, p))) = Len(Joined(P)) + 1 + Len(p) /\ Len(Joined(P)) \in Nat
      BY <2>2
    <3>5. Len(Joined(NonEmpty(Grown(P, p)))) <= Len(Joined(Grown(P, p)))
      BY ONLY <2>3, <2>4, <3>1, <3>3, <3>4
    <3> QED
      BY <2>1, <3>5
  <2> QED
    BY <2>5, <2>6
<1>4. parts \in Seq(V)
  OBVIOUS
<1> HIDE DEF T, V
<1>5. parts \in T
  BY <1>2, <1>3, <1>4, TextInduction
<1> QED
  BY <1>5 DEF T

-----------------------------------------------------------------------------
(* Clean paths and their names.                                            *)

(***************************************************************************)
(* What occurs in a text.                                                  *)
(***************************************************************************)
LEMMA ToSetIs ==
  ASSUME NEW V, NEW s \in Seq(V)
  PROVE  /\ ToSet(<<>>) = {} /\ ToSet(s) \subseteq V
         /\ \A c \in V : ToSet(Grown(s, c)) = ToSet(s) \cup {c}
<1>1. ToSet(<<>>) = {}
  <2>1. PICK e \in Seq(V) : e = <<>> /\ Len(e) = 0
    BY EmptySeq
  <2>2. DOMAIN e = {}
    BY <2>1
  <2> QED
    BY <2>1, <2>2 DEF ToSet
<1>2. Len(s) \in Nat /\ DOMAIN s = 1..Len(s)
  BY LenProperties
<1>3. ToSet(s) \subseteq V
  BY <1>2, ElementOfSeq DEF ToSet
<1>4. ASSUME NEW c \in V PROVE ToSet(Grown(s, c)) = ToSet(s) \cup {c}
  <2>1. PICK u \in Seq(V) : IsGrown(u, s, c)
    BY GrownIs
  <2>2. /\ u = Grown(s, c) /\ DOMAIN u = 1..Len(s) + 1
        /\ u[Len(s) + 1] = c /\ \A j \in 1..Len(s) : u[j] = s[j]
    BY <2>1, LenProperties DEF IsGrown
  <2>3. /\ Len(s) + 1 \in 1..Len(s) + 1 /\ \A j \in 1..Len(s) : j \in 1..Len(s) + 1
        /\ \A j \in 1..Len(s) + 1 : j \in 1..Len(s) \/ j = Len(s) + 1
    BY <1>2
  <2>4. ToSet(u) = ToSet(s) \cup {c}
    BY <1>2, <2>2, <2>3 DEF ToSet
  <2> QED
    BY <2>2, <2>4
<1> QED
  BY <1>1, <1>3, <1>4

LEMMA ToSetNonEmpty ==
  ASSUME NEW V, NEW P \in Seq(V)
  PROVE  ToSet(NonEmpty(P)) = ToSet(P) \ {<<>>}
<1> DEFINE T == {Q \in Seq(V) : ToSet(NonEmpty(Q)) = ToSet(Q) \ {<<>>}}
<1>1. <<>> \in T
  <2>1. <<>> \in Seq(V)
    BY EmptySeq
  <2> QED
    BY <2>1, ToSetIs, NonEmptyOfNone
<1>2. ASSUME NEW Q \in Seq(V), NEW q \in V, Q \in T PROVE Grown(Q, q) \in T
  <2>1. Grown(Q, q) \in Seq(V)
    BY GrownText
  <2>2. NonEmpty(Q) \in Seq(V)
    BY NonEmptyCat
  <2>3. /\ ToSet(Grown(Q, q)) = ToSet(Q) \cup {q}
        /\ ToSet(Grown(NonEmpty(Q), q)) = ToSet(NonEmpty(Q)) \cup {q}
    BY <2>2, ToSetIs
  <2>4. /\ q = <<>> => NonEmpty(Grown(Q, q)) = NonEmpty(Q)
        /\ q # <<>> => NonEmpty(Grown(Q, q)) = Grown(NonEmpty(Q), q)
    BY NonEmptyGrows
  <2> QED
    BY <1>2, <2>1, <2>3, <2>4
<1> HIDE DEF T
<1>3. P \in T
  BY <1>1, <1>2, TextInduction
<1> QED
  BY <1>3 DEF T

\* The names in a path, and the same in the case of the volume.
Names(sub) == NonEmpty(Split(sub, {"/"}))

Folded(names) == [i \in DOMAIN names |-> FoldedName(names[i])]

\* A name FAT does not trim.
Plain(c) == c # <<>> /\ Head(c) # "SP" /\ Last(c) \notin {"SP", "."}

\* The characters of an accepted path, and those of the names in it.
CleanChar == Char \ {"\\", ":"}

PlainText == {c \in Seq(CleanChar \ {"/"}) : Plain(c)}

\* A path that passed the checks both surfaces share.
Clean(sub) == sub \in Seq(CleanChar) /\ Names(sub) \in Seq(PlainText)

LEMMA CharIs == /\ "/" \in CleanChar /\ CleanChar \subseteq Char /\ Name \subseteq CleanChar
                /\ Name \subseteq CleanChar \ {"/"}
<1>1. \A n \in Name : n \notin {"/", "\\", ":"}
  BY NameAssumption, Zenon
<1> QED
  BY <1>1 DEF CleanChar, Char

(***************************************************************************)
(* The checks look at the names of a path and at nothing else.             *)
(***************************************************************************)
LEMMA NamesAre ==
  ASSUME NEW sub \in Seq(CleanChar)
  PROVE  /\ Names(sub) \in Seq(Seq(CleanChar \ {"/"}) \ {<<>>})
         /\ PathComponentsOk(sub) <=> \A c \in ToSet(Names(sub)) : Plain(c)
         /\ UefiFree(sub)
<1> DEFINE V == Seq(CleanChar \ {"/"})
<1>1. Split(sub, {"/"}) \in Seq(V)
  BY SplitIsSeq
<1> HIDE DEF V
<1>2. Names(sub) \in Seq(V \ {<<>>}) /\ ToSet(Names(sub)) = ToSet(Split(sub, {"/"})) \ {<<>>}
  BY <1>1, KeptIs, ToSetNonEmpty DEF Names
<1>3. PathComponentsOk(sub) <=> \A c \in ToSet(Names(sub)) : Plain(c)
  BY <1>2, Zenon DEF PathComponentsOk, Plain
<1>4. UefiFree(sub)
  <2>1. \A i \in 1..Len(sub) : sub[i] \in CleanChar
    BY ElementOfSeq
  <2> QED
    BY <2>1 DEF UefiFree, Contains, CleanChar
<1> QED
  BY <1>2, <1>3, <1>4 DEF V

(***************************************************************************)
(* Clean is what the checks ask.                                           *)
(***************************************************************************)
LEMMA CleanIs ==
  ASSUME NEW sub \in Seq(Char)
  PROVE  Clean(sub) <=> UefiFree(sub) /\ PathComponentsOk(sub)
<1>1. ASSUME Clean(sub) PROVE UefiFree(sub) /\ PathComponentsOk(sub)
  <2>1. sub \in Seq(CleanChar) /\ Names(sub) \in Seq(PlainText)
    BY <1>1 DEF Clean
  <2>2. \A c \in ToSet(Names(sub)) : Plain(c)
    <3>1. ToSet(Names(sub)) \subseteq PlainText
      BY <2>1, ToSetIs
    <3> QED
      BY <3>1 DEF PlainText
  <2> QED
    BY <2>1, <2>2, NamesAre
<1>2. ASSUME UefiFree(sub), PathComponentsOk(sub) PROVE Clean(sub)
  <2>1. sub \in Seq(CleanChar)
    <3>1. Len(sub) \in Nat /\ sub \in [1..Len(sub) -> Char]
      BY LenProperties
    <3>2. \A i \in 1..Len(sub) : sub[i] \in CleanChar
      BY <1>2, <3>1 DEF UefiFree, Contains, CleanChar
    <3>3. sub \in [1..Len(sub) -> CleanChar]
      BY <3>1, <3>2
    <3> QED
      BY <3>1, <3>3, SeqDef
  <2>2. Names(sub) \in Seq(Seq(CleanChar \ {"/"}) \ {<<>>})
        /\ \A c \in ToSet(Names(sub)) : Plain(c)
    BY <1>2, <2>1, NamesAre
  <2> DEFINE V == Seq(CleanChar \ {"/"}) \ {<<>>}
  <2>3. Names(sub) \in Seq(V)
    BY <2>2
  <2>4. \A c \in V : Plain(c) => c \in PlainText
    BY DEF PlainText
  <2> HIDE DEF V
  <2>5. Len(Names(sub)) \in Nat /\ DOMAIN Names(sub) = 1..Len(Names(sub))
        /\ Names(sub) \in [1..Len(Names(sub)) -> V]
    BY <2>3, LenProperties
  <2>6. \A i \in 1..Len(Names(sub)) : Names(sub)[i] \in PlainText
    BY <2>2, <2>4, <2>5 DEF ToSet
  <2>7. Names(sub) \in [1..Len(Names(sub)) -> PlainText]
    BY <2>5, <2>6
  <2>8. Names(sub) \in Seq(PlainText)
    BY <2>5, <2>7, SeqDef
  <2> QED
    BY <2>1, <2>8 DEF Clean
<1> QED
  BY <1>1, <1>2

(***************************************************************************)
(* The volume finds the names of a clean path, folded.                     *)
(***************************************************************************)
LEMMA CleanOnVolume ==
  ASSUME NEW sub, Clean(sub)
  PROVE  /\ OnVolume(sub) = Folded(Names(sub)) /\ Spelled(sub) = Folded(Names(sub))
         /\ NonEmpty(Split(sub, UefiSeparator)) = Names(sub)
         /\ sub \in Seq(CleanChar) /\ Names(sub) \in Seq(PlainText)
<1>1. sub \in Seq(CleanChar) /\ Names(sub) \in Seq(PlainText)
  BY DEF Clean
<1>2. sub \in Seq(Char)
  BY <1>1, CharIs, SeqMonotonic
<1>3. UefiFree(sub) /\ PathComponentsOk(sub)
  BY <1>2, CleanIs
<1>4. OnVolume(sub) = Folded(Names(sub)) /\ Spelled(sub) = Folded(Names(sub))
  BY <1>2, <1>3, CleanPathOnVolume DEF Folded, Names
<1>5. Split(sub, UefiSeparator) = Split(sub, {"/"})
  <2>1. \A i \in 1..Len(sub) : sub[i] \in UefiSeparator <=> sub[i] \in {"/"}
    BY <1>3 DEF UefiFree, Contains, UefiSeparator
  <2> QED
    BY <1>2, <2>1, SplitDependsOnWhatOccurs
<1> QED
  BY <1>1, <1>4, <1>5 DEF Names

(***************************************************************************)
(* Folding is name by name.                                                *)
(***************************************************************************)
LEMMA FoldedIs ==
  ASSUME NEW V, NEW P \in Seq(V)
  PROVE  /\ Len(Folded(P)) = Len(P) /\ DOMAIN Folded(P) = 1..Len(P) /\ Len(P) \in Nat
         /\ \A i \in 1..Len(P) : Folded(P)[i] = FoldedName(P[i])
         /\ \A k \in 0..Len(P) : SubSeq(Folded(P), 1, k) = Folded(SubSeq(P, 1, k))
         /\ \A p \in V : Folded(Grown(P, p)) = Grown(Folded(P), FoldedName(p))
<1> DEFINE n == Len(P)
<1>0. n \in Nat /\ DOMAIN P = 1..n
  BY LenProperties
<1>1. Folded(P) = [i \in 1..n |-> FoldedName(P[i])]
  BY <1>0 DEF Folded
<1> DEFINE W == {FoldedName(p) : p \in V}
<1>2. Folded(P) \in Seq(W) /\ Len(Folded(P)) = n
  <2>1. \A i \in 1..n : FoldedName(P[i]) \in W
    BY ElementOfSeq
  <2> HIDE DEF W
  <2>2. Folded(P) \in [1..n -> W]
    BY <1>1, <2>1
  <2> QED
    BY <1>0, <2>2, SeqDef
<1>3. ASSUME NEW k \in 0..n PROVE SubSeq(Folded(P), 1, k) = Folded(SubSeq(P, 1, k))
  <2>1. /\ SubSeq(P, 1, k) \in Seq(V) /\ Len(SubSeq(P, 1, k)) = k
        /\ \A i \in 1..k : SubSeq(P, 1, k)[i] = P[i]
    <3>1. k \in Int /\ 1 \in Int /\ (\A i \in 1..k : i \in 1..n /\ P[i] \in V)
      BY <1>0, ElementOfSeq
    <3>2. /\ SubSeq(P, 1, k) \in Seq(V)
          /\ Len(SubSeq(P, 1, k)) = IF 1 <= k THEN k - 1 + 1 ELSE 0
          /\ \A i \in 1..k - 1 + 1 : SubSeq(P, 1, k)[i] = P[1 + i - 1]
      BY <3>1, SubSeqProperties
    <3>3. /\ k - 1 + 1 = k /\ (k < 1 => k = 0) /\ \A i \in 1..k : 1 + i - 1 = i
      BY <1>0
    <3> QED
      BY <3>1, <3>2, <3>3
  <2>2. Folded(SubSeq(P, 1, k)) = [i \in 1..k |-> FoldedName(P[i])]
    <3>1. DOMAIN SubSeq(P, 1, k) = 1..k
      BY <2>1, LenProperties
    <3> QED
      BY <2>1, <3>1 DEF Folded
  <2>3. SubSeq(Folded(P), 1, k) = [i \in 1..k |-> FoldedName(P[i])]
    <3>1. k \in Int /\ 1 \in Int /\ (\A i \in 1..k : i \in 1..n /\ Folded(P)[i] \in W)
      BY <1>0, <1>2, ElementOfSeq
    <3> HIDE DEF W
    <3>2. /\ SubSeq(Folded(P), 1, k) \in Seq(W)
          /\ Len(SubSeq(Folded(P), 1, k)) = IF 1 <= k THEN k - 1 + 1 ELSE 0
          /\ \A i \in 1..k - 1 + 1 : SubSeq(Folded(P), 1, k)[i] = Folded(P)[1 + i - 1]
      BY <3>1, SubSeqProperties
    <3>3. /\ k - 1 + 1 = k /\ (k < 1 => k = 0) /\ \A i \in 1..k : 1 + i - 1 = i
      BY <1>0
    <3>4. /\ Len(SubSeq(Folded(P), 1, k)) = k
          /\ \A i \in 1..k : SubSeq(Folded(P), 1, k)[i] = FoldedName(P[i])
      BY <1>1, <3>1, <3>2, <3>3
    <3>5. SubSeq(Folded(P), 1, k) = [i \in 1..k |-> SubSeq(Folded(P), 1, k)[i]]
      BY <3>2, <3>4, LenProperties
    <3> QED
      BY <3>4, <3>5
  <2> QED
    BY <2>2, <2>3
<1>4. ASSUME NEW p \in V PROVE Folded(Grown(P, p)) = Grown(Folded(P), FoldedName(p))
  <2>1. PICK Q \in Seq(V) : IsGrown(Q, P, p)
    BY GrownIs
  <2>2. PICK R \in Seq(W) : IsGrown(R, Folded(P), FoldedName(p))
    <3>1. FoldedName(p) \in W
      OBVIOUS
    <3> HIDE DEF W
    <3> QED
      BY <1>2, <3>1, GrownIs
  <2>3. /\ Q = Grown(P, p) /\ DOMAIN Q = 1..n + 1
        /\ Q[n + 1] = p /\ \A j \in 1..n : Q[j] = P[j]
    BY <2>1, LenProperties DEF IsGrown
  <2>4. /\ R = Grown(Folded(P), FoldedName(p)) /\ Len(R) = n + 1
        /\ R[n + 1] = FoldedName(p) /\ \A j \in 1..n : R[j] = FoldedName(P[j])
    BY <1>1, <1>2, <2>2 DEF IsGrown
  <2>5. Folded(Q) = [i \in 1..n + 1 |-> FoldedName(Q[i])]
    BY <2>3 DEF Folded
  <2>6. R = [i \in 1..n + 1 |-> R[i]]
    <3> HIDE DEF W
    <3> QED
      BY <2>4, LenProperties
  <2>7. \A i \in 1..n + 1 : R[i] = FoldedName(Q[i])
    <3>1. \A i \in 1..n + 1 : i \in 1..n \/ i = n + 1
      BY <1>0
    <3> QED
      BY <2>3, <2>4, <3>1
  <2>8. Folded(Q) = R
    BY <2>5, <2>6, <2>7
  <2> QED
    BY <2>3, <2>4, <2>8
<1> QED
  BY <1>0, <1>1, <1>2, <1>3, <1>4

(***************************************************************************)
(* The empty part before the first separator is no name.                   *)
(***************************************************************************)
LEMMA NonEmptyOfOneEmpty ==
  ASSUME NEW V, <<>> \in V, NEW P \in Seq(V)
  PROVE  NonEmpty(Cat(One(<<>>), P)) = NonEmpty(P)
<1>1. PICK e \in Seq(V) : e = <<>>
  BY EmptySeq
<1>2. Grown(e, <<>>) = One(<<>>) /\ One(<<>>) \in Seq(V)
  BY <1>1, GrownText
<1>3. NonEmpty(One(<<>>)) = <<>>
  BY <1>1, <1>2, NonEmptyGrows, NonEmptyOfNone
<1>4. NonEmpty(Cat(One(<<>>), P)) = Cat(NonEmpty(One(<<>>)), NonEmpty(P)) /\ NonEmpty(P) \in Seq(V)
  BY <1>2, NonEmptyCat
<1> QED
  BY <1>3, <1>4, CatIs

(***************************************************************************)
(* A path that begins with a separator.                                    *)
(***************************************************************************)
LEMMA RootedIs ==
  ASSUME NEW C, "/" \in C, NEW t \in Seq(C), t # <<>>, Head(t) = "/"
  PROVE  /\ Tail(t) \in Seq(C) /\ t = Cat(One("/"), Tail(t))
         /\ Split(t, {"/"}) = Cat(One(<<>>), Split(Tail(t), {"/"}))
         /\ Names(t) = Names(Tail(t)) /\ Joined(Split(Tail(t), {"/"})) = t
         /\ Len(Joined(Names(t))) <= Len(t)
<1>1. PICK w \in Seq(C) : w = Tail(t) /\ t = <<"/">> \o w
  <2>1. Tail(t) \in Seq(C) /\ Len(t) \in Nat \ {0}
    BY HeadTailProperties, EmptySeq
  <2>2. 1 \in 1..Len(t) /\ Len(t) \in 1..Len(t)
    BY <2>1
  <2>3. SubSeq(t, 1, Len(t)) = <<t[1]>> \o SubSeq(t, 2, Len(t))
    BY <2>2, SubSeqRecursiveFirst
  <2>4. SubSeq(t, 1, Len(t)) = t /\ Tail(t) = SubSeq(t, 2, Len(t)) /\ t[1] = "/"
    BY SubSeqFull, TailIsSubSeq
  <2> QED
    BY <2>1, <2>3, <2>4
<1>2. t = Cat(One("/"), w)
  BY <1>1 DEF Cat, One
<1>3. PICK e \in Seq(C) : e = <<>> /\ Grown(e, "/") = One("/")
  BY EmptySeq, GrownText
<1>4. PICK seps : seps = {"/"}
  OBVIOUS
<1>5. Split(t, seps) = Cat(One(<<>>), Split(w, seps))
  <2>1. "/" \in seps
    BY <1>4
  <2>2. Split(Cat(Grown(e, "/"), w), seps) = Cat(Split(e, seps), Split(w, seps))
    BY <2>1, SplitConcat
  <2>3. Split(e, seps) = One(<<>>)
    BY <1>3, SplitEmpty DEF One
  <2> QED
    BY <1>2, <1>3, <2>2, <2>3
<1> DEFINE V == Seq(C)
<1>6. Split(w, {"/"}) \in Seq(V)
  BY SplitEnds
<1>7. Names(t) = Names(w)
  <2>1. <<>> \in V
    BY EmptySeq
  <2> HIDE DEF V
  <2> QED
    BY <1>4, <1>5, <1>6, <2>1, NonEmptyOfOneEmpty DEF Names
<1>8. Joined(Split(w, {"/"})) = t
  BY <1>2, JoinedSplit
<1>9. Len(Joined(Names(w))) <= Len(Joined(Split(w, {"/"})))
  BY <1>6, JoinedNonEmptyIsShorter DEF Names
<1>10. Split(t, {"/"}) = Cat(One(<<>>), Split(Tail(t), {"/"}))
  BY <1>1, <1>4, <1>5
<1>11. Names(t) = Names(Tail(t)) /\ Joined(Split(Tail(t), {"/"})) = t
  BY <1>1, <1>7, <1>8
<1>12. Len(Joined(Names(t))) <= Len(t)
  BY <1>7, <1>8, <1>9
<1> QED
  BY <1>1, <1>2, <1>10, <1>11, <1>12, Zenon

(***************************************************************************)
(* The path made of clean names is clean and has those names.              *)
(***************************************************************************)
LEMMA CleanOfNames ==
  ASSUME NEW P \in Seq(PlainText)
  PROVE  /\ Clean(Joined(P)) /\ Names(Joined(P)) = P
         /\ Split(Joined(P), {"/"}) = Cat(One(<<>>), P)
<1> DEFINE V == Seq(CleanChar \ {"/"})
<1>1. PlainText \subseteq V /\ <<>> \notin PlainText /\ <<>> \in V
  BY EmptySeq DEF PlainText, Plain
<1>2. P \in Seq(V)
  <2> HIDE DEF V
  <2> QED
    BY <1>1, SeqMonotonic
<1>3. Split(Joined(P), {"/"}) = Cat(One(<<>>), P) /\ Joined(P) \in Seq(CleanChar)
  BY <1>2, CharIs, SplitJoined
<1>4. NonEmpty(P) = P
  BY <1>1, NonEmptyFull
<1>5. NonEmpty(Cat(One(<<>>), P)) = NonEmpty(P)
  <2> HIDE DEF V
  <2> QED
    BY <1>1, <1>2, NonEmptyOfOneEmpty
<1> QED
  BY <1>3, <1>4, <1>5 DEF Names, Clean

(***************************************************************************)
(* The path to one of the names of a path.                                 *)
(***************************************************************************)
LEMMA PrefixOfNames ==
  ASSUME NEW sub, Clean(sub), sub # <<>>, Head(sub) = "/", NEW k \in 0..Len(Names(sub))
  PROVE  LET up == Joined(SubSeq(Names(sub), 1, k))
         IN  /\ Clean(up) /\ Names(up) = SubSeq(Names(sub), 1, k)
             /\ Len(up) <= Len(sub)
<1> DEFINE c == Names(sub)
           n == Len(c)
           P == SubSeq(c, 1, k)
           R == SubSeq(c, k + 1, n)
<1>1. sub \in Seq(CleanChar) /\ c \in Seq(PlainText)
  BY CleanOnVolume
<1>2. n \in Nat /\ \A i \in 1..n : c[i] \in PlainText
  BY <1>1, LenProperties, ElementOfSeq
<1>3. P \in Seq(PlainText) /\ R \in Seq(PlainText)
  <2>1. k \in 0..n
    OBVIOUS
  <2> HIDE DEF c, n
  <2>2. k \in Int /\ 1 \in Int /\ k + 1 \in Int /\ n \in Int
    BY <1>2, <2>1
  <2>3. (\A i \in 1..k : i \in 1..n) /\ (\A i \in k + 1..n : i \in 1..n)
    BY <1>2, <2>1
  <2>4. (\A i \in 1..k : c[i] \in PlainText) /\ (\A i \in k + 1..n : c[i] \in PlainText)
    BY <1>2, <2>3, Zenon
  <2> QED
    BY <2>2, <2>4, SubSeqProperties DEF P, R
<1>4. Cat(P, R) = c
  <2>1. 1 \in 1..n + 1 /\ k \in 1 - 1..n /\ n \in k..n
    BY <1>2
  <2>2. SubSeq(c, 1, k) \o SubSeq(c, k + 1, n) = SubSeq(c, 1, n)
    BY <1>1, <2>1, ConcatAdjacentSubSeq
  <2>3. SubSeq(c, 1, n) = c
    BY <1>1, SubSeqFull
  <2> QED
    BY <2>2, <2>3 DEF Cat
<1> HIDE DEF c, P, R
<1>5. Joined(c) = Cat(Joined(P), Joined(R)) /\ Joined(P) \in Seq(CleanChar) /\ Joined(R) \in Seq(CleanChar)
  <2> DEFINE V == Seq(CleanChar)
  <2>1. PlainText \subseteq V
    <3>1. Seq(CleanChar \ {"/"}) \subseteq V
      <4>1. CleanChar \ {"/"} \subseteq CleanChar
        OBVIOUS
      <4> QED
        BY <4>1, SeqMonotonic
    <3> QED
      BY <3>1 DEF PlainText
  <2>2. P \in Seq(V) /\ R \in Seq(V)
    <3> HIDE DEF V
    <3> QED
      BY <1>3, <2>1, SeqMonotonic
  <2> QED
    BY <1>4, <2>2, CharIs, JoinedCat
<1>6. Len(Joined(P)) <= Len(Joined(c))
  <2>1. Len(Joined(c)) = Len(Joined(P)) + Len(Joined(R))
    BY <1>5, LenIs
  <2>2. Len(Joined(P)) \in Nat /\ Len(Joined(R)) \in Nat
    BY <1>5, LenIs
  <2> QED
    BY ONLY <2>1, <2>2
<1>7. Len(Joined(c)) <= Len(sub)
  BY <1>1, CharIs, RootedIs DEF c
<1>8. Len(Joined(P)) \in Nat /\ Len(Joined(c)) \in Nat /\ Len(sub) \in Nat
  <2>1. Joined(c) \in Seq(CleanChar)
    BY <1>5, CatIs
  <2> QED
    BY <1>1, <1>5, <2>1, LenProperties
<1>9. Len(Joined(P)) <= Len(sub)
  BY ONLY <1>6, <1>7, <1>8
<1> QED
  BY <1>3, <1>9, CleanOfNames DEF P, c

(***************************************************************************)
(* The beginnings of a sequence.                                           *)
(***************************************************************************)
LEMMA PrefixIs ==
  ASSUME NEW V, NEW s \in Seq(V), NEW k \in 0..Len(s)
  PROVE  /\ SubSeq(s, 1, k) \in Seq(V) /\ Len(SubSeq(s, 1, k)) = k
         /\ \A i \in 1..k : SubSeq(s, 1, k)[i] = s[i]
         /\ \A j \in 0..k : SubSeq(SubSeq(s, 1, k), 1, j) = SubSeq(s, 1, j)
         /\ k # 0 => SubSeq(s, 1, k) # <<>> /\ Last(SubSeq(s, 1, k)) = s[k]
<1>0. Len(s) \in Nat /\ k \in Nat
  BY LenProperties
<1>1. /\ SubSeq(s, 1, k) \in Seq(V) /\ Len(SubSeq(s, 1, k)) = k
      /\ \A i \in 1..k : SubSeq(s, 1, k)[i] = s[i]
  <2>1. k \in Int /\ 1 \in Int /\ (\A i \in 1..k : s[i] \in V)
    BY <1>0, ElementOfSeq
  <2>2. /\ SubSeq(s, 1, k) \in Seq(V)
        /\ Len(SubSeq(s, 1, k)) = IF 1 <= k THEN k - 1 + 1 ELSE 0
        /\ \A i \in 1..k - 1 + 1 : SubSeq(s, 1, k)[i] = s[1 + i - 1]
    BY <2>1, SubSeqProperties
  <2>3. /\ k - 1 + 1 = k /\ (k < 1 => k = 0) /\ \A i \in 1..k : 1 + i - 1 = i
    BY <1>0
  <2> QED
    BY <2>2, <2>3
<1>2. PICK u \in Seq(V) : u = SubSeq(s, 1, k) /\ Len(u) = k /\ \A i \in 1..k : u[i] = s[i]
  BY <1>1
<1>3. ASSUME NEW j \in 0..k PROVE SubSeq(u, 1, j) = SubSeq(s, 1, j)
  <2>1. \A i \in 1..j : i \in 1..k
    BY <1>0
  <2>2. \A i \in 1..j : u[i] = s[i]
    BY <1>2, <2>1
  <2> QED
    BY <1>0, <2>2
<1>4. ASSUME k # 0 PROVE u # <<>> /\ Last(u) = s[k]
  <2>1. k \in 1..k
    BY <1>0, <1>4
  <2> QED
    BY <1>2, <1>4, <2>1 DEF Last
<1> QED
  BY <1>1, <1>2, <1>3, <1>4

-----------------------------------------------------------------------------
(* Live temps are told by path.                                            *)

(***************************************************************************)
(* The last name of a live temp's path, in any spelling, has the shape of  *)
(* one.                                                                    *)
(***************************************************************************)
LEMMA LiveNameIsShaped ==
  ASSUME NEW p \in Live, NEW c \in Seq(Char), Last(p) = FoldedName(c)
  PROVE  DavTempShaped(c)
<1>1. Len(Last(p)) = 1 /\ Last(p)[1] \in {Fold[n] : n \in TempName}
  BY TempAssumption
<1>2. PICK n \in TempName : FoldedName(c)[1] = Fold[n]
  BY <1>1
<1>3. DOMAIN c = 1..Len(c) /\ Len(c) \in Nat
  BY LenProperties
<1>4. Len(c) = 1 /\ 1 \in DOMAIN c
  <2>1. FoldedName(c) = [i \in 1..Len(c) |-> IF c[i] \in Name THEN Fold[c[i]] ELSE c[i]]
    BY <1>3 DEF FoldedName
  <2>2. Len(FoldedName(c)) = Len(c)
    BY <1>3, <2>1
  <2>3. Len(FoldedName(c)) = 1
    BY <1>1
  <2>4. Len(c) = 1
    BY ONLY <2>2, <2>3
  <2>5. 1 \in 1..1
    OBVIOUS
  <2> QED
    BY ONLY <1>3, <2>4, <2>5
<1>5. FoldedName(c)[1] = IF c[1] \in Name THEN Fold[c[1]] ELSE c[1]
  BY <1>4 DEF FoldedName
<1>6. n \in Name /\ Fold[n] \in Name
  BY NameAssumption
<1>7. c[1] \in Name /\ Fold[c[1]] = Fold[n]
  BY <1>2, <1>5, <1>6
<1>8. c[1] \in TempName
  <2>1. {m \in Name : Fold[m] = Fold[n]} \subseteq TempName
    BY NameAssumption
  <2> QED
    BY <1>7, <2>1
<1> QED
  BY <1>4, <1>8 DEF DavTempShaped

(***************************************************************************)
(* What the SDK and the volume say of the paths to the names of a path.    *)
(***************************************************************************)
LEMMA StatsAre ==
  ASSUME NEW sub, Clean(sub), sub # <<>>, Head(sub) = "/", NEW k \in 1..Len(Names(sub))
  PROVE  LET up   == Joined(SubSeq(Names(sub), 1, k))
             upTo == SubSeq(OnVolume(sub), 1, k)
         IN  /\ Len(up) <= Len(sub) /\ Len(up) \in Nat
             /\ FtStat(up) <=> upTo \in Present
             /\ SdkStat(up) <=> upTo \in Present /\ ~Through(upTo, Live)
<1> DEFINE c == Names(sub)
           up == Joined(SubSeq(c, 1, k))
           upTo == SubSeq(OnVolume(sub), 1, k)
<1>1. OnVolume(sub) = Folded(c) /\ c \in Seq(PlainText)
  BY CleanOnVolume
<1>2. Len(c) \in Nat /\ k \in 0..Len(c)
  BY <1>1, LenProperties
<1>3. Clean(up) /\ Names(up) = SubSeq(c, 1, k) /\ Len(up) <= Len(sub)
  BY <1>2, PrefixOfNames
<1>4. OnVolume(up) = Folded(SubSeq(c, 1, k)) /\ Spelled(up) = Folded(SubSeq(c, 1, k))
  <2> HIDE DEF up
  <2> QED
    BY <1>3, CleanOnVolume
<1>5. Folded(SubSeq(c, 1, k)) = upTo
  BY <1>1, <1>2, FoldedIs
<1>6. Len(up) \in Nat
  <2> HIDE DEF up
  <2>1. up \in Seq(CleanChar)
    BY <1>3 DEF Clean
  <2> QED
    BY <2>1, LenProperties
<1> HIDE DEF up, upTo
<1>7. /\ FtStat(up) <=> upTo \in Present
      /\ SdkStat(up) <=> upTo \in Present /\ ~Through(upTo, Live)
  BY <1>4, <1>5, Zenon DEF FtStat, SdkStat
<1> QED
  BY <1>3, <1>6, <1>7 DEF up, upTo

(***************************************************************************)
(* dav_live_temp on a path that passed the checks: it tells the paths      *)
(* through a live temp, and no others.                                     *)
(***************************************************************************)
LEMMA DavLiveTempIs ==
  ASSUME NEW sub, Clean(sub), sub # <<>>, Head(sub) = "/", Len(sub) < PathMax
  PROVE  DavLiveTemp(sub) <=> Through(OnVolume(sub), Live)
<1> DEFINE c == Names(sub)
           F == OnVolume(sub)
           n == Len(c)
           up(k) == Joined(SubSeq(c, 1, k))
           upTo(k) == SubSeq(F, 1, k)
<1>1. F = Folded(c) /\ c \in Seq(PlainText) /\ sub \in Seq(CleanChar)
  BY CleanOnVolume
<1>2. n \in Nat /\ DOMAIN c = 1..n /\ Len(F) = n /\ \A i \in 1..n : F[i] = FoldedName(c[i])
  BY <1>1, FoldedIs, LenProperties
<1>3. PICK W : F \in Seq(W)
  <2>1. F = [i \in 1..n |-> F[i]]
    BY <1>1, <1>2, FoldedIs DEF Folded
  <2>2. F \in [1..n -> {F[i] : i \in 1..n}]
    BY <2>1
  <2>3. F \in Seq({F[i] : i \in 1..n})
    BY <1>2, <2>2, SeqDef
  <2> QED
    BY <2>3
<1>4. DavLiveTemp(sub) <=> \E k \in 1..n : /\ DavTempShaped(c[k]) /\ Len(up(k)) < PathMax
                                           /\ ~SdkStat(up(k)) /\ FtStat(up(k))
  <2>1. NonEmpty(Split(sub, UefiSeparator)) = c
    BY CleanOnVolume
  <2> QED
    BY <1>2, <2>1, Zenon DEF DavLiveTemp
<1>5. \A k \in 1..n : /\ Len(up(k)) < PathMax
                      /\ FtStat(up(k)) <=> upTo(k) \in Present
                      /\ SdkStat(up(k)) <=> upTo(k) \in Present /\ ~Through(upTo(k), Live)
  <2> SUFFICES ASSUME NEW k \in 1..n
               PROVE  /\ Len(up(k)) < PathMax
                      /\ FtStat(up(k)) <=> upTo(k) \in Present
                      /\ SdkStat(up(k)) <=> upTo(k) \in Present /\ ~Through(upTo(k), Live)
    OBVIOUS
  <2>1. /\ Len(up(k)) <= Len(sub) /\ Len(up(k)) \in Nat
        /\ FtStat(up(k)) <=> upTo(k) \in Present
        /\ SdkStat(up(k)) <=> upTo(k) \in Present /\ ~Through(upTo(k), Live)
    BY StatsAre
  <2>2. Len(sub) \in Nat /\ PathMax \in Nat
    BY <1>1, LenProperties, NameAssumption
  <2>3. Len(up(k)) < PathMax
    BY ONLY <2>1, <2>2, Len(sub) < PathMax
  <2> QED
    BY <2>1, <2>3
<1>6. \A k \in 1..n : k \in 0..Len(F) /\ k # 0
  BY <1>2
<1>7. ASSUME DavLiveTemp(sub) PROVE Through(F, Live)
  <2>1. PICK k \in 1..n : Through(upTo(k), Live)
    BY <1>4, <1>5, <1>7
  <2>2. /\ Len(upTo(k)) = k
        /\ \A j \in 0..k : SubSeq(upTo(k), 1, j) = upTo(j)
    BY <1>3, <1>6, PrefixIs
  <2>3. PICK j \in 1..k : SubSeq(upTo(k), 1, j) \in Live
    BY <2>1, <2>2 DEF Through
  <2>4. j \in 1..n /\ j \in 0..k
    BY <1>2, <2>3
  <2>5. j \in 1..Len(F) /\ SubSeq(F, 1, j) \in Live
    BY <1>2, <2>2, <2>3, <2>4
  <2> QED
    BY <2>5 DEF Through
<1>8. ASSUME Through(F, Live) PROVE DavLiveTemp(sub)
  <2>1. PICK k \in 1..n : upTo(k) \in Live
    BY <1>2, <1>8 DEF Through
  <2>2. /\ Len(upTo(k)) = k /\ Last(upTo(k)) = F[k]
        /\ \A j \in 0..k : SubSeq(upTo(k), 1, j) = upTo(j)
    BY <1>3, <1>6, PrefixIs
  <2>3. DavTempShaped(c[k])
    <3>1. c[k] \in PlainText
      BY <1>1, ElementOfSeq
    <3>2. c[k] \in Seq(Char)
      <4>1. c[k] \in Seq(CleanChar \ {"/"}) /\ CleanChar \ {"/"} \subseteq Char
        BY <3>1, CharIs DEF PlainText
      <4> QED
        BY <4>1, SeqMonotonic
    <3>3. Last(upTo(k)) = FoldedName(c[k])
      BY <1>2, <2>2
    <3> HIDE DEF upTo, c
    <3> QED
      BY <2>1, <3>2, <3>3, LiveNameIsShaped
  <2>4. upTo(k) \in Present
    BY <2>1, TempAssumption
  <2>5. Through(upTo(k), Live)
    <3>1. k \in 1..k /\ k \in 0..k
      BY <1>2
    <3>2. SubSeq(upTo(k), 1, k) \in Live
      BY <2>1, <2>2, <3>1
    <3> HIDE DEF upTo
    <3> QED
      BY <2>2, <3>1, <3>2 DEF Through
  <2> HIDE DEF up, upTo, c
  <2> QED
    BY <1>4, <1>5, <2>3, <2>4, <2>5
<1> QED
  BY <1>7, <1>8

(***************************************************************************)
(* The path behind the volume's name begins with a separator.              *)
(***************************************************************************)
LEMMA SubPathIsRooted ==
  ASSUME NEW text \in Seq(Char), SubPath(text) # <<>>
  PROVE  Head(SubPath(text)) = "/"
<1> DEFINE u == Unslashed(text)
<1>1. u \in Seq(Char) /\ Len(u) \in Nat
  <2>1. CASE text # <<>> /\ Head(text) = "/"
    BY <2>1, HeadTailProperties, LenProperties DEF Unslashed
  <2>2. CASE ~(text # <<>> /\ Head(text) = "/")
    BY <2>2, LenProperties DEF Unslashed
  <2> QED
    BY <2>1, <2>2
<1>2. PICK e \in 1..Len(u) + 1 : /\ UpTo(u, {"/"}) = SubSeq(u, 1, e - 1)
                                 /\ e = Len(u) + 1 \/ u[e] \in {"/"}
  BY <1>1, PartIs DEF UpTo
<1>3. SubPath(text) = SubSeq(u, e, Len(u))
  <2>1. e - 1 \in 0..Len(u)
    BY <1>1, <1>2
  <2>2. Len(SubSeq(u, 1, e - 1)) = e - 1
    BY <1>1, <2>1, PrefixIs
  <2>3. e - 1 + 1 = e
    BY <1>1, <1>2
  <2> QED
    BY <1>2, <2>2, <2>3 DEF SubPath, From
<1>4. e # Len(u) + 1
  <2> SUFFICES ASSUME e = Len(u) + 1 PROVE FALSE
    OBVIOUS
  <2> QED
    BY <1>1, <1>3, SubSeqEmpty
<1>5. e \in 1..Len(u) /\ Len(u) \in e..Len(u) /\ u[e] = "/"
  BY <1>1, <1>2, <1>4
<1>6. Head(SubSeq(u, e, Len(u))) = u[e]
  BY <1>1, <1>5, HeadTailOfSubSeq
<1> QED
  BY <1>3, <1>5, <1>6

(***************************************************************************)
(* What the two surfaces accept is clean, rooted and fits.                 *)
(***************************************************************************)
LEMMA AcceptedPathIs ==
  ASSUME NEW text \in Seq(Char), NEW parsed \in {ParseVolumePath(text), ParseDavPath(text)},
         parsed.kind = "ok"
  PROVE  /\ Clean(parsed.sub) /\ parsed.sub # <<>> /\ Head(parsed.sub) = "/"
         /\ Len(parsed.sub) < PathMax
<1> DEFINE sub == SubPath(text)
<1>1. /\ parsed.sub = IF sub = <<>> THEN <<"/">> ELSE sub
      /\ UefiFree(parsed.sub) /\ PathComponentsOk(parsed.sub)
  BY AcceptedIs
<1>2. sub \in Seq(Char) /\ Len(sub) \in Nat
  BY PathParts, LenProperties
<1>3. parsed.sub \in Seq(Char) /\ parsed.sub # <<>> /\ Head(parsed.sub) = "/"
  <2>1. CASE sub = <<>>
    <3>1. parsed.sub = <<"/">>
      BY <1>1, <2>1
    <3>2. <<"/">> # <<>> /\ Head(<<"/">>) = "/"
      OBVIOUS
    <3> QED
      BY <3>1, <3>2, SlashIs
  <2>2. CASE sub # <<>>
    BY <1>1, <1>2, <2>2, SubPathIsRooted
  <2> QED
    BY <2>1, <2>2
<1>4. Clean(parsed.sub)
  BY <1>1, <1>3, CleanIs
<1>5. Len(parsed.sub) < PathMax
  <2>1. CASE sub = <<>>
    <3>1. parsed.sub = <<"/">>
      BY <1>1, <2>1
    <3>2. VolMax \in Nat /\ PathMax \in Nat /\ VolMax + 1 < PathMax
      BY NameAssumption
    <3>3. VolMax # 0
      <4>1. VolumeName(text) \in Seq(Char) /\ Len(VolumeName(text)) \in Nat
        BY PathParts, LenProperties
      <4>2. IsVolume(VolumeName(text), Volume) \/ IsVolume(VolumeName(text), Rooted)
        <5> SUFFICES ASSUME ~IsVolume(VolumeName(text), Volume), ~IsVolume(VolumeName(text), Rooted)
                     PROVE  parsed.kind # "ok"
          OBVIOUS
        <5>1. \A why \in {"too long", "bad", "no volume", "root", "invalid"} : Refused(why).kind # "ok"
          BY DEF Refused
        <5>2. ParseVolumePath(text) \in {Refused("too long"), Refused("bad"), Refused("no volume")}
          BY Zenon DEF ParseVolumePath
        <5>3. ParseDavPath(text) \in {Refused("root"), Refused("invalid")}
          BY Zenon DEF ParseDavPath
        <5> QED
          BY <5>1, <5>2, <5>3
      <4>3. Len(VolumeName(text)) < VolMax
        BY <4>2 DEF IsVolume
      <4> QED
        BY ONLY <3>2, <4>1, <4>3
    <3>4. 1 < PathMax
      BY ONLY <3>2, <3>3
    <3> QED
      BY <3>1, <3>4, SlashIs
  <2>2. CASE sub # <<>>
    <3>1. parsed.sub = sub
      BY <1>1, <2>2
    <3>2. ~ (Len(sub) >= PathMax)
      <4> SUFFICES ASSUME Len(sub) >= PathMax PROVE parsed.kind # "ok"
        OBVIOUS
      <4>1. \A why \in {"too long", "bad", "no volume", "root", "invalid"} : Refused(why).kind # "ok"
        BY DEF Refused
      <4>2. ParseVolumePath(text) \in {Refused("too long"), Refused("bad"), Refused("no volume")}
        BY <2>2 DEF ParseVolumePath
      <4>3. ParseDavPath(text) \in {Refused("root"), Refused("invalid"), Refused("bad")}
        BY <2>2 DEF ParseDavPath
      <4> QED
        BY <4>1, <4>2, <4>3
    <3>3. PathMax \in Nat
      BY NameAssumption
    <3> QED
      BY <1>2, <3>1, <3>2, <3>3
  <2> QED
    BY <2>1, <2>2
<1> QED
  BY <1>3, <1>4, <1>5

(***************************************************************************)
(* dav_live_temp on every path a client can send: of those that are        *)
(* accepted it tells the ones through a live temp, under any spelling, and *)
(* no others.                                                              *)
(***************************************************************************)
THEOREM LiveTempsAreToldOnAll == \A text \in Seq(Char) : LiveTempIsTold(text)
<1> SUFFICES ASSUME NEW text \in Seq(Char),
                    NEW parsed \in {ParseVolumePath(text), ParseDavPath(text)},
                    parsed.kind = "ok"
             PROVE  DavLiveTemp(parsed.sub) <=> Through(OnVolume(parsed.sub), Live)
  BY DEF LiveTempIsTold
<1>1. PICK sub : sub = parsed.sub
  OBVIOUS
<1>2. Clean(sub) /\ sub # <<>> /\ Head(sub) = "/" /\ Len(sub) < PathMax
  BY <1>1, AcceptedPathIs
<1>3. DavLiveTemp(sub) <=> Through(OnVolume(sub), Live)
  BY <1>2, DavLiveTempIs
<1> QED
  BY <1>1, <1>3

-----------------------------------------------------------------------------
(* Live temps are hidden in listings.                                      *)

(***************************************************************************)
(* A text of one character.                                                *)
(***************************************************************************)
LEMMA OneText ==
  ASSUME NEW C, NEW c \in C
  PROVE  One(c) \in Seq(C)
BY DEF One

(***************************************************************************)
(* A name of an entry passes the checks.                                   *)
(***************************************************************************)
LEMMA NameIsPlain ==
  ASSUME NEW n \in Name
  PROVE  /\ One(n) \in PlainText /\ One(n) \in Seq(CleanChar \ {"/"})
         /\ One(n) # <<>> /\ n \in CleanChar /\ (DavTempShaped(One(n)) <=> n \in TempName)
         /\ FoldedName(One(n)) = One(Fold[n])
<1>1. n \in CleanChar \ {"/"} /\ n \in CleanChar
  BY CharIs
<1>2. One(n) \in Seq(CleanChar \ {"/"})
  BY <1>1, OneText
<1>3. One(n) # <<>> /\ Head(One(n)) = n /\ Last(One(n)) = n /\ Len(One(n)) = 1 /\ One(n)[1] = n
  BY DEF One, Last
<1>4. n # "SP" /\ n \notin {"SP", "."}
  BY NameAssumption
<1>5. FoldedName(One(n)) = One(Fold[n])
  <2>1. DOMAIN One(n) = 1..1
    BY DEF One
  <2>2. FoldedName(One(n)) = [i \in 1..1 |-> Fold[n]]
    BY <1>3, <2>1 DEF FoldedName
  <2>3. [i \in 1..1 |-> Fold[n]] = <<Fold[n]>>
    OBVIOUS
  <2> QED
    BY <2>2, <2>3 DEF One
<1>6. DavTempShaped(One(n)) <=> n \in TempName
  BY <1>3 DEF DavTempShaped
<1>7. One(n) \in PlainText
  BY <1>2, <1>3, <1>4 DEF PlainText, Plain
<1> QED
  BY <1>1, <1>2, <1>3, <1>5, <1>6, <1>7

(***************************************************************************)
(* The names of a path with a separator and one more name.                 *)
(***************************************************************************)
LEMMA NamesGrow ==
  ASSUME NEW s \in Seq(CleanChar), NEW n \in Name
  PROVE  /\ Names(Grown(s, "/")) = Names(s)
         /\ Names(Cat(Grown(s, "/"), One(n))) = Grown(Names(s), One(n))
<1>1. PICK V : V = Seq(CleanChar)
  OBVIOUS
<1>2. "/" \in CleanChar
  BY CharIs
<1>3. One(n) \in Seq(CleanChar \ {"/"}) /\ One(n) # <<>> /\ n \in CleanChar /\ One(n) \in V
  <2>1. n \in CleanChar /\ One(n) \in Seq(CleanChar \ {"/"}) /\ One(n) # <<>>
    BY NameIsPlain
  <2>2. One(n) \in Seq(CleanChar)
    BY <2>1, GrownText
  <2> QED
    BY <1>1, <2>1, <2>2
<1>4. PICK seps : seps = {"/"}
  OBVIOUS
<1>5. PICK P \in Seq(V), p \in V : Split(s, seps) = Grown(P, p)
  BY <1>1, SplitEnds
<1>6. <<>> \in V /\ Grown(P, p) \in Seq(V)
  <2>1. <<>> \in V
    BY <1>1
  <2>2. Grown(P, p) \in Seq(V)
    BY GrownText
  <2> QED
    BY <2>1, <2>2
<1>7. Names(Grown(s, "/")) = Names(s)
  <2>1. "/" \in seps
    BY <1>4
  <2>2. Split(Grown(s, "/"), seps) = Grown(Grown(P, p), <<>>)
    BY <1>1, <1>2, <1>5, <2>1, SplitGrows
  <2>3. NonEmpty(Grown(Grown(P, p), <<>>)) = NonEmpty(Grown(P, p))
    BY <1>6, NonEmptyGrows
  <2> QED
    BY <1>4, <1>5, <2>2, <2>3 DEF Names
<1>8. Names(Cat(Grown(s, "/"), One(n))) = Grown(Names(s), One(n))
  <2>1. "/" \in seps
    BY <1>4
  <2>2. One(n) \in Seq(CleanChar)
    BY <1>1, <1>3
  <2>3. Split(Cat(Grown(s, "/"), One(n)), seps) = Cat(Split(s, seps), Split(One(n), seps))
    BY <1>2, <2>1, <2>2, SplitConcat
  <2>4. Split(One(n), seps) = One(One(n))
    BY <1>3, <1>4, SplitOne
  <2>5. Cat(Grown(P, p), One(One(n))) = Grown(Grown(P, p), One(n))
    BY <1>3, <1>6, GrownText
  <2>6. NonEmpty(Grown(Grown(P, p), One(n))) = Grown(NonEmpty(Grown(P, p)), One(n))
    BY <1>3, <1>6, NonEmptyGrows
  <2> QED
    BY <1>4, <1>5, <2>3, <2>4, <2>5, <2>6 DEF Names
<1> QED
  BY <1>7, <1>8

\* The path dav_hidden_child makes of a directory and an entry.
ChildPath(sub, n) == Cat(Cat(sub, IF Last(sub) = "/" THEN <<>> ELSE One("/")), One(n))

LEMMA ChildPathIs ==
  ASSUME NEW sub, Clean(sub), sub # <<>>, Head(sub) = "/", NEW n \in Name
  PROVE  LET x == ChildPath(sub, n)
         IN  /\ Clean(x) /\ x # <<>> /\ Head(x) = "/"
             /\ Names(x) = Grown(Names(sub), One(n))
             /\ x \in Seq(CleanChar) /\ Len(x) \in Nat /\ Len(x) <= Len(sub) + 2
<1> DEFINE x == ChildPath(sub, n)
<1>1. sub \in Seq(CleanChar) /\ Names(sub) \in Seq(PlainText) /\ "/" \in CleanChar /\ n \in CleanChar
  BY CharIs DEF Clean
<1>2. One(n) \in Seq(CleanChar) /\ One("/") \in Seq(CleanChar) /\ One(n) \in PlainText
  <2>1. One(n) \in PlainText
    BY NameIsPlain
  <2>2. One("/") \in Seq(CleanChar)
    BY <1>1, GrownText
  <2>3. One(n) \in Seq(CleanChar)
    BY <1>1, GrownText
  <2> QED
    BY <2>1, <2>2, <2>3
<1>3. \E s \in Seq(CleanChar) : x = Cat(Grown(s, "/"), One(n)) /\ Names(s) = Names(sub) /\ Len(s) <= Len(sub)
  <2>1. CASE Last(sub) = "/"
    <3>1. PICK s \in Seq(CleanChar), c \in CleanChar : sub = Grown(s, c)
      BY <1>1, EmptyOrGrown
    <3>2. c = "/" /\ Len(s) <= Len(sub)
      <4>1. PICK u \in Seq(CleanChar) : IsGrown(u, s, c)
        BY GrownIs
      <4>2. Len(s) \in Nat
        BY LenProperties
      <4>3. Last(u) = c /\ Len(s) <= Len(u)
        BY <4>1, <4>2 DEF IsGrown, Last
      <4>4. u = sub
        BY <3>1, <4>1 DEF IsGrown
      <4> QED
        BY <2>1, <4>3, <4>4
    <3>3. Cat(sub, <<>>) = sub
      BY <1>1, CatIs
    <3>4. Names(s) = Names(sub)
      BY <3>1, <3>2, NamesGrow
    <3> QED
      BY <2>1, <3>1, <3>2, <3>3, <3>4 DEF ChildPath
  <2>2. CASE Last(sub) # "/"
    <3>1. Cat(sub, One("/")) = Grown(sub, "/")
      BY <1>1, GrownText
    <3>2. Len(sub) \in Nat
      BY <1>1, LenProperties
    <3> QED
      BY <1>1, <2>2, <3>1, <3>2 DEF ChildPath
  <2> QED
    BY <2>1, <2>2
<1>4. PICK s \in Seq(CleanChar) : /\ x = Cat(Grown(s, "/"), One(n)) /\ Names(s) = Names(sub)
                                   /\ Len(s) <= Len(sub)
  BY <1>3
<1>5. Names(x) = Grown(Names(sub), One(n))
  BY <1>4, NamesGrow
<1>6. Grown(s, "/") \in Seq(CleanChar)
  BY <1>1, GrownText
<1>7. x \in Seq(CleanChar)
  BY <1>2, <1>4, <1>6, CatIs
<1>8. Grown(Names(sub), One(n)) \in Seq(PlainText)
  BY <1>1, <1>2, GrownText
<1>9. Len(x) = Len(s) + 1 + 1 /\ Len(s) \in Nat /\ Len(sub) \in Nat
  <2>1. Len(x) = Len(Grown(s, "/")) + Len(One(n))
    BY <1>2, <1>4, <1>6, LenIs
  <2>2. Len(Grown(s, "/")) = Len(s) + 1
    BY <1>1, LenIs
  <2>3. Len(One(n)) = 1
    BY DEF One
  <2>4. Len(s) \in Nat /\ Len(sub) \in Nat
    BY <1>1, LenProperties
  <2> QED
    BY <2>1, <2>2, <2>3, <2>4
<1>10. x # <<>> /\ Head(x) = "/"
  <2>1. \E r \in Seq(CleanChar) : x = Cat(sub, r)
    <3>1. CASE Last(sub) = "/"
      <4>1. Cat(sub, <<>>) = sub
        BY <1>1, CatIs
      <4> QED
        BY <1>2, <3>1, <4>1 DEF ChildPath
    <3>2. CASE Last(sub) # "/"
      <4>1. Cat(Cat(sub, One("/")), One(n)) = Cat(sub, Cat(One("/"), One(n)))
        BY <1>1, <1>2, CatIs
      <4>2. Cat(One("/"), One(n)) \in Seq(CleanChar)
        BY <1>2, CatIs
      <4> QED
        BY <3>2, <4>1, <4>2 DEF ChildPath
    <3> QED
      BY <3>1, <3>2
  <2>2. PICK r \in Seq(CleanChar) : x = Cat(sub, r)
    BY <2>1
  <2>3. sub[1] = "/" /\ Len(sub) > 0 /\ 1 \in 1..Len(sub)
    BY <1>1
  <2>4. (sub \o r)[1] = sub[1] /\ Len(sub \o r) = Len(sub) + Len(r) /\ Len(r) \in Nat /\ Len(sub) \in Nat
    BY <1>1, <2>3, ConcatProperties, LenProperties
  <2>5. (sub \o r) # <<>> /\ Head(sub \o r) = "/"
    <3>1. sub \o r \in Seq(CleanChar)
      BY <1>1, ConcatProperties
    <3>2. Len(sub \o r) # 0
      BY <2>3, <2>4
    <3>3. \A q \in Seq(CleanChar) : Len(q) # 0 /\ q[1] = "/" => q # <<>> /\ Head(q) = "/"
      OBVIOUS
    <3> QED
      BY <2>3, <2>4, <3>1, <3>2, <3>3
  <2> QED
    BY <2>2, <2>5 DEF Cat
<1>11. Clean(x) /\ Len(x) \in Nat /\ Len(x) <= Len(sub) + 2
  <2>1. Clean(x)
    BY <1>5, <1>7, <1>8 DEF Clean
  <2>2. Len(x) \in Nat /\ Len(x) <= Len(sub) + 2
    BY ONLY <1>4, <1>9
  <2> QED
    BY <2>1, <2>2
<1> HIDE DEF x
<1> QED
  BY <1>5, <1>7, <1>10, <1>11 DEF x

(***************************************************************************)
(* dav_hidden_child on a directory that passed the checks.                 *)
(***************************************************************************)
LEMMA HiddenChildIs ==
  ASSUME NEW sub, Clean(sub), sub # <<>>, Head(sub) = "/", Len(sub) + 2 < PathMax, NEW n \in Name,
         ~Through(OnVolume(sub), Live)
  PROVE  HiddenChild(sub, One(n)) <=> Grown(OnVolume(sub), One(Fold[n])) \in Live
<1> DEFINE child == Grown(OnVolume(sub), One(Fold[n]))
<1>1. PICK x : x = ChildPath(sub, n)
  OBVIOUS
<1>2. /\ Clean(x) /\ x # <<>> /\ Head(x) = "/" /\ Names(x) = Grown(Names(sub), One(n))
      /\ x \in Seq(CleanChar) /\ Len(x) \in Nat /\ Len(x) <= Len(sub) + 2
  BY <1>1, ChildPathIs
<1>3. Len(sub) \in Nat /\ PathMax \in Nat
  <2>1. sub \in Seq(CleanChar)
    BY DEF Clean
  <2> QED
    BY <2>1, LenProperties, NameAssumption
<1>4. Len(x) < PathMax /\ ~(PathMax - 1 < Len(x))
  BY ONLY <1>2, <1>3, Len(sub) + 2 < PathMax
<1>5. HiddenChild(sub, One(n)) <=> DavTempShaped(One(n)) /\ DavLiveTemp(x)
  <2>1. Cut(x, PathMax - 1) = x
    <3>1. SubSeq(x, 1, Len(x)) = x
      BY <1>2, SubSeqFull
    <3> QED
      BY <1>4, <3>1 DEF Cut
  <2>2. sub \o (IF Last(sub) = "/" THEN <<>> ELSE <<"/">>) \o One(n) = x
    BY <1>1, Zenon DEF ChildPath, Cat, One
  <2> QED
    BY <2>1, <2>2, Zenon DEF HiddenChild
<1>6. DavLiveTemp(x) <=> Through(OnVolume(x), Live)
  BY <1>2, <1>4, DavLiveTempIs
<1>7. OnVolume(sub) = Folded(Names(sub)) /\ Names(sub) \in Seq(PlainText)
  BY CleanOnVolume
<1>8. OnVolume(x) = child
  <2>1. OnVolume(x) = Folded(Names(x))
    BY <1>2, CleanOnVolume
  <2>2. One(n) \in PlainText /\ FoldedName(One(n)) = One(Fold[n])
    BY NameIsPlain
  <2>3. Folded(Grown(Names(sub), One(n))) = Grown(Folded(Names(sub)), FoldedName(One(n)))
    BY <1>7, <2>2, FoldedIs
  <2> QED
    BY <1>2, <1>7, <2>1, <2>2, <2>3
<1>9. PICK W : OnVolume(sub) \in Seq(W) /\ One(Fold[n]) \in W
  <2> DEFINE F == Folded(Names(sub))
             m == Len(Names(sub))
             W == {F[i] : i \in 1..m} \cup {One(Fold[n])}
  <2>1. Len(F) = m /\ DOMAIN F = 1..m /\ m \in Nat
    BY <1>7, FoldedIs
  <2>2. F = [i \in 1..m |-> F[i]]
    BY <2>1 DEF Folded
  <2>3. F \in [1..m -> W]
    BY <2>2
  <2>4. F \in Seq(W)
    BY <2>1, <2>3, SeqDef
  <2> QED
    BY <1>7, <2>4
<1>10. PICK G \in Seq(W) : G = OnVolume(sub)
  BY <1>9
<1>11. PICK D \in Seq(W) : IsGrown(D, G, One(Fold[n]))
  BY <1>9, GrownIs
<1>12. D = child /\ Len(D) = Len(G) + 1 /\ Len(G) \in Nat /\ Len(D) \in 0..Len(D) /\ Len(G) \in 0..Len(D)
  <2>1. Len(G) \in Nat
    BY LenProperties
  <2>2. D = child /\ Len(D) = Len(G) + 1
    BY <1>10, <1>11 DEF IsGrown
  <2> QED
    BY <2>1, <2>2
<1>13. SubSeq(D, 1, Len(D)) = D /\ SubSeq(D, 1, Len(G)) = G
  <2>1. SubSeq(D, 1, Len(D)) = D
    BY SubSeqFull
  <2>2. SubSeq(D, 1, Len(G)) \in Seq(W) /\ Len(SubSeq(D, 1, Len(G))) = Len(G)
        /\ \A i \in 1..Len(G) : SubSeq(D, 1, Len(G))[i] = D[i]
    BY <1>12, PrefixIs
  <2>3. \A i \in 1..Len(G) : D[i] = G[i]
    BY <1>11 DEF IsGrown
  <2>4. SubSeq(D, 1, Len(G)) = G
    BY <2>2, <2>3, SeqEqual
  <2> QED
    BY <2>1, <2>4
<1>14. \A j \in 0..Len(G) : SubSeq(D, 1, j) = SubSeq(G, 1, j)
  <2> SUFFICES ASSUME NEW j \in 0..Len(G) PROVE SubSeq(D, 1, j) = SubSeq(G, 1, j)
    OBVIOUS
  <2>1. SubSeq(SubSeq(D, 1, Len(G)), 1, j) = SubSeq(D, 1, j)
    BY <1>12, PrefixIs
  <2> QED
    BY <1>13, <2>1
<1>15. Through(D, Live) <=> D \in Live
  <2>1. ASSUME D \in Live PROVE Through(D, Live)
    <3>1. Len(D) \in 1..Len(D)
      BY <1>12
    <3> QED
      BY <1>13, <2>1, <3>1 DEF Through
  <2>2. ASSUME Through(D, Live) PROVE D \in Live
    <3>1. PICK k \in 1..Len(D) : SubSeq(D, 1, k) \in Live
      BY <2>2 DEF Through
    <3>2. CASE k = Len(D)
      BY <1>13, <3>1, <3>2
    <3>3. CASE k # Len(D)
      <4>1. k \in 1..Len(G) /\ k \in 0..Len(G)
        BY <1>12, <3>3
      <4>2. SubSeq(G, 1, k) \in Live
        BY <1>14, <3>1, <4>1
      <4>3. Through(G, Live)
        BY <4>1, <4>2 DEF Through
      <4> QED
        BY <1>10, <4>3
    <3> QED
      BY <3>2, <3>3
  <2> QED
    BY <2>1, <2>2
<1>16. ASSUME D \in Live PROVE DavTempShaped(One(n))
  <2>1. Last(D) = FoldedName(One(n))
    <3>1. D[Len(G) + 1] = One(Fold[n])
      BY <1>11 DEF IsGrown
    <3>2. FoldedName(One(n)) = One(Fold[n])
      BY NameIsPlain
    <3> QED
      BY <1>12, <3>1, <3>2 DEF Last
  <2>2. One(n) \in Seq(Char)
    <3>1. n \in Char
      BY CharIs
    <3> QED
      BY <3>1, OneText
  <2> QED
    BY <1>16, <2>1, <2>2, LiveNameIsShaped
<1> HIDE DEF child
<1>17. DavLiveTemp(x) <=> D \in Live
  BY <1>6, <1>8, <1>12, <1>15
<1> QED
  BY <1>5, <1>12, <1>16, <1>17 DEF child

(***************************************************************************)
(* dav_hidden_child on every accepted directory.                           *)
(***************************************************************************)
THEOREM LiveTempsAreHiddenOnAll == \A text \in Seq(Char) : LiveTempIsHidden(text)
<1> SUFFICES ASSUME NEW text \in Seq(Char),
                    NEW parsed \in {ParseVolumePath(text), ParseDavPath(text)}, NEW n \in Name,
                    parsed.kind = "ok", ~Through(OnVolume(parsed.sub), Live),
                    Len(parsed.sub) + 2 < PathMax
             PROVE  HiddenChild(parsed.sub, <<n>>) <=> Append(OnVolume(parsed.sub), <<Fold[n]>>) \in Live
  BY Zenon DEF LiveTempIsHidden
<1>1. PICK sub : sub = parsed.sub
  OBVIOUS
<1>2. Clean(sub) /\ sub # <<>> /\ Head(sub) = "/"
  BY <1>1, AcceptedPathIs
<1>3. HiddenChild(sub, One(n)) <=> Grown(OnVolume(sub), One(Fold[n])) \in Live
  BY <1>1, <1>2, HiddenChildIs
<1> QED
  BY <1>1, <1>3, Zenon DEF One, Grown

(***************************************************************************)
(* For every path a client can send: a request for a live temp of a PUT,   *)
(* or for something below it, is told from every other (dav_live_temp),    *)
(* and the listing of a directory hides the live temps in it and nothing   *)
(* else (dav_hidden_child).                                                *)
(***************************************************************************)
THEOREM LiveTempsAreToldHolds == PathSpec => []LiveTempsAreTold
<1>1. PathIsText => LiveTempsAreTold
  BY LiveTempsAreToldOnAll, LiveTempsAreHiddenOnAll DEF PathIsText, LiveTempsAreTold
<1> QED
  BY <1>1, PathStaysText, PTL

-----------------------------------------------------------------------------
(* UpTo and From, one character more.                                      *)

(***************************************************************************)
(* The characters up to a stop, and those from it on, with one character   *)
(* more.                                                                   *)
(***************************************************************************)
LEMMA UpToGrows ==
  ASSUME NEW C, NEW t \in Seq(C), NEW seps
  PROVE  /\ UpTo(t, seps) \in Seq(C) /\ From(t, seps) \in Seq(C)
         /\ \A c \in C :
              /\ UpTo(Grown(t, c), seps) =
                   IF c \in seps \/ From(t, seps) # <<>> THEN UpTo(t, seps)
                   ELSE Grown(UpTo(t, seps), c)
              /\ From(Grown(t, c), seps) =
                   IF c \notin seps /\ From(t, seps) = <<>> THEN <<>>
                   ELSE Grown(From(t, seps), c)
<1>0. Len(t) \in Nat /\ 0 \in 0..Len(t)
  BY LenProperties
<1>1. PICK e \in 1..Len(t) + 1 : /\ UpTo(t, seps) = SubSeq(t, 1, e - 1)
                                 /\ \A j \in 1..e - 1 : t[j] \notin seps
                                 /\ e = Len(t) + 1 \/ t[e] \in seps
  <2>1. \E e \in 0 + 1..Len(t) + 1 :
           /\ PartAfter(t, seps, 0) = SubSeq(t, 0 + 1, e - 1)
           /\ \A j \in 0 + 1..e - 1 : t[j] \notin seps
           /\ e = Len(t) + 1 \/ t[e] \in seps
    BY <1>0, PartIs
  <2> QED
    BY <2>1 DEF UpTo
<1>2. e - 1 \in 0..Len(t) /\ e - 1 + 1 = e /\ e \in Nat
  BY <1>0, <1>1
<1>3. UpTo(t, seps) \in Seq(C) /\ Len(UpTo(t, seps)) = e - 1
  BY <1>1, <1>2, PrefixIs
<1>4. From(t, seps) = SubSeq(t, e, Len(t))
  BY <1>2, <1>3 DEF From
<1>5. From(t, seps) \in Seq(C) /\ (From(t, seps) = <<>> <=> e = Len(t) + 1)
  <2>1. CASE e = Len(t) + 1
    <3>1. SubSeq(t, e, Len(t)) = <<>>
      BY <1>0, <2>1, SubSeqEmpty
    <3>2. <<>> \in Seq(C)
      OBVIOUS
    <3> QED
      BY <1>4, <2>1, <3>1, <3>2
  <2>2. CASE e # Len(t) + 1
    <3>1. e \in 1..Len(t)
      BY <1>0, <1>1, <2>2
    <3>2. SubSeq(t, e, Len(t)) \in Seq(C) /\ Len(SubSeq(t, e, Len(t))) = Len(t) - e + 1
      BY <1>0, <3>1, SubSeqProperties
    <3>3. Len(SubSeq(t, e, Len(t))) # 0
      BY <1>0, <3>1, <3>2
    <3>4. Len(<<>>) = 0
      OBVIOUS
    <3> QED
      BY <1>4, <2>2, <3>2, <3>3, <3>4
  <2> QED
    BY <2>1, <2>2
<1>6. HasMore(t, seps, 0) <=> e # Len(t) + 1
  <2>1. ASSUME e # Len(t) + 1 PROVE HasMore(t, seps, 0)
    <3>1. e \in 0 + 1..Len(t) /\ t[e] \in seps
      BY <1>0, <1>1, <2>1
    <3> QED
      BY <3>1 DEF HasMore
  <2>2. ASSUME e = Len(t) + 1, HasMore(t, seps, 0) PROVE FALSE
    <3>1. PICK j \in 0 + 1..Len(t) : t[j] \in seps
      BY <2>2 DEF HasMore
    <3>2. j \in 1..e - 1
      BY <1>0, <2>2, <3>1
    <3> QED
      BY <1>1, <3>1, <3>2
  <2> QED
    BY <2>1, <2>2
<1>7. SUFFICES ASSUME NEW c \in C
               PROVE  /\ UpTo(Grown(t, c), seps) =
                           IF c \in seps \/ From(t, seps) # <<>> THEN UpTo(t, seps)
                           ELSE Grown(UpTo(t, seps), c)
                      /\ From(Grown(t, c), seps) =
                           IF c \notin seps /\ From(t, seps) = <<>> THEN <<>>
                           ELSE Grown(From(t, seps), c)
  BY <1>3, <1>5
<1>8. UpTo(Grown(t, c), seps) =
        IF c \in seps \/ From(t, seps) # <<>> THEN UpTo(t, seps) ELSE Grown(UpTo(t, seps), c)
  BY <1>0, <1>5, <1>6, PartGrows DEF UpTo
<1>9. PICK u \in Seq(C) : IsGrown(u, t, c)
  BY GrownIs
<1>10. u = Grown(t, c) /\ Len(u) = Len(t) + 1 /\ Len(u) \in Nat
  BY <1>0, <1>9 DEF IsGrown
<1>11. From(Grown(t, c), seps) =
         IF c \notin seps /\ From(t, seps) = <<>> THEN <<>> ELSE Grown(From(t, seps), c)
  <2>1. CASE c \notin seps /\ From(t, seps) = <<>>
    <3>1. UpTo(u, seps) = Grown(UpTo(t, seps), c)
      BY <1>8, <1>10, <2>1
    <3>2. Len(Grown(UpTo(t, seps), c)) = Len(UpTo(t, seps)) + 1
      BY <1>3, LenIs
    <3>3. Len(UpTo(u, seps)) = e
      BY <1>2, <1>3, <3>1, <3>2
    <3>4. e = Len(u)
      BY <1>5, <1>10, <2>1
    <3>5. SubSeq(u, e + 1, Len(u)) = <<>>
      <4>1. e + 1 \in Nat /\ e + 1 > Len(u)
        BY ONLY <1>2, <3>4, <1>10
      <4> QED
        BY <1>10, <4>1, SubSeqEmpty
    <3>6. From(u, seps) = <<>>
      BY <3>3, <3>5 DEF From
    <3> QED
      BY <1>10, <2>1, <3>6
  <2>2. CASE ~(c \notin seps /\ From(t, seps) = <<>>)
    <3>1. UpTo(u, seps) = UpTo(t, seps)
      BY <1>8, <1>10, <2>2
    <3>2. From(u, seps) = SubSeq(u, e, Len(u))
      BY <1>2, <1>3, <3>1 DEF From
    <3>3. PICK r \in Seq(C) : r = From(t, seps)
      BY <1>5
    <3>4. PICK w \in Seq(C) : IsGrown(w, r, c)
      BY GrownIs
    <3>5. Len(r) = Len(t) - (e - 1) /\ \A j \in 1..Len(r) : r[j] = t[e + j - 1]
      <4>1. CASE e = Len(t) + 1
        <5>1. r = <<>> /\ Len(r) = 0
          BY <1>5, <3>3, <4>1
        <5>2. \A j \in 1..0 : FALSE
          OBVIOUS
        <5> QED
          BY <1>0, <4>1, <5>1, <5>2
      <4>2. CASE e # Len(t) + 1
        <5>1. e \in 1..Len(t)
          BY <1>0, <1>1, <4>2
        <5>2. Len(SubSeq(t, e, Len(t))) = Len(t) - e + 1
              /\ \A j \in 1..Len(t) - e + 1 : SubSeq(t, e, Len(t))[j] = t[e + j - 1]
          BY <1>0, <5>1, SubSeqProperties
        <5>3. Len(t) - e + 1 = Len(t) - (e - 1)
          BY <1>0, <1>2
        <5> QED
          BY <1>4, <3>3, <5>2, <5>3
      <4> QED
        BY <4>1, <4>2
    <3>6. e \in 1..Len(u)
      BY <1>0, <1>1, <1>10
    <3>7. /\ SubSeq(u, e, Len(u)) \in Seq(C) /\ Len(SubSeq(u, e, Len(u))) = Len(u) - e + 1
          /\ \A j \in 1..Len(u) - e + 1 : SubSeq(u, e, Len(u))[j] = u[e + j - 1]
      BY <1>10, <3>6, SubSeqProperties
    <3>8. Len(w) = Len(u) - e + 1
      BY <1>0, <1>2, <1>10, <3>4, <3>5 DEF IsGrown
    <3>9. \A j \in 1..Len(w) : w[j] = u[e + j - 1]
      <4> SUFFICES ASSUME NEW j \in 1..Len(w) PROVE w[j] = u[e + j - 1]
        OBVIOUS
      <4>1. CASE j = Len(r) + 1
        <5>1. w[Len(r) + 1] = c
          BY <3>4 DEF IsGrown
        <5>2. u[Len(t) + 1] = c
          BY <1>9 DEF IsGrown
        <5>3. e + j - 1 = Len(t) + 1
          BY ONLY <1>0, <1>2, <3>5, <4>1
        <5> QED
          BY <4>1, <5>1, <5>2, <5>3
      <4>2. CASE j # Len(r) + 1
        <5>0. Len(w) = Len(r) + 1 /\ Len(r) \in Nat
          BY <3>4, LenProperties DEF IsGrown
        <5>1. j \in 1..Len(r)
          BY <4>2, <5>0
        <5>2. w[j] = r[j]
          BY <3>4, <5>1 DEF IsGrown
        <5>3. e + j - 1 \in 1..Len(t)
          BY <1>0, <1>2, <1>1, <3>5, <5>1
        <5>4. u[e + j - 1] = t[e + j - 1]
          BY <1>9, <5>3 DEF IsGrown
        <5> QED
          BY <3>5, <5>1, <5>2, <5>4
      <4> QED
        BY <4>1, <4>2
    <3>10. SubSeq(u, e, Len(u)) = w
      <4>1. PICK v \in Seq(C) : v = SubSeq(u, e, Len(u))
        BY <3>7
      <4>2. Len(v) = Len(w) /\ \A j \in 1..Len(w) : v[j] = w[j]
        BY <3>7, <3>8, <3>9, <4>1
      <4>3. v = w
        BY <4>2, SeqEqual
      <4> QED
        BY <4>1, <4>3
    <3>11. w = Grown(From(t, seps), c)
      BY <3>3, <3>4 DEF IsGrown
    <3> QED
      BY <1>10, <2>2, <3>2, <3>10, <3>11
  <2> QED
    BY <2>1, <2>2
<1> QED
  BY <1>8, <1>11

LEMMA UpToOfEmpty ==
  ASSUME NEW seps
  PROVE  UpTo(<<>>, seps) = <<>> /\ From(<<>>, seps) = <<>>
<1>1. PICK C : C = {1}
  OBVIOUS
<1>2. <<>> \in Seq(C) /\ Len(<<>>) = 0
  OBVIOUS
<1>3. PartAfter(<<>>, seps, 0) = <<>>
  BY <1>2, NoPartAfterEnd
<1>4. SubSeq(<<>>, 0 + 1, 0) = <<>>
  OBVIOUS
<1> QED
  BY <1>2, <1>3, <1>4 DEF UpTo, From

(***************************************************************************)
(* The first character of a text, and the rest, with one character more.   *)
(***************************************************************************)
LEMMA GrownEnds ==
  ASSUME NEW C, NEW r \in Seq(C), NEW c \in C
  PROVE  /\ Head(One(c)) = c /\ Tail(One(c)) = <<>> /\ One(c) # <<>>
         /\ r # <<>> => /\ Head(Grown(r, c)) = Head(r) /\ Tail(Grown(r, c)) = Grown(Tail(r), c)
                        /\ Tail(r) \in Seq(C) /\ Head(r) \in C
<1>1. Head(One(c)) = c /\ Tail(One(c)) = <<>> /\ One(c) # <<>>
  BY DEF One
<1>2. ASSUME r # <<>>
      PROVE  /\ Head(Grown(r, c)) = Head(r) /\ Tail(Grown(r, c)) = Grown(Tail(r), c)
             /\ Tail(r) \in Seq(C) /\ Head(r) \in C
  <2>1. Tail(r) \in Seq(C) /\ Head(r) \in C /\ Len(Tail(r)) = Len(r) - 1
        /\ \A i \in 1..Len(r) - 1 : Tail(r)[i] = r[i + 1]
    BY <1>2, HeadTailProperties, LenProperties
  <2>2. Head(Append(r, c)) = Head(r)
    BY <1>2, AppendProperties
  <2>3. Tail(Append(r, c)) = Append(Tail(r), c)
    BY <1>2, AppendProperties
  <2> QED
    BY <2>1, <2>2, <2>3 DEF Grown
<1> QED
  BY <1>1, <1>2

-----------------------------------------------------------------------------
(* The entries of a digest header.                                         *)

\* Where the name of an algorithm ends, and where a value does.
AlgorithmEnd == {"=", "SEMI", "SP"}

ValueEnd == {"SEMI", "SP"}

\* Where the scan is when it has read so much of an entry.
Place(entry) ==
  LET r == From(entry, AlgorithmEnd)
  IN  IF entry = <<>> THEN "between"
      ELSE IF r = <<>> THEN "algo"
      ELSE IF Head(r) = "=" /\ From(Tail(r), ValueEnd) = <<>> THEN "value" ELSE "rest"

\* The record of the scan, and what it is behind the start of an entry.
Scan(place, algo, value, best, claimed) ==
  [place |-> place, algo |-> algo, value |-> value, best |-> best, claimed |-> claimed]

ScanOf(entry, best, claimed) ==
  Scan(Place(entry), Algorithm(entry), Value(entry), best, claimed)

(***************************************************************************)
(* UpToGrows, case by case.                                                *)
(***************************************************************************)
LEMMA UpToStep ==
  ASSUME NEW C, NEW t \in Seq(C), NEW c \in C, NEW seps, NEW u, NEW r,
         u = UpTo(t, seps), r = From(t, seps)
  PROVE  /\ c \in seps => UpTo(Grown(t, c), seps) = u /\ From(Grown(t, c), seps) = Grown(r, c)
         /\ r # <<>> => UpTo(Grown(t, c), seps) = u /\ From(Grown(t, c), seps) = Grown(r, c)
         /\ c \notin seps /\ r = <<>> =>
              UpTo(Grown(t, c), seps) = Grown(u, c) /\ From(Grown(t, c), seps) = <<>>
<1>1. /\ UpTo(Grown(t, c), seps) =
           IF c \in seps \/ From(t, seps) # <<>> THEN UpTo(t, seps) ELSE Grown(UpTo(t, seps), c)
      /\ From(Grown(t, c), seps) =
           IF c \notin seps /\ From(t, seps) = <<>> THEN <<>> ELSE Grown(From(t, seps), c)
  BY UpToGrows
<1> QED
  BY <1>1

\* Equality of characters, where a character must not be looked into.
Is(c, d) == c = d

(***************************************************************************)
(* What the scan makes of a character, place by place.                     *)
(***************************************************************************)
LEMMA ScannedSteps ==
  ASSUME NEW a, NEW v, NEW b, NEW k, NEW c, ~Is(c, "COMMA")
  PROVE  /\ Is(c, "SP") => Scanned(Scan("between", a, v, b, k), c) = Scan("between", a, v, b, k)
         /\ Is(c, "=") => /\ Scanned(Scan("between", a, v, b, k), c) = Scan("value", a, v, b, k)
                          /\ Scanned(Scan("algo", a, v, b, k), c) = Scan("value", a, v, b, k)
         /\ c \in ValueEnd =>
              /\ ~Is(c, "SP") => Scanned(Scan("between", a, v, b, k), c) = Scan("rest", a, v, b, k)
              /\ Scanned(Scan("algo", a, v, b, k), c) = Scan("rest", a, v, b, k)
              /\ Scanned(Scan("value", a, v, b, k), c) = Scan("rest", a, v, b, k)
         /\ c \notin ValueEnd =>
              /\ ~Is(c, "=") =>
                   /\ Scanned(Scan("between", a, v, b, k), c) = Scan("algo", Grown(a, c), v, b, k)
                   /\ Scanned(Scan("algo", a, v, b, k), c) = Scan("algo", Grown(a, c), v, b, k)
              /\ Scanned(Scan("value", a, v, b, k), c) = Scan("value", a, Grown(v, c), b, k)
         /\ Scanned(Scan("rest", a, v, b, k), c) = Scan("rest", a, v, b, k)
<1>1. PICK g, h : g = Append(a, c) /\ h = Append(v, c) /\ g = Grown(a, c) /\ h = Grown(v, c)
  BY Zenon DEF Grown
<1>2. /\ ValueEnd = {"SEMI", "SP"} /\ c # "COMMA" /\ (Is(c, "SP") <=> c = "SP") /\ (Is(c, "=") <=> c = "=")
  BY Zenon DEF ValueEnd, Is
<1>3. /\ c = "=" => c \notin ValueEnd
      /\ c = "SP" => c \in ValueEnd
  BY <1>2
<1>4. ASSUME NEW p, NEW s, s = Scan(p, a, v, b, k)
      PROVE  /\ s.place = p
             /\ [s EXCEPT !.place = "value"] = Scan("value", a, v, b, k)
             /\ [s EXCEPT !.place = "rest"] = Scan("rest", a, v, b, k)
             /\ [s EXCEPT !.place = "algo", !.algo = Append(@, c)] = Scan("algo", g, v, b, k)
             /\ [s EXCEPT !.value = Append(@, c)] = Scan(p, a, h, b, k)
  <2>1. s.place = p
    BY <1>4 DEF Scan
  <2>2. ASSUME NEW q, NEW t, t = [s EXCEPT !.place = q] PROVE t = Scan(q, a, v, b, k)
    BY <1>4, <2>2 DEF Scan
  <2>3. ASSUME NEW t, t = [s EXCEPT !.place = "algo", !.algo = Append(@, c)]
        PROVE  t = Scan("algo", g, v, b, k)
    BY <1>1, <1>4, <2>3 DEF Scan
  <2>4. ASSUME NEW t, t = [s EXCEPT !.value = Append(@, c)] PROVE t = Scan(p, a, h, b, k)
    BY <1>1, <1>4, <2>4 DEF Scan
  <2> QED
    BY <2>1, <2>2, <2>3, <2>4
<1>5. PICK s : s = Scan("between", a, v, b, k)
  OBVIOUS
<1>6. /\ c = "SP" => Scanned(s, c) = s
      /\ c = "=" => Scanned(s, c) = Scan("value", a, v, b, k)
      /\ c \in ValueEnd /\ c # "SP" => Scanned(s, c) = Scan("rest", a, v, b, k)
      /\ c \notin ValueEnd /\ c # "=" => Scanned(s, c) = Scan("algo", g, v, b, k)
  <2>1. s.place = "between"
    BY <1>4, <1>5
  <2>2. c = "SP" => Scanned(s, c) = s
    BY <2>1 DEF Scanned
  <2>3. ASSUME c # "SP"
        PROVE  Scanned(s, c) = IF c = "=" THEN [s EXCEPT !.place = "value"]
                               ELSE IF c \in {"SEMI", "SP"} THEN [s EXCEPT !.place = "rest"]
                               ELSE [s EXCEPT !.place = "algo", !.algo = Append(@, c)]
    <3>1. ~ (s.place = "between" /\ c \in {"SP", "COMMA"}) /\ s.place \in {"between", "algo"}
      BY <1>2, <2>1, <2>3
    <3> QED
      BY <1>2, <3>1, Zenon DEF Scanned
  <2>4. ASSUME c # "SP"
        PROVE  Scanned(s, c) = IF c = "=" THEN Scan("value", a, v, b, k)
                               ELSE IF c \in ValueEnd THEN Scan("rest", a, v, b, k)
                               ELSE Scan("algo", g, v, b, k)
    <3>1. [s EXCEPT !.place = "value"] = Scan("value", a, v, b, k)
      BY <1>4, <1>5, Zenon
    <3>2. [s EXCEPT !.place = "rest"] = Scan("rest", a, v, b, k)
      BY <1>4, <1>5, Zenon
    <3>3. [s EXCEPT !.place = "algo", !.algo = Append(@, c)] = Scan("algo", g, v, b, k)
      BY <1>4, <1>5, Zenon
    <3> QED
      BY <1>2, <2>3, <2>4, <3>1, <3>2, <3>3, Zenon
  <2> QED
    BY <1>3, <2>2, <2>4, Zenon
<1>7. PICK s1 : s1 = Scan("algo", a, v, b, k)
  OBVIOUS
<1>8. /\ c = "=" => Scanned(s1, c) = Scan("value", a, v, b, k)
      /\ c \in ValueEnd => Scanned(s1, c) = Scan("rest", a, v, b, k)
      /\ c \notin ValueEnd /\ c # "=" => Scanned(s1, c) = Scan("algo", g, v, b, k)
  <2>1. s1.place = "algo"
    BY <1>4, <1>7
  <2>2. Scanned(s1, c) = IF c = "=" THEN [s1 EXCEPT !.place = "value"]
                         ELSE IF c \in {"SEMI", "SP"} THEN [s1 EXCEPT !.place = "rest"]
                         ELSE [s1 EXCEPT !.place = "algo", !.algo = Append(@, c)]
    <3>1. ~ (s1.place = "between" /\ c \in {"SP", "COMMA"}) /\ s1.place \in {"between", "algo"}
      BY <2>1
    <3> QED
      BY <1>2, <3>1, Zenon DEF Scanned
  <2>3. Scanned(s1, c) = IF c = "=" THEN Scan("value", a, v, b, k)
                         ELSE IF c \in ValueEnd THEN Scan("rest", a, v, b, k)
                         ELSE Scan("algo", g, v, b, k)
    <3>1. [s1 EXCEPT !.place = "value"] = Scan("value", a, v, b, k)
      BY <1>4, <1>7, Zenon
    <3>2. [s1 EXCEPT !.place = "rest"] = Scan("rest", a, v, b, k)
      BY <1>4, <1>7, Zenon
    <3>3. [s1 EXCEPT !.place = "algo", !.algo = Append(@, c)] = Scan("algo", g, v, b, k)
      BY <1>4, <1>7, Zenon
    <3> QED
      BY <1>2, <2>2, <3>1, <3>2, <3>3, Zenon
  <2> QED
    BY <1>3, <2>3, Zenon
<1>9. PICK s2 : s2 = Scan("value", a, v, b, k)
  OBVIOUS
<1>10. /\ c \in ValueEnd => Scanned(s2, c) = Scan("rest", a, v, b, k)
       /\ c \notin ValueEnd => Scanned(s2, c) = Scan("value", a, h, b, k)
  <2>1. s2.place = "value"
    BY <1>4, <1>9
  <2>2. Scanned(s2, c) = IF c \in {"SEMI", "SP"} THEN [s2 EXCEPT !.place = "rest"]
                         ELSE [s2 EXCEPT !.value = Append(@, c)]
    <3>1. s2.place \notin {"between", "algo"} /\ s2.place # "between" /\ s2.place = "value"
      BY <2>1
    <3> QED
      BY <1>2, <3>1, Zenon DEF Scanned
  <2>3. Scanned(s2, c) = IF c \in ValueEnd THEN Scan("rest", a, v, b, k)
                         ELSE Scan("value", a, h, b, k)
    <3>1. [s2 EXCEPT !.place = "rest"] = Scan("rest", a, v, b, k)
      BY <1>4, <1>9, Zenon
    <3>2. [s2 EXCEPT !.value = Append(@, c)] = Scan("value", a, h, b, k)
      BY <1>4, <1>9, Zenon
    <3> QED
      BY <1>2, <2>2, <3>1, <3>2, Zenon
  <2> QED
    BY <2>3, Zenon
<1>11. PICK s3 : s3 = Scan("rest", a, v, b, k)
  OBVIOUS
<1>12. Scanned(s3, c) = s3
  <2>1. s3.place = "rest"
    BY <1>4, <1>11
  <2>2. s3.place \notin {"between", "algo"} /\ s3.place # "between" /\ s3.place # "value"
    BY <2>1
  <2> QED
    BY <1>2, <2>2, Zenon DEF Scanned
<1> QED
  BY <1>1, <1>2, <1>3, <1>5, <1>6, <1>7, <1>8, <1>9, <1>10, <1>11, <1>12, Zenon

(***************************************************************************)
(* Place, case by case.                                                    *)
(***************************************************************************)
LEMMA PlaceIs ==
  ASSUME NEW entry, NEW r, r = From(entry, AlgorithmEnd)
  PROVE  /\ entry = <<>> => Place(entry) = "between"
         /\ entry # <<>> /\ r = <<>> => Place(entry) = "algo"
         /\ entry # <<>> /\ r # <<>> =>
              /\ Head(r) = "=" /\ From(Tail(r), ValueEnd) = <<>> => Place(entry) = "value"
              /\ ~(Head(r) = "=" /\ From(Tail(r), ValueEnd) = <<>>) => Place(entry) = "rest"
BY Zenon DEF Place

(***************************************************************************)
(* The start of an entry, and what is read of any.                         *)
(***************************************************************************)
LEMMA EmptyEntryIs ==
  Place(<<>>) = "between" /\ Algorithm(<<>>) = <<>> /\ Value(<<>>) = <<>>
<1>1. /\ UpTo(<<>>, {"=", "SEMI", "SP"}) = <<>> /\ From(<<>>, {"=", "SEMI", "SP"}) = <<>>
  BY UpToOfEmpty
<1>2. Value(<<>>) = <<>>
  BY <1>1, Zenon DEF Value
<1> QED
  BY <1>1, <1>2 DEF Place, Algorithm

LEMMA EntryIs ==
  ASSUME NEW entry \in Seq(Mark)
  PROVE  /\ Algorithm(entry) \in Seq(Mark) /\ From(entry, AlgorithmEnd) \in Seq(Mark)
         /\ Algorithm(entry) = UpTo(entry, AlgorithmEnd)
         /\ From(entry, AlgorithmEnd) # <<>> /\ Head(From(entry, AlgorithmEnd)) = "=" =>
              Value(entry) = UpTo(Tail(From(entry, AlgorithmEnd)), ValueEnd)
         /\ ~(From(entry, AlgorithmEnd) # <<>> /\ Head(From(entry, AlgorithmEnd)) = "=") =>
              Value(entry) = <<>>
<1>1. Algorithm(entry) = UpTo(entry, AlgorithmEnd)
  BY DEF Algorithm, AlgorithmEnd
<1>2. UpTo(entry, AlgorithmEnd) \in Seq(Mark) /\ From(entry, AlgorithmEnd) \in Seq(Mark)
  BY UpToGrows
<1>3. Value(entry) = IF From(entry, AlgorithmEnd) # <<>> /\ Head(From(entry, AlgorithmEnd)) = "="
                     THEN UpTo(Tail(From(entry, AlgorithmEnd)), ValueEnd) ELSE <<>>
  BY Zenon DEF Value, AlgorithmEnd, ValueEnd
<1> QED
  BY <1>1, <1>2, <1>3, Zenon

(***************************************************************************)
(* The scan of an entry that grows by a character.                         *)
(***************************************************************************)
LEMMA ScannedIs ==
  ASSUME NEW entry \in Seq(Mark), NEW c \in Mark, ~Is(c, "COMMA"), NEW best, NEW claimed,
         entry = <<>> => ~Is(c, "SP")
  PROVE  Scanned(ScanOf(entry, best, claimed), c) = ScanOf(Grown(entry, c), best, claimed)
<1>1. PICK C : C = Mark
  OBVIOUS
<1>2. PICK x \in Seq(C), n \in Seq(C) : x = Grown(entry, c) /\ x # <<>> /\ n = entry
  BY <1>1, GrownText
<1>3. PICK r \in Seq(C), a \in Seq(C) : r = From(n, AlgorithmEnd) /\ a = Algorithm(n)
  BY <1>1, <1>2, EntryIs
<1>4. /\ r # <<>> /\ Head(r) = "=" => Value(n) = UpTo(Tail(r), ValueEnd)
      /\ ~(r # <<>> /\ Head(r) = "=") => Value(n) = <<>>
      /\ a = UpTo(n, AlgorithmEnd) /\ c \in C
  BY <1>1, <1>2, <1>3, EntryIs
<1>5. PICK y \in Seq(C), z \in Seq(C) : y = From(x, AlgorithmEnd) /\ z = Algorithm(x)
  BY <1>1, <1>2, EntryIs
<1>6. /\ y # <<>> /\ Head(y) = "=" => Value(x) = UpTo(Tail(y), ValueEnd)
      /\ ~(y # <<>> /\ Head(y) = "=") => Value(x) = <<>>
      /\ z = UpTo(x, AlgorithmEnd)
  BY <1>1, <1>2, <1>5, EntryIs
<1>7. /\ c \in AlgorithmEnd \/ r # <<>> => z = a /\ y = Grown(r, c)
      /\ c \notin AlgorithmEnd /\ r = <<>> => z = Grown(a, c) /\ y = <<>>
  BY <1>2, <1>3, <1>4, <1>5, <1>6, UpToStep
<1>9. n = <<>> => r = <<>>
  BY <1>3, UpToOfEmpty
<1>10. Scanned(ScanOf(n, best, claimed), c) = Scanned(Scan(Place(n), a, Value(n), best, claimed), c)
  BY <1>3 DEF ScanOf
<1>11. ScanOf(x, best, claimed) = Scan(Place(x), z, Value(x), best, claimed)
  BY <1>5 DEF ScanOf
<1>12. c \in AlgorithmEnd <=> Is(c, "=") \/ c \in ValueEnd
  BY Zenon DEF AlgorithmEnd, ValueEnd, Is
<1>13. SUFFICES Scanned(Scan(Place(n), a, Value(n), best, claimed), c) =
                Scan(Place(x), z, Value(x), best, claimed)
  BY <1>2, <1>10, <1>11
<1>14. ~Is(c, "COMMA") /\ (n = <<>> => ~Is(c, "SP"))
  BY <1>2
<1>15. CASE r = <<>>
  <2>1. /\ Value(n) = <<>> /\ (n = <<>> => Place(n) = "between")
        /\ n # <<>> => Place(n) = "algo"
    <3>1. Value(n) = <<>>
      BY <1>4, <1>15
    <3>2. ASSUME n = <<>> PROVE Place(n) = "between"
      BY <1>3, <3>2, PlaceIs
    <3>3. ASSUME n # <<>> PROVE Place(n) = "algo"
      BY <1>3, <1>15, <3>3, PlaceIs
    <3> QED
      BY <3>1, <3>2, <3>3
  <2>2. CASE c \in AlgorithmEnd
    <3>1. y = One(c) /\ z = a
      <4>1. Grown(<<>>, c) = One(c)
        BY <1>2, <1>4, GrownText
      <4> QED
        BY <1>7, <1>15, <2>2, <4>1
    <3>2. Head(y) = c /\ Tail(y) = <<>> /\ y # <<>>
      BY <1>4, <3>1, GrownEnds
    <3>3. UpTo(<<>>, ValueEnd) = <<>> /\ From(<<>>, ValueEnd) = <<>>
      BY UpToOfEmpty
    <3>4. Value(x) = <<>>
      BY <1>6, <3>2, <3>3
    <3>5. CASE Is(c, "=")
      <4>1. Place(x) = "value"
        BY <1>2, <1>5, <3>2, <3>3, <3>5, PlaceIs DEF Is
      <4>2. Scanned(Scan(Place(n), a, <<>>, best, claimed), c) = Scan("value", a, <<>>, best, claimed)
        <5>1. CASE n = <<>>
          <6>1. Scanned(Scan("between", a, <<>>, best, claimed), c) = Scan("value", a, <<>>, best, claimed)
            BY <1>14, <2>1, <3>5, <5>1, ScannedSteps
          <6> QED
            BY <2>1, <5>1, <6>1
        <5>2. CASE n # <<>>
          <6>1. Scanned(Scan("algo", a, <<>>, best, claimed), c) = Scan("value", a, <<>>, best, claimed)
            BY <1>14, <2>1, <3>5, ScannedSteps
          <6> QED
            BY <2>1, <5>2, <6>1
        <5> QED
          BY <5>1, <5>2
      <4> QED
        BY <2>1, <3>1, <3>4, <4>1, <4>2
    <3>6. CASE ~Is(c, "=")
      <4>1. Place(x) = "rest"
        BY <1>2, <1>5, <3>2, <3>6, PlaceIs DEF Is
      <4>2. c \in ValueEnd
        BY <1>12, <2>2, <3>6
      <4>3. Scanned(Scan(Place(n), a, <<>>, best, claimed), c) = Scan("rest", a, <<>>, best, claimed)
        <5>1. CASE n = <<>>
          <6>1. Scanned(Scan("between", a, <<>>, best, claimed), c) = Scan("rest", a, <<>>, best, claimed)
            BY <1>14, <2>1, <4>2, <5>1, ScannedSteps
          <6> QED
            BY <2>1, <5>1, <6>1
        <5>2. CASE n # <<>>
          <6>1. Scanned(Scan("algo", a, <<>>, best, claimed), c) = Scan("rest", a, <<>>, best, claimed)
            BY <1>14, <2>1, <4>2, ScannedSteps
          <6> QED
            BY <2>1, <5>2, <6>1
        <5> QED
          BY <5>1, <5>2
      <4> QED
        BY <2>1, <3>1, <3>4, <4>1, <4>3
    <3> QED
      BY <3>5, <3>6
  <2>3. CASE c \notin AlgorithmEnd
    <3>1. y = <<>> /\ z = Grown(a, c)
      BY <1>7, <1>15, <2>3
    <3>2. Place(x) = "algo"
      BY <1>2, <1>5, <3>1, PlaceIs
    <3>3. Value(x) = <<>>
      BY <1>6, <3>1
    <3>4. Scanned(Scan(Place(n), a, <<>>, best, claimed), c) = Scan("algo", Grown(a, c), <<>>, best, claimed)
      <4>1. CASE n = <<>>
        <5>1. Scanned(Scan("between", a, <<>>, best, claimed), c) =
                Scan("algo", Grown(a, c), <<>>, best, claimed)
          BY <1>12, <1>14, <2>1, <2>3, <4>1, ScannedSteps
        <5> QED
          BY <2>1, <4>1, <5>1
      <4>2. CASE n # <<>>
        <5>1. Scanned(Scan("algo", a, <<>>, best, claimed), c) =
                Scan("algo", Grown(a, c), <<>>, best, claimed)
          BY <1>12, <1>14, <2>1, <2>3, ScannedSteps
        <5> QED
          BY <2>1, <4>2, <5>1
      <4> QED
        BY <4>1, <4>2
    <3> QED
      BY <2>1, <3>1, <3>2, <3>3, <3>4
  <2> QED
    BY <2>2, <2>3
<1>16. CASE r # <<>>
  <2>1. n # <<>> /\ y = Grown(r, c) /\ z = a
    BY <1>7, <1>9, <1>16
  <2>2. PICK v \in Seq(C) : v = Tail(r)
    BY <1>4, <1>16, GrownEnds
  <2>3. Head(y) = Head(r) /\ Tail(y) = Grown(v, c)
    <3>1. Head(Grown(r, c)) = Head(r) /\ Tail(Grown(r, c)) = Grown(Tail(r), c)
      BY <1>4, <1>16, GrownEnds
    <3> QED
      BY <2>1, <2>2, <3>1
  <2>4. y # <<>>
    BY <1>4, <2>1, GrownText
  <2>5. PICK d \in Seq(C), w \in Seq(C) : d = From(v, ValueEnd) /\ w = UpTo(v, ValueEnd)
    BY UpToGrows
  <2>6. /\ c \in ValueEnd \/ d # <<>> =>
             UpTo(Grown(v, c), ValueEnd) = w /\ From(Grown(v, c), ValueEnd) = Grown(d, c)
        /\ c \notin ValueEnd /\ d = <<>> =>
             UpTo(Grown(v, c), ValueEnd) = Grown(w, c) /\ From(Grown(v, c), ValueEnd) = <<>>
    BY <1>4, <2>5, UpToStep
  <2>7. Grown(d, c) # <<>>
    BY <1>4, GrownText
  <2>8. CASE Head(r) = "=" /\ d = <<>>
    <3>1. Place(n) = "value" /\ Value(n) = w
      <4>1. Place(n) = "value"
        BY <1>3, <1>16, <2>1, <2>2, <2>5, <2>8, PlaceIs
      <4>2. Value(n) = w
        BY <1>4, <1>16, <2>2, <2>5, <2>8
      <4> QED
        BY <4>1, <4>2
    <3>2. CASE c \in ValueEnd
      <4>1. Value(x) = w
        BY <1>6, <2>3, <2>4, <2>6, <2>8, <3>2
      <4>2. Place(x) = "rest"
        <5>1. From(Tail(y), ValueEnd) # <<>>
          BY <2>3, <2>6, <2>7, <3>2
        <5> QED
          BY <1>2, <1>5, <2>4, <5>1, PlaceIs
      <4>3. Scanned(Scan("value", a, w, best, claimed), c) = Scan("rest", a, w, best, claimed)
        BY <1>14, <3>2, ScannedSteps
      <4> QED
        BY <2>1, <3>1, <4>1, <4>2, <4>3
    <3>3. CASE c \notin ValueEnd
      <4>1. Value(x) = Grown(w, c)
        BY <1>6, <2>3, <2>4, <2>6, <2>8, <3>3
      <4>2. Place(x) = "value"
        <5>1. From(Tail(y), ValueEnd) = <<>> /\ Head(y) = "="
          BY <2>3, <2>6, <2>8, <3>3
        <5> QED
          BY <1>2, <1>5, <2>4, <5>1, PlaceIs
      <4>3. Scanned(Scan("value", a, w, best, claimed), c) = Scan("value", a, Grown(w, c), best, claimed)
        BY <1>14, <3>3, ScannedSteps
      <4> QED
        BY <2>1, <3>1, <4>1, <4>2, <4>3
    <3> QED
      BY <3>2, <3>3
  <2>9. CASE ~(Head(r) = "=" /\ d = <<>>)
    <3>1. Place(n) = "rest"
      BY <1>3, <1>16, <2>1, <2>2, <2>5, <2>9, PlaceIs
    <3>2. Place(x) = "rest"
      <4>1. ~(Head(y) = "=" /\ From(Tail(y), ValueEnd) = <<>>)
        BY <2>3, <2>6, <2>7, <2>9
      <4> QED
        BY <1>2, <1>5, <2>4, <4>1, PlaceIs
    <3>3. Value(x) = Value(n)
      <4>1. CASE Head(r) = "="
        <5>1. Value(n) = w
          BY <1>4, <1>16, <2>2, <2>5, <4>1
        <5>2. Value(x) = w
          BY <1>6, <2>3, <2>4, <2>6, <2>9, <4>1
        <5> QED
          BY <5>1, <5>2
      <4>2. CASE Head(r) # "="
        <5>1. Value(n) = <<>>
          BY <1>4, <4>2
        <5>2. Value(x) = <<>>
          BY <1>6, <2>3, <4>2
        <5> QED
          BY <5>1, <5>2
      <4> QED
        BY <4>1, <4>2
    <3>4. PICK q : q = Value(n)
      OBVIOUS
    <3>5. Scanned(Scan("rest", a, q, best, claimed), c) = Scan("rest", a, q, best, claimed)
      BY <1>14, ScannedSteps
    <3> QED
      BY <2>1, <3>1, <3>2, <3>3, <3>4, <3>5
  <2> QED
    BY <2>8, <2>9
<1> QED
  BY <1>15, <1>16

(***************************************************************************)
(* The rank of an algorithm.                                               *)
(***************************************************************************)
LEMMA RankIs == ASSUME NEW algo PROVE Rank(algo) \in 0..2
BY DEF Rank

(***************************************************************************)
(* The claim after one more entry: still that of the first of the          *)
(* strongest.                                                              *)
(***************************************************************************)
LEMMA EntryEndIs ==
  ASSUME NEW V, NEW list \in Seq(V), NEW entry \in V, NEW best \in 0..2, NEW claimed,
         StrongestIsFirst(list, [rank |-> best, claimed |-> claimed])
  PROVE  \E b \in 0..2 : \E k :
           /\ EntryEnd(ScanOf(entry, best, claimed)) = ScanOf(<<>>, b, k)
           /\ StrongestIsFirst(Grown(list, entry), [rank |-> b, claimed |-> k])
<1> DEFINE rank == Rank(Algorithm(entry))
           b == IF rank > best THEN rank ELSE best
           k == IF rank > best THEN DigestValueHex(Value(entry)) ELSE claimed
<1>1. rank \in 0..2 /\ b \in 0..2
  BY RankIs
<1>2. EntryEnd(ScanOf(entry, best, claimed)) = ScanOf(<<>>, b, k)
  <2>1. PICK s : s = ScanOf(entry, best, claimed)
    OBVIOUS
  <2>2. s.algo = Algorithm(entry) /\ s.value = Value(entry) /\ s.best = best /\ s.claimed = claimed
    BY <2>1 DEF ScanOf, Scan
  <2>3. EntryEnd(s) = [Fresh EXCEPT !.best = b, !.claimed = k]
    BY <2>2, Zenon DEF EntryEnd
  <2>4. PICK b1, k1 : b1 = b /\ k1 = k
    OBVIOUS
  <2>5. PICK f : f = Fresh
    OBVIOUS
  <2>6. ASSUME NEW t, t = [f EXCEPT !.best = b1, !.claimed = k1]
        PROVE  t = Scan("between", <<>>, <<>>, b1, k1)
    <3>1. PICK e : e = <<>>
      OBVIOUS
    <3>2. f = Scan("between", e, e, 0, {})
      BY <2>5, <3>1 DEF Fresh, Scan
    <3>3. t = Scan("between", e, e, b1, k1)
      BY <2>6, <3>2 DEF Scan
    <3> QED
      BY <3>1, <3>3
  <2>7. ScanOf(<<>>, b1, k1) = Scan("between", <<>>, <<>>, b1, k1)
    BY EmptyEntryIs DEF ScanOf
  <2>8. EntryEnd(s) = ScanOf(<<>>, b1, k1)
    BY <2>3, <2>4, <2>5, <2>6, <2>7
  <2> QED
    BY <2>1, <2>4, <2>8
<1>3. PICK more \in Seq(V) : IsGrown(more, list, entry)
  BY GrownIs
<1>4. /\ more = Grown(list, entry) /\ Len(more) = Len(list) + 1 /\ Len(list) \in Nat
      /\ more[Len(list) + 1] = entry /\ \A j \in 1..Len(list) : more[j] = list[j]
      /\ DOMAIN list = 1..Len(list) /\ DOMAIN more = 1..Len(list) + 1
  BY <1>3, LenProperties DEF IsGrown
<1>5. /\ \A i \in 1..Len(list) : Rank(Algorithm(list[i])) <= best
      /\ best > 0 => \E i \in 1..Len(list) :
                       /\ Rank(Algorithm(list[i])) = best
                       /\ \A j \in 1..i - 1 : Rank(Algorithm(list[j])) < best
                       /\ claimed = DigestValueHex(Value(list[i]))
  BY <1>4, Zenon DEF StrongestIsFirst
<1>6. \A i \in 1..Len(list) + 1 : Rank(Algorithm(more[i])) <= b
  <2> SUFFICES ASSUME NEW i \in 1..Len(list) + 1 PROVE Rank(Algorithm(more[i])) <= b
    OBVIOUS
  <2>1. CASE i = Len(list) + 1
    BY <1>1, <1>4, <2>1
  <2>2. CASE i # Len(list) + 1
    <3>1. i \in 1..Len(list)
      BY <1>4, <2>2
    <3>2. Rank(Algorithm(more[i])) <= best
      BY <1>4, <1>5, <3>1
    <3>3. Rank(Algorithm(more[i])) \in 0..2
      BY RankIs
    <3> QED
      BY <1>1, <3>2, <3>3
  <2> QED
    BY <2>1, <2>2
<1>7. ASSUME b > 0
      PROVE  \E i \in 1..Len(list) + 1 :
               /\ Rank(Algorithm(more[i])) = b
               /\ \A j \in 1..i - 1 : Rank(Algorithm(more[j])) < b
               /\ k = DigestValueHex(Value(more[i]))
  <2>1. CASE rank > best
    <3>1. b = rank /\ k = DigestValueHex(Value(entry))
      BY <2>1
    <3>2. \A j \in 1..Len(list) : Rank(Algorithm(more[j])) < b
      <4> SUFFICES ASSUME NEW j \in 1..Len(list) PROVE Rank(Algorithm(more[j])) < b
        OBVIOUS
      <4>1. Rank(Algorithm(more[j])) <= best /\ Rank(Algorithm(more[j])) \in 0..2
        BY <1>4, <1>5, RankIs
      <4> QED
        BY <1>1, <2>1, <3>1, <4>1
    <3>3. Len(list) + 1 \in 1..Len(list) + 1 /\ Len(list) + 1 - 1 = Len(list)
      BY <1>4
    <3> QED
      <4>1. \A j \in 1..Len(list) + 1 - 1 : Rank(Algorithm(more[j])) < b
        BY <3>2, <3>3
      <4>2. Rank(Algorithm(more[Len(list) + 1])) = b /\ k = DigestValueHex(Value(more[Len(list) + 1]))
        BY <1>4, <3>1
      <4>3. PICK m : m = Len(list) + 1
        OBVIOUS
      <4> HIDE DEF b, k
      <4>4. /\ m \in 1..Len(list) + 1 /\ Rank(Algorithm(more[m])) = b
            /\ \A j \in 1..m - 1 : Rank(Algorithm(more[j])) < b
            /\ k = DigestValueHex(Value(more[m]))
        BY <3>3, <4>1, <4>2, <4>3
      <4> QED
        BY <4>4
  <2>2. CASE ~ (rank > best)
    <3>1. b = best /\ k = claimed /\ best > 0
      BY <1>7, <2>2
    <3>2. PICK i \in 1..Len(list) : /\ Rank(Algorithm(list[i])) = best
                                    /\ \A j \in 1..i - 1 : Rank(Algorithm(list[j])) < best
                                    /\ claimed = DigestValueHex(Value(list[i]))
      BY <1>5, <3>1
    <3>3. i \in 1..Len(list) + 1 /\ \A j \in 1..i - 1 : j \in 1..Len(list)
      BY <1>4
    <3>4. more[i] = list[i] /\ \A j \in 1..i - 1 : more[j] = list[j]
      BY <1>4, <3>3
    <3> QED
      BY <3>1, <3>2, <3>3, <3>4, Zenon
  <2> QED
    BY <2>1, <2>2
<1>8. StrongestIsFirst(more, [rank |-> b, claimed |-> k])
  BY <1>4, <1>6, <1>7, Zenon DEF StrongestIsFirst
<1> HIDE DEF b, k
<1> QED
  BY <1>1, <1>2, <1>4, <1>8

-----------------------------------------------------------------------------
(* The header as a list of entries.                                        *)

\* The entries without the blanks before them.
UnblankedAll(P) == [i \in DOMAIN P |-> Unblanked(P[i])]

(***************************************************************************)
(* The blanks before an entry are passed over.                             *)
(***************************************************************************)
LEMMA UnblankedIs ==
  ASSUME NEW text \in Seq(Mark)
  PROVE  /\ Unblanked(text) \in Seq(Mark) /\ Unblanked(<<>>) = <<>>
         /\ \A c \in Mark :
              /\ Is(c, "SP") /\ Unblanked(text) = <<>> => Unblanked(Grown(text, c)) = <<>>
              /\ ~(Is(c, "SP") /\ Unblanked(text) = <<>>) =>
                   Unblanked(Grown(text, c)) = Grown(Unblanked(text), c)
<1>1. PICK C, seps : C = Mark /\ seps = Mark \ {"SP"}
  OBVIOUS
<1>2. \A t : Unblanked(t) = From(t, seps)
  BY <1>1 DEF Unblanked
<1>3. From(<<>>, seps) = <<>>
  BY UpToOfEmpty
<1>4. From(text, seps) \in Seq(C)
  BY <1>1, UpToGrows
<1>5. ASSUME NEW c \in C
      PROVE  /\ c = "SP" /\ From(text, seps) = <<>> => From(Grown(text, c), seps) = <<>>
             /\ ~(c = "SP" /\ From(text, seps) = <<>>) =>
                  From(Grown(text, c), seps) = Grown(From(text, seps), c)
  <2>1. PICK u, r : u = UpTo(text, seps) /\ r = From(text, seps)
    OBVIOUS
  <2>2. /\ c \in seps => From(Grown(text, c), seps) = Grown(r, c)
        /\ r # <<>> => From(Grown(text, c), seps) = Grown(r, c)
        /\ c \notin seps /\ r = <<>> => From(Grown(text, c), seps) = <<>>
    BY <1>1, <1>5, <2>1, UpToStep
  <2>3. c \in seps <=> c # "SP"
    BY <1>1, <1>5
  <2> QED
    BY <2>1, <2>2, <2>3
<1> QED
  BY <1>1, <1>2, <1>3, <1>4, <1>5 DEF Is

LEMMA UnblankedAllIs ==
  ASSUME NEW P \in Seq(Seq(Mark)), NEW p \in Seq(Mark)
  PROVE  /\ UnblankedAll(P) \in Seq(Seq(Mark)) /\ UnblankedAll(<<>>) = <<>>
         /\ UnblankedAll(Grown(P, p)) = Grown(UnblankedAll(P), Unblanked(p))
<1>1. PICK V : V = Seq(Mark)
  OBVIOUS
<1>2. PICK n \in Nat : n = Len(P) /\ DOMAIN P = 1..n
  BY LenProperties
<1>3. \A q \in V : Unblanked(q) \in V
  BY <1>1, UnblankedIs
<1>4. UnblankedAll(P) = [i \in 1..n |-> Unblanked(P[i])]
  BY <1>2 DEF UnblankedAll
<1>5. UnblankedAll(P) \in Seq(V) /\ Len(UnblankedAll(P)) = n
  <2>1. \A i \in 1..n : Unblanked(P[i]) \in V
    BY <1>1, <1>2, <1>3, ElementOfSeq
  <2>2. UnblankedAll(P) \in [1..n -> V]
    BY <1>4, <2>1
  <2> QED
    BY <2>2, SeqDef
<1>6. UnblankedAll(<<>>) = <<>>
  BY DEF UnblankedAll
<1>7. PICK Q \in Seq(V) : IsGrown(Q, P, p)
  BY <1>1, GrownIs
<1>8. PICK R \in Seq(V) : IsGrown(R, UnblankedAll(P), Unblanked(p))
  BY <1>1, <1>3, <1>5, GrownIs
<1>9. /\ Q = Grown(P, p) /\ DOMAIN Q = 1..n + 1
      /\ Q[n + 1] = p /\ \A j \in 1..n : Q[j] = P[j]
  BY <1>2, <1>7, LenProperties DEF IsGrown
<1>10. /\ R = Grown(UnblankedAll(P), Unblanked(p)) /\ Len(R) = n + 1
       /\ R[n + 1] = Unblanked(p) /\ \A j \in 1..n : R[j] = Unblanked(P[j])
  BY <1>4, <1>5, <1>8 DEF IsGrown
<1>11. UnblankedAll(Q) = [i \in 1..n + 1 |-> Unblanked(Q[i])]
  BY <1>9 DEF UnblankedAll
<1>12. R = [i \in 1..n + 1 |-> R[i]]
  BY <1>10, LenProperties
<1>13. \A i \in 1..n + 1 : R[i] = Unblanked(Q[i])
  <2>1. \A i \in 1..n + 1 : i \in 1..n \/ i = n + 1
    BY <1>2
  <2> QED
    BY <1>9, <1>10, <2>1
<1>14. UnblankedAll(Q) = R
  BY <1>11, <1>12, <1>13
<1> QED
  BY <1>1, <1>5, <1>6, <1>9, <1>10, <1>14

(***************************************************************************)
(* The scan of a header, in terms of the list: the entries that are closed *)
(* have been judged, the last is being read.                               *)
(***************************************************************************)
Judged(list, best, claimed) == StrongestIsFirst(list, [rank |-> best, claimed |-> claimed])

\* What has been read of a header h, if its closed entries are P and the last
\* is p; HeaderRead hides the values.
ReadSo(h, s, P, p, best, claimed) ==
  /\ Split(h, {"COMMA"}) = Grown(P, p)
  /\ s = ScanOf(Unblanked(p), best, claimed)
  /\ Judged(NonEmpty(UnblankedAll(P)), best, claimed)

HeaderRead(h, s) ==
  \E P \in Seq(Seq(Mark)), p \in Seq(Mark), best \in 0..2 :
    \E claimed : ReadSo(h, s, P, p, best, claimed)

\* The invariant of HeaderSpec.
HeaderInv == header \in Seq(Mark) /\ HeaderRead(header, scan)

LEMMA ReadIs ==
  ASSUME NEW h, NEW s, NEW P \in Seq(Seq(Mark)), NEW p \in Seq(Mark), NEW best \in 0..2, NEW claimed,
         ReadSo(h, s, P, p, best, claimed)
  PROVE  HeaderRead(h, s)
BY Zenon DEF HeaderRead

(***************************************************************************)
(* Before the first character.                                             *)
(***************************************************************************)
LEMMA NothingIsRead == HeaderRead(<<>>, Fresh)
<1>1. PICK e : e = <<>>
  OBVIOUS
<1>2. e \in Seq(Seq(Mark)) /\ e \in Seq(Mark)
  BY <1>1, EmptySeq
<1>3. Split(e, {"COMMA"}) = Grown(e, e)
  <2>1. Grown(e, e) = <<<<>>>>
    BY <1>1 DEF Grown
  <2> QED
    BY <1>1, <2>1, SplitEmpty
<1>4. Fresh = ScanOf(Unblanked(e), 0, {})
  <2>1. Unblanked(e) = e
    BY <1>1, <1>2, UnblankedIs
  <2>2. Place(e) = "between" /\ Algorithm(e) = e /\ Value(e) = e
    BY <1>1, EmptyEntryIs
  <2>3. Fresh = Scan("between", e, e, 0, {})
    BY <1>1 DEF Fresh, Scan
  <2> QED
    BY <2>1, <2>2, <2>3 DEF ScanOf
<1>5. Judged(NonEmpty(UnblankedAll(e)), 0, {})
  <2>1. NonEmpty(UnblankedAll(e)) = e
    <3>1. UnblankedAll(e) = e
      BY <1>1, <1>2, UnblankedAllIs
    <3> QED
      BY <1>1, <3>1, NonEmptyOfNone
  <2>2. DOMAIN e = {}
    BY <1>1
  <2> QED
    BY <2>1, <2>2 DEF Judged, StrongestIsFirst
<1>6. ReadSo(e, Fresh, e, e, 0, {})
  BY <1>3, <1>4, <1>5 DEF ReadSo
<1> QED
  <2>1. 0 \in 0..2
    OBVIOUS
  <2>2. HeaderRead(e, Fresh)
    BY <1>2, <1>6, <2>1, ReadIs
  <2> QED
    BY <1>1, <2>2

(***************************************************************************)
(* One more character is read.                                             *)
(***************************************************************************)
LEMMA OneMoreIsRead ==
  ASSUME NEW h \in Seq(Mark), NEW s, HeaderRead(h, s), NEW c \in Mark
  PROVE  HeaderRead(Grown(h, c), Scanned(s, c))
<1>0. PICK P \in Seq(Seq(Mark)), p \in Seq(Mark), best \in 0..2 :
        \E claimed : ReadSo(h, s, P, p, best, claimed)
  BY Zenon DEF HeaderRead
<1>1. PICK claimed : ReadSo(h, s, P, p, best, claimed)
  BY <1>0
<1>2. PICK L, u : L = NonEmpty(UnblankedAll(P)) /\ u = Unblanked(p)
  OBVIOUS
<1>3. Split(h, {"COMMA"}) = Grown(P, p) /\ s = ScanOf(u, best, claimed) /\ Judged(L, best, claimed)
  BY <1>1, <1>2 DEF ReadSo
<1>4. u \in Seq(Mark) /\ UnblankedAll(P) \in Seq(Seq(Mark)) /\ L \in Seq(Seq(Mark))
  <2>1. u \in Seq(Mark)
    BY <1>2, UnblankedIs
  <2>2. UnblankedAll(P) \in Seq(Seq(Mark))
    BY UnblankedAllIs
  <2> QED
    BY <1>2, <2>1, <2>2, NonEmptyCat
<1>5. CASE Is(c, "COMMA")
  <2>1. PICK e \in Seq(Mark) : e = <<>> /\ Unblanked(e) = <<>>
    BY EmptySeq, UnblankedIs
  <2>2. Split(Grown(h, c), {"COMMA"}) = Grown(Grown(P, p), e)
    <3>1. c \in {"COMMA"}
      BY <1>5 DEF Is
    <3> QED
      BY <1>3, <2>1, <3>1, SplitGrows
  <2>3. Grown(P, p) \in Seq(Seq(Mark))
    BY GrownText
  <2>4. UnblankedAll(Grown(P, p)) = Grown(UnblankedAll(P), u)
    BY <1>2, UnblankedAllIs
  <2>5. CASE u = <<>>
    <3>1. NonEmpty(UnblankedAll(Grown(P, p))) = L
      BY <1>2, <1>4, <2>4, <2>5, NonEmptyGrows
    <3>2. Scanned(s, c) = s
      <4>1. s.place = "between"
        BY <1>3, <2>5, EmptyEntryIs DEF ScanOf, Scan
      <4> QED
        BY <1>5, <4>1 DEF Scanned, Is
    <3>3. ReadSo(Grown(h, c), Scanned(s, c), Grown(P, p), e, best, claimed)
      BY <1>3, <2>1, <2>2, <2>5, <3>1, <3>2 DEF ReadSo
    <3> QED
      BY <2>1, <2>3, <3>3, ReadIs
  <2>6. CASE u # <<>>
    <3>1. NonEmpty(UnblankedAll(Grown(P, p))) = Grown(L, u)
      BY <1>2, <1>4, <2>4, <2>6, NonEmptyGrows
    <3>2. Scanned(s, c) = EntryEnd(s)
      <4>1. s.place # "between"
        <5>1. Place(u) # "between"
          BY <2>6 DEF Place
        <5> QED
          BY <1>3, <5>1 DEF ScanOf, Scan
      <4> QED
        BY <1>5, <4>1, Zenon DEF Scanned, Is
    <3>0. PICK b \in 0..2 :
            \E k : /\ EntryEnd(ScanOf(u, best, claimed)) = ScanOf(<<>>, b, k)
                  /\ Judged(Grown(L, u), b, k)
      BY <1>3, <1>4, EntryEndIs DEF Judged
    <3>3. PICK k : /\ EntryEnd(ScanOf(u, best, claimed)) = ScanOf(<<>>, b, k)
                   /\ Judged(Grown(L, u), b, k)
      BY <3>0
    <3>4. ReadSo(Grown(h, c), Scanned(s, c), Grown(P, p), e, b, k)
      BY <1>3, <2>1, <2>2, <3>1, <3>2, <3>3 DEF ReadSo
    <3> QED
      BY <2>1, <2>3, <3>4, ReadIs
  <2> QED
    BY <2>5, <2>6
<1>6. CASE ~Is(c, "COMMA")
  <2>1. Split(Grown(h, c), {"COMMA"}) = Grown(P, Grown(p, c))
    <3>1. c \notin {"COMMA"}
      BY <1>6 DEF Is
    <3> QED
      BY <1>3, <3>1, SplitGrows
  <2>2. Grown(p, c) \in Seq(Mark)
    BY GrownText
  <2>3. CASE Is(c, "SP") /\ u = <<>>
    <3>1. Unblanked(Grown(p, c)) = u
      BY <1>2, <2>3, UnblankedIs
    <3>2. Scanned(s, c) = s
      <4>1. s.place = "between"
        BY <1>3, <2>3, EmptyEntryIs DEF ScanOf, Scan
      <4> QED
        BY <2>3, <4>1 DEF Scanned, Is
    <3>3. ReadSo(Grown(h, c), Scanned(s, c), P, Grown(p, c), best, claimed)
      BY <1>2, <1>3, <2>1, <3>1, <3>2 DEF ReadSo
    <3> QED
      BY <2>2, <3>3, ReadIs
  <2>4. CASE ~(Is(c, "SP") /\ u = <<>>)
    <3>1. Unblanked(Grown(p, c)) = Grown(u, c)
      BY <1>2, <2>4, UnblankedIs
    <3>2. Scanned(s, c) = ScanOf(Grown(u, c), best, claimed)
      BY <1>3, <1>4, <1>6, <2>4, ScannedIs
    <3>3. ReadSo(Grown(h, c), Scanned(s, c), P, Grown(p, c), best, claimed)
      BY <1>2, <1>3, <2>1, <3>1, <3>2 DEF ReadSo
    <3> QED
      BY <2>2, <3>3, ReadIs
  <2> QED
    BY <2>3, <2>4
<1> QED
  BY <1>5, <1>6

(***************************************************************************)
(* What the header claims where it ends.                                   *)
(***************************************************************************)
LEMMA ReadClaimIsStrongest ==
  ASSUME header \in Seq(Mark), HeaderRead(header, scan)
  PROVE  StrongestClaimIsChecked
<1>0. PICK P \in Seq(Seq(Mark)), p \in Seq(Mark), best \in 0..2 :
        \E claimed : ReadSo(header, scan, P, p, best, claimed)
  BY Zenon DEF HeaderRead
<1>1. PICK claimed : ReadSo(header, scan, P, p, best, claimed)
  BY <1>0
<1>2. PICK L, u : L = NonEmpty(UnblankedAll(P)) /\ u = Unblanked(p)
  OBVIOUS
<1>3. Split(header, {"COMMA"}) = Grown(P, p) /\ scan = ScanOf(u, best, claimed) /\ Judged(L, best, claimed)
  BY <1>1, <1>2 DEF ReadSo
<1>4. u \in Seq(Mark) /\ UnblankedAll(P) \in Seq(Seq(Mark)) /\ L \in Seq(Seq(Mark))
  <2>1. u \in Seq(Mark)
    BY <1>2, UnblankedIs
  <2>2. UnblankedAll(P) \in Seq(Seq(Mark))
    BY UnblankedAllIs
  <2> QED
    BY <1>2, <2>1, <2>2, NonEmptyCat
<1>5. Entries(header) = NonEmpty(Grown(UnblankedAll(P), u))
  <2>1. Entries(header) = NonEmpty(UnblankedAll(Split(header, {"COMMA"})))
    BY Zenon DEF Entries, UnblankedAll
  <2>2. UnblankedAll(Grown(P, p)) = Grown(UnblankedAll(P), u)
    BY <1>2, UnblankedAllIs
  <2> QED
    BY <1>3, <2>1, <2>2
<1>6. scan.place = Place(u) /\ scan.best = best /\ scan.claimed = claimed
  BY <1>3 DEF ScanOf, Scan
<1>7. CASE u = <<>>
  <2>1. Entries(header) = L
    BY <1>2, <1>4, <1>5, <1>7, NonEmptyGrows
  <2>2. scan.place = "between"
    BY <1>6, <1>7, EmptyEntryIs
  <2>3. ContentDigestClaim = [rank |-> best, claimed |-> claimed]
    BY <1>6, <2>2 DEF ContentDigestClaim
  <2> QED
    BY <1>3, <2>1, <2>3, Zenon DEF StrongestClaimIsChecked, Judged
<1>8. CASE u # <<>>
  <2>1. Entries(header) = Grown(L, u)
    BY <1>2, <1>4, <1>5, <1>8, NonEmptyGrows
  <2>2. scan.place # "between"
    <3>1. Place(u) # "between"
      BY <1>8 DEF Place
    <3> QED
      BY <1>6, <3>1
  <2>0. PICK b \in 0..2 : \E k : EntryEnd(scan) = ScanOf(<<>>, b, k) /\ Judged(Grown(L, u), b, k)
    BY <1>3, <1>4, EntryEndIs DEF Judged
  <2>3. PICK k : EntryEnd(scan) = ScanOf(<<>>, b, k) /\ Judged(Grown(L, u), b, k)
    BY <2>0
  <2>4. ContentDigestClaim = [rank |-> b, claimed |-> k]
    <3>1. PICK e : e = EntryEnd(scan)
      OBVIOUS
    <3>2. e.best = b /\ e.claimed = k
      BY <2>3, <3>1 DEF ScanOf, Scan
    <3>3. ContentDigestClaim = [rank |-> e.best, claimed |-> e.claimed]
      BY <2>2, <3>1, Zenon DEF ContentDigestClaim
    <3> QED
      BY <3>2, <3>3
  <2> QED
    BY <2>1, <2>3, <2>4, Zenon DEF StrongestClaimIsChecked, Judged
<1> QED
  BY <1>7, <1>8

(***************************************************************************)
(* content_digest_claim: of every header a client can send, of any number  *)
(* of entries, the first entry for the strongest algorithm is checked.     *)
(***************************************************************************)
THEOREM StrongestClaimHolds == HeaderSpec => []StrongestClaimIsChecked
<1>1. HeaderInit => HeaderInv
  <2> SUFFICES ASSUME HeaderInit PROVE HeaderInv
    OBVIOUS
  <2>1. header = <<>> /\ scan = Fresh /\ header \in Seq(Mark)
    BY EmptySeq DEF HeaderInit
  <2> QED
    BY <2>1, NothingIsRead DEF HeaderInv
<1>2. HeaderInv /\ [HeaderNext]_headerVars => HeaderInv'
  <2> SUFFICES ASSUME HeaderInv, [HeaderNext]_headerVars PROVE HeaderInv'
    OBVIOUS
  <2>1. CASE UNCHANGED headerVars
    BY <2>1 DEF HeaderInv, headerVars
  <2>2. ASSUME NEW c \in Mark, HeaderGrows(c) PROVE HeaderInv'
    <3>1. header' = Grown(header, c) /\ scan' = Scanned(scan, c)
      BY <2>2 DEF HeaderGrows, Grown
    <3>2. Grown(header, c) \in Seq(Mark)
      BY GrownText DEF HeaderInv
    <3>3. HeaderRead(Grown(header, c), Scanned(scan, c))
      BY OneMoreIsRead DEF HeaderInv
    <3> QED
      BY <3>1, <3>2, <3>3 DEF HeaderInv
  <2> QED
    BY <2>1, <2>2 DEF HeaderNext
<1>3. HeaderInv => StrongestClaimIsChecked
  BY ReadClaimIsStrongest DEF HeaderInv
<1> QED
  BY <1>1, <1>2, <1>3, PTL DEF HeaderSpec

-----------------------------------------------------------------------------
(* Normal, segment by segment.                                             *)

(***************************************************************************)
(* What a segment does to the segments so far (Normal).                    *)
(***************************************************************************)
Turn(done, s) == IF s \in {<<>>, <<".">>} THEN done
                 ELSE IF s = <<".", ".">> THEN {Front(d) : d \in done \ {<<>>}}
                 ELSE {Append(d, s) : d \in done}

\* At most one list of segments that are not empty.
Stays(C) == {{}} \cup {{t} : t \in Seq(Seq(C) \ {<<>>})}

LEMMA TurnIs ==
  ASSUME NEW C, NEW done \in Stays(C), NEW s \in Seq(C)
  PROVE  Turn(done, s) \in Stays(C)
<1>1. PICK V : V = Seq(C) \ {<<>>}
  OBVIOUS
<1>2. CASE s \in {<<>>, <<".">>}
  BY <1>2 DEF Turn
<1>3. CASE s = <<".", ".">>
  <2>1. Turn(done, s) = {Front(d) : d \in done \ {<<>>}}
    BY <1>3 DEF Turn
  <2>2. CASE done = {}
    BY <2>1, <2>2 DEF Stays
  <2>3. ASSUME NEW t \in Seq(V), done = {t}, t # <<>> PROVE Turn(done, s) \in Stays(C)
    <3>1. Front(t) \in Seq(V)
      <4>1. Len(t) - 1 \in 0..Len(t)
        BY <2>3, LenProperties, EmptySeq
      <4> QED
        BY <4>1, PrefixIs DEF Front
    <3>2. Turn(done, s) = {Front(t)}
      BY <2>1, <2>3
    <3> QED
      BY <1>1, <3>1, <3>2 DEF Stays
  <2>4. CASE done = {<<>>}
    BY <2>1, <2>4 DEF Stays
  <2> QED
    BY <1>1, <2>2, <2>3, <2>4 DEF Stays
<1>4. CASE s \notin {<<>>, <<".">>, <<".", ".">>}
  <2>1. Turn(done, s) = {Append(d, s) : d \in done}
    BY <1>4 DEF Turn
  <2>2. CASE done = {}
    BY <2>1, <2>2 DEF Stays
  <2>3. ASSUME NEW t \in Seq(V), done = {t} PROVE Turn(done, s) \in Stays(C)
    <3>1. Append(t, s) \in Seq(V)
      <4>1. s \in V
        BY <1>1, <1>4
      <4> QED
        BY <4>1, AppendProperties
    <3>2. Turn(done, s) = {Append(t, s)}
      BY <2>1, <2>3
    <3> QED
      BY <1>1, <3>1, <3>2 DEF Stays
  <2> QED
    BY <1>1, <2>2, <2>3 DEF Stays
<1> QED
  BY <1>2, <1>3, <1>4

\* The steps of Normal.
Follows(f, S) ==
  f[0] = {<<>>} /\ f[Len(S)] = Normal(S) /\ \A n \in 1..Len(S) : f[n] = Turn(f[n - 1], S[n])

LEMMA NormalIs ==
  ASSUME NEW C, NEW S \in Seq(Seq(C))
  PROVE  \E f \in [0..Len(S) -> Stays(C)] : Follows(f, S)
<1> DEFINE N == Len(S)
           V == Stays(C)
           Body(f) == [n \in 0..N |-> IF n = 0 THEN {<<>>} ELSE Turn(f[n - 1], S[n])]
           step == [n \in 1..N |-> [v \in V |-> Turn(v, S[n])]]
<1>1. N \in Nat /\ \A n \in 1..N : S[n] \in Seq(C)
  BY LenProperties, ElementOfSeq
<1>2. \A n \in 1..N, v \in V : step[n][v] \in V
  BY <1>1, TurnIs
<1>3. PICK empty \in V : empty = {<<>>}
  <2>1. <<>> \in Seq(Seq(C) \ {<<>>})
    BY EmptySeq
  <2> QED
    BY <2>1 DEF Stays
<1>4. PICK f \in [0..N -> V] : f[0] = empty /\ \A n \in 1..N : f[n] = step[n][f[n - 1]]
  <2>1. Turns(V, N, step)
    BY <1>2 DEF Turns
  <2>2. N \in Nat
    BY <1>1
  <2> HIDE DEF V, N, step
  <2>3. \E f \in [0..N -> V] : Solves(f, empty, N, step)
    BY <2>1, <2>2, RecursionExists
  <2> QED
    BY <2>3 DEF Solves
<1>5. \A n \in 1..N : f[n] = Turn(f[n - 1], S[n])
  <2> SUFFICES ASSUME NEW n \in 1..N PROVE f[n] = Turn(f[n - 1], S[n])
    OBVIOUS
  <2>1. n - 1 \in 0..N
    BY <1>1
  <2>2. f[n - 1] \in V /\ f[n] = step[n][f[n - 1]]
    BY <1>4, <2>1
  <2> HIDE DEF V
  <2> QED
    BY <2>2
<1>6. f = Body(f)
  <2>1. \A n \in 0..N : n # 0 => n \in 1..N
    BY <1>1
  <2> HIDE DEF V
  <2>2. f = [n \in 0..N |-> f[n]]
    BY <1>4
  <2> QED
    BY <1>3, <1>4, <1>5, <2>1, <2>2
<1>7. PICK g : g = CHOOSE h : h = Body(h)
  OBVIOUS
<1>8. g = Body(g)
  BY <1>6, <1>7
<1>9. Normal(S) = g[N]
  BY <1>7, Zenon DEF Normal, Turn
<1>10. DOMAIN g = 0..N /\ g[0] = {<<>>} /\ \A n \in 1..N : g[n] = Turn(g[n - 1], S[n])
  <2>1. DOMAIN g = 0..N
    BY <1>8, Zenon
  <2>2. \A n \in 0..N : g[n] = Body(g)[n]
    BY <1>8
  <2>3. 0 \in 0..N /\ \A n \in 1..N : n \in 0..N /\ n # 0
    BY <1>1
  <2> QED
    BY <2>1, <2>2, <2>3
<1>11. \A n \in 0..N : g[n] = f[n]
  <2> DEFINE Bad == {n \in 0..N : g[n] # f[n]}
  <2> SUFFICES ASSUME Bad # {} PROVE FALSE
    OBVIOUS
  <2>1. PICK n \in Bad : \A m \in Bad : n <= m
    <3>1. Bad \in SUBSET Nat
      BY <1>1
    <3> HIDE DEF Bad
    <3> QED
      BY <3>1, LeastExists
  <2>2. n \in 0..N /\ g[n] # f[n]
    OBVIOUS
  <2>3. n \in 1..N
    <3>1. g[0] = f[0]
      BY <1>3, <1>4, <1>10, Zenon
    <3>2. n # 0
      BY <2>2, <3>1
    <3> QED
      BY <1>1, <2>2, <3>2
  <2>4. n - 1 \notin Bad /\ n - 1 \in 0..N
    BY <1>1, <2>1, <2>3
  <2>5. g[n - 1] = f[n - 1]
    BY <2>4
  <2> QED
    BY <1>5, <1>10, <2>2, <2>3, <2>5
<1>12. f[N] = Normal(S)
  BY <1>1, <1>9, <1>11
<1> HIDE DEF V
<1>13. Follows(f, S)
  BY <1>3, <1>4, <1>5, <1>12 DEF Follows
<1> QED
  BY <1>13 DEF V

LEMMA NormalOfNone == Normal(<<>>) = {<<>>}
<1>1. PICK S \in Seq(Seq({})) : S = <<>> /\ Len(S) = 0
  BY EmptySeq
<1>2. PICK f \in [0..Len(S) -> Stays({})] : Follows(f, S)
  BY NormalIs
<1> QED
  BY <1>1, <1>2 DEF Follows

(***************************************************************************)
(* Normal, segment by segment.                                             *)
(***************************************************************************)
LEMMA NormalGrows ==
  ASSUME NEW C, NEW S \in Seq(Seq(C)), NEW s \in Seq(C)
  PROVE  /\ Normal(S) \in Stays(C)
         /\ Normal(Grown(S, s)) = Turn(Normal(S), s)
<1> DEFINE N == Len(S)
<1>1. N \in Nat /\ \A n \in 1..N : S[n] \in Seq(C)
  BY LenProperties, ElementOfSeq
<1>2. PICK Q \in Seq(Seq(C)) : /\ Q = Grown(S, s) /\ Len(Q) = N + 1
                               /\ Q[N + 1] = s /\ \A n \in 1..N : Q[n] = S[n]
  <2> DEFINE V == Seq(C)
  <2>1. S \in Seq(V) /\ s \in V
    OBVIOUS
  <2> HIDE DEF V
  <2>2. \E q \in Seq(V) : IsGrown(q, S, s)
    BY <2>1, GrownIs
  <2> QED
    BY <2>2 DEF IsGrown, V
<1>3. PICK f \in [0..N -> Stays(C)] :
        /\ f[0] = {<<>>} /\ f[N] = Normal(S)
        /\ \A n \in 1..N : f[n] = Turn(f[n - 1], S[n])
  BY NormalIs DEF Follows
<1>4. PICK g \in [0..N + 1 -> Stays(C)] :
        /\ g[0] = {<<>>} /\ g[N + 1] = Normal(Q)
        /\ \A n \in 1..N + 1 : g[n] = Turn(g[n - 1], Q[n])
  <2>1. \E h \in [0..Len(Q) -> Stays(C)] : Follows(h, Q)
    BY NormalIs
  <2> QED
    BY <1>2, <2>1 DEF Follows
<1>5. \A n \in 0..N : g[n] = f[n]
  <2> DEFINE Bad == {n \in 0..N : g[n] # f[n]}
  <2> SUFFICES ASSUME Bad # {} PROVE FALSE
    OBVIOUS
  <2>1. PICK n \in Bad : \A m \in Bad : n <= m
    <3>1. Bad \in SUBSET Nat
      BY <1>1
    <3> HIDE DEF Bad
    <3> QED
      BY <3>1, LeastExists
  <2>2. n \in 0..N /\ g[n] # f[n]
    OBVIOUS
  <2>3. n \in 1..N /\ n \in 1..N + 1
    <3>1. g[0] = f[0]
      BY <1>3, <1>4, Zenon
    <3>2. n # 0
      BY <2>2, <3>1
    <3> QED
      BY <1>1, <2>2, <3>2
  <2>4. n - 1 \notin Bad /\ n - 1 \in 0..N
    <3>1. n \in Nat /\ n - 1 \in 0..N /\ ~ (n <= n - 1)
      BY <1>1, <2>3
    <3> QED
      BY <2>1, <3>1
  <2>5. g[n - 1] = f[n - 1]
    BY <2>4
  <2>6. Q[n] = S[n]
    BY <1>2, <2>3
  <2>7. g[n] = Turn(g[n - 1], Q[n]) /\ f[n] = Turn(f[n - 1], S[n])
    BY <1>3, <1>4, <2>3
  <2> QED
    BY <2>2, <2>5, <2>6, <2>7
<1>6. g[N + 1] = Turn(g[N], Q[N + 1])
  <2>1. N + 1 \in 1..N + 1 /\ (N + 1) - 1 = N
    BY <1>1
  <2> QED
    BY <1>4, <2>1
<1>7. f[N] \in Stays(C) /\ g[N] = f[N]
  BY <1>1, <1>3, <1>5
<1> QED
  BY <1>2, <1>3, <1>4, <1>6, <1>7, Zenon

\* A segment that stays.
Segment(C) == Seq(C \ {"/"}) \ {<<>>, <<".">>, <<".", ".">>}

(***************************************************************************)
(* Segments that stay are left as they are, behind the empty one before    *)
(* the first separator and with or without a separator at the end.         *)
(***************************************************************************)
LEMMA NormalOfSegments ==
  ASSUME NEW C, NEW P \in Seq(Segment(C))
  PROVE  /\ Normal(Cat(One(<<>>), P)) = {P} /\ Normal(Grown(Cat(One(<<>>), P), <<>>)) = {P}
         /\ P \in Seq(Seq(C)) /\ P \in Seq(Seq(C \ {"/"}))
<1>1. PICK V, W, e : V = Segment(C) /\ W = Seq(C) /\ e = <<>>
  OBVIOUS
<1>2. /\ e \in Seq(W) /\ e \in W /\ e \in Seq(V) /\ \A v \in V : v \in W
      /\ \A Q \in Seq(V) : Q \in Seq(W) /\ Q \in Seq(Seq(C \ {"/"}))
  <2>1. e \in Seq(W) /\ e \in W /\ e \in Seq(V)
    BY <1>1, EmptySeq
  <2>2. V \subseteq Seq(C \ {"/"})
    BY <1>1 DEF Segment
  <2>3. Seq(C \ {"/"}) \subseteq W
    BY <1>1, SeqMonotonic
  <2>4. V \subseteq W
    BY <2>2, <2>3
  <2>5. Seq(V) \subseteq Seq(W) /\ Seq(V) \subseteq Seq(Seq(C \ {"/"}))
    BY <2>2, <2>4, SeqMonotonic
  <2> QED
    BY <2>1, <2>4, <2>5
<1>3. One(e) \in Seq(W)
  BY <1>2, OneText
<1>4. PICK T : T = {Q \in Seq(V) : Normal(Cat(One(e), Q)) = {Q}}
  OBVIOUS
<1>5. \A d : Turn(d, e) = d
  BY <1>1 DEF Turn
<1>6. e \in T
  <2>1. Cat(One(e), e) = One(e) /\ One(e) = Grown(e, e)
    <3>1. Cat(One(e), e) = One(e)
      BY <1>1, <1>2, <1>3, CatIs
    <3>2. Grown(e, e) = One(e)
      BY <1>1, <1>2, GrownText
    <3> QED
      BY <3>1, <3>2
  <2>2. Normal(Grown(e, e)) = Turn(Normal(e), e)
    BY <1>1, <1>2, NormalGrows
  <2>3. Normal(e) = {e}
    BY <1>1, NormalOfNone
  <2> QED
    BY <1>2, <1>4, <1>5, <2>1, <2>2, <2>3
<1>7. ASSUME NEW Q \in Seq(V), NEW v \in V, Q \in T PROVE Grown(Q, v) \in T
  <2>1. Cat(One(e), Grown(Q, v)) = Grown(Cat(One(e), Q), v) /\ Cat(One(e), Q) \in Seq(W)
    <3>1. Q \in Seq(W) /\ v \in W
      BY <1>2
    <3> QED
      BY <1>3, <3>1, CatIs
  <2>2. Normal(Grown(Cat(One(e), Q), v)) = Turn(Normal(Cat(One(e), Q)), v)
    <3>1. v \in W
      BY <1>2
    <3> QED
      BY <1>1, <2>1, <3>1, NormalGrows
  <2>3. Turn({Q}, v) = {Grown(Q, v)}
    <3>1. v \notin {<<>>, <<".">>} /\ v # <<".", ".">>
      BY <1>1 DEF Segment
    <3>2. Turn({Q}, v) = {Append(d, v) : d \in {Q}}
      BY <3>1, Zenon DEF Turn
    <3> QED
      BY <3>2, Zenon DEF Grown
  <2>4. Normal(Cat(One(e), Q)) = {Q}
    BY <1>4, <1>7
  <2>5. Grown(Q, v) \in Seq(V)
    BY GrownText
  <2> QED
    BY <1>4, <2>1, <2>2, <2>3, <2>4, <2>5
<1>8. P \in T
  <2>1. \A t \in Seq(V) : t \in T
    BY <1>1, <1>6, <1>7, TextInduction
  <2> QED
    BY <1>1, <2>1
<1>9. Normal(Grown(Cat(One(e), P), e)) = {P}
  <2>1. Cat(One(e), P) \in Seq(W)
    BY <1>1, <1>2, <1>3, CatIs
  <2>2. Normal(Grown(Cat(One(e), P), e)) = Turn(Normal(Cat(One(e), P)), e)
    BY <1>1, <1>2, <2>1, NormalGrows
  <2> QED
    BY <1>4, <1>5, <1>8, <2>2
<1> QED
  BY <1>1, <1>2, <1>4, <1>8, <1>9

-----------------------------------------------------------------------------
(* Paths under a base.                                                     *)

\* What comes behind a beginning.
After(s, t) == SubSeq(t, Len(s) + 1, Len(t))

LEMMA CatParts ==
  ASSUME NEW C, NEW s \in Seq(C), NEW w \in Seq(C), NEW t, t = Cat(s, w)
  PROVE  /\ IsPrefix(s, t) /\ After(s, t) = w /\ t \in Seq(C)
         /\ Len(t) = Len(s) + Len(w) /\ Len(s) \in Nat /\ Len(w) \in Nat
<1>1. PICK m \in Nat, n \in Nat : m = Len(s) /\ n = Len(w)
  BY LenProperties
<1>2. /\ t \in Seq(C) /\ Len(t) = m + n
      /\ \A i \in 1..m + n : t[i] = IF i <= m THEN s[i] ELSE w[i - m]
  BY <1>1, ConcatProperties DEF Cat
<1>3. SubSeq(t, 1, m) = s /\ SubSeq(s, 1, m) = s
  <2>1. SubSeq(s, 1, m) = s
    BY <1>1, SubSeqFull
  <2>2. CASE m = 0
    <3>1. s = <<>>
      BY <1>1, <2>2, EmptySeq
    <3>2. SubSeq(t, 1, 0) = <<>>
      BY SubSeqEmpty
    <3> QED
      BY <2>1, <2>2, <3>1, <3>2
  <2>3. CASE m # 0
    <3>1. 1 \in 1..Len(s) /\ m \in 1..Len(s)
      BY <1>1, <2>3
    <3>2. SubSeq(s \o w, 1, m) = SubSeq(s, 1, m)
      BY <3>1, SubSeqOfConcat1
    <3> QED
      BY <2>1, <3>2 DEF Cat
  <2> QED
    BY <2>2, <2>3
<1>4. IsPrefix(s, t)
  <2>1. m <= m + n
    OBVIOUS
  <2> QED
    BY <1>1, <1>2, <1>3, <2>1 DEF IsPrefix
<1>5. CASE w = <<>>
  <2>1. n = 0
    BY <1>1, <1>5
  <2>2. SubSeq(t, m + 1, m + n) = <<>>
    <3>1. m + 1 \in Int /\ m + n \in Int /\ m + n < m + 1
      BY <2>1
    <3> QED
      BY <3>1, SubSeqEmpty
  <2> QED
    BY <1>1, <1>2, <1>4, <1>5, <2>2 DEF After
<1>6. CASE w # <<>>
  <2>1. n # 0
    BY <1>1, <1>6, EmptySeq
  <2>2. /\ m + 1 \in Len(s) + 1..Len(s) + Len(w) /\ m + n \in Len(s) + 1..Len(s) + Len(w)
        /\ (m + 1) - Len(s) = 1 /\ (m + n) - Len(s) = n
    BY <1>1, <2>1
  <2>3. SubSeq(s \o w, m + 1, m + n) = SubSeq(w, (m + 1) - Len(s), (m + n) - Len(s))
    BY <2>2, SubSeqOfConcat2
  <2>4. SubSeq(w, 1, n) = w
    BY <1>1, SubSeqFull
  <2>5. After(s, t) = w
    BY <1>1, <1>2, <2>2, <2>3, <2>4 DEF After, Cat
  <2> QED
    BY <1>1, <1>2, <1>4, <2>5
<1> QED
  BY <1>5, <1>6

LEMMA PrefixHasRest ==
  ASSUME NEW C, NEW s \in Seq(C), NEW t \in Seq(C), IsPrefix(s, t)
  PROVE  /\ After(s, t) \in Seq(C) /\ t = Cat(s, After(s, t))
<1>1. PICK m \in Nat, n \in Nat : m = Len(s) /\ n = Len(t)
  BY LenProperties
<1>2. m <= n /\ SubSeq(s, 1, m) = SubSeq(t, 1, m)
  BY <1>1 DEF IsPrefix
<1>3. SubSeq(s, 1, m) = s /\ SubSeq(t, 1, n) = t
  BY <1>1, SubSeqFull
<1>4. SubSeq(t, 1, m) \o SubSeq(t, m + 1, n) = SubSeq(t, 1, n)
  <2>1. 1 \in 1..Len(t) + 1 /\ m \in 1 - 1..Len(t) /\ n \in m..Len(t)
    BY <1>1, <1>2
  <2> QED
    BY <2>1, ConcatAdjacentSubSeq
<1>5. SubSeq(t, m + 1, n) \in Seq(C)
  <2>1. m + 1 \in Int /\ n \in Int /\ \A i \in m + 1..n : t[i] \in C
    BY <1>1, <1>2, ElementOfSeq
  <2> QED
    BY <2>1, SubSeqProperties
<1> QED
  BY <1>1, <1>2, <1>3, <1>4, <1>5 DEF After, Cat

(***************************************************************************)
(* A path lies under a base, at a separator, exactly if its segments begin *)
(* with those of the base.                                                 *)
(***************************************************************************)
LEMMA CatCancels ==
  ASSUME NEW C, NEW s \in Seq(C), NEW t \in Seq(C), NEW u \in Seq(C), Cat(s, t) = Cat(s, u)
  PROVE  t = u
BY CatParts

(***************************************************************************)
(* A path is made of one list of parts only.                               *)
(***************************************************************************)
LEMMA JoinedIsOne ==
  ASSUME NEW C, "/" \in C, NEW P \in Seq(Seq(C \ {"/"})), NEW R \in Seq(Seq(C \ {"/"})),
         Joined(P) = Joined(R)
  PROVE  P = R
<1>1. PICK V : V = Seq(C \ {"/"})
  OBVIOUS
<1>2. PICK W : W = Seq(C)
  OBVIOUS
<1>3. One(<<>>) \in Seq(V) /\ P \in Seq(V) /\ R \in Seq(V)
  <2>1. <<>> \in V
    BY <1>1, EmptySeq
  <2> QED
    BY <1>1, <2>1, OneText
<1>4. Cat(One(<<>>), P) = Cat(One(<<>>), R)
  <2>1. Split(Joined(P), {"/"}) = Cat(One(<<>>), P)
    BY SplitJoined
  <2>2. Split(Joined(R), {"/"}) = Cat(One(<<>>), R)
    BY SplitJoined
  <2> QED
    BY <2>1, <2>2
<1> QED
  BY <1>3, <1>4, CatCancels

(***************************************************************************)
(* A path that is made of parts begins with a separator.                   *)
(***************************************************************************)
LEMMA JoinedStarts ==
  ASSUME NEW C, "/" \in C, NEW P \in Seq(Seq(C))
  PROVE  /\ Joined(P) \in Seq(C) /\ (Joined(P) = <<>> <=> P = <<>>)
         /\ P # <<>> => Head(Joined(P)) = "/"
<1>1. PICK V : V = Seq(C)
  OBVIOUS
<1>2. PICK T : T = {Q \in Seq(V) : Q = <<>> \/ (Q # <<>> /\ Joined(Q) # <<>> /\ Head(Joined(Q)) = "/")}
  OBVIOUS
<1>3. <<>> \in T
  BY <1>2, EmptySeq
<1>4. ASSUME NEW Q \in Seq(V), NEW q \in V, Q \in T PROVE Grown(Q, q) \in T
  <2>1. /\ Joined(Q) \in Seq(C) /\ Joined(Grown(Q, q)) = Cat(Grown(Joined(Q), "/"), q)
    BY <1>1, JoinedGrows
  <2>2. PICK j \in Seq(C) : j = Joined(Q)
    BY <2>1
  <2>3. PICK k \in Seq(C) : k = Grown(j, "/") /\ k # <<>>
    BY GrownText
  <2>4. Head(k) = "/"
    <3>1. CASE j = <<>>
      <4>1. k = One("/")
        BY <2>3, <3>1, GrownText
      <4> QED
        BY <4>1, GrownEnds, EmptySeq
    <3>2. CASE j # <<>>
      <4>1. Q # <<>>
        BY <2>2, <3>2, JoinedEmpty
      <4>2. Head(j) = "/"
        BY <1>2, <1>4, <2>2, <4>1
      <4> QED
        BY <2>3, <3>2, <4>2, GrownEnds
    <3> QED
      BY <3>1, <3>2
  <2>5. PICK c \in Seq(C) : c = Cat(k, q)
    BY <1>1, CatIs
  <2>6. Len(k) \in Nat /\ Len(k) # 0 /\ Len(q) \in Nat /\ Len(c) = Len(k) + Len(q) /\ c[1] = k[1]
    <3>1. Len(k) \in Nat /\ Len(k) # 0 /\ Len(q) \in Nat
      BY <1>1, <2>3, LenProperties, EmptySeq
    <3>2. /\ Len(k \o q) = Len(k) + Len(q)
          /\ \A i \in 1..Len(k) + Len(q) : (k \o q)[i] = IF i <= Len(k) THEN k[i] ELSE q[i - Len(k)]
      BY <1>1, ConcatProperties
    <3>3. 1 \in 1..Len(k) + Len(q) /\ 1 <= Len(k)
      BY <3>1
    <3> QED
      BY <2>5, <3>1, <3>2, <3>3 DEF Cat
  <2>7. c # <<>> /\ Head(c) = Head(k)
    BY <2>6
  <2>8. Grown(Q, q) \in Seq(V) /\ Grown(Q, q) # <<>>
    BY GrownText
  <2> QED
    BY <1>2, <2>1, <2>2, <2>3, <2>4, <2>5, <2>7, <2>8
<1>5. P \in T
  <2>1. \A t \in Seq(V) : t \in T
    BY <1>3, <1>4, TextInduction
  <2> QED
    BY <1>1, <2>1
<1>6. Joined(P) \in Seq(C)
  <2>1. P \in Seq(Seq(C)) /\ <<>> \in Seq(Seq(C))
    BY EmptySeq
  <2> QED
    BY <2>1, JoinedCat
<1> QED
  BY <1>2, <1>5, <1>6, JoinedEmpty

\* Parts that are there.
Parts(C) == Seq(C \ {"/"}) \ {<<>>}

LEMMA PartsAre ==
  ASSUME NEW C, "/" \in C, NEW P \in Seq(Parts(C))
  PROVE  /\ P \in Seq(Seq(C \ {"/"})) /\ P \in Seq(Seq(C))
         /\ Joined(P) \in Seq(C) /\ (Joined(P) = <<>> <=> P = <<>>)
         /\ P # <<>> => Head(Joined(P)) = "/"
<1>1. Parts(C) \subseteq Seq(C \ {"/"})
  BY DEF Parts
<1>2. Seq(C \ {"/"}) \subseteq Seq(C)
  BY SeqMonotonic
<1>3. P \in Seq(Seq(C \ {"/"}))
  BY <1>1, SeqMonotonic
<1>4. P \in Seq(Seq(C))
  BY <1>2, <1>3, SeqMonotonic
<1>5. /\ Joined(P) \in Seq(C) /\ (Joined(P) = <<>> <=> P = <<>>)
      /\ P # <<>> => Head(Joined(P)) = "/"
  BY <1>4, JoinedStarts
<1> QED
  BY <1>3, <1>4, <1>5

(***************************************************************************)
(* What Under asks of the rest of a path.                                  *)
(***************************************************************************)
LEMMA UnderOfCat ==
  ASSUME NEW C, NEW s \in Seq(C), NEW w \in Seq(C), NEW t, t = Cat(s, w)
  PROVE  Under(s, t) <=> (s = <<>> \/ w = <<>> \/ Head(w) = "/")
<1>1. PICK m \in Nat, n \in Nat : m = Len(s) /\ n = Len(w)
  BY LenProperties
<1>2. IsPrefix(s, t) /\ Len(t) = m + n
  BY <1>1, CatParts
<1>3. ASSUME w # <<>> PROVE t[m + 1] = Head(w)
  <2>1. \A i \in 1..m + n : t[i] = IF i <= m THEN s[i] ELSE w[i - m]
    BY <1>1, ConcatProperties DEF Cat
  <2>2. n # 0
    BY <1>1, <1>3, LenIs
  <2>3. m + 1 \in 1..m + n /\ ~(m + 1 <= m) /\ (m + 1) - m = 1
    BY <2>2
  <2>4. t[m + 1] = w[1]
    BY <2>1, <2>3
  <2> QED
    BY <2>4
<1>4. m + n > m <=> w # <<>>
  <2>1. n = 0 <=> w = <<>>
    BY <1>1, LenIs
  <2>2. m + n > m <=> n # 0
    OBVIOUS
  <2> QED
    BY <2>1, <2>2
<1>5. Under(s, t) <=> (m + n > m /\ s # <<>> => t[m + 1] = "/")
  BY <1>1, <1>2, Zenon DEF Under
<1> QED
  BY <1>3, <1>4, <1>5, Zenon

(***************************************************************************)
(* Concatenations that are empty or have one character.                    *)
(***************************************************************************)
LEMMA EmptyCat ==
  ASSUME NEW C, NEW s \in Seq(C), NEW w \in Seq(C), Cat(s, w) = <<>>
  PROVE  s = <<>> /\ w = <<>>
BY ConcatEqualIffEmpty DEF Cat

LEMMA OneCat ==
  ASSUME NEW C, NEW s \in Seq(C), NEW w \in Seq(C), NEW c, Cat(s, w) = One(c), s # <<>>
  PROVE  w = <<>>
<1>1. PICK m \in Nat, n \in Nat : m = Len(s) /\ n = Len(w)
  BY LenProperties
<1>2. PICK k : k = Len(One(c))
  OBVIOUS
<1>6. k = m + n
  BY <1>1, <1>2, CatParts
<1>3. k = 1
  BY <1>2 DEF One
<1>4. m # 0
  BY <1>1, LenIs
<1>5. n = 0
  BY ONLY <1>6, <1>3, <1>4, m \in Nat, n \in Nat
<1> QED
  BY <1>1, <1>5, LenIs

(***************************************************************************)
(* The root does not lie under a path of parts.                            *)
(***************************************************************************)
LEMMA SlashIsNoPrefix ==
  ASSUME NEW C, "/" \in C, NEW P \in Seq(Parts(C)), P # <<>>
  PROVE  ~IsPrefix(Joined(P), One("/"))
<1> SUFFICES ASSUME IsPrefix(Joined(P), One("/")) PROVE FALSE
  OBVIOUS
<1>1. PICK j \in Seq(C), o \in Seq(C) : j = Joined(P) /\ j # <<>> /\ o = One("/")
  BY PartsAre, OneText
<1>2. PICK w \in Seq(C) : o = Cat(j, w)
  BY <1>1, PrefixHasRest
<1>4. w = <<>>
  BY <1>1, <1>2, OneCat
<1>5. o = j
  BY <1>2, <1>4, CatIs
<1>6. PICK e \in Seq(C \ {"/"}) : e = <<>>
  BY EmptySeq
<1>7. One(e) \in Seq(Seq(C \ {"/"})) /\ P \in Seq(Seq(C \ {"/"}))
  BY OneText, PartsAre
<1>8. Joined(One(e)) = o
  <2>1. e \in Seq(C) /\ e \in Seq(Seq(C))
    BY <1>6, EmptySeq
  <2>2. Grown(e, e) = One(e)
    BY <1>6, <2>1, GrownText
  <2>3. Joined(Grown(e, e)) = Cat(Grown(Joined(e), "/"), e)
    BY <2>1, JoinedGrows
  <2>4. Joined(e) = e
    BY <1>6, JoinedEmpty
  <2>5. Grown(e, "/") = o
    BY <1>1, <1>6, <2>1, GrownText
  <2>6. Cat(o, e) = o
    BY <1>6, CatIs
  <2> QED
    BY <2>2, <2>3, <2>4, <2>5, <2>6
<1>9. P = One(e)
  BY <1>1, <1>5, <1>7, <1>8, JoinedIsOne
<1>10. P[1] = e /\ Len(P) = 1
  BY <1>9 DEF One
<1>11. P[1] \in Parts(C)
  <2>1. 1 \in 1..Len(P)
    BY <1>10
  <2> QED
    BY <2>1, ElementOfSeq
<1> QED
  BY <1>6, <1>10, <1>11 DEF Parts

(***************************************************************************)
(* A path whose segments begin with those of a base lies under it.         *)
(***************************************************************************)
LEMMA PrefixIsUnder ==
  ASSUME NEW C, "/" \in C, NEW s \in Seq(Parts(C)), NEW t \in Seq(Parts(C)), IsPrefix(s, t)
  PROVE  /\ Under(Joined(s), AsPath(t))
         /\ After(Joined(s), AsPath(t)) = <<>> => AsPath(After(s, t)) = <<"/">>
         /\ After(Joined(s), AsPath(t)) # <<>> => AsPath(After(s, t)) = After(Joined(s), AsPath(t))
<1>1. PICK V : V = Parts(C)
  OBVIOUS
<1>2. PICK u \in Seq(V) : u = After(s, t) /\ t = Cat(s, u)
  BY <1>1, PrefixHasRest
<1>3. PICK j \in Seq(C), k \in Seq(C) :
         /\ j = Joined(s) /\ k = Joined(u)
         /\ (k = <<>> <=> u = <<>>) /\ (j = <<>> <=> s = <<>>)
         /\ u # <<>> => Head(k) = "/"
  <2>1. /\ Joined(s) \in Seq(C) /\ (Joined(s) = <<>> <=> s = <<>>)
    BY PartsAre
  <2>2. /\ Joined(u) \in Seq(C) /\ (Joined(u) = <<>> <=> u = <<>>)
        /\ u # <<>> => Head(Joined(u)) = "/"
    BY <1>1, PartsAre
  <2> QED
    BY <2>1, <2>2
<1>4. AsPath(<<>>) = One("/") /\ One("/") # <<>> /\ One("/") = <<"/">>
  BY DEF AsPath, One
<1>5. CASE t = <<>>
  <2>1. s = <<>> /\ u = <<>>
    <3>1. Cat(s, u) = <<>> /\ s \in Seq(V)
      BY <1>1, <1>2, <1>5
    <3> QED
      BY <3>1, EmptyCat
  <2>2. PICK o \in Seq(C) : o = One("/")
    BY OneText
  <2>3. j = <<>> /\ AsPath(t) = o /\ AsPath(u) = o /\ o # <<>>
    BY <1>3, <1>4, <1>5, <2>1, <2>2, Zenon
  <2>4. IsPrefix(j, o) /\ After(j, o) = o
    <3>1. o = Cat(j, o)
      BY <2>3, CatIs
    <3> QED
      BY <3>1, CatParts
  <2>5. Under(j, o)
    BY <2>3, <2>4, Zenon DEF Under
  <2> QED
    BY <1>2, <1>3, <2>2, <2>3, <2>4, <2>5, Zenon
<1>6. CASE t # <<>>
  <2>1. AsPath(t) = Joined(t)
    BY <1>6 DEF AsPath
  <2>2. PICK p : p = Joined(t)
    OBVIOUS
  <2>3. p = Cat(j, k)
    <3>1. s \in Seq(Seq(C))
      BY PartsAre
    <3>2. u \in Seq(Seq(C))
      BY <1>1, PartsAre
    <3>3. Joined(Cat(s, u)) = Cat(Joined(s), Joined(u))
      BY <3>1, <3>2, JoinedCat
    <3> QED
      BY <1>2, <1>3, <2>2, <3>3, Zenon
  <2>4. After(j, p) = k
    BY <2>3, CatParts
  <2>5. Under(j, p)
    BY <1>3, <2>3, UnderOfCat
  <2>6. k = <<>> => AsPath(u) = <<"/">>
    BY <1>3, <1>4, Zenon
  <2>7. k # <<>> => AsPath(u) = k
    BY <1>3, Zenon DEF AsPath
  <2> QED
    BY <1>2, <1>3, <2>1, <2>2, <2>4, <2>5, <2>6, <2>7, Zenon
<1> QED
  BY <1>5, <1>6

(***************************************************************************)
(* A path that lies under a base begins with its segments.                 *)
(***************************************************************************)
LEMMA UnderIsPrefix ==
  ASSUME NEW C, "/" \in C, NEW s \in Seq(Parts(C)), NEW t \in Seq(Parts(C)),
         Under(Joined(s), AsPath(t))
  PROVE  IsPrefix(s, t)
<1>1. PICK V : V = Parts(C)
  OBVIOUS
<1>2. PICK j \in Seq(C) : j = Joined(s) /\ (j = <<>> <=> s = <<>>)
  BY PartsAre
<1>3. CASE t = <<>>
  <2>1. AsPath(t) = One("/")
    BY <1>3 DEF AsPath, One
  <2>2. IsPrefix(Joined(s), One("/"))
    BY <2>1 DEF Under
  <2>3. s = <<>>
    BY <2>2, SlashIsNoPrefix
  <2>4. t = Cat(s, t)
    BY <1>1, <1>3, <2>3, CatIs
  <2> QED
    BY <2>4, CatParts
<1>4. CASE t # <<>>
  <2>1. PICK p \in Seq(C) : p = Joined(t) /\ p # <<>> /\ Head(p) = "/"
    BY <1>4, PartsAre
  <2>2. Under(j, p)
    <3>1. AsPath(t) = Joined(t)
      BY <1>4 DEF AsPath
    <3> QED
      BY <1>2, <2>1, <3>1
  <2>3. IsPrefix(j, p)
    BY <2>2 DEF Under
  <2>4. PICK w \in Seq(C) : p = Cat(j, w)
    BY <2>3, PrefixHasRest
  <2>6. w # <<>> => Head(w) = "/"
    <3>1. CASE j = <<>>
      <4>1. p = w
        BY <2>4, <3>1, CatIs
      <4> QED
        BY <2>1, <4>1
    <3>2. CASE j # <<>>
      BY <2>2, <2>4, <3>2, UnderOfCat
    <3> QED
      BY <3>1, <3>2
  <2>7. PICK u \in Seq(Seq(C \ {"/"})) : Joined(u) = w
    <3>1. CASE w = <<>>
      BY <3>1, JoinedEmpty, EmptySeq
    <3>2. CASE w # <<>>
      <4>1. Tail(w) \in Seq(C) /\ Joined(Split(Tail(w), {"/"})) = w
        BY <2>6, <3>2, RootedIs
      <4>2. Split(Tail(w), {"/"}) \in Seq(Seq(C \ {"/"}))
        BY <4>1, SplitIsSeq
      <4> QED
        BY <4>1, <4>2
    <3> QED
      BY <3>1, <3>2
  <2>8. s \in Seq(Seq(C \ {"/"})) /\ t \in Seq(Seq(C \ {"/"}))
    BY PartsAre
  <2>9. Joined(Cat(s, u)) = Joined(t)
    <3>1. u \in Seq(Seq(C)) /\ s \in Seq(Seq(C))
      <4>1. Seq(C \ {"/"}) \subseteq Seq(C)
        BY SeqMonotonic
      <4> QED
        BY <2>7, <2>8, <4>1, SeqMonotonic
    <3>2. Joined(Cat(s, u)) = Cat(Joined(s), Joined(u))
      BY <3>1, JoinedCat
    <3> QED
      BY <1>2, <2>1, <2>4, <2>7, <3>2
  <2>10. Cat(s, u) \in Seq(Seq(C \ {"/"}))
    BY <2>7, <2>8, CatIs
  <2>11. t = Cat(s, u)
    BY <2>8, <2>9, <2>10, JoinedIsOne
  <2> QED
    BY <2>7, <2>8, <2>11, CatParts
<1> QED
  BY <1>3, <1>4

-----------------------------------------------------------------------------
(* href_to_mount_path.                                                     *)

(***************************************************************************)
(* A text without an encoded separator is decoded to itself.               *)
(***************************************************************************)
LEMMA DecodedIs ==
  ASSUME NEW C, "%2F" \notin C, "%5C" \notin C, NEW text \in Seq(C)
  PROVE  Decoded(text) = text
<1>1. PICK n \in Nat : n = Len(text) /\ DOMAIN text = 1..n
  BY LenProperties
<1>2. \A i \in 1..n : text[i] \in C
  BY <1>1, ElementOfSeq
<1>3. \A i \in 1..n : (CASE text[i] = "%2F" -> "/" [] text[i] = "%5C" -> "\\" [] OTHER -> text[i]) = text[i]
  BY <1>2
<1>4. Decoded(text) = [i \in 1..n |-> text[i]]
  BY <1>1, <1>3, Zenon DEF Decoded
<1>5. text = [i \in 1..n |-> text[i]]
  BY <1>1, LenProperties
<1> QED
  BY <1>4, <1>5

(***************************************************************************)
(* The path of a reference is made of its characters.                      *)
(***************************************************************************)
LEMMA PathPartText ==
  ASSUME NEW C, "/" \in C, NEW ref \in Seq(C)
  PROVE  PathPart(ref) \in Seq(C)
<1>1. PICK stops, ends : stops = {"/", "?", "#"} /\ ends = {"?", "#"}
  OBVIOUS
<1>2. ASSUME NEW t \in Seq(C) PROVE UpTo(t, ends) \in Seq(C) /\ From(t, stops) \in Seq(C)
  <2>1. UpTo(t, ends) \in Seq(C)
    BY UpToGrows
  <2>2. From(t, stops) \in Seq(C)
    BY UpToGrows
  <2> QED
    BY <2>1, <2>2
<1>3. CASE Absolute(ref)
  <2>1. ref # <<>>
    BY <1>3 DEF Absolute
  <2>2. PICK a \in Seq(C) : a = AfterScheme(ref)
    <3>1. Tail(ref) \in Seq(C)
      BY <2>1, HeadTailProperties
    <3> QED
      BY <3>1 DEF AfterScheme
  <2>3. PICK l \in Seq(C) : l = SubSeq(a, 3, Len(a))
    <3>1. 3 \in Int /\ Len(a) \in Int /\ \A i \in 3..Len(a) : a[i] \in C
      BY LenProperties, ElementOfSeq
    <3> QED
      BY <3>1, SubSeqProperties
  <2>4. PICK f \in Seq(C) : f = From(l, stops)
    BY <1>2
  <2>5. PICK p \in Seq(C) : p = UpTo(f, ends)
    BY <1>2
  <2>6. PathPart(ref) = IF p = <<>> THEN <<"/">> ELSE p
    BY <1>1, <1>3, <2>2, <2>3, <2>4, <2>5, Zenon DEF PathPart
  <2>7. <<"/">> \in Seq(C)
    BY OneText DEF One
  <2> QED
    BY <2>6, <2>7
<1>4. CASE ~Absolute(ref)
  <2>1. PathPart(ref) = UpTo(ref, ends)
    BY <1>1, <1>4, Zenon DEF PathPart
  <2> QED
    BY <1>2, <2>1
<1> QED
  BY <1>3, <1>4

\* What a reference resolves to, segment by segment.
Target(place, text) ==
  Normal((IF text # <<>> /\ Head(text) = "/" THEN <<>> ELSE Split(place, {"/"})) \o Split(text, {"/"}))

(***************************************************************************)
(* axl_path_resolve goes where the reference leads, segment by segment.    *)
(***************************************************************************)
LEMMA TargetIs ==
  ASSUME NEW C, "/" \in C, NEW place \in Seq(C), NEW text \in Seq(C)
  PROVE  /\ PathResolve(place, text) = {AsPath(n) : n \in Target(place, text)}
         /\ Target(place, text) = {} \/ \E t \in Seq(Parts(C)) : Target(place, text) = {t}
<1>1. PICK seps : seps = {"/"}
  OBVIOUS
<1>2. PICK rooted : rooted = (text # <<>> /\ Head(text) = "/")
  OBVIOUS
<1>3. PICK P \in Seq(Seq(C)), R \in Seq(Seq(C)) : P = Split(place, seps) /\ R = Split(text, seps)
  <2>1. Split(place, seps) \in Seq(Seq(C))
    BY SplitEnds
  <2>2. Split(text, seps) \in Seq(Seq(C))
    BY SplitEnds
  <2> QED
    BY <2>1, <2>2
<1>4. PICK from \in Seq(C) : /\ rooted => from = text
                             /\ ~rooted => from = Cat(Grown(place, "/"), text)
  <2>1. Grown(place, "/") \in Seq(C)
    BY GrownText
  <2>2. Cat(Grown(place, "/"), text) \in Seq(C)
    BY <2>1, CatIs
  <2> QED
    BY <2>2
<1>5. from = IF text # <<>> /\ Head(text) = "/" THEN text ELSE place \o <<"/">> \o text
  <2>1. Grown(place, "/") = place \o <<"/">>
    BY AppendIsConcat DEF Grown
  <2> QED
    BY <1>2, <1>4, <2>1, Zenon DEF Cat
<1>6. PathResolve(place, text) = {AsPath(n) : n \in Normal(Split(from, seps))}
  BY <1>1, <1>5, Zenon DEF PathResolve
<1>7. Target(place, text) = Normal(Split(from, seps))
  <2>1. CASE rooted
    <3>1. <<>> \o R = R
      BY ConcatEmptySeq
    <3>2. Target(place, text) = Normal(<<>> \o R)
      BY <1>1, <1>2, <1>3, <2>1, Zenon DEF Target
    <3> QED
      BY <1>3, <1>4, <2>1, <3>1, <3>2
  <2>2. CASE ~rooted
    <3>1. Split(Cat(Grown(place, "/"), text), seps) = Cat(P, R)
      <4>1. "/" \in seps
        BY <1>1
      <4> QED
        BY <1>3, <4>1, SplitConcat
    <3>2. Target(place, text) = Normal(P \o R)
      BY <1>1, <1>2, <1>3, <2>2, Zenon DEF Target
    <3> QED
      BY <1>4, <2>2, <3>1, <3>2, Zenon DEF Cat
  <2> QED
    BY <2>1, <2>2
<1>8. Normal(Split(from, seps)) \in Stays(C \ {"/"})
  <2>1. PICK D : D = C \ seps
    OBVIOUS
  <2>2. Split(from, seps) \in Seq(Seq(D))
    BY <2>1, SplitIsSeq
  <2>3. <<>> \in Seq(D)
    BY EmptySeq
  <2>4. Normal(Split(from, seps)) \in Stays(D)
    BY <2>2, <2>3, NormalGrows
  <2> QED
    BY <1>1, <2>1, <2>4
<1> QED
  BY <1>6, <1>7, <1>8 DEF Stays, Parts

(***************************************************************************)
(* The segments of a share's path.                                         *)
(***************************************************************************)
LEMMA ShareIs ==
  ASSUME NEW C, "/" \in C, NEW share \in Seq(Parts(C))
  PROVE  NonEmpty(Split(Joined(share), {"/"})) = share
<1>1. PICK V : V = Seq(C \ {"/"})
  OBVIOUS
<1>2. Split(Joined(share), {"/"}) = Cat(One(<<>>), share)
  BY PartsAre, SplitJoined
<1>3. <<>> \in V /\ share \in Seq(V)
  BY <1>1, EmptySeq, PartsAre
<1>4. NonEmpty(Cat(One(<<>>), share)) = NonEmpty(share)
  BY <1>3, NonEmptyOfOneEmpty
<1>5. NonEmpty(share) = share
  <2>1. <<>> \notin Parts(C)
    BY DEF Parts
  <2> QED
    BY <2>1, NonEmptyFull
<1> QED
  BY <1>2, <1>4, <1>5

LEMMA NotFoundIs ==
  /\ NotFound("bad").kind # "entry" /\ NotFound("foreign").kind # "entry"
  /\ NotFound("too long").kind # "entry"
BY DEF NotFound

(***************************************************************************)
(* What a resolved path is in a share.                                     *)
(***************************************************************************)
LEMMA InShareIs ==
  ASSUME NEW C, "/" \in C, NEW share \in Seq(Parts(C)), NEW t \in Seq(Parts(C)),
         NEW r, r = InShare(Joined(share), AsPath(t)), NEW below, below = AsPath(After(share, t))
  PROVE  /\ r.kind = "entry" => IsPrefix(share, t) /\ r.path = below
         /\ IsPrefix(share, t) /\ Len(below) < MaxPath => r = Found(below)
<1>1. PICK base, p : base = Joined(share) /\ p = AsPath(t)
  OBVIOUS
<1>2. PICK rel : rel = After(base, p)
  OBVIOUS
<1>3. CASE ~IsPrefix(share, t)
  <2>1. ~Under(base, p)
    BY <1>1, <1>3, UnderIsPrefix
  <2>2. r = NotFound("foreign")
    BY <1>1, <2>1, Zenon DEF InShare
  <2>3. r.kind = "foreign"
    BY <2>2 DEF NotFound
  <2> QED
    BY <1>3, <2>3
<1>4. CASE IsPrefix(share, t)
  <2>1. Under(base, p)
    BY <1>1, <1>4, PrefixIsUnder
  <2>2. rel = <<>> => below = <<"/">>
    BY <1>1, <1>2, <1>4, PrefixIsUnder
  <2>3. rel # <<>> => below = rel
    BY <1>1, <1>2, <1>4, PrefixIsUnder
  <2>4. r = IF Len(below) >= MaxPath THEN NotFound("too long") ELSE Found(below)
    <3>1. below = IF rel = <<>> THEN <<"/">> ELSE rel
      BY <2>2, <2>3
    <3> QED
      BY <1>1, <1>2, <2>1, <3>1, Zenon DEF InShare, After
  <2>5. CASE Len(below) >= MaxPath
    <3>1. r = NotFound("too long")
      BY <2>4, <2>5
    <3>2. r.kind # "entry"
      BY <3>1, NotFoundIs, Zenon
    <3>3. ~(Len(below) < MaxPath)
      <4>1. below \in Seq(C)
        <5>1. After(share, t) \in Seq(Parts(C))
          BY <1>4, PrefixHasRest
        <5>2. Joined(After(share, t)) \in Seq(C)
          BY <5>1, PartsAre
        <5>3. <<"/">> \in Seq(C)
          BY OneText DEF One
        <5> QED
          BY <5>2, <5>3 DEF AsPath
      <4>2. PICK l \in Nat : l = Len(below)
        BY <4>1, LenProperties
      <4>3. MaxPath \in Nat
        BY HrefAssumption
      <4> QED
        BY <2>5, <4>2, <4>3
    <3> QED
      BY <3>2, <3>3
  <2>6. CASE ~(Len(below) >= MaxPath)
    <3>1. r = Found(below)
      BY <2>4, <2>6
    <3>2. r.path = below
      BY <3>1 DEF Found
    <3> QED
      BY <1>4, <3>1, <3>2
  <2> QED
    BY <2>5, <2>6
<1> QED
  BY <1>3, <1>4

\* The reference is followed.
Followed(ref) == (Absolute(ref) => Parses(ref) /\ Ours(ref)) /\ Decodes(PathPart(ref))

(***************************************************************************)
(* What href_to_mount_path returns for a reference without encoded         *)
(* separators.                                                             *)
(***************************************************************************)
LEMMA ResultIs ==
  ASSUME NEW base, NEW place, NEW ref, Decoded(PathPart(ref)) = PathPart(ref),
         NEW r, r = HrefToMountPath(base, place, ref),
         PathResolve(place, PathPart(ref)) = {AsPath(n) : n \in Target(place, PathPart(ref))}
  PROVE  /\ r.kind = "entry" => Followed(ref) /\ Target(place, PathPart(ref)) # {}
         /\ \A t : Followed(ref) /\ Target(place, PathPart(ref)) = {t} => r = InShare(base, AsPath(t))
<1>1. PICK bad, foreign : bad = NotFound("bad") /\ foreign = NotFound("foreign")
  OBVIOUS
<1>2. bad.kind # "entry" /\ foreign.kind # "entry"
  BY <1>1, NotFoundIs, Zenon
<1>3. PICK resolved : resolved = PathResolve(place, Decoded(PathPart(ref)))
  OBVIOUS
<1>4. CASE Absolute(ref) /\ ~Parses(ref)
  <2>1. r = bad
    BY <1>1, <1>4, Zenon DEF HrefToMountPath
  <2> QED
    BY <1>2, <1>4, <2>1, Zenon DEF Followed
<1>5. CASE ~(Absolute(ref) /\ ~Parses(ref)) /\ Absolute(ref) /\ ~Ours(ref)
  <2>1. r = foreign
    BY <1>1, <1>5, Zenon DEF HrefToMountPath
  <2> QED
    BY <1>2, <1>5, <2>1, Zenon DEF Followed
<1>6. CASE Absolute(ref) => Parses(ref) /\ Ours(ref)
  <2>0. ~(Absolute(ref) /\ ~Parses(ref)) /\ ~(Absolute(ref) /\ ~Ours(ref))
    BY <1>6
  <2>1. r = IF ~Decodes(PathPart(ref)) \/ resolved = {} THEN bad
            ELSE InShare(base, CHOOSE q \in resolved : TRUE)
    <3>1. HrefToMountPath(base, place, ref) =
            IF Absolute(ref) /\ ~Parses(ref) THEN NotFound("bad")
            ELSE IF Absolute(ref) /\ ~Ours(ref) THEN NotFound("foreign")
            ELSE IF \/ ~Decodes(PathPart(ref))
                    \/ PathResolve(place, Decoded(PathPart(ref))) = {} THEN NotFound("bad")
            ELSE InShare(base, CHOOSE q \in PathResolve(place, Decoded(PathPart(ref))) : TRUE)
      BY Zenon DEF HrefToMountPath
    <3> QED
      BY <1>1, <1>3, <2>0, <3>1, Zenon
  <2>2. CASE ~Decodes(PathPart(ref)) \/ resolved = {}
    <3>1. r = bad
      BY <2>1, <2>2
    <3>2. \A t : ~(Followed(ref) /\ Target(place, PathPart(ref)) = {t})
      <4>1. ASSUME NEW t, Target(place, PathPart(ref)) = {t} PROVE resolved # {}
        BY <1>3, <4>1, Zenon
      <4> QED
        BY <2>2, <4>1, Zenon DEF Followed
    <3> QED
      BY <1>2, <3>1, <3>2, Zenon
  <2>3. CASE Decodes(PathPart(ref)) /\ resolved # {}
    <3>1. Followed(ref)
      BY <1>6, <2>3, Zenon DEF Followed
    <3>2. Target(place, PathPart(ref)) # {}
      BY <1>3, <2>3, Zenon
    <3>3. ASSUME NEW t, Target(place, PathPart(ref)) = {t} PROVE r = InShare(base, AsPath(t))
      <4>1. resolved = {AsPath(t)}
        BY <1>3, <3>3, Zenon
      <4>2. (CHOOSE q \in resolved : TRUE) = AsPath(t)
        <5>1. PICK x : x = CHOOSE q \in resolved : TRUE
          OBVIOUS
        <5>2. x \in resolved
          BY <4>1, <5>1, Zenon
        <5>3. x = AsPath(t)
          BY <4>1, <5>2
        <5> QED
          BY <5>1, <5>3, Zenon
      <4> QED
        BY <2>1, <2>3, <4>2, Zenon
    <3> QED
      BY <3>1, <3>2, <3>3, Zenon
  <2> QED
    BY <2>2, <2>3, Zenon
<1> QED
  BY <1>4, <1>5, <1>6, Zenon

(***************************************************************************)
(* An href that is read in a directory of a share whose path has no empty  *)
(* segments.                                                               *)
(***************************************************************************)
LEMMA HrefIsResolvedIn ==
  ASSUME NEW C, "/" \in C, NEW share \in Seq(Parts(C)), NEW place \in Seq(C), NEW ref \in Seq(C)
  PROVE  HrefIsResolved(Joined(share), place, ref)
<1>1. PICK base, wanted : base = Joined(share) /\ wanted = PathPart(ref)
  OBVIOUS
<1> SUFFICES ASSUME {"%2F", "%5C"} \cap ToSet(ref) = {}
             PROVE  HrefIsResolved(base, place, ref)
  BY <1>1, Zenon DEF HrefIsResolved
<1>2. PICK r : r = HrefToMountPath(base, place, ref)
  OBVIOUS
<1>3. PICK D : D = C \ {"%2F", "%5C"}
  OBVIOUS
<1>4. ref \in Seq(D) /\ "/" \in D
  <2>1. ASSUME NEW i \in 1..Len(ref) PROVE ref[i] \in D
    <3>1. ref[i] \in C /\ i \in DOMAIN ref
      BY ElementOfSeq, LenProperties
    <3>2. ref[i] \in ToSet(ref)
      BY <3>1, Zenon DEF ToSet
    <3> QED
      BY <1>3, <3>1, <3>2
  <2>2. ref \in [1..Len(ref) -> D]
    BY <2>1, LenProperties
  <2> QED
    BY <1>3, <2>2, SeqDef, LenProperties
<1>5. wanted \in Seq(D) /\ Decoded(wanted) = wanted
  <2>1. wanted \in Seq(D)
    BY <1>1, <1>4, PathPartText
  <2>2. "%2F" \notin D /\ "%5C" \notin D
    BY <1>3
  <2> QED
    BY <2>1, <2>2, DecodedIs
<1>6. wanted \in Seq(C)
  <2>1. D \subseteq C
    BY <1>3
  <2> QED
    BY <1>5, <2>1, SeqMonotonic
<1>7. /\ PathResolve(place, wanted) = {AsPath(n) : n \in Target(place, wanted)}
      /\ Target(place, wanted) = {} \/ \E t \in Seq(Parts(C)) : Target(place, wanted) = {t}
  BY <1>6, TargetIs
<1>8. /\ r.kind = "entry" => Followed(ref) /\ Target(place, wanted) # {}
      /\ \A t : Followed(ref) /\ Target(place, wanted) = {t} => r = InShare(base, AsPath(t))
  <2>1. Decoded(PathPart(ref)) = PathPart(ref)
    BY <1>1, <1>5
  <2>2. PathResolve(place, PathPart(ref)) = {AsPath(n) : n \in Target(place, PathPart(ref))}
    BY <1>1, <1>7
  <2>3. /\ r.kind = "entry" => Followed(ref) /\ Target(place, PathPart(ref)) # {}
        /\ \A t : Followed(ref) /\ Target(place, PathPart(ref)) = {t} => r = InShare(base, AsPath(t))
    BY <1>2, <2>1, <2>2, ResultIs, Zenon
  <2> QED
    BY <1>1, <2>3, Zenon
<1>9. NonEmpty(Split(base, {"/"})) = share
  BY <1>1, ShareIs
<1>10. PICK target : target = Target(place, wanted)
  OBVIOUS
<1>11. ASSUME NEW t \in target
       PROVE  /\ Followed(ref) => r = InShare(base, AsPath(t))
              /\ t \in Seq(Parts(C))
  BY <1>7, <1>8, <1>10, <1>11, Zenon
<1>12. ASSUME r.kind = "entry"
       PROVE  \E t \in target : IsPrefix(share, t) /\ r.path = AsPath(After(share, t))
  <2>1. Followed(ref) /\ target # {}
    BY <1>8, <1>10, <1>12
  <2>2. PICK t \in target : TRUE
    BY <2>1
  <2>3. r = InShare(Joined(share), AsPath(t)) /\ t \in Seq(Parts(C))
    BY <1>1, <1>11, <2>1
  <2>4. IsPrefix(share, t) /\ r.path = AsPath(After(share, t))
    BY <1>12, <2>3, InShareIs
  <2> QED
    BY <2>4
<1>13. ASSUME Followed(ref), NEW t \in target, IsPrefix(share, t), Len(AsPath(After(share, t))) < MaxPath
       PROVE  r = Found(AsPath(After(share, t)))
  <2>1. r = InShare(Joined(share), AsPath(t)) /\ t \in Seq(Parts(C))
    BY <1>1, <1>11, <1>13
  <2> QED
    BY <1>13, <2>1, InShareIs
<1> QED
  BY <1>1, <1>2, <1>9, <1>10, <1>12, <1>13, Zenon DEF HrefIsResolved, Target, After, Followed

-----------------------------------------------------------------------------
(* The shares the mount accepts.                                           *)

(***************************************************************************)
(* A text in which some characters do not occur.                           *)
(***************************************************************************)
LEMMA TextWithout ==
  ASSUME NEW C, NEW X, NEW t \in Seq(C), \A i \in 1..Len(t) : t[i] \notin X
  PROVE  t \in Seq(C \ X)
<1>1. \A i \in 1..Len(t) : t[i] \in C \ X
  BY ElementOfSeq
<1>2. t \in [1..Len(t) -> C \ X]
  BY <1>1, LenProperties
<1> QED
  BY <1>2, SeqDef, LenProperties

(***************************************************************************)
(* A text without its trailing separators.                                 *)
(***************************************************************************)
LEMMA WithoutTrailingIs ==
  ASSUME NEW C, NEW text \in Seq(C)
  PROVE  /\ WithoutTrailing(text) \in Seq(C)
         /\ WithoutTrailing(text) # <<>> => text # <<>> /\ Head(WithoutTrailing(text)) = Head(text)
<1>1. PICK n \in Nat : n = Len(text) /\ DOMAIN text = 1..n
  BY LenProperties
<1>2. PICK kept : kept = {i \in DOMAIN text : text[i] # "/"}
  OBVIOUS
<1>3. CASE kept = {}
  <2>1. WithoutTrailing(text) = <<>>
    BY <1>2, <1>3, Zenon DEF WithoutTrailing
  <2> QED
    BY <2>1, EmptySeq
<1>4. CASE kept # {}
  <2>1. kept \in SUBSET (1..n) /\ kept \in SUBSET Nat
    BY <1>1, <1>2
  <2>2. IsFiniteSet(kept)
    <3>1. IsFiniteSet(1..n)
      <4>1. 1 \in Int /\ n \in Int
        BY <1>1
      <4> QED
        BY <4>1, FS_Interval
    <3> QED
      BY <2>1, <3>1, FS_Subset
  <2>3. \E m \in kept : \A i \in kept : m >= i
    <3>1. Cardinality(kept) \in Nat /\ Cardinality(kept) # 0
      BY <1>4, <2>2, FS_CardinalityType, FS_EmptySet
    <3>2. Cardinality(kept) \in 1..Cardinality(kept)
      BY <3>1
    <3>3. PICK m \in kept : m = Nth(kept, Cardinality(kept))
      BY <2>1, <2>2, <3>2, NthIs
    <3>4. \A i \in kept : i <= m
      BY <2>1, <2>2, <3>2, <3>3, NthIsLast
    <3>5. m \in Nat /\ \A i \in kept : i \in Nat
      BY <2>1
    <3>6. \A i \in kept : m >= i
      BY <3>4, <3>5
    <3> QED
      BY <3>6
  <2>4. PICK m : m = Max(kept)
    OBVIOUS
  <2>5. m \in kept
    BY <2>3, <2>4 DEF Max
  <2>6. m \in 0..Len(text) /\ m # 0
    BY <1>1, <2>1, <2>5
  <2>7. WithoutTrailing(text) = SubSeq(text, 1, m)
    BY <1>2, <1>4, <2>4, Zenon DEF WithoutTrailing
  <2>8. /\ SubSeq(text, 1, m) \in Seq(C) /\ SubSeq(text, 1, m)[1] = text[1]
    <3>1. 1 \in 1..m
      BY <2>6
    <3> QED
      BY <2>6, <3>1, PrefixIs
  <2>9. text # <<>>
    BY <1>1, <2>6, EmptySeq
  <2> QED
    BY <2>7, <2>8, <2>9
<1> QED
  BY <1>3, <1>4

LEMMA TailOfCat ==
  ASSUME NEW V, NEW e \in V, NEW P \in Seq(V)
  PROVE  Tail(Cat(One(e), P)) = P
<1>1. PICK o \in Seq(V) : o = One(e)
  BY OneText
<1>2. PICK t \in Seq(V) : t = Cat(o, P) /\ After(o, t) = P
  BY <1>1, CatParts
<1>3. Len(o) = 1
  BY <1>1 DEF One
<1>4. t # <<>>
  <2>1. t = <<>> => o = <<>>
    BY <1>2, EmptyCat
  <2>2. o # <<>>
    BY <1>1 DEF One
  <2> QED
    BY <2>1, <2>2
<1>5. Tail(t) = SubSeq(t, 2, Len(t))
  BY <1>4, TailIsSubSeq
<1>6. After(o, t) = SubSeq(t, 2, Len(t))
  BY <1>3 DEF After
<1> QED
  BY <1>1, <1>2, <1>5, <1>6

\* What an accepted share path is made of.
PlainCharacter(C) == C \ {"%2F", "%5C", "%00", "%", "\\"}

(***************************************************************************)
(* A share path that is accepted is its segments.                          *)
(***************************************************************************)
LEMMA SharePathIs ==
  ASSUME NEW C, "/" \in C, NEW text \in Seq(C), text = <<>> \/ Head(text) = "/",
         NEW base \in SharePath(text)
  PROVE  \E share \in Seq(Segment(PlainCharacter(C))) : base = Joined(share)
<1>1. PICK D : D = C \ {"%2F", "%5C", "%00", "%"}
  OBVIOUS
<1>2. PICK given : given = WithoutTrailing(Decoded(text))
  OBVIOUS
<1>3. /\ base = given /\ Decodes(text) /\ {"%2F", "%5C"} \cap ToSet(text) = {} /\ ~Contains(given, "\\")
      /\ {<<>>, <<".">>, <<".", ".">>} \cap ToSet(Tail(Split(given, {"/"}))) = {}
  BY <1>2 DEF SharePath
<1>4. text \in Seq(D)
  <2>1. ASSUME NEW i \in 1..Len(text) PROVE text[i] \notin {"%2F", "%5C", "%00", "%"}
    <3>1. text[i] \in ToSet(text)
      <4>1. i \in DOMAIN text
        BY LenProperties
      <4> QED
        BY <4>1, Zenon DEF ToSet
    <3>2. text[i] # "%00" /\ text[i] # "%"
      BY <1>3, Zenon DEF Decodes, Contains
    <3> QED
      BY <1>3, <3>1, <3>2
  <2> QED
    BY <1>1, <2>1, TextWithout
<1>5. Decoded(text) = text
  <2>1. "%2F" \notin D /\ "%5C" \notin D
    BY <1>1
  <2> QED
    BY <1>4, <2>1, DecodedIs
<1>6. /\ base \in Seq(D)
      /\ base # <<>> => text # <<>> /\ Head(base) = Head(text)
  BY <1>2, <1>3, <1>4, <1>5, WithoutTrailingIs
<1>7. PICK E : E = PlainCharacter(C) /\ E = D \ {"\\"} /\ "/" \in E
  BY <1>1 DEF PlainCharacter
<1>8. base \in Seq(E)
  <2>1. \A i \in 1..Len(base) : base[i] \notin {"\\"}
    BY <1>3, Zenon DEF Contains
  <2> QED
    BY <1>6, <1>7, <2>1, TextWithout
<1>9. CASE base = <<>>
  BY <1>7, <1>9, JoinedEmpty, EmptySeq
<1>10. CASE base # <<>>
  <2>1. Head(base) = "/"
    BY <1>6, <1>10
  <2>2. /\ Tail(base) \in Seq(E)
        /\ Split(base, {"/"}) = Cat(One(<<>>), Split(Tail(base), {"/"}))
        /\ Joined(Split(Tail(base), {"/"})) = base
    BY <1>7, <1>8, <1>10, <2>1, RootedIs
  <2>3. PICK share \in Seq(Seq(E \ {"/"})) : share = Split(Tail(base), {"/"})
    BY <2>2, SplitIsSeq
  <2>4. Tail(Split(base, {"/"})) = share
    <3>1. PICK V : V = Seq(E \ {"/"})
      OBVIOUS
    <3>2. PICK e : e = <<>>
      OBVIOUS
    <3>3. e \in V /\ share \in Seq(V)
      BY <2>3, <3>1, <3>2, EmptySeq
    <3>4. Tail(Cat(One(e), share)) = share
      BY ONLY <3>3, TailOfCat
    <3> QED
      BY <2>2, <2>3, <3>2, <3>4, Zenon
  <2>5. PICK X : X = {<<>>, <<".">>, <<".", ".">>}
    OBVIOUS
  <2>6. \A i \in 1..Len(share) : share[i] \notin X
    <3>1. X \cap ToSet(share) = {}
      BY <1>3, <2>4, <2>5
    <3>2. \A i \in 1..Len(share) : share[i] \in ToSet(share)
      <4>1. DOMAIN share = 1..Len(share)
        BY LenProperties
      <4> QED
        BY <4>1, Zenon DEF ToSet
    <3> QED
      BY <3>1, <3>2
  <2>7. share \in Seq(Seq(E \ {"/"}) \ X)
    BY <2>6, TextWithout
  <2> QED
    BY <1>7, <2>2, <2>3, <2>5, <2>7 DEF Segment
<1> QED
  BY <1>9, <1>10

LEMMA SegmentsAreParts ==
  ASSUME NEW C, NEW D, D \subseteq C
  PROVE  Seq(Segment(D)) \subseteq Seq(Parts(C)) /\ Segment(D) \subseteq Segment(C)
<1>1. Seq(D \ {"/"}) \subseteq Seq(C \ {"/"})
  BY SeqMonotonic
<1>2. Segment(D) \subseteq Parts(C) /\ Segment(D) \subseteq Segment(C)
  BY <1>1 DEF Segment, Parts
<1> QED
  BY <1>2, SeqMonotonic

\* The characters of a name.
NameCharacter == Chunk \cup {"."}

LEMMA CharactersAre ==
  /\ "/" \in Character /\ NameCharacter \subseteq Character /\ "/" \notin NameCharacter
  /\ PlainName = Seq(NameCharacter) \ {<<>>, <<".">>, <<".", ".">>}
  /\ NameCharacter \cap ({"?", "#", "%2F", "%5C", "%00", "%", "\\"} \cup Scheme) = {}
<1>1. "/" \in Character /\ NameCharacter \subseteq Character
  BY DEF Character, NameCharacter
<1>2. "/" \notin NameCharacter
  BY HrefAssumption DEF NameCharacter
<1>3. NameCharacter \cap ({"?", "#", "%2F", "%5C", "%00", "%", "\\"} \cup Scheme) = {}
  BY HrefAssumption DEF NameCharacter
<1> QED
  BY <1>1, <1>2, <1>3 DEF PlainName, NameCharacter

(***************************************************************************)
(* A directory of a share, and a name in it.                               *)
(***************************************************************************)
LEMMA NamesAreSegments ==
  ASSUME NEW C, NameCharacter \subseteq C
  PROVE  PlainName \subseteq Segment(C) /\ Seq(PlainName) \subseteq Seq(Segment(C))
<1>1. NameCharacter \subseteq C \ {"/"}
  BY CharactersAre
<1>2. Seq(NameCharacter) \subseteq Seq(C \ {"/"})
  BY <1>1, SeqMonotonic
<1>3. PlainName \subseteq Segment(C)
  BY <1>2, CharactersAre DEF Segment
<1> QED
  BY <1>3, SeqMonotonic

\* The invariant of HrefSpec.
HrefIsText == href \in Seq(Character)

(***************************************************************************)
(* Whatever href a server answers with, in whatever directory of a share   *)
(* the mount accepts, the mount takes it for the entry it refers to, or    *)
(* for none of the share (href_to_mount_path).                             *)
(***************************************************************************)
THEOREM HrefsAreResolvedHolds == HrefSpec => []HrefsAreResolved
<1>1. HrefInit => HrefIsText
  BY EmptySeq DEF HrefInit, HrefIsText
<1>2. HrefIsText /\ [HrefNext]_href => HrefIsText'
  <2> SUFFICES ASSUME HrefIsText, [HrefNext]_href PROVE HrefIsText'
    OBVIOUS
  <2>1. ASSUME NEW c \in Character, HrefGrows(c) PROVE HrefIsText'
    BY <2>1, AppendProperties DEF HrefGrows, HrefIsText
  <2>2. CASE UNCHANGED href
    BY <2>2 DEF HrefIsText
  <2> QED
    BY <2>1, <2>2 DEF HrefNext
<1>3. HrefIsText => HrefsAreResolved
  <2> SUFFICES ASSUME HrefIsText, NEW base \in Share, NEW names \in Directory
               PROVE  HrefIsResolved(base, base \o Joined(names), href)
    BY Zenon DEF HrefsAreResolved
  <2>1. PICK C : C = Character
    OBVIOUS
  <2>2. "/" \in C /\ href \in Seq(C)
    BY <2>1, CharactersAre DEF HrefIsText
  <2>3. base \in Seq(C) /\ (base = <<>> \/ Head(base) = "/") /\ base \in SharePath(base)
    BY <2>1, ShareAssumption
  <2>4. PICK share \in Seq(Segment(PlainCharacter(C))) : base = Joined(share)
    BY <2>2, <2>3, SharePathIs
  <2>5. share \in Seq(Parts(C))
    <3>1. PlainCharacter(C) \subseteq C
      BY DEF PlainCharacter
    <3> QED
      BY <3>1, SegmentsAreParts
  <2>6. Cat(base, Joined(names)) \in Seq(C)
    <3>1. names \in Seq(Segment(C))
      <4>1. names \in Seq(PlainName)
        BY HrefAssumption
      <4>2. NameCharacter \subseteq C
        BY <2>1, CharactersAre
      <4> QED
        BY <4>1, <4>2, NamesAreSegments
    <3>2. names \in Seq(Parts(C))
      BY <3>1, SegmentsAreParts
    <3>3. Joined(names) \in Seq(C)
      BY <2>2, <3>2, PartsAre
    <3> QED
      BY <2>3, <3>3, CatIs
  <2>7. HrefIsResolved(Joined(share), Cat(base, Joined(names)), href)
    BY <2>2, <2>5, <2>6, HrefIsResolvedIn
  <2> QED
    BY <2>4, <2>7 DEF Cat
<1> QED
  BY <1>1, <1>2, <1>3, PTL DEF HrefSpec

-----------------------------------------------------------------------------
(* The hrefs of a listing.                                                 *)

(***************************************************************************)
(* A text without a stop, and one that has its first behind a character.   *)
(***************************************************************************)
LEMMA UpToAll ==
  ASSUME NEW C, NEW stops, NEW t \in Seq(C \ stops)
  PROVE  UpTo(t, stops) = t
<1>1. PICK D : D = C \ stops
  OBVIOUS
<1>2. PICK n \in Nat : n = Len(t)
  BY LenProperties
<1>3. PICK e \in 1..n + 1 : /\ UpTo(t, stops) = SubSeq(t, 1, e - 1)
                            /\ e = n + 1 \/ t[e] \in stops
  <2>1. t \in Seq(D) /\ 0 \in 0..Len(t) /\ 0 + 1 = 1
    BY <1>1, <1>2
  <2>2. PICK e \in 0 + 1..Len(t) + 1 :
             /\ PartAfter(t, stops, 0) = SubSeq(t, 0 + 1, e - 1)
             /\ e = Len(t) + 1 \/ t[e] \in stops
    BY <2>1, PartIs
  <2> QED
    BY <1>2, <2>1, <2>2 DEF UpTo
<1>4. e = n + 1
  <2>1. \A i \in 1..n : t[i] \notin stops
    BY <1>2, ElementOfSeq
  <2> QED
    BY <1>2, <1>3, <2>1
<1>5. SubSeq(t, 1, n) = t
  BY <1>2, SubSeqFull
<1> QED
  BY <1>2, <1>3, <1>4, <1>5

(***************************************************************************)
(* The first character of a concatenation.                                 *)
(***************************************************************************)
LEMMA HeadOfCat ==
  ASSUME NEW C, NEW s \in Seq(C), NEW w \in Seq(C), s # <<>>
  PROVE  Cat(s, w) # <<>> /\ Head(Cat(s, w)) = Head(s) /\ Head(s) \in C
<1>1. PICK m \in Nat, n \in Nat : m = Len(s) /\ n = Len(w)
  BY LenProperties
<1>2. m >= 1
  BY <1>1, EmptySeq
<1>3. PICK t \in Seq(C) : t = Cat(s, w) /\ Len(t) = m + n /\ t[1] = s[1]
  <2>1. PICK t : t = Cat(s, w)
    OBVIOUS
  <2>2. /\ t \in Seq(C) /\ Len(t) = m + n
        /\ \A i \in 1..m + n : t[i] = IF i <= m THEN s[i] ELSE w[i - m]
    BY <1>1, <2>1, ConcatProperties DEF Cat
  <2>3. 1 \in 1..m + n /\ 1 <= m
    BY <1>2
  <2>4. t[1] = s[1]
    BY <2>2, <2>3
  <2> QED
    BY <2>1, <2>2, <2>4
<1>4. t # <<>>
  BY <1>2, <1>3, EmptySeq
<1>5. Head(t) = t[1] /\ Head(s) = s[1]
  BY <1>4, HeadTailProperties
<1>6. s[1] \in C
  BY <1>1, <1>2, ElementOfSeq
<1> QED
  BY <1>3, <1>4, <1>5, <1>6

(***************************************************************************)
(* A text whose second character is the first that stops.                  *)
(***************************************************************************)
LEMMA StopIsSecond ==
  ASSUME NEW C, NEW stops, NEW h \in C, h \notin stops, NEW w \in Seq(C), w # <<>>, Head(w) \in stops,
         NEW t, t = Cat(One(h), w)
  PROVE  UpTo(t, stops) = One(h) /\ From(t, stops) = w
<1>1. PICK o \in Seq(C) : o = One(h) /\ Len(o) = 1 /\ o[1] = h
  <2>1. Len(One(h)) = 1 /\ One(h)[1] = h
    BY DEF One
  <2> QED
    BY <2>1, OneText
<1>2. PICK n \in Nat : n = Len(w) /\ n >= 1
  BY LenProperties, EmptySeq
<1>3. t \in Seq(C) /\ Len(t) = n + 1 /\ After(o, t) = w
  <2>1. t \in Seq(C) /\ Len(t) = Len(o) + Len(w) /\ After(o, t) = w
    <3>1. t = Cat(o, w)
      BY <1>1
    <3> QED
      BY ONLY <3>1, CatParts
  <2> QED
    BY <1>1, <1>2, <2>1
<1>4. t[1] = h /\ t[2] = Head(w)
  <2>1. Head(w) = w[1]
    BY HeadTailProperties
  <2>2. \A i \in 1..Len(o) + Len(w) : (o \o w)[i] = IF i <= Len(o) THEN o[i] ELSE w[i - Len(o)]
    BY ConcatProperties
  <2>3. 1 \in 1..Len(o) + Len(w) /\ 2 \in 1..Len(o) + Len(w) /\ 1 <= Len(o) /\ ~(2 <= Len(o))
        /\ 2 - Len(o) = 1
    BY <1>1, <1>2
  <2>4. (o \o w)[1] = o[1] /\ (o \o w)[2] = w[1]
    BY <2>2, <2>3
  <2> QED
    BY <1>1, <2>1, <2>4 DEF Cat
<1>5. PICK e \in 1..n + 2 : /\ UpTo(t, stops) = SubSeq(t, 1, e - 1)
                            /\ \A j \in 1..e - 1 : t[j] \notin stops
                            /\ e = n + 2 \/ t[e] \in stops
  <2>1. 0 \in 0..Len(t) /\ 0 + 1 = 1 /\ Len(t) + 1 = n + 2
    BY <1>2, <1>3
  <2>2. PICK e \in 0 + 1..Len(t) + 1 :
             /\ PartAfter(t, stops, 0) = SubSeq(t, 0 + 1, e - 1)
             /\ \A j \in 0 + 1..e - 1 : t[j] \notin stops
             /\ e = Len(t) + 1 \/ t[e] \in stops
    BY <1>3, <2>1, PartIs, SMT
  <2> QED
    BY <2>1, <2>2 DEF UpTo
<1>6. e = 2
  <2>1. e # 1
    BY <1>2, <1>4, <1>5
  <2>2. ~(e > 2)
    <3>1. e > 2 => 2 \in 1..e - 1
      BY <1>5
    <3> QED
      BY <1>4, <1>5, <3>1
  <2> QED
    BY <2>1, <2>2
<1>7. UpTo(t, stops) = o
  <2>1. IsPrefix(o, t)
    BY <1>1, CatParts
  <2>2. o = SubSeq(t, 1, Len(o)) \/ o = SubSeq(t, 1, 1)
    <3>1. SubSeq(o, 1, Len(o)) = o
      BY SubSeqFull
    <3>2. SubSeq(o, 1, Len(o)) = SubSeq(t, 1, Len(o))
      BY <2>1 DEF IsPrefix
    <3> QED
      BY <3>1, <3>2
  <2> QED
    BY <1>1, <1>5, <1>6, <2>2
<1>8. From(t, stops) = After(o, t)
  BY <1>7, Zenon DEF From, After
<1> QED
  BY <1>1, <1>3, <1>7, <1>8

\* Characters that are read as they are.
Unescaped(G) == /\ "/" \in G /\ OwnHost \in G
                /\ G \cap ({"?", "#", "%2F", "%5C", "%00", "%"} \cup Scheme) = {}

\* The separators before a host.
Two == <<"/", "/">>

LEMMA UnescapedIsRead ==
  ASSUME NEW G, Unescaped(G), NEW w \in Seq(G)
  PROVE  UpTo(w, {"?", "#"}) = w /\ Decodes(w) /\ Decoded(w) = w
<1>1. PICK n \in Nat : n = Len(w) /\ \A i \in 1..n : w[i] \in G
  BY LenProperties, ElementOfSeq
<1>2. PICK stops : stops = {"?", "#"}
  OBVIOUS
<1>3. G \ stops = G
  BY <1>2 DEF Unescaped
<1>4. UpTo(w, stops) = w
  <2>1. w \in Seq(G \ stops)
    BY <1>3
  <2> QED
    BY <2>1, UpToAll
<1>5. Decodes(w)
  <2>1. "%00" \notin G /\ "%" \notin G
    BY DEF Unescaped
  <2> QED
    BY <1>1, <2>1, Zenon DEF Decodes, Contains
<1>6. Decoded(w) = w
  <2>1. "%2F" \notin G /\ "%5C" \notin G
    BY DEF Unescaped
  <2> QED
    BY <2>1, DecodedIs
<1> QED
  BY <1>2, <1>4, <1>5, <1>6

(***************************************************************************)
(* The references that name a path: the path itself, and the path behind   *)
(* the mount's own host.                                                   *)
(***************************************************************************)
LEMMA LocalIs ==
  ASSUME NEW G, Unescaped(G), NEW w \in Seq(G), ~IsPrefix(Two, w)
  PROVE  Followed(w) /\ PathPart(w) = w
<1>1. UpTo(w, {"?", "#"}) = w /\ Decodes(w)
  BY UnescapedIsRead
<1>2. ~Absolute(w)
  <2>1. w # <<>> => Head(w) \in G
    BY HeadTailProperties
  <2>2. w # <<>> => Head(w) \notin Scheme
    BY <2>1 DEF Unescaped
  <2> QED
    BY <2>2, Zenon DEF Absolute, Two
<1>3. PathPart(w) = w
  BY <1>1, <1>2, Zenon DEF PathPart
<1> QED
  BY <1>1, <1>2, <1>3, Zenon DEF Followed

(***************************************************************************)
(* A reference with a host is followed to its path if the host is the      *)
(* mount's.                                                                *)
(***************************************************************************)
LEMMA LocatedIs ==
  ASSUME NEW G, Unescaped(G), NEW w \in Seq(G), w # <<>>, Head(w) = "/",
         NEW ref, Absolute(ref), SchemeOf(ref) = Http,
         AfterScheme(ref) = Cat(Two, Cat(One(OwnHost), w))
  PROVE  Followed(ref) /\ PathPart(ref) = w
<1>1. PICK stops : stops = {"/", "?", "#"}
  OBVIOUS
<1>2. PICK x, l : x = Cat(Two, l) /\ l = Cat(One(OwnHost), w)
  OBVIOUS
<1>3. OwnHost \in G /\ "/" \in G
  BY DEF Unescaped
<1>4. UpTo(l, stops) = One(OwnHost) /\ From(l, stops) = w
  <2>1. OwnHost \notin stops
    <3>1. OwnHost \in Chunk
      BY HrefAssumption
    <3>2. Chunk \cap {"/", "?", "#"} = {}
      BY HrefAssumption
    <3> QED
      BY <1>1, <3>1, <3>2
  <2>2. Head(w) \in stops
    BY <1>1
  <2> QED
    BY <1>2, <1>3, <2>1, <2>2, StopIsSecond
<1>5. l \in Seq(G)
  <2>1. One(OwnHost) \in Seq(G)
    BY <1>3, OneText
  <2> QED
    BY <1>2, <2>1, CatIs
<1>6. Two \in Seq(G) /\ Len(Two) = 2
  BY <1>3 DEF Two
<1>7. IsPrefix(Two, x) /\ After(Two, x) = l
  BY <1>2, <1>5, <1>6, CatParts
<1>8. SubSeq(x, 3, Len(x)) = l
  BY <1>6, <1>7 DEF After
<1>9. AfterScheme(ref) = x
  BY <1>2
<1>10. Authority(ref) = One(OwnHost)
  BY <1>1, <1>4, <1>8, <1>9, Zenon DEF Authority
<1>11. Parses(ref) /\ Ours(ref)
  <2>1. One(OwnHost) # <<>> /\ One(OwnHost) = <<OwnHost>>
    BY DEF One
  <2>2. Ours(ref)
    BY <1>10, <2>1, Zenon DEF Ours
  <2>3. Parses(ref)
    BY <1>7, <1>9, <1>10, <2>1, Zenon DEF Parses, Two
  <2> QED
    BY <2>2, <2>3
<1>12. PathPart(ref) = w
  <2>1. UpTo(w, {"?", "#"}) = w
    BY UnescapedIsRead
  <2>2. PICK located : located = SubSeq(AfterScheme(ref), 3, Len(AfterScheme(ref)))
    OBVIOUS
  <2>3. located = l /\ From(located, {"/", "?", "#"}) = w
    BY <1>1, <1>4, <1>8, <1>9, <2>2
  <2> QED
    BY <2>1, <2>2, <2>3, Zenon DEF PathPart
<1>13. Decodes(w)
  BY UnescapedIsRead
<1> QED
  BY <1>11, <1>12, <1>13, Zenon DEF Followed

(***************************************************************************)
(* A path behind the mount's host, without the scheme and with it.         *)
(***************************************************************************)
LEMMA HostedIs ==
  ASSUME NEW G, Unescaped(G), NEW w \in Seq(G), w # <<>>, Head(w) = "/",
         NEW hosted, hosted = Cat(Two, Cat(One(OwnHost), w)),
         NEW schemed, schemed = Cat(One(Http), hosted)
  PROVE  /\ Followed(hosted) /\ PathPart(hosted) = w
         /\ Followed(schemed) /\ PathPart(schemed) = w
<1>1. OwnHost \in G /\ "/" \in G /\ "/" \notin Scheme
  BY DEF Unescaped
<1>2. PICK C : C = G \cup Scheme
  OBVIOUS
<1>3. Http \in C /\ Http \in Scheme
  BY <1>2, HrefAssumption
<1>4. PICK l \in Seq(G) : l = Cat(One(OwnHost), w)
  <2>1. One(OwnHost) \in Seq(G)
    BY <1>1, OneText
  <2> QED
    BY <2>1, CatIs
<1>5. Two \in Seq(G) /\ Two # <<>> /\ Head(Two) = "/"
  BY <1>1 DEF Two
<1>6. /\ hosted \in Seq(G) /\ IsPrefix(Two, hosted)
      /\ hosted # <<>> /\ Head(hosted) = "/"
  <2>1. hosted = Cat(Two, l)
    BY <1>4
  <2>2. hosted \in Seq(G) /\ IsPrefix(Two, hosted)
    BY ONLY <1>4, <1>5, <2>1, CatParts
  <2>3. Cat(Two, l) # <<>> /\ Head(Cat(Two, l)) = Head(Two)
    BY ONLY <1>4, <1>5, HeadOfCat
  <2> QED
    BY <1>5, <2>1, <2>2, <2>3
<1>7. Followed(hosted) /\ PathPart(hosted) = w
  <2>1. Absolute(hosted)
    BY <1>6, Zenon DEF Absolute, Two
  <2>2. Head(hosted) \notin Scheme
    BY <1>1, <1>6
  <2>3. SchemeOf(hosted) = Http /\ AfterScheme(hosted) = hosted
    BY <2>2, Zenon DEF SchemeOf, AfterScheme
  <2>4. AfterScheme(hosted) = Cat(Two, Cat(One(OwnHost), w))
    BY <2>3
  <2> QED
    BY <2>1, <2>3, <2>4, LocatedIs
<1>8. schemed # <<>> /\ Head(schemed) = Http /\ Tail(schemed) = hosted
  <2>1. PICK o \in Seq(C) : o = One(Http)
    BY <1>3, OneText
  <2>2. hosted \in Seq(C)
    BY <1>2, <1>6, SeqMonotonic
  <2>3. o # <<>> /\ Head(o) = Http
    BY <2>1 DEF One
  <2>4. Cat(o, hosted) # <<>> /\ Head(Cat(o, hosted)) = Head(o)
    BY ONLY <2>1, <2>2, <2>3, HeadOfCat
  <2>5. Tail(Cat(One(Http), hosted)) = hosted
    BY ONLY <1>3, <2>2, TailOfCat
  <2> QED
    BY <2>1, <2>3, <2>4, <2>5
<1>9. Followed(schemed) /\ PathPart(schemed) = w
  <2>1. Head(schemed) \in Scheme
    BY <1>3, <1>8
  <2>2. Absolute(schemed)
    BY <1>8, <2>1, Zenon DEF Absolute
  <2>3. SchemeOf(schemed) = Http /\ AfterScheme(schemed) = hosted
    BY <1>8, <2>1, Zenon DEF SchemeOf, AfterScheme
  <2>4. AfterScheme(schemed) = Cat(Two, Cat(One(OwnHost), w))
    BY <2>3
  <2> QED
    BY <2>2, <2>3, <2>4, LocatedIs
<1> QED
  BY <1>7, <1>9

(***************************************************************************)
(* A path whose first segment is not empty has no second separator to      *)
(* begin with.                                                             *)
(***************************************************************************)
LEMMA OneSlash ==
  ASSUME NEW C, "/" \in C, NEW Q \in Seq(Seq(C)), Q # <<>>, Head(Q) # <<>>,
         NEW w \in Seq(C), Split(w, {"/"}) = Cat(One(<<>>), Q)
  PROVE  ~IsPrefix(Two, w)
<1> SUFFICES ASSUME IsPrefix(Two, w) PROVE FALSE
  OBVIOUS
<1>1. PICK V, e, seps : V = Seq(C) /\ e = <<>> /\ seps = {"/"}
  OBVIOUS
<1>2. e \in V /\ e \in Seq(V) /\ e \in Seq(C)
  BY <1>1, EmptySeq
<1>3. PICK o \in Seq(V) : o = One(e)
  BY <1>2, OneText
<1>4. PICK u \in Seq(C) : u = One("/")
  BY OneText
<1>5. Split(u, seps) = Grown(o, e)
  <2>1. Split(e, seps) = One(e)
    BY <1>1, SplitEmpty DEF One
  <2>2. Grown(e, e) = One(e) /\ Grown(e, "/") = u
    BY <1>1, <1>4 DEF Grown, One
  <2>3. Split(e, seps) = Grown(e, e) /\ "/" \in seps
    BY <1>1, <2>1, <2>2
  <2>4. Split(Grown(e, "/"), seps) = Grown(Grown(e, e), <<>>)
    <3>1. e \in Seq(C) /\ e \in Seq(Seq(C))
      BY <1>1, <1>2
    <3> QED
      BY <2>3, <3>1, SplitGrows
  <2> QED
    BY <1>1, <1>3, <2>2, <2>4
<1>6. PICK rest \in Seq(C) : w = Cat(Grown(u, "/"), rest)
  <2>1. Two = Grown(u, "/")
    BY <1>4 DEF Two, Grown, One
  <2>2. Two \in Seq(C)
    BY DEF Two
  <2> QED
    BY <2>1, <2>2, PrefixHasRest
<1>7. PICK R \in Seq(V) : R = Split(rest, seps)
  <2>1. Split(rest, seps) \in Seq(Seq(C))
    BY SplitEnds
  <2> QED
    BY <1>1, <2>1
<1>8. Split(w, seps) = Cat(Grown(o, e), R)
  <2>1. "/" \in seps
    BY <1>1
  <2>2. Split(Cat(Grown(u, "/"), rest), seps) = Cat(Split(u, seps), Split(rest, seps))
    BY <2>1, SplitConcat
  <2> QED
    BY <1>5, <1>6, <1>7, <2>2
<1>9. Cat(Grown(o, e), R) = Cat(o, Cat(o, R)) /\ Cat(o, R) \in Seq(V)
  <2>1. Cat(o, One(e)) = Grown(o, e)
    BY <1>2, GrownText
  <2>2. \A x \in Seq(V) : Cat(Cat(o, o), x) = Cat(o, Cat(o, x))
    BY CatIs
  <2>3. Cat(o, R) \in Seq(V)
    BY CatIs
  <2> QED
    BY <1>3, <2>1, <2>2, <2>3
<1>10. Q = Cat(o, R)
  <2>1. Cat(o, Q) = Cat(o, Cat(o, R))
    BY <1>1, <1>3, <1>8, <1>9
  <2>2. Q \in Seq(V)
    BY <1>1
  <2> QED
    BY <1>9, <2>1, <2>2, CatCancels
<1>11. o # <<>> /\ Head(o) = e
  BY <1>3 DEF One
<1>12. Head(Cat(o, R)) = Head(o)
  BY <1>11, HeadOfCat
<1> QED
  BY <1>1, <1>10, <1>11, <1>12

(***************************************************************************)
(* A segment is a reference to itself.                                     *)
(***************************************************************************)
LEMMA SegmentIs ==
  ASSUME NEW C, "/" \in C, NEW s \in Segment(C)
  PROVE  /\ s \in Seq(C) /\ s \in Seq(C \ {"/"}) /\ s # <<>> /\ Head(s) # "/"
         /\ ~IsPrefix(Two, s) /\ Split(s, {"/"}) = One(s)
<1>1. s \in Seq(C \ {"/"}) /\ s # <<>>
  BY DEF Segment
<1>2. s \in Seq(C)
  BY <1>1, SeqMonotonic
<1>3. Head(s) # "/"
  <2>1. Head(s) \in C \ {"/"}
    BY <1>1, HeadTailProperties
  <2> QED
    BY <2>1
<1>4. ~IsPrefix(Two, s)
  <2> SUFFICES ASSUME IsPrefix(Two, s) PROVE FALSE
    OBVIOUS
  <2>1. Two \in Seq(C) /\ Two # <<>> /\ Head(Two) = "/"
    BY DEF Two
  <2>2. After(Two, s) \in Seq(C) /\ s = Cat(Two, After(Two, s))
    BY <1>2, <2>1, PrefixHasRest
  <2>3. Head(Cat(Two, After(Two, s))) = Head(Two)
    BY <2>1, <2>2, HeadOfCat
  <2> QED
    BY <1>3, <2>1, <2>2, <2>3
<1>5. Split(s, {"/"}) = One(s)
  BY <1>1, SplitOne
<1> QED
  BY <1>1, <1>2, <1>3, <1>4, <1>5

(***************************************************************************)
(* What the path of an entry, the same as a collection's, and its name in  *)
(* its directory lead to.                                                  *)
(***************************************************************************)
LEMMA RootedTarget ==
  ASSUME NEW C, "/" \in C, NEW full \in Seq(Segment(C)), full # <<>>, NEW place,
         NEW w \in {Joined(full), Grown(Joined(full), "/")}
  PROVE  /\ w \in Seq(C) /\ w # <<>> /\ Head(w) = "/" /\ ~IsPrefix(Two, w)
         /\ Target(place, w) = {full}
<1>1. PICK V, a, e, seps : V = Seq(C) /\ a = Joined(full) /\ e = <<>> /\ seps = {"/"}
  OBVIOUS
<1>2. full \in Seq(V) /\ full \in Seq(Seq(C \ {"/"})) /\ e \in V /\ "/" \in seps
  BY <1>1, NormalOfSegments, EmptySeq
<1>3. Split(a, seps) = Cat(One(e), full) /\ a \in Seq(C)
  BY <1>1, <1>2, SplitJoined
<1>4. a # <<>> /\ Head(a) = "/"
  BY <1>1, <1>2, JoinedStarts
<1>5. One(e) \in Seq(V)
  BY <1>2, OneText
<1>6. Head(full) # <<>>
  <2>1. Head(full) \in Segment(C)
    BY HeadTailProperties
  <2> QED
    BY <2>1, SegmentIs
<1>7. \E Q \in Seq(V) : /\ Q # <<>> /\ Head(Q) # <<>> /\ Split(w, seps) = Cat(One(e), Q)
                        /\ Normal(Cat(One(e), Q)) = {full}
  <2>1. CASE w = a
    <3>1. Normal(Cat(One(<<>>), full)) = {full}
      BY NormalOfSegments
    <3> QED
      BY <1>1, <1>2, <1>3, <1>6, <2>1, <3>1
  <2>2. CASE w = Grown(a, "/")
    <3>1. Split(w, seps) = Grown(Cat(One(e), full), e)
      <4>1. Cat(One(e), full) \in Seq(V)
        BY <1>2, <1>5, CatIs
      <4>2. PICK P \in Seq(Seq(C)), p \in Seq(C) : Split(a, seps) = Grown(P, p)
        BY <1>3, SplitEnds
      <4>3. Split(Grown(a, "/"), seps) = Grown(Grown(P, p), <<>>)
        BY <1>2, <1>3, <4>2, SplitGrows
      <4> QED
        BY <1>1, <1>3, <2>2, <4>2, <4>3
    <3>2. Grown(Cat(One(e), full), e) = Cat(One(e), Grown(full, e))
      BY <1>2, <1>5, CatIs
    <3>3. Grown(full, e) \in Seq(V) /\ Grown(full, e) # <<>>
      BY <1>2, GrownText
    <3>4. Head(Grown(full, e)) = Head(full)
      <4>1. Grown(full, e) = Cat(full, One(e))
        BY <1>2, GrownText
      <4>2. Head(Cat(full, One(e))) = Head(full)
        BY <1>2, <1>5, HeadOfCat
      <4> QED
        BY <4>1, <4>2
    <3>5. Normal(Grown(Cat(One(<<>>), full), <<>>)) = {full}
      BY NormalOfSegments
    <3> QED
      BY <1>1, <1>6, <3>1, <3>2, <3>3, <3>4, <3>5
  <2> QED
    BY <1>1, <2>1, <2>2
<1>8. w \in Seq(C) /\ w # <<>> /\ Head(w) = "/"
  <2>1. CASE w = a
    BY <1>3, <1>4, <2>1
  <2>2. CASE w = Grown(a, "/")
    <3>1. One("/") \in Seq(C)
      BY OneText
    <3>2. Grown(a, "/") \in Seq(C) /\ Grown(a, "/") # <<>> /\ Grown(a, "/") = Cat(a, One("/"))
      BY <1>3, GrownText
    <3>3. Head(Cat(a, One("/"))) = Head(a)
      BY <1>3, <1>4, <3>1, HeadOfCat
    <3> QED
      BY <1>4, <2>2, <3>2, <3>3
  <2> QED
    BY <1>1, <2>1, <2>2
<1>9. ~IsPrefix(Two, w)
  BY <1>1, <1>7, <1>8, OneSlash
<1>10. Target(place, w) = {full}
  <2>1. Split(w, seps) \in Seq(V)
    BY <1>1, <1>8, SplitEnds
  <2>2. <<>> \o Split(w, seps) = Split(w, seps)
    BY <2>1, ConcatEmptySeq
  <2>3. Target(place, w) = Normal(<<>> \o Split(w, seps))
    BY <1>1, <1>8, Zenon DEF Target
  <2> QED
    BY <1>7, <2>2, <2>3
<1> QED
  BY <1>8, <1>9, <1>10

(***************************************************************************)
(* The name of an entry, in its directory, leads to the entry.             *)
(***************************************************************************)
LEMMA NamedTarget ==
  ASSUME NEW C, "/" \in C, NEW P \in Seq(Segment(C)), NEW s \in Segment(C)
  PROVE  Target(Joined(P), s) = {Grown(P, s)}
<1>1. PICK V, e, seps : V = Seq(C) /\ e = <<>> /\ seps = {"/"}
  OBVIOUS
<1>2. P \in Seq(V) /\ P \in Seq(Seq(C \ {"/"})) /\ e \in V /\ s \in V
  BY <1>1, NormalOfSegments, EmptySeq, SegmentIs
<1>3. Split(Joined(P), seps) = Cat(One(e), P)
  BY <1>1, <1>2, SplitJoined
<1>4. Split(s, seps) = One(s) /\ Head(s) # "/"
  BY <1>1, SegmentIs
<1>5. One(e) \in Seq(V)
  BY <1>2, OneText
<1>6. Target(Joined(P), s) = Normal(Cat(Cat(One(e), P), One(s)))
  <2>1. Target(Joined(P), s) = Normal(Split(Joined(P), seps) \o Split(s, seps))
    BY <1>1, <1>4, Zenon DEF Target
  <2> QED
    BY <1>3, <1>4, <2>1, Zenon DEF Cat
<1>7. Cat(Cat(One(e), P), One(s)) = Cat(One(e), Grown(P, s))
  <2>1. One(s) \in Seq(V) /\ Cat(P, One(s)) = Grown(P, s)
    BY <1>2, OneText, GrownText
  <2>2. Cat(Cat(One(e), P), One(s)) = Cat(One(e), Cat(P, One(s)))
    BY <1>2, <1>5, <2>1, CatIs
  <2> QED
    BY <2>1, <2>2
<1>8. Normal(Cat(One(<<>>), Grown(P, s))) = {Grown(P, s)}
  <2>1. Grown(P, s) \in Seq(Segment(C))
    BY GrownText
  <2> QED
    BY <2>1, NormalOfSegments
<1> QED
  BY <1>1, <1>6, <1>7, <1>8

-----------------------------------------------------------------------------
(* Children are found by their hrefs.                                      *)

(***************************************************************************)
(* A reference that leads to an entry of a share is found.                 *)
(***************************************************************************)
LEMMA EntryIsFound ==
  ASSUME NEW C, "/" \in C, NEW share \in Seq(Segment(C)), NEW names \in Seq(Segment(C)), names # <<>>,
         Len(Joined(names)) < MaxPath, NEW place \in Seq(C), NEW ref, Followed(ref),
         NEW w \in Seq(C), PathPart(ref) = w, Decoded(w) = w, Target(place, w) = {Cat(share, names)}
  PROVE  HrefToMountPath(Joined(share), place, ref) = Found(Joined(names))
<1>1. PICK t : t = Cat(share, names)
  OBVIOUS
<1>2. /\ share \in Seq(Parts(C)) /\ names \in Seq(Parts(C))
  BY SegmentsAreParts
<1>3. IsPrefix(share, t) /\ After(share, t) = names /\ t \in Seq(Parts(C))
  BY <1>1, <1>2, CatParts
<1>4. PathResolve(place, w) = {AsPath(n) : n \in Target(place, w)}
  BY TargetIs
<1>5. PICK r : r = HrefToMountPath(Joined(share), place, ref)
  OBVIOUS
<1>6. r = InShare(Joined(share), AsPath(t))
  <2>1. Decoded(PathPart(ref)) = PathPart(ref)
    OBVIOUS
  <2>2. PathResolve(place, PathPart(ref)) = {AsPath(n) : n \in Target(place, PathPart(ref))}
    BY <1>4, Zenon
  <2>3. \A x : Followed(ref) /\ Target(place, PathPart(ref)) = {x} => r = InShare(Joined(share), AsPath(x))
    BY <1>5, <2>1, <2>2, ResultIs, Zenon
  <2> QED
    BY <1>1, <2>3, Zenon
<1>7. AsPath(After(share, t)) = Joined(names)
  BY <1>3 DEF AsPath
<1>8. PICK below : below = AsPath(After(share, t))
  OBVIOUS
<1>9. IsPrefix(share, t) /\ Len(below) < MaxPath => r = Found(below)
  BY <1>2, <1>3, <1>6, <1>8, InShareIs
<1> QED
  BY <1>3, <1>5, <1>7, <1>8, <1>9

(***************************************************************************)
(* Concatenations of short tuples.                                         *)
(***************************************************************************)
LEMMA PairIs ==
  ASSUME NEW C, NEW a \in C, NEW b \in C
  PROVE  <<a>> \o <<b>> = <<a, b>>
<1>1. PICK s, w, t, u : s = <<a>> /\ w = <<b>> /\ t = s \o w /\ u = <<a, b>>
  OBVIOUS
<1>2. /\ s \in Seq(C) /\ Len(s) = 1 /\ s[1] = a
      /\ w \in Seq(C) /\ Len(w) = 1 /\ w[1] = b
      /\ u \in Seq(C) /\ Len(u) = 2 /\ u[1] = a /\ u[2] = b
  BY <1>1
<1>3. t \in Seq(C) /\ Len(t) = 2 /\ t[1] = a /\ t[2] = b
  BY <1>1, <1>2, ConcatProperties
<1>4. \A i \in 1..2 : t[i] = u[i]
  BY <1>2, <1>3
<1>5. t = u
  BY ONLY <1>2, <1>3, <1>4, SeqEqual
<1> QED
  BY <1>1, <1>5

LEMMA TripleIs ==
  ASSUME NEW C, NEW a \in C, NEW b \in C, NEW c \in C
  PROVE  <<a, b>> \o <<c>> = <<a, b, c>>
<1>1. PICK s, w, t, u : s = <<a, b>> /\ w = <<c>> /\ t = s \o w /\ u = <<a, b, c>>
  OBVIOUS
<1>2. /\ s \in Seq(C) /\ Len(s) = 2 /\ s[1] = a /\ s[2] = b
      /\ w \in Seq(C) /\ Len(w) = 1 /\ w[1] = c
      /\ u \in Seq(C) /\ Len(u) = 3 /\ u[1] = a /\ u[2] = b /\ u[3] = c
  BY <1>1
<1>3. t \in Seq(C) /\ Len(t) = 3 /\ t[1] = a /\ t[2] = b /\ t[3] = c
  BY <1>1, <1>2, ConcatProperties
<1>4. \A i \in 1..3 : t[i] = u[i]
  BY <1>2, <1>3
<1>5. t = u
  BY ONLY <1>2, <1>3, <1>4, SeqEqual
<1> QED
  BY <1>1, <1>5

LEMMA QuadrupleIs ==
  ASSUME NEW C, NEW a \in C, NEW b \in C, NEW c \in C, NEW d \in C
  PROVE  <<a>> \o <<b, c, d>> = <<a, b, c, d>>
<1>1. PICK s, w, t, u : s = <<a>> /\ w = <<b, c, d>> /\ t = s \o w /\ u = <<a, b, c, d>>
  OBVIOUS
<1>2. /\ s \in Seq(C) /\ Len(s) = 1 /\ s[1] = a
      /\ w \in Seq(C) /\ Len(w) = 3 /\ w[1] = b /\ w[2] = c /\ w[3] = d
      /\ u \in Seq(C) /\ Len(u) = 4 /\ u[1] = a /\ u[2] = b /\ u[3] = c /\ u[4] = d
  BY <1>1
<1>3. t \in Seq(C) /\ Len(t) = 4 /\ t[1] = a /\ t[2] = b /\ t[3] = c /\ t[4] = d
  BY <1>1, <1>2, ConcatProperties
<1>4. \A i \in 1..4 : t[i] = u[i]
  BY <1>2, <1>3
<1>5. t = u
  BY ONLY <1>2, <1>3, <1>4, SeqEqual
<1> QED
  BY <1>1, <1>5

(***************************************************************************)
(* The host in front of an absolute path, in parts.                        *)
(***************************************************************************)
LEMMA HostTuples ==
  ASSUME NEW C, NEW E, E = C \cup {OwnHost, Http, "/"}
  PROVE  \E two \in Seq(E), host \in Seq(E), http \in Seq(E) :
            /\ two = Two /\ host = One(OwnHost) /\ http = One(Http)
            /\ <<"/", "/", OwnHost>> = Cat(two, host)
            /\ <<Http, "/", "/", OwnHost>> = Cat(http, Cat(two, host))
            /\ Cat(two, host) \in Seq(E)
<1>1. "/" \in E /\ OwnHost \in E /\ Http \in E
  OBVIOUS
<1>2. PICK o \in Seq(E), host \in Seq(E), http \in Seq(E) :
          o = One("/") /\ host = One(OwnHost) /\ http = One(Http)
  <2>1. One("/") \in Seq(E)
    BY <1>1, OneText
  <2>2. One(OwnHost) \in Seq(E)
    BY <1>1, OneText
  <2>3. One(Http) \in Seq(E)
    BY <1>1, OneText
  <2> QED
    BY <2>1, <2>2, <2>3
<1>3. PICK two \in Seq(E) : two = Cat(o, o)
  BY CatIs
<1>4. two = Two
  <2>1. <<"/">> \o <<"/">> = <<"/", "/">>
    BY <1>1, PairIs, Zenon
  <2> QED
    BY <1>2, <1>3, <2>1, Zenon DEF Cat, One, Two
<1>5. Cat(two, host) = <<"/", "/", OwnHost>> /\ Cat(two, host) \in Seq(E)
  <2>1. <<"/", "/">> \o <<OwnHost>> = <<"/", "/", OwnHost>>
    BY <1>1, TripleIs, Zenon
  <2>2. Cat(two, host) = <<"/", "/", OwnHost>>
    BY <1>2, <1>4, <2>1, Zenon DEF Cat, One, Two
  <2> QED
    BY <2>2, CatIs
<1>6. Cat(http, Cat(two, host)) = <<Http, "/", "/", OwnHost>>
  <2>1. <<Http>> \o <<"/", "/", OwnHost>> = <<Http, "/", "/", OwnHost>>
    BY <1>1, QuadrupleIs, Zenon
  <2> QED
    BY <1>2, <1>5, <2>1, Zenon DEF Cat, One
<1> QED
  BY <1>2, <1>4, <1>5, <1>6

(***************************************************************************)
(* The hrefs a server has for a child, in terms of the child's path.       *)
(***************************************************************************)
LEMMA HrefsAre ==
  ASSUME NEW C, "/" \in C, NEW share \in Seq(Segment(C)), NEW names \in Seq(Segment(C)),
         NEW child \in Segment(C), NEW full, full = Cat(share, Grown(names, child)),
         NEW ref \in HrefsOf(Joined(share), names, child)
  PROVE  \/ ref = child
         \/ \E w \in {Joined(full), Grown(Joined(full), "/")} :
              LET hosted == Cat(Two, Cat(One(OwnHost), w))
              IN  ref \in {w, hosted, Cat(One(Http), hosted)}
<1>1. PICK V, a : V = Seq(C) /\ a = Joined(full)
  OBVIOUS
<1>2. Grown(names, child) \in Seq(Segment(C))
  BY GrownText
<1>3. full \in Seq(Segment(C)) /\ full # <<>>
  <2>1. full \in Seq(Segment(C))
    BY <1>2, CatIs
  <2>2. Grown(names, child) # <<>>
    BY GrownText
  <2>3. full # <<>>
    BY <1>2, <2>2, EmptyCat
  <2> QED
    BY <2>1, <2>3
<1>4. Cat(Joined(share), Joined(Grown(names, child))) = a
  <2>1. share \in Seq(V) /\ Grown(names, child) \in Seq(V)
    BY <1>1, <1>2, NormalOfSegments
  <2> QED
    BY <1>1, <2>1, JoinedCat
<1>5. Normal(Split(a, {"/"})) = {full}
  <2>1. full \in Seq(Seq(C \ {"/"})) /\ Normal(Cat(One(<<>>), full)) = {full}
    BY <1>3, NormalOfSegments
  <2>2. Split(a, {"/"}) = Cat(One(<<>>), full)
    BY <1>1, <2>1, SplitJoined
  <2> QED
    BY <2>1, <2>2
<1>6. PICK absolute :
        absolute = {AsPath(n) : n \in Normal(Split(Joined(share) \o Joined(Append(names, child)), {"/"}))}
  OBVIOUS
<1>7. absolute = {a}
  <2>1. absolute = {AsPath(n) : n \in Normal(Split(a, {"/"}))}
    BY <1>4, <1>6, Zenon DEF Cat, Grown
  <2>2. absolute = {AsPath(full)}
    BY <1>5, <2>1
  <2>3. AsPath(full) = a
    BY <1>1, <1>3, Zenon DEF AsPath
  <2> QED
    BY <2>2, <2>3
<1>8. a \in Seq(C)
  BY <1>1, <1>3, RootedTarget
<1>9. PICK named : named = absolute \cup {x \o <<"/">> : x \in absolute}
  OBVIOUS
<1>10. named = {a, Grown(a, "/")}
  <2>1. a \o <<"/">> = Grown(a, "/")
    BY <1>8, AppendIsConcat DEF Grown
  <2>2. named = {a} \cup {a \o <<"/">>}
    BY <1>7, <1>9
  <2> QED
    BY <2>1, <2>2
<1>11. \/ ref = child
       \/ \E w \in named : ref \in {w, <<"/", "/", OwnHost>> \o w, <<Http, "/", "/", OwnHost>> \o w}
  <2>1. HrefsOf(Joined(share), names, child) =
          named \cup {<<"/", "/", OwnHost>> \o x : x \in named}
                \cup {<<Http, "/", "/", OwnHost>> \o x : x \in named} \cup {child}
    BY <1>6, <1>9, Zenon DEF HrefsOf
  <2> QED
    BY <2>1, Zenon
<1>12. ASSUME NEW w \in named
       PROVE  /\ <<"/", "/", OwnHost>> \o w = Cat(Two, Cat(One(OwnHost), w))
              /\ <<Http, "/", "/", OwnHost>> \o w = Cat(One(Http), Cat(Two, Cat(One(OwnHost), w)))
  <2>1. PICK E : E = C \cup {OwnHost, Http, "/"}
    OBVIOUS
  <2>2. PICK t \in Seq(E) : t = w
    <3>1. Grown(a, "/") \in Seq(C)
      BY <1>8, GrownText
    <3>2. w \in Seq(C)
      BY <1>8, <1>10, <3>1
    <3> QED
      BY <2>1, <3>2, SeqMonotonic
  <2>3. PICK two \in Seq(E), host \in Seq(E), http \in Seq(E) :
            /\ two = Two /\ host = One(OwnHost) /\ http = One(Http)
            /\ <<"/", "/", OwnHost>> = Cat(two, host)
            /\ <<Http, "/", "/", OwnHost>> = Cat(http, Cat(two, host))
            /\ Cat(two, host) \in Seq(E)
    BY <2>1, HostTuples
  <2>6. Cat(Cat(two, host), t) = Cat(two, Cat(host, t))
    BY CatIs
  <2>7. Cat(Cat(http, Cat(two, host)), t) = Cat(http, Cat(Cat(two, host), t))
    BY <2>3, CatIs
  <2> QED
    BY <2>2, <2>3, <2>6, <2>7, Zenon DEF Cat
<1> QED
  BY <1>1, <1>10, <1>11, <1>12, Zenon

(***************************************************************************)
(* Every child of every directory of a share of plain names is found by    *)
(* each of its hrefs.                                                      *)
(***************************************************************************)
LEMMA ChildIsFound ==
  ASSUME NEW G, Unescaped(G), NEW share \in Seq(Segment(G)), NEW names \in Seq(Segment(G)),
         NEW child \in Segment(G), NEW ref \in HrefsOf(Joined(share), names, child),
         NEW wanted, wanted = Joined(Grown(names, child)), Len(wanted) < MaxPath
  PROVE  HrefToMountPath(Joined(share), Cat(Joined(share), Joined(names)), ref) = Found(wanted)
<1>1. "/" \in G
  BY DEF Unescaped
<1>2. PICK full, place, entry : /\ full = Cat(share, entry)
                                /\ place = Cat(Joined(share), Joined(names))
                                /\ entry = Grown(names, child)
  OBVIOUS
<1>3. /\ entry \in Seq(Segment(G)) /\ entry # <<>> /\ full \in Seq(Segment(G)) /\ full # <<>>
      /\ Cat(share, names) \in Seq(Segment(G))
  <2>1. entry \in Seq(Segment(G)) /\ entry # <<>>
    BY <1>2, GrownText
  <2>2. Cat(share, entry) \in Seq(Segment(G)) /\ Cat(share, names) \in Seq(Segment(G))
    BY <2>1, CatIs
  <2>3. Cat(share, entry) # <<>>
    BY <2>1, EmptyCat
  <2> QED
    BY <1>2, <2>1, <2>2, <2>3
<1>4. place = Joined(Cat(share, names)) /\ place \in Seq(G)
  <2>1. share \in Seq(Seq(G)) /\ names \in Seq(Seq(G)) /\ Cat(share, names) \in Seq(Seq(G))
    BY <1>3, NormalOfSegments
  <2>2. Joined(Cat(share, names)) = Cat(Joined(share), Joined(names))
    BY <1>1, <2>1, JoinedCat
  <2>3. Joined(Cat(share, names)) \in Seq(G)
    BY <1>1, <2>1, JoinedStarts
  <2> QED
    BY <1>2, <2>2, <2>3
<1>5. full = Grown(Cat(share, names), child)
  BY <1>2, CatIs
<1>6. ASSUME NEW w \in Seq(G), Followed(ref), PathPart(ref) = w, Target(place, w) = {full}
      PROVE  HrefToMountPath(Joined(share), place, ref) = Found(wanted)
  <2>1. Decoded(w) = w
    BY UnescapedIsRead
  <2>2. Target(place, w) = {Cat(share, entry)}
    BY <1>2, <1>6
  <2>3. Len(Joined(entry)) < MaxPath /\ wanted = Joined(entry)
    BY <1>2
  <2>4. HrefToMountPath(Joined(share), place, ref) = Found(Joined(entry))
    BY <1>1, <1>3, <1>4, <1>6, <2>1, <2>2, <2>3, EntryIsFound
  <2> QED
    BY <2>3, <2>4
<1>7. CASE ref = child
  <2>1. child \in Seq(G) /\ ~IsPrefix(Two, child)
    BY <1>1, SegmentIs
  <2>2. Followed(child) /\ PathPart(child) = child
    BY <2>1, LocalIs
  <2>3. Target(place, child) = {full}
    <3>1. Target(Joined(Cat(share, names)), child) = {Grown(Cat(share, names), child)}
      BY <1>1, <1>3, NamedTarget
    <3> QED
      BY <1>4, <1>5, <3>1
  <2> QED
    BY <1>2, <1>6, <1>7, <2>1, <2>2, <2>3
<1>8. ASSUME NEW w \in {Joined(full), Grown(Joined(full), "/")},
             NEW hosted, hosted = Cat(Two, Cat(One(OwnHost), w)),
             ref \in {w, hosted, Cat(One(Http), hosted)}
      PROVE  HrefToMountPath(Joined(share), place, ref) = Found(wanted)
  <2>1. /\ w \in Seq(G) /\ w # <<>> /\ Head(w) = "/" /\ ~IsPrefix(Two, w)
        /\ Target(place, w) = {full}
    BY <1>1, <1>3, RootedTarget
  <2>2. Followed(w) /\ PathPart(w) = w
    BY <2>1, LocalIs
  <2>3. PICK schemed : schemed = Cat(One(Http), hosted)
    OBVIOUS
  <2>4. /\ Followed(hosted) /\ PathPart(hosted) = w
        /\ Followed(schemed) /\ PathPart(schemed) = w
    BY <1>8, <2>1, <2>3, HostedIs
  <2>5. Followed(ref) /\ PathPart(ref) = w
    BY <1>8, <2>2, <2>3, <2>4
  <2> QED
    BY <1>6, <2>1, <2>5
<1>9. \/ ref = child
      \/ \E w \in {Joined(full), Grown(Joined(full), "/")} :
           LET hosted == Cat(Two, Cat(One(OwnHost), w))
           IN  ref \in {w, hosted, Cat(One(Http), hosted)}
  BY <1>1, <1>2, HrefsAre
<1>10. HrefToMountPath(Joined(share), place, ref) = Found(wanted)
  <2>1. ASSUME NEW w \in {Joined(full), Grown(Joined(full), "/")},
               ref \in {w, Cat(Two, Cat(One(OwnHost), w)), Cat(One(Http), Cat(Two, Cat(One(OwnHost), w)))}
        PROVE  HrefToMountPath(Joined(share), place, ref) = Found(wanted)
    <3>1. PICK hosted : hosted = Cat(Two, Cat(One(OwnHost), w))
      OBVIOUS
    <3> QED
      BY <1>8, <2>1, <3>1, Zenon
  <2> QED
    BY <1>2, <1>7, <1>9, <2>1, Zenon
<1> QED
  BY <1>2, <1>10

\* The characters of the path of a URL.
UrlCharacter == Character \ ({"?", "#"} \cup Scheme)

\* The invariant of UrlSpec.
UrlIsPath == url \in Seq(UrlCharacter) /\ (url = <<>> \/ Head(url) = "/")

LEMMA UrlIsPathStep ==
  ASSUME UrlIsPath, NEW c \in UrlCharacter, UrlGrows(c)
  PROVE  UrlIsPath'
<1>1. url \in Seq(UrlCharacter) /\ url' = Grown(url, c)
  BY DEF UrlIsPath, UrlGrows, Grown
<1>2. Grown(url, c) \in Seq(UrlCharacter) /\ Grown(url, c) = Cat(url, One(c))
  BY <1>1, GrownText
<1>3. Head(url') = "/"
  <2>1. CASE url = <<>>
    <3>1. c = "/"
      BY <2>1 DEF UrlGrows
    <3>2. Grown(<<>>, c) = One(c) /\ Head(One(c)) = c
      BY DEF Grown, One
    <3> QED
      BY <1>1, <2>1, <3>1, <3>2
  <2>2. CASE url # <<>>
    <3>1. One(c) \in Seq(UrlCharacter)
      BY OneText
    <3>2. Head(Cat(url, One(c))) = Head(url)
      BY <1>1, <2>2, <3>1, HeadOfCat
    <3> QED
      BY <1>1, <1>2, <2>2, <3>2 DEF UrlIsPath
  <2> QED
    BY <2>1, <2>2
<1> QED
  BY <1>1, <1>2, <1>3 DEF UrlIsPath

(***************************************************************************)
(* A URL path, names and the host are made of characters read as they are. *)
(***************************************************************************)
LEMMA PlainCharacterIs ==
  /\ "/" \in UrlCharacter /\ Unescaped(PlainCharacter(UrlCharacter))
  /\ NameCharacter \subseteq PlainCharacter(UrlCharacter)
<1>1. "/" \in Character /\ "/" \notin Scheme
  BY CharactersAre, HrefAssumption
<1>2. "/" \in UrlCharacter
  BY <1>1 DEF UrlCharacter
<1>3. NameCharacter \subseteq PlainCharacter(UrlCharacter)
  BY CharactersAre DEF UrlCharacter, PlainCharacter
<1>4. OwnHost \in NameCharacter
  BY HrefAssumption DEF NameCharacter
<1>5. "/" \in PlainCharacter(UrlCharacter)
  BY <1>2 DEF PlainCharacter
<1>6. PlainCharacter(UrlCharacter) \cap ({"?", "#", "%2F", "%5C", "%00", "%"} \cup Scheme) = {}
  BY DEF PlainCharacter, UrlCharacter
<1> QED
  BY <1>2, <1>3, <1>4, <1>5, <1>6 DEF Unescaped

(***************************************************************************)
(* Whatever URL the mount accepts (parse_url), every child of every        *)
(* directory of the share is found under its own name by each spelling a   *)
(* server has for its href (href_to_mount_path), if its path fits.         *)
(***************************************************************************)
THEOREM AcceptedSharesHold == UrlSpec => []AcceptedSharesAreFound
<1>1. UrlInit => UrlIsPath
  BY EmptySeq DEF UrlInit, UrlIsPath
<1>2. UrlIsPath /\ [UrlNext]_url => UrlIsPath'
  <2> SUFFICES ASSUME UrlIsPath, [UrlNext]_url PROVE UrlIsPath'
    OBVIOUS
  <2>1. ASSUME NEW c \in UrlCharacter, UrlGrows(c) PROVE UrlIsPath'
    BY <2>1, UrlIsPathStep
  <2>2. CASE UNCHANGED url
    BY <2>2 DEF UrlIsPath
  <2> QED
    BY <2>1, <2>2 DEF UrlNext, UrlCharacter
<1>3. UrlIsPath => AcceptedSharesAreFound
  <2> SUFFICES ASSUME UrlIsPath, NEW base \in SharePath(url), NEW names \in Directory, NEW child \in Child,
                      NEW ref \in HrefsOf(base, names, child),
                      Len(Joined(Append(names, child))) < MaxPath
               PROVE  HrefToMountPath(base, base \o Joined(names), ref) = Found(Joined(Append(names, child)))
    BY Zenon DEF AcceptedSharesAreFound, ShareIsFound
  <2>1. PICK C, G : C = UrlCharacter /\ G = PlainCharacter(C)
    OBVIOUS
  <2>2. PICK share \in Seq(Segment(G)) : base = Joined(share)
    BY <2>1, PlainCharacterIs, SharePathIs DEF UrlIsPath
  <2>3. names \in Seq(Segment(G)) /\ child \in Segment(G)
    <3>1. PlainName \subseteq Segment(G) /\ Seq(PlainName) \subseteq Seq(Segment(G))
      BY <2>1, PlainCharacterIs, NamesAreSegments
    <3>2. names \in Seq(PlainName) /\ child \in PlainName
      BY HrefAssumption
    <3> QED
      BY <3>1, <3>2
  <2>4. PICK wanted : wanted = Joined(Grown(names, child))
    OBVIOUS
  <2>5. HrefToMountPath(Joined(share), Cat(Joined(share), Joined(names)), ref) = Found(wanted)
    <3>1. Unescaped(G)
      BY <2>1, PlainCharacterIs
    <3>2. Len(wanted) < MaxPath
      BY <2>4, Zenon DEF Grown
    <3>3. ref \in HrefsOf(Joined(share), names, child)
      BY <2>2
    <3> QED
      BY <2>3, <2>4, <3>1, <3>2, <3>3, ChildIsFound
  <2> QED
    BY <2>2, <2>4, <2>5, Zenon DEF Cat, Grown
<1> QED
  BY <1>1, <1>2, <1>3, PTL DEF UrlSpec
=============================================================================
