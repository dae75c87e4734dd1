------------------------ MODULE ServeLifecycleProofs ------------------------
(***************************************************************************)
(* Proofs about ServeLifecycle and LiveTemps, for any set of paths that is *)
(* closed under prefixes and any number of PUTs in flight, on a volume     *)
(* that does not move a directory with an open file in it.                 *)
(***************************************************************************)
EXTENDS ServeLifecycle, SequenceTheorems, TLAPS

-----------------------------------------------------------------------------
(* Paths.                                                                  *)

Names == UNION {ToSet(p) : p \in Path}

Place == Path \cup {<<>>}

LEMMA PathIsSeq ==
  ASSUME NEW p \in Path
  PROVE  p \in Seq(Names) /\ Len(p) \in Nat \ {0} /\ p # <<>>
<1>1. p \in Seq(ToSet(p)) /\ p # <<>>
  BY PathAssumption
<1>2. ToSet(p) \subseteq Names
  BY DEF Names
<1>3. p \in Seq(Names)
  BY <1>1, <1>2, SeqMonotonic
<1> QED
  BY <1>1, <1>3, EmptySeq

LEMMA PlaceIsSeq ==
  ASSUME NEW p \in Place
  PROVE  p \in Seq(Names) /\ Len(p) \in Nat
BY PathIsSeq, EmptySeq DEF Place

(***************************************************************************)
(* A prefix agrees with the path as far as it goes.                        *)
(***************************************************************************)
LEMMA PrefixAgrees ==
  ASSUME NEW s \in Seq(Names), NEW t \in Seq(Names)
  PROVE  IsPrefix(s, t) <=> Len(s) <= Len(t) /\ \A i \in 1..Len(s) : s[i] = t[i]
<1>1. SubSeq(s, 1, Len(s)) = s
  BY SubSeqFull
<1>2. CASE Len(s) <= Len(t)
  <2>1. \A i \in 1..Len(s) : t[i] \in Names
    BY <1>2, ElementOfSeq, LenProperties
  <2>2. Len(s) \in Nat
    BY LenProperties
  <2>3. /\ SubSeq(t, 1, Len(s)) \in Seq(Names)
        /\ Len(SubSeq(t, 1, Len(s))) = IF 1 <= Len(s) THEN Len(s) - 1 + 1 ELSE 0
        /\ \A i \in 1..Len(s) - 1 + 1 : SubSeq(t, 1, Len(s))[i] = t[1 + i - 1]
    BY <2>1, <2>2, SubSeqProperties
  <2>4. /\ Len(SubSeq(t, 1, Len(s))) = Len(s)
        /\ \A i \in 1..Len(s) : SubSeq(t, 1, Len(s))[i] = t[i]
    BY <2>2, <2>3
  <2>5. (\A i \in 1..Len(s) : s[i] = t[i]) => s = SubSeq(t, 1, Len(s))
    BY <2>3, <2>4, SeqEqual
  <2> QED
    BY <1>1, <1>2, <2>4, <2>5 DEF IsPrefix
<1> QED
  BY <1>2 DEF IsPrefix

LEMMA PrefixTransitive ==
  ASSUME NEW r \in Seq(Names), NEW s \in Seq(Names), NEW t \in Seq(Names),
         IsPrefix(r, s), IsPrefix(s, t)
  PROVE  IsPrefix(r, t)
<1>1. Len(r) \in Nat /\ Len(s) \in Nat /\ Len(t) \in Nat
  BY LenProperties
<1> QED
  BY <1>1, PrefixAgrees

LEMMA PrefixAntisymmetric ==
  ASSUME NEW s \in Seq(Names), NEW t \in Seq(Names), IsPrefix(s, t), Len(s) >= Len(t)
  PROVE  s = t
<1>1. Len(s) \in Nat /\ Len(t) \in Nat
  BY LenProperties
<1>2. Len(s) = Len(t) /\ \A i \in 1..Len(s) : s[i] = t[i]
  BY <1>1, PrefixAgrees
<1> QED
  BY <1>2, SeqEqual

LEMMA PrefixReflexive ==
  ASSUME NEW s \in Seq(Names)
  PROVE  IsPrefix(s, s)
BY PrefixAgrees, LenProperties

(***************************************************************************)
(* Of two prefixes of a path the shorter is one of the longer.             *)
(***************************************************************************)
LEMMA PrefixesCompare ==
  ASSUME NEW r \in Seq(Names), NEW s \in Seq(Names), NEW t \in Seq(Names),
         IsPrefix(r, t), IsPrefix(s, t)
  PROVE  /\ Len(r) <= Len(s) => IsPrefix(r, s)
         /\ IsPrefix(r, s) \/ IsPrefix(s, r)
<1>1. Len(r) \in Nat /\ Len(s) \in Nat /\ Len(t) \in Nat
  BY LenProperties
<1>2. /\ Len(r) <= Len(t) /\ \A i \in 1..Len(r) : r[i] = t[i]
      /\ Len(s) <= Len(t) /\ \A i \in 1..Len(s) : s[i] = t[i]
  BY PrefixAgrees
<1>3. Len(r) <= Len(s) => IsPrefix(r, s)
  BY <1>1, <1>2, PrefixAgrees
<1>4. Len(s) <= Len(r) => IsPrefix(s, r)
  BY <1>1, <1>2, PrefixAgrees
<1> QED
  BY <1>1, <1>3, <1>4

(***************************************************************************)
(* What is cut off a path is a prefix of it, and its prefixes are paths.   *)
(***************************************************************************)
LEMMA CutIsPrefix ==
  ASSUME NEW t \in Seq(Names), NEW k \in 0..Len(t)
  PROVE  /\ SubSeq(t, 1, k) \in Seq(Names) /\ Len(SubSeq(t, 1, k)) = k
         /\ IsPrefix(SubSeq(t, 1, k), t)
         /\ \A i \in 1..k : SubSeq(t, 1, k)[i] = t[i]
<1>1. Len(t) \in Nat /\ k \in Int /\ 1 \in Int
  BY LenProperties
<1>2. \A i \in 1..k : t[i] \in Names
  BY <1>1, ElementOfSeq
<1>3. /\ SubSeq(t, 1, k) \in Seq(Names)
      /\ Len(SubSeq(t, 1, k)) = IF 1 <= k THEN k - 1 + 1 ELSE 0
      /\ \A i \in 1..k - 1 + 1 : SubSeq(t, 1, k)[i] = t[1 + i - 1]
  BY <1>1, <1>2, SubSeqProperties
<1>4. Len(SubSeq(t, 1, k)) = k /\ \A i \in 1..k : SubSeq(t, 1, k)[i] = t[i]
  BY <1>1, <1>3
<1>5. IsPrefix(SubSeq(t, 1, k), t)
  <2>1. Len(SubSeq(t, 1, k)) <= Len(t)
    BY <1>1, <1>4
  <2>2. \A i \in 1..Len(SubSeq(t, 1, k)) : SubSeq(t, 1, k)[i] = t[i]
    BY <1>4
  <2> QED
    BY <1>3, <2>1, <2>2, PrefixAgrees
<1> QED
  BY <1>3, <1>4, <1>5

LEMMA PrefixIsCut ==
  ASSUME NEW p \in Path, NEW q \in Seq(Names), IsPrefix(q, p), q # <<>>
  PROVE  q \in Path /\ Len(q) \in DOMAIN p /\ SubSeq(p, 1, Len(q)) = q
<1>1. p \in Seq(Names) /\ Len(p) \in Nat
  BY PathIsSeq
<1>2. Len(q) \in Nat \ {0}
  BY EmptySeq
<1>3. Len(q) <= Len(p)
  BY <1>1, PrefixAgrees
<1>4. Len(q) \in 0..Len(p) /\ Len(q) \in DOMAIN p
  BY <1>1, <1>2, <1>3, LenProperties
<1>5. SubSeq(p, 1, Len(q)) = q
  <2>1. SubSeq(q, 1, Len(q)) = q
    BY SubSeqFull
  <2> QED
    BY <2>1 DEF IsPrefix
<1> QED
  BY <1>4, <1>5, PathAssumption

(***************************************************************************)
(* The directory a path is in.                                             *)
(***************************************************************************)
LEMMA FrontIsPlace ==
  ASSUME NEW p \in Path
  PROVE  /\ Front(p) \in Place /\ Len(Front(p)) = Len(p) - 1 /\ Front(p) # p
         /\ IsPrefix(Front(p), p)
         /\ Front(p) # <<>> => Front(p) \in Path /\ IsStrictPrefix(Front(p), p) /\ Len(p) > 1
         /\ Front(p) = <<>> => Len(p) = 1
<1>1. p \in Seq(Names) /\ Len(p) \in Nat \ {0}
  BY PathIsSeq
<1>2. Len(p) - 1 \in 0..Len(p)
  BY <1>1
<1>3. /\ Front(p) \in Seq(Names) /\ Len(Front(p)) = Len(p) - 1
      /\ IsPrefix(Front(p), p)
  BY <1>1, <1>2, CutIsPrefix DEF Front
<1>4. Front(p) # p
  BY <1>1, <1>3
<1>5. Front(p) # <<>> => Front(p) \in Path /\ Len(Front(p)) \in Nat \ {0}
  BY <1>3, PrefixIsCut, EmptySeq
<1>6. Front(p) = <<>> => Len(p) = 1
  BY <1>1, <1>3, EmptySeq
<1> QED
  BY <1>1, <1>3, <1>4, <1>5, <1>6 DEF Place, IsStrictPrefix

LEMMA StrictPrefixOfFront ==
  ASSUME NEW p \in Path, NEW q \in Path, IsStrictPrefix(q, p)
  PROVE  IsPrefix(q, Front(p)) /\ Front(p) \in Path /\ Len(q) < Len(p) /\ ~IsPrefix(p, q)
<1>1. /\ p \in Seq(Names) /\ Len(p) \in Nat \ {0}
      /\ q \in Seq(Names) /\ Len(q) \in Nat \ {0}
  BY PathIsSeq
<1>2. IsPrefix(q, p) /\ q # p
  BY DEF IsStrictPrefix
<1>3. Len(q) < Len(p)
  BY <1>1, <1>2, PrefixAntisymmetric
<1>4. Front(p) \in Seq(Names) /\ Len(Front(p)) = Len(p) - 1 /\ IsPrefix(Front(p), p)
  BY FrontIsPlace, PlaceIsSeq
<1>5. IsPrefix(q, Front(p))
  BY <1>1, <1>2, <1>3, <1>4, PrefixesCompare
<1>6. Front(p) # <<>>
  BY <1>1, <1>3, <1>4, EmptySeq
<1>7. ~IsPrefix(p, q)
  BY <1>1, <1>3, PrefixAgrees
<1> QED
  BY <1>3, <1>5, <1>6, <1>7, FrontIsPlace

(***************************************************************************)
(* Where a path below p is when p is moved to q.                           *)
(***************************************************************************)
Onto(p, q, x) == q \o SubSeq(x, Len(p) + 1, Len(x))

LEMMA OntoAgrees ==
  ASSUME NEW p \in Seq(Names), NEW q \in Seq(Names), NEW x \in Seq(Names), IsPrefix(p, x)
  PROVE  /\ Onto(p, q, x) \in Seq(Names)
         /\ Len(Onto(p, q, x)) = Len(q) + (Len(x) - Len(p)) /\ Len(p) <= Len(x)
         /\ \A i \in 1..Len(q) : Onto(p, q, x)[i] = q[i]
         /\ \A i \in Len(p) + 1..Len(x) : Onto(p, q, x)[Len(q) + (i - Len(p))] = x[i]
         /\ IsPrefix(q, Onto(p, q, x))
<1>1. PICK rest : rest = SubSeq(x, Len(p) + 1, Len(x))
  OBVIOUS
<1>2. Len(p) \in Nat /\ Len(q) \in Nat /\ Len(x) \in Nat /\ Len(p) <= Len(x)
  BY LenProperties, PrefixAgrees
<1>3. \A i \in Len(p) + 1..Len(x) : x[i] \in Names
  BY <1>2, ElementOfSeq
<1>4. /\ rest \in Seq(Names)
      /\ Len(rest) = IF Len(p) + 1 <= Len(x) THEN Len(x) - (Len(p) + 1) + 1 ELSE 0
      /\ \A i \in 1..Len(x) - (Len(p) + 1) + 1 : rest[i] = x[Len(p) + 1 + i - 1]
  <2>1. Len(p) + 1 \in Int /\ Len(x) \in Int
    BY <1>2
  <2> QED
    BY <1>1, <1>3, <2>1, SubSeqProperties
<1>5. /\ Len(rest) = Len(x) - Len(p)
      /\ \A i \in Len(p) + 1..Len(x) : rest[i - Len(p)] = x[i]
  BY <1>2, <1>4
<1>6. /\ q \o rest \in Seq(Names)
      /\ Len(q \o rest) = Len(q) + Len(rest)
      /\ \A i \in 1..Len(q) + Len(rest) :
           (q \o rest)[i] = IF i <= Len(q) THEN q[i] ELSE rest[i - Len(q)]
  BY <1>4, ConcatProperties
<1>7. PICK z : z = q \o rest
  OBVIOUS
<1>8. /\ z \in Seq(Names) /\ Len(z) = Len(q) + (Len(x) - Len(p))
      /\ \A i \in 1..Len(q) : z[i] = q[i]
  BY <1>2, <1>5, <1>6, <1>7
<1>9. ASSUME NEW i \in Len(p) + 1..Len(x) PROVE z[Len(q) + (i - Len(p))] = x[i]
  <2>1. /\ Len(q) + (i - Len(p)) \in 1..Len(q) + Len(rest) /\ ~(Len(q) + (i - Len(p)) <= Len(q))
        /\ Len(q) + (i - Len(p)) - Len(q) = i - Len(p)
    BY <1>2, <1>5
  <2>2. z[Len(q) + (i - Len(p))] = rest[i - Len(p)]
    BY <1>6, <1>7, <2>1
  <2> QED
    BY <1>5, <2>2
<1>10. IsPrefix(q, z)
  BY <1>2, <1>8, PrefixAgrees
<1>11. z = Onto(p, q, x)
  BY <1>1, <1>7 DEF Onto
<1> QED
  BY <1>2, <1>8, <1>9, <1>10, <1>11

LEMMA OntoKeepsOrder ==
  ASSUME NEW p \in Seq(Names), NEW q \in Seq(Names), NEW x \in Seq(Names), NEW y \in Seq(Names),
         IsPrefix(p, y), IsPrefix(y, x)
  PROVE  /\ IsPrefix(Onto(p, q, y), Onto(p, q, x))
         /\ y # x => Onto(p, q, y) # Onto(p, q, x)
<1>1. Len(p) \in Nat /\ Len(q) \in Nat /\ Len(x) \in Nat /\ Len(y) \in Nat
  BY LenProperties
<1>2. IsPrefix(p, x)
  BY PrefixTransitive
<1>3. /\ Len(p) <= Len(y) /\ Len(y) <= Len(x)
      /\ \A i \in 1..Len(y) : y[i] = x[i]
  BY <1>1, PrefixAgrees
<1>4. PICK v : v = Onto(p, q, y)
  OBVIOUS
<1>5. PICK w : w = Onto(p, q, x)
  OBVIOUS
<1>6. /\ v \in Seq(Names) /\ Len(v) = Len(q) + (Len(y) - Len(p))
      /\ \A i \in 1..Len(q) : v[i] = q[i]
      /\ \A i \in Len(p) + 1..Len(y) : v[Len(q) + (i - Len(p))] = y[i]
  <2>1. /\ Onto(p, q, y) \in Seq(Names) /\ Len(Onto(p, q, y)) = Len(q) + (Len(y) - Len(p))
        /\ \A i \in 1..Len(q) : Onto(p, q, y)[i] = q[i]
        /\ \A i \in Len(p) + 1..Len(y) : Onto(p, q, y)[Len(q) + (i - Len(p))] = y[i]
    BY OntoAgrees, ZenonT(60)
  <2> QED
    BY ONLY <1>4, <2>1, ZenonT(60)
<1>7. /\ w \in Seq(Names) /\ Len(w) = Len(q) + (Len(x) - Len(p))
      /\ \A i \in 1..Len(q) : w[i] = q[i]
      /\ \A i \in Len(p) + 1..Len(x) : w[Len(q) + (i - Len(p))] = x[i]
  <2>1. /\ Onto(p, q, x) \in Seq(Names) /\ Len(Onto(p, q, x)) = Len(q) + (Len(x) - Len(p))
        /\ \A i \in 1..Len(q) : Onto(p, q, x)[i] = q[i]
        /\ \A i \in Len(p) + 1..Len(x) : Onto(p, q, x)[Len(q) + (i - Len(p))] = x[i]
    BY <1>2, OntoAgrees, ZenonT(60)
  <2> QED
    BY ONLY <1>5, <2>1, ZenonT(60)
<1>8. ASSUME NEW j \in 1..Len(v) PROVE v[j] = w[j]
  <2>. j \in Int
    BY <1>1, <1>6
  <2>1. CASE j <= Len(q)
    BY <1>1, <1>6, <1>7, <2>1
  <2>2. CASE j > Len(q)
    <3>1. PICK i \in Int : i = j - Len(q) + Len(p)
      <4>1. j - Len(q) + Len(p) \in Int
        BY <1>1
      <4> QED
        BY ONLY <4>1
    <3>2. i \in Len(p) + 1..Len(y) /\ i \in 1..Len(y) /\ i \in Len(p) + 1..Len(x)
      BY <1>1, <1>3, <1>6, <2>2, <3>1
    <3>3. j = Len(q) + (i - Len(p))
      BY <1>1, <3>1
    <3> QED
      BY <1>3, <1>6, <1>7, <3>2, <3>3
  <2> QED
    BY <1>1, <2>1, <2>2
<1>9. IsPrefix(v, w)
  BY <1>1, <1>3, <1>6, <1>7, <1>8, PrefixAgrees
<1>10. ASSUME y # x PROVE v # w
  <2>1. Len(y) # Len(x)
    BY <1>1, <1>10, PrefixAntisymmetric
  <2> QED
    BY <1>1, <1>6, <1>7, <2>1
<1> QED
  BY <1>4, <1>5, <1>9, <1>10

-----------------------------------------------------------------------------
(* The invariant.                                                          *)

(***************************************************************************)
(* Everything is in a directory, and that in one, up to the root.  Only of *)
(* the whole way up can each step be told to keep it.                      *)
(***************************************************************************)
Rooted(t) == \A p, q \in Path : t[p] # "none" /\ IsStrictPrefix(q, p) => t[q] = "dir"

(***************************************************************************)
(* A PUT's file is where it was opened, under a name like a temp's.        *)
(***************************************************************************)
TempsInPlace ==
  \A u \in InFlight :
    /\ put[u].at = put[u].temp
    /\ put[u].temp # <<>> => tree[put[u].temp] = "part" /\ Last(put[u].temp) \in TempName

(***************************************************************************)
(* There are no temps but those of the PUTs in flight.                     *)
(***************************************************************************)
PartsAreTemps == \A p \in Path : tree[p] = "part" => \E u \in InFlight : put[u].temp = p

(***************************************************************************)
(* No two PUTs share a temp, and none is for a temp.                       *)
(***************************************************************************)
TempsAreOwn ==
  \A u, v \in InFlight : put[u].temp # <<>> /\ put[v].temp # <<>> =>
    /\ put[v].target # put[u].temp
    /\ put[v].temp = put[u].temp => u = v

LiveInv == TypeOK /\ Rooted(tree) /\ TempsInPlace /\ PartsAreTemps /\ TempsAreOwn

(***************************************************************************)
(* What each step of the service has acquired.                             *)
(***************************************************************************)
HeldIsByStage ==
  /\ stage = "off" => held = {}
  /\ stage = "prepare" => held \subseteq {"log"}
  /\ stage \in {"server", "release", "failed"} => held \subseteq {"log", "digests"}
  /\ stage \in {"tls", "register"} => held \subseteq {"log", "digests", "server"}
  /\ stage \in {"start", "subscribe", "stopping"} =>
       held \subseteq {"log", "digests", "server", "filter", "roots"}
  /\ stage \in {"tls", "register"} => "server" \in held
  /\ stage \in {"start", "subscribe", "up", "stopping"} => {"server", "filter"} \subseteq held
  /\ stage = "unregister" => held \subseteq {"log", "digests", "filter", "roots"}

(***************************************************************************)
(* PUTs are in flight only while the server runs, and have a temp only     *)
(* where the volume has a root.                                            *)
(***************************************************************************)
InFlightIsServed ==
  \A u \in InFlight : /\ stage \in {"up", "stopping"}
                      /\ put[u].temp # <<>> => "roots" \in held

Inv == ServeTypeOK /\ LiveInv /\ HeldIsByStage /\ InFlightIsServed

-----------------------------------------------------------------------------
(* Trees.                                                                  *)

Kind == {"none", "dir", "whole", "part", "left"}

LEMMA ParentIsDir ==
  ASSUME NEW t, Rooted(t), NEW p \in Path, t[p] # "none"
  PROVE  IsDirIn(t, Front(p))
BY FrontIsPlace DEF Rooted, IsDirIn

(***************************************************************************)
(* Something is put in a directory; only a directory has something in it.  *)
(***************************************************************************)
LEMMA SettingKeepsRooted ==
  ASSUME NEW t \in [Path -> Kind], Rooted(t), NEW p \in Path, NEW k \in Kind,
         IsDirIn(t, Front(p)),
         k = "dir" \/ \A q \in Below(p) : t[q] = "none"
  PROVE  Rooted([t EXCEPT ![p] = k])
<1> DEFINE w == [t EXCEPT ![p] = k]
<1> SUFFICES ASSUME NEW x \in Path, NEW y \in Path, w[x] # "none", IsStrictPrefix(y, x)
             PROVE  w[y] = "dir"
  BY DEF Rooted
<1>1. CASE y = p
  <2>1. x # p
    BY <1>1 DEF IsStrictPrefix
  <2>2. x \in Below(p) /\ t[x] # "none"
    BY <1>1, <2>1 DEF Below
  <2> QED
    BY <1>1, <2>2
<1>2. CASE y # p /\ x = p
  <2>1. IsPrefix(y, Front(p)) /\ Front(p) \in Path
    BY <1>2, StrictPrefixOfFront
  <2>2. t[Front(p)] = "dir"
    BY <2>1, PathIsSeq DEF IsDirIn
  <2>3. t[y] = "dir"
    BY <2>1, <2>2 DEF Rooted, IsStrictPrefix
  <2> QED
    BY <1>2, <2>3
<1>3. CASE y # p /\ x # p
  BY <1>3 DEF Rooted
<1> QED
  BY <1>1, <1>2, <1>3

LEMMA ClearingKeepsRooted ==
  ASSUME NEW t \in [Path -> Kind], Rooted(t), NEW p \in Place,
         p # <<>> => \A q \in Below(p) : t[q] = "none"
  PROVE  Rooted(Without(t, p)) /\ Without(t, p) \in [Path -> Kind]
<1>1. CASE p = <<>>
  BY <1>1 DEF Without
<1>2. CASE p # <<>>
  <2> DEFINE w == [t EXCEPT ![p] = "none"]
  <2>1. p \in Path /\ Without(t, p) = w
    BY <1>2 DEF Place, Without
  <2>2. ASSUME NEW x \in Path, NEW y \in Path, w[x] # "none", IsStrictPrefix(y, x)
        PROVE  w[y] = "dir"
    <3>1. x # p /\ t[x] # "none"
      BY <2>1, <2>2
    <3>2. y # p
      BY <1>2, <2>2, <3>1 DEF Below
    <3> QED
      BY <2>1, <2>2, <3>1, <3>2 DEF Rooted
  <2> HIDE DEF w
  <2>3. Rooted(w)
    BY <2>2 DEF Rooted
  <2>4. w \in [Path -> Kind]
    BY <2>1 DEF w, Kind
  <2> QED
    BY <2>1, <2>3, <2>4
<1> QED
  BY <1>1, <1>2

(***************************************************************************)
(* What is not a directory has nothing in it.                              *)
(***************************************************************************)
LEMMA NothingInFiles ==
  ASSUME NEW t, Rooted(t), NEW p \in Path, t[p] # "dir"
  PROVE  \A q \in Below(p) : t[q] = "none"
BY DEF Rooted, Below

(***************************************************************************)
(* ft_move keeps the tree rooted.                                          *)
(***************************************************************************)
Moved(t, p, q) ==
  [x \in Path |-> IF IsPrefix(p, x) THEN "none"
                  ELSE IF IsPrefix(q, x) /\ Onto(q, p, x) \in Path THEN t[Onto(q, p, x)]
                  ELSE t[x]]

LEMMA MovingKeepsRooted ==
  ASSUME NEW t \in [Path -> Kind], Rooted(t), NEW p \in Path, NEW q \in Path,
         t[p] # "none", IsDirIn(t, Front(q)), ~IsPrefix(p, q), ~IsPrefix(q, p),
         t[q] # "none" => "dir" \notin {t[p], t[q]}
  PROVE  Rooted(Moved(t, p, q)) /\ Moved(t, p, q) \in [Path -> Kind]
<1> DEFINE w == Moved(t, p, q)
<1>0. p \in Seq(Names) /\ q \in Seq(Names) /\ p # <<>> /\ q # <<>>
  BY PathIsSeq
<1>1. w \in [Path -> Kind]
  BY DEF Moved, Kind
<1>2. ASSUME NEW x \in Path, NEW y \in Path, w[x] # "none", IsStrictPrefix(y, x)
      PROVE  w[y] = "dir"
  <2>1. /\ x \in Seq(Names) /\ y \in Seq(Names) /\ IsPrefix(y, x) /\ y # x
    BY <1>2, PathIsSeq DEF IsStrictPrefix
  <2>2. ~IsPrefix(p, x)
    BY <1>2 DEF Moved
  <2>3. ~IsPrefix(p, y)
    BY <1>0, <2>1, <2>2, PrefixTransitive
  <2>4. CASE IsPrefix(q, x) /\ Onto(q, p, x) \in Path
    <3>1. t[Onto(q, p, x)] # "none"
      BY <1>2, <2>2, <2>4 DEF Moved
    <3>2. CASE IsPrefix(q, y)
      <4>1. IsStrictPrefix(Onto(q, p, y), Onto(q, p, x))
        BY <1>0, <2>1, <3>2, OntoKeepsOrder DEF IsStrictPrefix
      <4>2. Onto(q, p, y) \in Seq(Names) /\ IsPrefix(p, Onto(q, p, y))
        BY <1>0, <2>1, <3>2, OntoAgrees
      <4>3. Onto(q, p, y) # <<>>
        BY <1>0, <4>2, PrefixAgrees, EmptySeq, LenProperties
      <4>4. Onto(q, p, y) \in Path
        BY <2>4, <4>1, <4>2, <4>3, PrefixIsCut DEF IsStrictPrefix
      <4>5. t[Onto(q, p, y)] = "dir"
        BY <2>4, <3>1, <4>1, <4>4 DEF Rooted
      <4> QED
        BY <2>3, <3>2, <4>4, <4>5 DEF Moved
    <3>3. CASE ~IsPrefix(q, y)
      <4>1. IsPrefix(y, q) /\ y # q
        BY <1>0, <2>1, <2>4, <3>3, PrefixesCompare, PrefixReflexive
      <4>2. IsPrefix(y, Front(q)) /\ Front(q) \in Path
        BY <4>1, StrictPrefixOfFront DEF IsStrictPrefix
      <4>3. t[Front(q)] = "dir"
        BY <4>2, PathIsSeq DEF IsDirIn
      <4>4. t[y] = "dir"
        BY <4>2, <4>3 DEF Rooted, IsStrictPrefix
      <4> QED
        BY <2>3, <3>3, <4>4 DEF Moved
    <3> QED
      BY <3>2, <3>3
  <2>5. CASE ~(IsPrefix(q, x) /\ Onto(q, p, x) \in Path)
    <3>1. t[x] # "none"
      BY <1>2, <2>2, <2>5 DEF Moved
    <3>2. t[y] = "dir"
      BY <1>2, <3>1 DEF Rooted
    <3>3. ~IsPrefix(q, y)
      <4> SUFFICES ASSUME IsPrefix(q, y) PROVE FALSE
        OBVIOUS
      <4>1. t[q] = "dir"
        BY <1>0, <2>1, <3>2 DEF Rooted, IsStrictPrefix
      <4> QED
        BY <4>1
    <3> QED
      BY <2>3, <3>2, <3>3 DEF Moved
  <2> QED
    BY <2>4, <2>5
<1> QED
  BY <1>1, <1>2 DEF Rooted

-----------------------------------------------------------------------------
(* The live temps.                                                         *)

LEMMA PutParts ==
  ASSUME TypeOK, NEW u \in InFlight
  PROVE  /\ u \in Upload /\ put[u] \in Put /\ put[u].target \in Path
         /\ put[u].temp \in Place /\ put[u].at \in Place /\ put[u].made \in Place
BY DEF TypeOK, InFlight, Put, Place

LEMMA TempsAreParts ==
  ASSUME LiveInv, NEW r \in Registered
  PROVE  /\ r \in Path /\ tree[r] = "part" /\ Last(r) \in TempName
         /\ \E u \in InFlight : put[u].temp = r /\ put[u].at = r
<1>1. PICK u \in InFlight : put[u].temp = r /\ r # <<>>
  BY DEF Registered
<1>2. r \in Path
  BY <1>1, PutParts DEF LiveInv, Place
<1> QED
  BY <1>1, <1>2 DEF LiveInv, TempsInPlace

LEMMA PartsAreRegistered ==
  ASSUME LiveInv, NEW p \in Path
  PROVE  tree[p] = "part" <=> p \in Registered
BY TempsAreParts, PathIsSeq DEF LiveInv, PartsAreTemps, Registered

(***************************************************************************)
(* Nothing is under a temp, so a path through one is the temp or nothing.  *)
(***************************************************************************)
LEMMA ThroughTemps ==
  ASSUME LiveInv, NEW p \in Path
  PROVE  /\ tree[p] = "part" => Through(p, Registered)
         /\ Through(p, Registered) => tree[p] \in {"part", "none"}
<1>1. tree[p] = "part" => Through(p, Registered)
  BY PartsAreRegistered, PathIsSeq, PrefixReflexive DEF Through
<1>2. ASSUME Through(p, Registered) PROVE tree[p] \in {"part", "none"}
  <2>1. PICK r \in Registered : IsPrefix(r, p)
    BY <1>2 DEF Through
  <2>2. r \in Path /\ tree[r] = "part"
    BY TempsAreParts
  <2> QED
    BY <2>1, <2>2 DEF LiveInv, Rooted, IsStrictPrefix
<1> QED
  BY <1>1, <1>2

(***************************************************************************)
(* dav_live_temp finds out what the SDK knows: it asks only for names like *)
(* a temp's, and by the two answers tells a live temp from any other file. *)
(***************************************************************************)
LEMMA LiveTempIsThrough ==
  ASSUME LiveInv, NEW p \in Path
  PROVE  LiveTemp(p) <=> Through(p, Registered)
<1>0. p \in Seq(Names) /\ Len(p) \in Nat /\ DOMAIN p = 1..Len(p)
  BY PathIsSeq, LenProperties
<1>1. ASSUME LiveTemp(p) PROVE Through(p, Registered)
  <2>1. PICK k \in DOMAIN p : ~SdkStat(SubSeq(p, 1, k)) /\ FtStat(SubSeq(p, 1, k))
    BY <1>1 DEF LiveTemp
  <2>2. PICK q : q = SubSeq(p, 1, k)
    OBVIOUS
  <2>3. PICK r \in Registered : IsPrefix(r, q)
    BY <2>1, <2>2 DEF SdkStat, FtStat, Through
  <2>4. q \in Seq(Names) /\ IsPrefix(q, p) /\ r \in Seq(Names)
    BY <1>0, <2>1, <2>2, CutIsPrefix, TempsAreParts, PathIsSeq
  <2> QED
    BY <1>0, <2>3, <2>4, PrefixTransitive DEF Through
<1>2. ASSUME Through(p, Registered) PROVE LiveTemp(p)
  <2>1. PICK r \in Registered : IsPrefix(r, p)
    BY <1>2 DEF Through
  <2>2. r \in Path /\ tree[r] = "part" /\ Last(r) \in TempName /\ r \in Seq(Names) /\ r # <<>>
    BY TempsAreParts, PathIsSeq
  <2>3. Len(r) \in DOMAIN p /\ SubSeq(p, 1, Len(r)) = r
    BY <2>1, <2>2, PrefixIsCut
  <2>4. p[Len(r)] = Last(r)
    <3>1. Len(r) \in 1..Len(r)
      BY <2>2, PathIsSeq
    <3> QED
      BY <1>0, <2>1, <2>2, <3>1, PrefixAgrees DEF Last
  <2>5. ~SdkStat(r) /\ FtStat(r)
    BY <2>2, PrefixReflexive DEF SdkStat, FtStat, Through
  <2> QED
    BY <2>2, <2>3, <2>4, <2>5 DEF LiveTemp
<1> QED
  BY <1>1, <1>2

(***************************************************************************)
(* A handle whose file stays where it is.                                  *)
(***************************************************************************)
LEMMA HandlesStay ==
  ASSUME TypeOK, NEW place, \A u \in InFlight : place[put[u].at] = put[u].at
  PROVE  Handles(place) = put
<1>1. \A u \in InFlight : [put[u] EXCEPT !.at = place[@]] = put[u]
  BY PutParts DEF Put
<1>2. \A u \in Upload : u \notin InFlight => put[u] = NoPut
  BY DEF InFlight
<1>3. put = [u \in Upload |-> put[u]]
  BY DEF TypeOK
<1> QED
  BY <1>1, <1>2, <1>3 DEF Handles

-----------------------------------------------------------------------------
(* The requests keep the invariant.                                        *)

(***************************************************************************)
(* What leaves the PUTs and their temps alone has only to keep the tree    *)
(* rooted.                                                                 *)
(***************************************************************************)
LEMMA PartsStay ==
  ASSUME LiveInv, put' = put, tree' \in [Path -> Kind], Rooted(tree'),
         \A x \in Path : tree'[x] = "part" <=> tree[x] = "part"
  PROVE  LiveInv'
<1>1. InFlight' = InFlight
  BY DEF InFlight
<1>2. TypeOK'
  BY DEF LiveInv, TypeOK, Kind
<1>3. Rooted(tree)'
  BY DEF Rooted
<1>4. TempsInPlace'
  <2> SUFFICES ASSUME NEW u \in InFlight
               PROVE  /\ put[u].at = put[u].temp
                      /\ put[u].temp # <<>> =>
                           tree'[put[u].temp] = "part" /\ Last(put[u].temp) \in TempName
    BY <1>1 DEF TempsInPlace
  <2>1. put[u].temp # <<>> => put[u].temp \in Path
    BY PutParts DEF LiveInv, Place
  <2> QED
    BY <2>1 DEF LiveInv, TempsInPlace
<1>5. PartsAreTemps'
  BY <1>1 DEF LiveInv, PartsAreTemps
<1>6. TempsAreOwn'
  BY <1>1 DEF LiveInv, TempsAreOwn
<1> QED
  BY <1>2, <1>3, <1>4, <1>5, <1>6 DEF LiveInv

(***************************************************************************)
(* A PUT that has no temp any more, or none from the start.                *)
(***************************************************************************)
LEMMA OnePartGoes ==
  ASSUME LiveInv, NEW u \in Upload, NEW w \in Put \cup {NoPut}, w.temp = <<>>, w.at = <<>>,
         put' = [put EXCEPT ![u] = w], tree' \in [Path -> Kind], Rooted(tree'),
         \A x \in Path : tree'[x] = "part" <=> tree[x] = "part" /\ x # put[u].temp
  PROVE  LiveInv'
<1>0. put \in [Upload -> Put \cup {NoPut}]
  BY DEF LiveInv, TypeOK
<1>1. TypeOK'
  BY <1>0 DEF TypeOK, Kind
<1>2. Rooted(tree)'
  BY DEF Rooted
<1>. \A v \in Upload : put'[v] = IF v = u THEN w ELSE put[v]
  BY <1>0
<1>3. \A v \in InFlight' : /\ v = u => put'[v] = w
                           /\ v # u => v \in InFlight /\ put'[v] = put[v]
  BY DEF InFlight
<1>4. \A v \in InFlight : v # u => v \in InFlight' /\ put'[v] = put[v]
  BY DEF InFlight
<1>5. \A v \in InFlight : v # u /\ put[v].temp # <<>> => put[v].temp # put[u].temp
  BY <1>0 DEF LiveInv, TempsAreOwn, InFlight, NoPut
<1>6. TempsInPlace'
  <2> SUFFICES ASSUME NEW v \in InFlight'
               PROVE  /\ put'[v].at = put'[v].temp
                      /\ put'[v].temp # <<>> =>
                           tree'[put'[v].temp] = "part" /\ Last(put'[v].temp) \in TempName
    BY DEF TempsInPlace
  <2>1. CASE v = u
    BY <1>3, <2>1
  <2>2. CASE v # u
    <3>1. v \in InFlight /\ put'[v] = put[v]
      BY <1>3, <2>2
    <3>2. put[v].temp # <<>> => put[v].temp \in Path
      BY <3>1, PutParts DEF LiveInv, Place
    <3> QED
      BY <1>5, <2>2, <3>1, <3>2 DEF LiveInv, TempsInPlace
  <2> QED
    BY <2>1, <2>2
<1>7. PartsAreTemps'
  <2> SUFFICES ASSUME NEW x \in Path, tree'[x] = "part"
               PROVE  \E v \in InFlight' : put'[v].temp = x
    BY DEF PartsAreTemps
  <2>1. PICK v \in InFlight : put[v].temp = x
    BY DEF LiveInv, PartsAreTemps
  <2>2. v # u
    BY <2>1
  <2> QED
    BY <1>4, <2>1, <2>2
<1>8. TempsAreOwn'
  <2> SUFFICES ASSUME NEW a \in InFlight', NEW b \in InFlight',
                      put'[a].temp # <<>>, put'[b].temp # <<>>
               PROVE  /\ put'[b].target # put'[a].temp
                      /\ put'[b].temp = put'[a].temp => a = b
    BY DEF TempsAreOwn
  <2>1. a \in InFlight /\ put'[a] = put[a] /\ b \in InFlight /\ put'[b] = put[b]
    BY <1>3
  <2> QED
    BY <2>1 DEF LiveInv, TempsAreOwn
<1> QED
  BY <1>1, <1>2, <1>6, <1>7, <1>8 DEF LiveInv

LEMMA MkdirKeeps ==
  ASSUME LiveInv, NEW p \in Path, FtMkdir(p)
  PROVE  LiveInv' /\ put' = put
<1>1. /\ tree[p] = "none" /\ IsDirIn(tree, Front(p))
      /\ tree' = [tree EXCEPT ![p] = "dir"] /\ put' = put
  BY DEF FtMkdir, IsDir
<1>2. tree \in [Path -> Kind] /\ Rooted(tree)
  BY DEF LiveInv, TypeOK, Kind
<1>3. Rooted(tree') /\ tree' \in [Path -> Kind]
  BY <1>1, <1>2, SettingKeepsRooted DEF Kind
<1>4. \A x \in Path : tree'[x] = "part" <=> tree[x] = "part"
  BY <1>1, <1>2
<1> QED
  BY <1>1, <1>3, <1>4, PartsStay

LEMMA DeleteKeeps ==
  ASSUME LiveInv, NEW p \in Path, ~Through(p, Registered), FtDelete(p)
  PROVE  LiveInv' /\ put' = put /\ tree[p] # "part" /\ tree' = [tree EXCEPT ![p] = "none"]
<1>0. tree \in [Path -> Kind] /\ Rooted(tree) /\ p # <<>>
  BY PathIsSeq DEF LiveInv, TypeOK, Kind
<1>1. tree[p] # "part" /\ p \notin Registered
  BY ThroughTemps, PartsAreRegistered
<1>2. tree' = Without(tree, p) /\ tree' = [tree EXCEPT ![p] = "none"]
  BY <1>0 DEF FtDelete, Without
<1>3. \A q \in Below(p) : tree[q] = "none"
  BY DEF FtDelete, Empty
<1>4. Rooted(tree') /\ tree' \in [Path -> Kind]
  BY <1>0, <1>2, <1>3, ClearingKeepsRooted, ZenonT(60) DEF Place
<1>5. PICK place : place = [x \in Path \cup {<<>>} |-> IF x = p THEN <<>> ELSE x]
  OBVIOUS
<1>6. \A u \in InFlight : place[put[u].at] = put[u].at
  <2> SUFFICES ASSUME NEW u \in InFlight PROVE place[put[u].at] = put[u].at
    OBVIOUS
  <2>1. put[u].at \in Place /\ put[u].at = put[u].temp
    BY PutParts DEF LiveInv, TempsInPlace
  <2>2. put[u].at # p
    BY <1>0, <1>1, <2>1 DEF Registered
  <2> QED
    BY <1>5, <2>1, <2>2 DEF Place
<1>7. put' = put
  <2>1. put' = Handles(place)
    BY <1>5 DEF FtDelete
  <2> QED
    BY <1>6, <2>1, HandlesStay DEF LiveInv
<1>8. \A x \in Path : tree'[x] = "part" <=> tree[x] = "part"
  BY <1>0, <1>1, <1>2
<1> QED
  BY <1>1, <1>2, <1>4, <1>7, <1>8, PartsStay

(***************************************************************************)
(* A directory with a temp in it is not moved, since the volume refuses; a *)
(* temp is not moved or replaced, since dav_move does.                     *)
(***************************************************************************)
LEMMA MoveKeeps ==
  ASSUME ~CarriesOpen, LiveInv, NEW p \in Path, NEW q \in Path,
         ~Through(p, Registered), ~Through(q, Registered), FtMove(p, q)
  PROVE  /\ LiveInv' /\ put' = put /\ tree' = Moved(tree, p, q)
         /\ tree[p] \notin {"none", "part"} /\ tree[q] # "part"
         /\ IsDirIn(tree, Front(q)) /\ ~IsPrefix(p, q) /\ ~IsPrefix(q, p)
         /\ tree[q] # "none" => "dir" \notin {tree[p], tree[q]}
         /\ \A r \in Registered : ~IsPrefix(p, r)
<1>0. /\ tree \in [Path -> Kind] /\ Rooted(tree)
      /\ p \in Seq(Names) /\ q \in Seq(Names) /\ p # <<>> /\ q # <<>>
  BY PathIsSeq DEF LiveInv, TypeOK, Kind
<1>1. /\ tree[p] # "none" /\ IsDirIn(tree, Front(q)) /\ ~IsPrefix(p, q) /\ ~IsPrefix(q, p)
      /\ tree[q] # "none" => "dir" \notin {tree[p], tree[q]}
      /\ \A u \in InFlight : ~IsStrictPrefix(p, put[u].at)
  BY DEF FtMove, IsDir
<1>2. tree' = Moved(tree, p, q)
  BY DEF FtMove, Moved, Onto
<1>3. tree[p] # "part" /\ tree[q] # "part" /\ p \notin Registered /\ q \notin Registered
  BY ThroughTemps, PartsAreRegistered
<1>4. \A r \in Registered : ~IsPrefix(p, r) /\ ~IsPrefix(q, r)
  <2> SUFFICES ASSUME NEW r \in Registered PROVE ~IsPrefix(p, r) /\ ~IsPrefix(q, r)
    OBVIOUS
  <2>1. PICK u \in InFlight : put[u].at = r
    BY TempsAreParts
  <2>2. ~IsPrefix(p, r)
    BY <1>1, <1>3, <2>1 DEF IsStrictPrefix
  <2>3. IsPrefix(q, r) => tree[q] = "dir"
    BY <1>0, <1>3, TempsAreParts DEF Rooted, IsStrictPrefix
  <2> QED
    BY <1>1, <2>2, <2>3
<1>5. PICK place : place = [x \in Path \cup {<<>>} |->
                              IF IsPrefix(p, x) THEN Onto(p, q, x) ELSE IF x = q THEN <<>> ELSE x]
  OBVIOUS
<1>6. \A u \in InFlight : place[put[u].at] = put[u].at
  <2> SUFFICES ASSUME NEW u \in InFlight PROVE place[put[u].at] = put[u].at
    OBVIOUS
  <2>1. put[u].at \in Place /\ put[u].at = put[u].temp
    BY PutParts DEF LiveInv, TempsInPlace
  <2>2. put[u].at # <<>> => put[u].at \in Registered
    BY <2>1 DEF Registered
  <2>3. ~IsPrefix(p, <<>>)
    <3>1. <<>> \in Seq(Names) /\ Len(<<>>) = 0 /\ Len(p) \in Nat \ {0}
      BY <1>0, EmptySeq
    <3>2. IsPrefix(p, <<>>) => Len(p) <= Len(<<>>)
      BY DEF IsPrefix
    <3> QED
      BY <3>1, <3>2
  <2>4. ~IsPrefix(p, put[u].at) /\ put[u].at # q
    BY <1>0, <1>3, <1>4, <2>2, <2>3
  <2> QED
    BY <1>5, <2>1, <2>4 DEF Place
<1>7. put' = put
  <2>1. put' = Handles(place)
    BY <1>5 DEF FtMove, Onto
  <2> QED
    BY <1>6, <2>1, HandlesStay DEF LiveInv
<1>8. Rooted(tree') /\ tree' \in [Path -> Kind]
  BY <1>0, <1>1, <1>2, MovingKeepsRooted
<1>9. ASSUME NEW x \in Path PROVE tree'[x] = "part" <=> tree[x] = "part"
  <2>0. tree'[x] = IF IsPrefix(p, x) THEN "none"
                   ELSE IF IsPrefix(q, x) /\ Onto(q, p, x) \in Path THEN tree[Onto(q, p, x)]
                   ELSE tree[x]
    BY <1>2 DEF Moved
  <2>1. x \in Registered => tree'[x] = tree[x]
    BY <1>4, <2>0
  <2>2. ASSUME tree'[x] = "part", tree[x] # "part" PROVE FALSE
    <3>1. IsPrefix(q, x) /\ Onto(q, p, x) \in Path /\ tree[Onto(q, p, x)] = "part"
      BY <2>0, <2>2
    <3>2. x \in Seq(Names)
      BY PathIsSeq
    <3>3. Onto(q, p, x) \in Registered /\ IsPrefix(p, Onto(q, p, x))
      BY <1>0, <3>1, <3>2, PartsAreRegistered, OntoAgrees
    <3> QED
      BY <1>4, <3>3
  <2> QED
    BY <2>1, <2>2, PartsAreRegistered
<1> QED
  BY <1>1, <1>2, <1>3, <1>4, <1>7, <1>8, <1>9, PartsStay

(***************************************************************************)
(* The directory made for a PUT.                                           *)
(***************************************************************************)
LEMMA MakingKeepsRooted ==
  ASSUME LiveInv, NEW u \in Upload, NEW p \in Path
  PROVE  /\ MadeFor(u, p) # <<>> =>
              /\ MadeFor(u, p) = Front(p) /\ MadeFor(u, p) \in Path
              /\ tree[MadeFor(u, p)] = "none" /\ IsDirIn(tree, Front(MadeFor(u, p)))
         /\ MadeFor(u, p) \in Place
         /\ Rooted(WithMade(tree, MadeFor(u, p)))
         /\ WithMade(tree, MadeFor(u, p)) \in [Path -> Kind]
<1>0. tree \in [Path -> Kind] /\ Rooted(tree)
  BY DEF LiveInv, TypeOK, Kind
<1>1. CASE MadeFor(u, p) = <<>>
  BY <1>0, <1>1 DEF WithMade, Place
<1>2. CASE MadeFor(u, p) # <<>>
  <2>1. /\ MadeFor(u, p) = Front(p) /\ tree[Front(p)] = "none" /\ IsDirIn(tree, Front(Front(p)))
    BY <1>2 DEF MadeFor, IsDir
  <2>2. Front(p) \in Path
    BY <1>2, <2>1, FrontIsPlace
  <2>3. WithMade(tree, Front(p)) = [tree EXCEPT ![Front(p)] = "dir"]
    BY <1>2, <2>1 DEF WithMade
  <2>4. Rooted([tree EXCEPT ![Front(p)] = "dir"])
    BY <1>0, <2>1, <2>2, SettingKeepsRooted DEF Kind
  <2> QED
    BY <1>0, <2>1, <2>2, <2>3, <2>4 DEF Kind, Place
<1> QED
  BY <1>1, <1>2

LEMMA RefusalKeeps ==
  ASSUME LiveInv, NEW p \in Path, PutRefused(p)
  PROVE  LiveInv'
<1>1. PICK made : made = MadeFor("rest", p)
  OBVIOUS
<1>2. PICK w : w = [target |-> p, temp |-> <<>>, at |-> <<>>, made |-> made]
  OBVIOUS
<1>3. /\ put["rest"] = NoPut /\ tree' = WithMade(tree, made)
      /\ put' = [put EXCEPT !["rest"] = w]
  BY <1>1, <1>2 DEF PutRefused
<1>4. "rest" \in Upload
  BY DEF Upload
<1>5. /\ made # <<>> => made \in Path /\ tree[made] = "none"
      /\ made \in Place /\ Rooted(tree') /\ tree' \in [Path -> Kind]
  BY <1>1, <1>3, <1>4, MakingKeepsRooted
<1>6. w \in Put /\ w.temp = <<>> /\ w.at = <<>>
  BY <1>2, <1>5 DEF Put, Place
<1>7. ASSUME NEW x \in Path PROVE tree'[x] = "part" <=> tree[x] = "part" /\ x # put["rest"].temp
  <2>1. tree \in [Path -> Kind] /\ x # <<>>
    BY PathIsSeq DEF LiveInv, TypeOK, Kind
  <2> QED
    BY <1>3, <1>5, <2>1 DEF WithMade, NoPut
<1> QED
  BY <1>3, <1>4, <1>5, <1>6, <1>7, OnePartGoes

LEMMA OpenKeeps ==
  ASSUME LiveInv, NEW u \in Upload, NEW p \in Path, PutOpen(u, p)
  PROVE  /\ LiveInv' /\ IsDirIn(WithMade(tree, MadeFor(u, p)), Front(p))
         /\ \E temp \in TempFor(p) :
              /\ WithMade(tree, MadeFor(u, p))[temp] = "none"
              /\ tree' = [WithMade(tree, MadeFor(u, p)) EXCEPT ![temp] = "part"]
              /\ put' = [put EXCEPT ![u] = [target |-> p, temp |-> temp, at |-> temp,
                                           made |-> MadeFor(u, p)]]
<1>1. PICK made : made = MadeFor(u, p)
  OBVIOUS
<1>2. PICK t : t = WithMade(tree, made)
  OBVIOUS
<1>3. /\ put[u] = NoPut /\ ~Through(p, Registered) /\ IsDirIn(t, Front(p))
  BY <1>1, <1>2 DEF PutOpen
<1>4. PICK temp \in TempFor(p) :
           /\ tree' = [WithMade(tree, MadeFor(u, p)) EXCEPT ![temp] = "part"]
           /\ put' = [put EXCEPT ![u] = [target |-> p, temp |-> temp, at |-> temp,
                                        made |-> MadeFor(u, p)]]
  BY Zenon DEF PutOpen
<1>5. PICK w : w = [target |-> p, temp |-> temp, at |-> temp, made |-> made]
  OBVIOUS
<1>. tree' = [t EXCEPT ![temp] = "part"] /\ put' = [put EXCEPT ![u] = w]
  BY <1>1, <1>2, <1>4, <1>5
<1>6. /\ temp \in Path /\ Front(temp) = Front(p) /\ Last(temp) \in TempName /\ temp # p
      /\ tree[temp] = "none" /\ \A v \in InFlight : put[v].target # temp
  BY DEF TempFor
<1>7. /\ made # <<>> => made = Front(p) /\ made \in Path /\ tree[made] = "none"
      /\ made \in Place /\ Rooted(t) /\ t \in [Path -> Kind]
  BY <1>1, <1>2, MakingKeepsRooted
<1>8. /\ tree \in [Path -> Kind] /\ put \in [Upload -> Put \cup {NoPut}]
  BY DEF LiveInv, TypeOK, Kind
<1>9. temp # made /\ temp # <<>> /\ p # <<>>
  BY <1>6, <1>7, FrontIsPlace, PathIsSeq
<1>10. /\ t[temp] = "none"
       /\ \A x \in Path : t[x] = "part" <=> tree[x] = "part"
       /\ \A x \in Path : tree[x] = "part" => x # temp /\ x # made
  <2>1. CASE made = <<>>
    <3>1. t = tree
      BY <1>2, <2>1 DEF WithMade
    <3>2. \A x \in Path : x # <<>>
      BY PathIsSeq
    <3> QED
      BY <1>6, <2>1, <3>1, <3>2
  <2>2. CASE made # <<>>
    <3>1. t = [tree EXCEPT ![made] = "dir"]
      BY <1>2, <2>2 DEF WithMade
    <3>2. made \in Path /\ tree[made] = "none"
      BY <1>7, <2>2
    <3> QED
      BY <1>6, <1>8, <1>9, <3>1, <3>2
  <2> QED
    BY <2>1, <2>2
<1>11. Rooted(tree') /\ tree' \in [Path -> Kind]
  <2>1. \A q \in Below(temp) : t[q] = "none"
    BY <1>6, <1>7, <1>10, NothingInFiles
  <2>2. t \in [Path -> Kind] /\ Rooted(t) /\ temp \in Path /\ IsDirIn(t, Front(temp))
    BY <1>3, <1>6, <1>7
  <2>3. "part" \in Kind
    BY DEF Kind
  <2>4. Rooted([t EXCEPT ![temp] = "part"])
    BY <2>1, <2>2, <2>3, SettingKeepsRooted
  <2> QED
    BY <2>2, <2>3, <2>4
<1>12. w \in Put /\ w # NoPut
  BY <1>5, <1>6, <1>7, <1>9 DEF Put, Place, NoPut
<1>13. \A v \in Upload : put'[v] = IF v = u THEN w ELSE put[v]
  BY <1>4, <1>5, <1>8
<1>14. /\ u \in InFlight' /\ put'[u] = w /\ u \notin InFlight
       /\ \A v \in InFlight' : v # u => v \in InFlight /\ put'[v] = put[v]
       /\ \A v \in InFlight : v # u /\ v \in InFlight' /\ put'[v] = put[v]
  BY <1>3, <1>12, <1>13 DEF InFlight
<1>15. \A x \in Path : tree'[x] = "part" <=> tree[x] = "part" \/ x = temp
  BY <1>4, <1>6, <1>7, <1>10
<1>16. TypeOK' /\ Rooted(tree)'
  BY <1>4, <1>5, <1>8, <1>11, <1>12 DEF TypeOK, Kind, Rooted
<1>17. \A v \in InFlight : put[v].temp # <<>> =>
         /\ put[v].temp \in Path /\ tree[put[v].temp] = "part" /\ Last(put[v].temp) \in TempName
         /\ put[v].temp # p /\ put[v].temp # temp
  <2> SUFFICES ASSUME NEW v \in InFlight, put[v].temp # <<>>
               PROVE  /\ put[v].temp \in Path /\ tree[put[v].temp] = "part"
                      /\ Last(put[v].temp) \in TempName
                      /\ put[v].temp # p /\ put[v].temp # temp
    OBVIOUS
  <2>1. put[v].temp \in Registered
    BY DEF Registered
  <2> QED
    BY <1>3, <1>6, <2>1, TempsAreParts, PathIsSeq, PrefixReflexive DEF Through
<1>18. TempsInPlace'
  <2> SUFFICES ASSUME NEW v \in InFlight'
               PROVE  /\ put'[v].at = put'[v].temp
                      /\ put'[v].temp # <<>> =>
                           tree'[put'[v].temp] = "part" /\ Last(put'[v].temp) \in TempName
    BY DEF TempsInPlace
  <2>1. CASE v = u
    BY <1>5, <1>6, <1>14, <1>15, <2>1
  <2>2. CASE v # u
    BY <1>14, <1>15, <1>17, <2>2 DEF LiveInv, TempsInPlace
  <2> QED
    BY <2>1, <2>2
<1>19. PartsAreTemps'
  <2> SUFFICES ASSUME NEW x \in Path, tree'[x] = "part"
               PROVE  \E v \in InFlight' : put'[v].temp = x
    BY DEF PartsAreTemps
  <2>1. CASE x = temp
    BY <1>5, <1>14, <2>1
  <2>2. CASE tree[x] = "part"
    BY <1>14, <2>2 DEF LiveInv, PartsAreTemps
  <2> QED
    BY <1>15, <2>1, <2>2
<1>20. TempsAreOwn'
  <2> SUFFICES ASSUME NEW a \in InFlight', NEW b \in InFlight',
                      put'[a].temp # <<>>, put'[b].temp # <<>>
               PROVE  /\ put'[b].target # put'[a].temp
                      /\ put'[b].temp = put'[a].temp => a = b
    BY DEF TempsAreOwn
  <2>1. w.temp = temp /\ w.target = p
    BY <1>5
  <2>2. CASE a = u
    BY <1>6, <1>14, <1>17, <2>1, <2>2
  <2>3. CASE a # u /\ b = u
    BY <1>14, <1>17, <2>1, <2>3
  <2>4. CASE a # u /\ b # u
    BY <1>14, <2>4 DEF LiveInv, TempsAreOwn
  <2> QED
    BY <2>2, <2>3, <2>4
<1>21. LiveInv'
  BY <1>16, <1>18, <1>19, <1>20 DEF LiveInv
<1> QED
  BY <1>1, <1>2, <1>3, <1>4, <1>10, <1>21

(***************************************************************************)
(* The temp of a PUT that ends is its own, and nothing is in it.           *)
(***************************************************************************)
LEMMA OwnTemp ==
  ASSUME LiveInv, NEW u \in InFlight
  PROVE  /\ Rooted(Without(tree, put[u].at)) /\ Without(tree, put[u].at) \in [Path -> Kind]
         /\ put[u].at = put[u].temp
         /\ \A x \in Path : /\ x # put[u].at => Without(tree, put[u].at)[x] = tree[x]
                            /\ x = put[u].at => Without(tree, put[u].at)[x] = "none"
                            /\ x = put[u].at => tree[x] = "part"
<1>1. tree \in [Path -> Kind] /\ Rooted(tree)
  BY DEF LiveInv, TypeOK, Kind
<1>2. /\ put[u].at \in Place /\ put[u].at = put[u].temp
      /\ put[u].at # <<>> => put[u].at \in Path /\ tree[put[u].at] = "part"
  BY PutParts DEF LiveInv, TempsInPlace, Place
<1>3. put[u].at # <<>> => \A q \in Below(put[u].at) : tree[q] = "none"
  BY <1>1, <1>2, NothingInFiles
<1>4. Rooted(Without(tree, put[u].at)) /\ Without(tree, put[u].at) \in [Path -> Kind]
  BY <1>1, <1>2, <1>3, ClearingKeepsRooted
<1>5. \A x \in Path : x # <<>>
  BY PathIsSeq
<1> QED
  BY <1>1, <1>2, <1>4, <1>5 DEF Without

LEMMA CommitKeeps ==
  ASSUME LiveInv, NEW u \in Upload, PutCommit(u)
  PROVE  /\ LiveInv'
         /\ tree[put[u].target] \notin {"dir", "part"} /\ IsDirIn(tree, Front(put[u].target))
         /\ put[u].at \in Path /\ tree[put[u].at] = "part" /\ put[u].target # put[u].at
         /\ tree' = [tree EXCEPT ![put[u].at] = "none", ![put[u].target] = "whole"]
<1>1. /\ u \in InFlight /\ put[u].temp # <<>> /\ put[u].at = put[u].temp
      /\ tree[put[u].target] # "dir" /\ IsDirIn(tree, Front(put[u].target))
      /\ tree' = [tree EXCEPT ![put[u].at] = "none", ![put[u].target] = "whole"]
      /\ put' = [put EXCEPT ![u] = NoPut]
  BY DEF PutCommit, Replaces, IsDir
<1>2. PICK at : at = put[u].at
  OBVIOUS
<1>3. PICK p : p = put[u].target
  OBVIOUS
<1>4. at \in Path /\ p \in Path /\ tree[at] = "part" /\ at # <<>>
  BY <1>1, <1>2, <1>3, PutParts DEF LiveInv, TempsInPlace, Place
<1>5. PICK t : t = Without(tree, at)
  OBVIOUS
<1>6. /\ Rooted(t) /\ t \in [Path -> Kind]
      /\ \A x \in Path : x # at => t[x] = tree[x]
      /\ t[at] = "none"
  BY <1>1, <1>2, <1>4, <1>5, OwnTemp
<1>7. p # at /\ tree[p] # "part"
  <2>1. p # at
    BY <1>1, <1>2, <1>3 DEF LiveInv, TempsAreOwn
  <2>2. ASSUME tree[p] = "part" PROVE FALSE
    <3>1. PICK v \in InFlight : put[v].temp = p
      BY <1>4, <2>2 DEF LiveInv, PartsAreTemps
    <3>2. put[v].temp # <<>>
      BY <1>4, <3>1, PathIsSeq
    <3> QED
      BY <1>1, <1>3, <3>1, <3>2 DEF LiveInv, TempsAreOwn
  <2> QED
    BY <2>1, <2>2
<1>8. tree' = [t EXCEPT ![p] = "whole"]
  BY <1>1, <1>2, <1>3, <1>4, <1>5 DEF Without
<1>9. IsDirIn(t, Front(p)) /\ t[p] # "dir"
  <2>1. Front(p) # <<>> => Front(p) \in Path /\ Front(p) # at
    BY <1>1, <1>3, <1>4, FrontIsPlace DEF IsDirIn
  <2> QED
    BY <1>1, <1>3, <1>4, <1>6, <1>7, <2>1 DEF IsDirIn
<1>10. Rooted(tree') /\ tree' \in [Path -> Kind]
  <2>1. \A q \in Below(p) : t[q] = "none"
    BY <1>4, <1>6, <1>9, NothingInFiles
  <2> QED
    BY <1>4, <1>6, <1>8, <1>9, <2>1, SettingKeepsRooted DEF Kind
<1>11. \A x \in Path : tree'[x] = "part" <=> tree[x] = "part" /\ x # put[u].temp
  BY <1>1, <1>2, <1>4, <1>6, <1>7, <1>8
<1>12. NoPut.temp = <<>> /\ NoPut.at = <<>>
  BY DEF NoPut
<1> QED
  BY <1>1, <1>2, <1>3, <1>4, <1>7, <1>10, <1>11, <1>12, OnePartGoes

LEMMA DiscardKeeps ==
  ASSUME LiveInv, NEW u \in Upload, PutDiscard(u)
  PROVE  /\ LiveInv' /\ put' = [put EXCEPT ![u] = NoPut] /\ u \in InFlight
         /\ \/ tree' = Without(tree, put[u].at)
            \/ /\ put[u].made \in Path /\ Without(tree, put[u].at)[put[u].made] = "dir"
               /\ \A q \in Below(put[u].made) : Without(tree, put[u].at)[q] = "none"
               /\ tree' = [Without(tree, put[u].at) EXCEPT ![put[u].made] = "none"]
<1>1. PICK t : t = Without(tree, put[u].at)
  OBVIOUS
<1>2. u \in InFlight /\ put' = [put EXCEPT ![u] = NoPut]
  BY DEF PutDiscard
<1>3. /\ Rooted(t) /\ t \in [Path -> Kind] /\ put[u].at = put[u].temp
      /\ \A x \in Path : /\ x # put[u].at => t[x] = tree[x]
                         /\ x = put[u].at => t[x] = "none"
                         /\ x = put[u].at => tree[x] = "part"
  BY <1>1, <1>2, OwnTemp
<1>4. \/ tree' = t
      \/ /\ put[u].made # <<>> /\ t[put[u].made] = "dir"
         /\ \A q \in Below(put[u].made) : t[q] = "none"
         /\ tree' = [t EXCEPT ![put[u].made] = "none"]
  BY <1>1 DEF PutDiscard, TakenBack, Without
<1>5. put[u].made \in Place
  BY <1>2, PutParts DEF LiveInv
<1>6. /\ Rooted(tree') /\ tree' \in [Path -> Kind]
      /\ \A x \in Path : tree'[x] = "part" <=> t[x] = "part"
  <2>1. CASE tree' = t
    BY <1>3, <2>1
  <2>2. CASE /\ put[u].made # <<>> /\ t[put[u].made] = "dir"
             /\ \A q \in Below(put[u].made) : t[q] = "none"
             /\ tree' = [t EXCEPT ![put[u].made] = "none"]
    <3>1. tree' = Without(t, put[u].made)
      BY <2>2 DEF Without
    <3>2. Rooted(tree') /\ tree' \in [Path -> Kind]
      BY <1>3, <1>5, <2>2, <3>1, ClearingKeepsRooted
    <3>3. \A x \in Path : tree'[x] = "part" <=> t[x] = "part"
      BY <1>3, <2>2
    <3> QED
      BY <3>2, <3>3
  <2> QED
    BY <1>4, <2>1, <2>2
<1>7. \A x \in Path : tree'[x] = "part" <=> tree[x] = "part" /\ x # put[u].temp
  BY <1>3, <1>6
<1>8. NoPut.temp = <<>> /\ NoPut.at = <<>>
  BY DEF NoPut
<1>9. LiveInv'
  BY <1>2, <1>6, <1>7, <1>8, OnePartGoes
<1> QED
  BY <1>1, <1>2, <1>4, <1>5, <1>9 DEF Place

LEMMA PowerLossKeeps ==
  ASSUME LiveInv, PowerLoss
  PROVE  LiveInv' /\ InFlight' = {}
<1>1. tree \in [Path -> Kind] /\ Rooted(tree)
  BY DEF LiveInv, TypeOK, Kind
<1>2. /\ tree' = [p \in Path |-> IF tree[p] = "part" THEN "left" ELSE tree[p]]
      /\ put' = [u \in Upload |-> NoPut]
  BY DEF PowerLoss
<1>3. TypeOK'
  BY <1>1, <1>2 DEF TypeOK, Kind
<1>4. Rooted(tree)'
  BY <1>1, <1>2 DEF Rooted
<1>5. InFlight' = {}
  BY <1>2 DEF InFlight
<1>6. \A p \in Path : tree'[p] # "part"
  BY <1>2
<1> QED
  BY <1>3, <1>4, <1>5, <1>6 DEF LiveInv, TempsInPlace, PartsAreTemps, TempsAreOwn

-----------------------------------------------------------------------------
(* The service.                                                            *)

LEMMA InitHolds == ServeInit => Inv
<1> SUFFICES ASSUME ServeInit PROVE Inv
  OBVIOUS
<1>1. /\ tree = [p \in Path |-> "none"] /\ put = [u \in Upload |-> NoPut]
      /\ stage = "off" /\ held = {}
  BY DEF ServeInit, Init
<1>2. InFlight = {}
  BY <1>1 DEF InFlight
<1>3. TypeOK /\ ServeTypeOK
  BY <1>1 DEF TypeOK, ServeTypeOK
<1>4. Rooted(tree)
  BY <1>1 DEF Rooted
<1>5. LiveInv
  BY <1>1, <1>2, <1>3, <1>4 DEF LiveInv, TempsInPlace, PartsAreTemps, TempsAreOwn
<1> QED
  BY <1>1, <1>2, <1>3, <1>5 DEF Inv, HeldIsByStage, InFlightIsServed

LEMMA IdleKeeps ==
  ASSUME LiveInv, UNCHANGED <<tree, put>>
  PROVE  LiveInv' /\ InFlight' = InFlight
BY DEF LiveInv, TypeOK, Rooted, TempsInPlace, PartsAreTemps, TempsAreOwn, InFlight

LEMMA RestKeeps ==
  ASSUME LiveInv, RestNext
  PROVE  LiveInv' /\ \A v \in InFlight' :
                        put'[v].temp # <<>> => v \in InFlight /\ put'[v] = put[v]
<1>1. PICK p \in Path : PutRefused(p) \/ RestDelete(p) \/ RestMkdir(p)
  BY DEF RestNext
<1>2. CASE PutRefused(p)
  <2>1. LiveInv'
    BY <1>2, RefusalKeeps
  <2>2. put \in [Upload -> Put \cup {NoPut}]
    BY DEF LiveInv, TypeOK
  <2>3. \A v \in Upload : /\ v = "rest" => put'[v].temp = <<>>
                          /\ v # "rest" => put'[v] = put[v]
    BY <1>2, <2>2 DEF PutRefused
  <2> QED
    BY <2>1, <2>3 DEF InFlight
<1>3. CASE RestDelete(p)
  <2>1. ~Through(p, Registered) /\ FtDelete(p)
    BY <1>3, LiveTempIsThrough DEF RestDelete
  <2> QED
    BY <2>1, DeleteKeeps DEF InFlight
<1>4. CASE RestMkdir(p)
  BY <1>4, MkdirKeeps DEF RestMkdir, InFlight
<1> QED
  BY <1>1, <1>2, <1>3, <1>4

LEMMA DavKeeps ==
  ASSUME ~CarriesOpen, LiveInv, DavNext
  PROVE  LiveInv'
<1>1. CASE \E p \in Path : DavRemove(p) \/ DavMkdir(p)
  BY <1>1, DeleteKeeps, MkdirKeeps DEF DavRemove, DavMkdir
<1>2. CASE \E p, q \in Path, overwrite \in BOOLEAN : DavMove(p, q, overwrite)
  <2>1. PICK p \in Path, q \in Path : ~LiveTemp(p) /\ ~LiveTemp(q) /\ FtMove(p, q)
    BY <1>2 DEF DavMove
  <2> QED
    BY <2>1, LiveTempIsThrough, MoveKeeps
<1> QED
  BY <1>1, <1>2 DEF DavNext

LEMMA DiscardEnds ==
  ASSUME LiveInv, NEW u \in Upload, PutDiscard(u)
  PROVE  LiveInv' /\ \A v \in InFlight' : v \in InFlight /\ put'[v] = put[v]
<1>1. LiveInv' /\ put' = [put EXCEPT ![u] = NoPut] /\ put \in [Upload -> Put \cup {NoPut}]
  BY DiscardKeeps DEF LiveInv, TypeOK
<1>2. \A v \in Upload : put'[v] = IF v = u THEN NoPut ELSE put[v]
  BY <1>1
<1> QED
  BY <1>1, <1>2 DEF InFlight

LEMMA ServeKeeps ==
  ASSUME ~CarriesOpen, Inv, Serve
  PROVE  Inv'
<1>0. "rest" \in Upload
  BY DEF Upload
<1>1. stage = "up" /\ stage' = "up" /\ held' = held /\ LiveInv
  BY DEF Serve, Inv
<1>2. LiveInv' /\ \A v \in InFlight' : put'[v].temp # <<>> => "roots" \in held
  <2>1. CASE "roots" \in held /\ (DavNext \/ \E u \in Upload : PutNext(u))
    <3>1. CASE DavNext
      BY <1>1, <2>1, <3>1, DavKeeps
    <3>2. ASSUME NEW u \in Upload, PutNext(u) PROVE LiveInv'
      BY <1>1, <3>2, OpenKeeps, CommitKeeps, DiscardKeeps DEF PutNext
    <3> QED
      BY <2>1, <3>1, <3>2
  <2>2. CASE PutDiscard("rest")
    BY <1>0, <1>1, <2>2, DiscardEnds DEF Inv, InFlightIsServed
  <2>3. CASE RestNext
    BY <1>1, <2>3, RestKeeps DEF Inv, InFlightIsServed
  <2> QED
    BY <2>1, <2>2, <2>3 DEF Serve
<1> QED
  BY <1>1, <1>2 DEF Inv, ServeTypeOK, LiveInv, HeldIsByStage, InFlightIsServed

(***************************************************************************)
(* What a step of the setup or the teardown releases and acquires; no PUT  *)
(* is in flight before the service is up.                                  *)
(***************************************************************************)
LEMMA IdleStepKeeps ==
  ASSUME Inv, Setup \/ Unload \/ StopEvents \/ FreeServer \/ Unregister \/ Release
  PROVE  Inv'
<1>1. UNCHANGED <<tree, put>>
  BY DEF Setup, AttachLog, Prepare, PrepareFails, NewServer, NewServerFails, EnableTls,
         EnableTlsFails, Register, Start, StartFails, Subscribe, Unload, StopEvents, FreeServer,
         Unregister, Release, Idle
<1>2. LiveInv' /\ InFlight' = InFlight
  BY <1>1, IdleKeeps DEF Inv
<1>3. TypeOK'
  BY <1>2 DEF LiveInv
<1>4. ServeTypeOK' /\ HeldIsByStage'
  <2> USE <1>3 DEF Inv, ServeTypeOK, HeldIsByStage, Resource, Step
  <2>1. CASE AttachLog
    BY <2>1 DEF AttachLog
  <2>2. CASE Prepare
    BY <2>2 DEF Prepare
  <2>3. CASE PrepareFails
    BY <2>3 DEF PrepareFails
  <2>4. CASE NewServer
    BY <2>4 DEF NewServer
  <2>5. CASE NewServerFails
    BY <2>5 DEF NewServerFails
  <2>6. CASE EnableTls
    BY <2>6 DEF EnableTls
  <2>7. CASE EnableTlsFails
    BY <2>7 DEF EnableTlsFails
  <2>8. CASE Register
    BY <2>8 DEF Register
  <2>9. CASE Start
    BY <2>9 DEF Start
  <2>10. CASE StartFails
    BY <2>10 DEF StartFails
  <2>11. CASE Subscribe
    BY <2>11 DEF Subscribe
  <2>12. CASE Unload
    BY <2>12 DEF Unload
  <2>13. CASE StopEvents
    BY <2>13 DEF StopEvents
  <2>14. CASE FreeServer
    BY <2>14 DEF FreeServer
  <2>15. CASE Unregister
    BY <2>15 DEF Unregister
  <2>16. CASE Release
    BY <2>16 DEF Release
  <2> QED
    BY <2>1, <2>2, <2>3, <2>4, <2>5, <2>6, <2>7, <2>8,
       <2>9, <2>10, <2>11, <2>12, <2>13, <2>14, <2>15, <2>16 DEF Setup
<1>5. InFlightIsServed'
  BY <1>1, <1>2 DEF Inv, InFlightIsServed, Step, Setup, AttachLog, Prepare, PrepareFails,
         NewServer, NewServerFails, EnableTls, EnableTlsFails, Register, Start, StartFails,
         Subscribe, Unload, StopEvents, FreeServer, Unregister, Release
<1> QED
  BY <1>2, <1>4, <1>5 DEF Inv

LEMMA AbortKeeps ==
  ASSUME Inv, AbortUpload
  PROVE  Inv'
<1>1. PICK u \in Upload : PutDiscard(u)
  BY DEF AbortUpload
<1>2. stage = "stopping" /\ stage' = stage /\ held' = held /\ LiveInv
  BY DEF AbortUpload, Inv
<1>3. LiveInv' /\ \A v \in InFlight' : v \in InFlight /\ put'[v] = put[v]
  BY <1>1, <1>2, DiscardEnds
<1> QED
  BY <1>2, <1>3 DEF Inv, ServeTypeOK, LiveInv, HeldIsByStage, InFlightIsServed

LEMMA CrashKeeps ==
  ASSUME Inv, Crash
  PROVE  Inv'
<1>1. LiveInv' /\ InFlight' = {} /\ stage' = "off" /\ held' = {}
  BY PowerLossKeeps DEF Crash, Inv
<1> QED
  BY <1>1 DEF Inv, ServeTypeOK, LiveInv, HeldIsByStage, InFlightIsServed

LEMMA StutterKeeps ==
  ASSUME Inv, UNCHANGED serveVars
  PROVE  Inv'
<1>1. UNCHANGED <<tree, put>> /\ stage' = stage /\ held' = held
  BY DEF serveVars
<1>2. LiveInv' /\ InFlight' = InFlight
  BY <1>1, IdleKeeps DEF Inv
<1> QED
  BY <1>1, <1>2 DEF Inv, ServeTypeOK, LiveInv, HeldIsByStage, InFlightIsServed

LEMMA StepKeeps ==
  ASSUME ~CarriesOpen, Inv, [ServeNext]_serveVars
  PROVE  Inv'
<1>1. CASE Setup \/ Unload \/ StopEvents \/ FreeServer \/ Unregister \/ Release
  BY <1>1, IdleStepKeeps
<1>2. CASE Serve
  BY <1>2, ServeKeeps
<1>3. CASE AbortUpload
  BY <1>3, AbortKeeps
<1>4. CASE Crash
  BY <1>4, CrashKeeps
<1>5. CASE UNCHANGED serveVars
  BY <1>5, StutterKeeps
<1> QED
  BY <1>1, <1>2, <1>3, <1>4, <1>5 DEF ServeNext, Teardown

(***************************************************************************)
(* The invariant the others follow from.                                   *)
(***************************************************************************)
THEOREM InvHolds == ASSUME ~CarriesOpen PROVE ServeSpec => []Inv
<1>1. ServeInit => Inv
  BY InitHolds
<1>2. Inv /\ [ServeNext]_serveVars => Inv'
  BY StepKeeps
<1> QED
  BY <1>1, <1>2, PTL DEF ServeSpec

(***************************************************************************)
(* ServeTypeOK of ServeLifecycle: every path is one of the volume's, every *)
(* PUT a PUT, every stage a stage.                                         *)
(***************************************************************************)
THEOREM TypeCorrect == ASSUME ~CarriesOpen PROVE ServeSpec => []ServeTypeOK
<1>1. Inv => ServeTypeOK
  BY DEF Inv
<1> QED
  BY <1>1, InvHolds, PTL

(***************************************************************************)
(* TempsStay of LiveTemps, over the whole service.                         *)
(***************************************************************************)
THEOREM TempsStayHolds == ASSUME ~CarriesOpen PROVE ServeSpec => []TempsStay
<1>1. Inv => TempsStay
  BY DEF Inv, LiveInv, TempsInPlace, TempsStay
<1> QED
  BY <1>1, InvHolds, PTL

(***************************************************************************)
(* A request that reads finds a path exactly when it is there and no body  *)
(* still coming in.                                                        *)
(***************************************************************************)
LEMMA GetFindsWhatIsThere ==
  ASSUME LiveInv, NEW p \in Path
  PROVE  /\ RestGet(p) <=> tree[p] \notin {"none", "part"}
         /\ SdkStat(p) <=> tree[p] \notin {"none", "part"}
BY LiveTempIsThrough, ThroughTemps DEF RestGet, FtStat, SdkStat

LEMMA OnlyTempsAreHidden ==
  ASSUME LiveInv, NEW p \in Path, tree[p] # "none"
  PROVE  Hidden(p) <=> tree[p] = "part"
<1>1. LiveTemp(p) <=> tree[p] = "part"
  BY LiveTempIsThrough, ThroughTemps
<1>2. tree[p] = "part" => Last(p) \in TempName
  BY PartsAreRegistered, TempsAreParts
<1> QED
  BY <1>1, <1>2 DEF Hidden

(***************************************************************************)
(* TempsAreNoResource of ServeLifecycle: the two surfaces, one of which    *)
(* does not know the temps, never disagree, but that without a root /dav   *)
(* has nothing.                                                            *)
(***************************************************************************)
THEOREM TempsAreNoResourceHolds == ASSUME ~CarriesOpen PROVE ServeSpec => []TempsAreNoResource
<1>1. ASSUME LiveInv PROVE TempsAreNoResource
  <2> DEFINE rooted == "roots" \in held
  <2>1. ASSUME NEW p \in Path
        PROVE  LET there == tree[p] \notin {"none", "part"}
               IN  RestGet(p) = there /\ DavStat(rooted, p) = (rooted /\ there)
    <3>1. /\ RestGet(p) \in BOOLEAN /\ SdkStat(p) \in BOOLEAN
      BY DEF RestGet, FtStat, SdkStat
    <3> QED
      BY <1>1, <3>1, GetFindsWhatIsThere DEF DavStat
  <2>2. ASSUME NEW dir \in Path \cup {<<>>}
        PROVE  LET children == {p \in Children(dir) : tree[p] # "part"}
               IN  Listing(dir) = children /\ DavList(rooted, dir) \in {children, {}}
    <3>1. Listing(dir) = {p \in Children(dir) : tree[p] # "part"}
      BY <1>1, OnlyTempsAreHidden DEF Listing, Children
    <3> QED
      BY <3>1, Zenon DEF DavList
  <2> QED
    BY <2>1, <2>2, Zenon DEF TempsAreNoResource
<1>2. Inv => TempsAreNoResource
  BY <1>1 DEF Inv
<1> QED
  BY <1>2, InvHolds, PTL

(***************************************************************************)
(* NothingIsLeft of LiveTemps.                                             *)
(***************************************************************************)
THEOREM NothingIsLeftHolds == ASSUME ~CarriesOpen PROVE ServeSpec => []NothingIsLeft
<1>1. ASSUME LiveInv PROVE NothingIsLeft
  <2>1. \A p \in Path : tree[p] = "part" => \E u \in InFlight : put[u].at = p
    BY <1>1 DEF LiveInv, PartsAreTemps, TempsInPlace
  <2>2. \A p \in Path : tree[p] # "none" => IsDir(Front(p))
    BY <1>1, ParentIsDir DEF LiveInv, IsDir
  <2> QED
    BY <2>1, <2>2 DEF NothingIsLeft
<1>2. Inv => NothingIsLeft
  BY <1>1 DEF Inv
<1> QED
  BY <1>2, InvHolds, PTL

(***************************************************************************)
(* Before a PUT can be in flight all is acquired, and while one is, of the *)
(* steps of the teardown only the first and the aborts are taken; a loss   *)
(* of power ends the PUTs.                                                 *)
(***************************************************************************)
LEMMA StepKeepsServer ==
  ASSUME ~CarriesOpen, Inv, [ServeNext]_serveVars
  PROVE  KeepsServer
<1> SUFFICES ASSUME InFlight' # {}
             PROVE  held \cap {"server", "filter", "roots", "digests"} \subseteq held'
  BY DEF KeepsServer
<1>1. stage' \in {"up", "stopping"}
  BY StepKeeps DEF Inv, InFlightIsServed
<1>2. CASE Setup \/ Unload
  <2>1. Subscribe
    BY <1>1, <1>2 DEF Setup, AttachLog, Prepare, PrepareFails, NewServer, NewServerFails,
         EnableTls, EnableTlsFails, Register, Start, StartFails, Unload, Step
  <2> QED
    BY <2>1 DEF Subscribe
<1>3. CASE Serve \/ AbortUpload \/ UNCHANGED serveVars
  BY <1>3 DEF Serve, AbortUpload, serveVars
<1>4. CASE StopEvents
  BY <1>4 DEF StopEvents
<1>5. ~(FreeServer \/ Unregister \/ Release)
  BY <1>1 DEF FreeServer, Unregister, Release, Step
<1>6. ~Crash
  BY <1>1 DEF Crash
<1> QED
  BY <1>2, <1>3, <1>4, <1>5, <1>6 DEF ServeNext, Teardown

(***************************************************************************)
(* UploadsAreServed of ServeLifecycle: server, filter and root are there   *)
(* for every PUT in flight, and neither they nor the cache of digests are  *)
(* released by any step that leaves one in flight.                         *)
(***************************************************************************)
THEOREM UploadsAreServedHolds == ASSUME ~CarriesOpen PROVE ServeSpec => UploadsAreServed
<1>1. Inv => \A u \in InFlight : HasServer(u)
  BY DEF Inv, HeldIsByStage, InFlightIsServed, HasServer
<1>2. Inv /\ [ServeNext]_serveVars => [KeepsServer]_serveVars
  BY StepKeepsServer
<1> QED
  BY <1>1, <1>2, InvHolds, PTL DEF ServeSpec, UploadsAreServed

(***************************************************************************)
(* StoppedIsClean of ServeLifecycle.                                       *)
(***************************************************************************)
THEOREM StoppedIsCleanHolds == ASSUME ~CarriesOpen PROVE ServeSpec => []StoppedIsClean
<1>1. ASSUME Inv PROVE StoppedIsClean
  <2>1. stage = "off" => InFlight = {}
    BY <1>1 DEF Inv, InFlightIsServed
  <2>2. stage = "off" => \A p \in Path : tree[p] # "part"
    BY <1>1, <2>1 DEF Inv, LiveInv, PartsAreTemps
  <2> QED
    BY <1>1, <2>1, <2>2 DEF Inv, HeldIsByStage, StoppedIsClean
<1>2. Inv => StoppedIsClean
  BY <1>1
<1> QED
  BY <1>2, InvHolds, PTL

-----------------------------------------------------------------------------
(* The clients' view.                                                      *)

Seen == [p \in Path |-> IF ~RestGet(p) THEN "none" ELSE IF tree[p] = "dir" THEN "dir" ELSE "file"]

Shown(t) == [p \in Path |-> IF t[p] \in {"none", "part"} THEN "none"
                            ELSE IF t[p] = "dir" THEN "dir" ELSE "file"]

(***************************************************************************)
(* The temps apart, the clients see what there is.                         *)
(***************************************************************************)
LEMMA SeenIsShown == LiveInv => Seen = Shown(tree)
BY GetFindsWhatIsThere DEF Seen, Shown

LEMMA SeenIsShownNext == LiveInv' => Seen' = Shown(tree')
<1>1. (LiveInv => Seen = Shown(tree))'
  BY SeenIsShown, PTL
<1>2. Shown(tree)' = Shown(tree')
  BY DEF Shown
<1> QED
  BY <1>1, <1>2

(***************************************************************************)
(* A path that may be put where it is: the clients see its directory.      *)
(***************************************************************************)
LEMMA ParentIsSeen ==
  ASSUME NEW t, NEW p \in Path, IsDirIn(t, Front(p))
  PROVE  Len(p) > 1 => Shown(t)[Front(p)] = "dir"
BY FrontIsPlace, PathIsSeq DEF IsDirIn, Shown

(***************************************************************************)
(* What ClientView has of the PUTs in flight.                              *)
(***************************************************************************)
Asked == [u \in Upload |->
            [target |-> put[u].target, temp |-> put[u].temp, made |-> put[u].made]]

LEMMA AskedIsPut ==
  ASSUME NEW u \in Upload
  PROVE  /\ Asked[u] = [target |-> put[u].target, temp |-> put[u].temp, made |-> put[u].made]
         /\ Asked[u].target = put[u].target /\ Asked[u].temp = put[u].temp
         /\ Asked[u].made = put[u].made
         /\ put[u] = NoPut => Asked[u] = View!NoRequest
BY DEF Asked, NoPut, View!NoRequest

LEMMA PutIsAsked ==
  ASSUME TypeOK, NEW u \in Upload, NEW w,
         put' = [put EXCEPT ![u] = w]
  PROVE  Asked' = [Asked EXCEPT ![u] = [target |-> w.target, temp |-> w.temp, made |-> w.made]]
<1>1. \A v \in Upload : put'[v] = IF v = u THEN w ELSE put[v]
  BY DEF TypeOK
<1> QED
  BY <1>1 DEF Asked

LEMMA PutIsForgotten ==
  ASSUME TypeOK, NEW u \in Upload, put' = [put EXCEPT ![u] = NoPut]
  PROVE  Asked' = [Asked EXCEPT ![u] = View!NoRequest]
<1>1. View!NoRequest = [target |-> NoPut.target, temp |-> NoPut.temp, made |-> NoPut.made]
  BY DEF View!NoRequest, NoPut
<1> QED
  BY <1>1, PutIsAsked

(***************************************************************************)
(* The words of ClientView.                                                *)
(***************************************************************************)
LEMMA KeptIsRegistered == View!Kept = Registered
<1>1. View!Kept = {Asked[u].temp : u \in Upload} \ {<<>>}
  BY DEF View!Kept, Asked
<1>2. \A u \in Upload : /\ Asked[u].temp = put[u].temp
                        /\ u \notin InFlight => put[u].temp = <<>>
  <2>1. \A u \in Upload : Asked[u].temp = put[u].temp
    BY AskedIsPut
  <2>2. \A u \in Upload : u \notin InFlight => put[u].temp = <<>>
    BY DEF InFlight, NoPut
  <2> QED
    BY <2>1, <2>2
<1>3. InFlight \subseteq Upload
  BY DEF InFlight
<1> QED
  BY <1>1, <1>2, <1>3 DEF Registered

LEMMA PrefixesAreSame ==
  /\ \A x, y : View!IsPrefix(x, y) <=> IsPrefix(x, y)
  /\ \A x, y : View!IsStrictPrefix(x, y) <=> IsStrictPrefix(x, y)
  /\ \A x : View!Front(x) = Front(x) /\ View!Last(x) = Last(x)
BY DEF View!IsStrictPrefix, View!IsPrefix, IsStrictPrefix, IsPrefix, View!Front, Front,
       View!Last, Last

LEMMA FreeIsNotThrough ==
  ASSUME NEW p
  PROVE  /\ View!Free(p) <=> ~Through(p, Registered)
         /\ View!Busy(p) <=> \E r \in Registered : IsStrictPrefix(p, r)
BY KeptIsRegistered, PrefixesAreSame DEF View!Free, View!Busy, Through

LEMMA ParentsAreSame ==
  ASSUME NEW p, NEW s
  PROVE  View!HasParent(s, p) <=> (Len(p) > 1 => s[Front(p)] = "dir")
BY PrefixesAreSame DEF View!HasParent

LEMMA VacantIsBelow ==
  ASSUME NEW p
  PROVE  View!Vacant(p) <=> \A q \in Below(p) : Seen[q] = "none"
BY PrefixesAreSame DEF View!Vacant, Below, Seen

(***************************************************************************)
(* What is in no temp's way.                                               *)
(***************************************************************************)
LEMMA BesideTemps ==
  ASSUME LiveInv, NEW p \in Path, tree[p] # "part",
         Front(p) # <<>> => ~Through(Front(p), Registered)
  PROVE  ~Through(p, Registered)
<1> SUFFICES ASSUME NEW r \in Registered, IsPrefix(r, p) PROVE FALSE
  BY DEF Through
<1>1. r \in Path /\ tree[r] = "part"
  BY TempsAreParts
<1>2. IsPrefix(r, Front(p)) /\ Front(p) \in Path
  BY <1>1, StrictPrefixOfFront DEF IsStrictPrefix
<1> QED
  BY <1>2, PathIsSeq DEF Through

LEMMA DirectoriesAreFree ==
  ASSUME LiveInv, NEW p \in Path, tree[p] = "none", IsDirIn(tree, Front(p))
  PROVE  ~Through(p, Registered)
<1>1. ASSUME Front(p) # <<>> PROVE ~Through(Front(p), Registered)
  <2>1. Front(p) \in Path /\ tree[Front(p)] = "dir"
    BY <1>1, FrontIsPlace DEF IsDirIn
  <2> QED
    BY <2>1, ThroughTemps
<1> QED
  BY <1>1, BesideTemps

-----------------------------------------------------------------------------
(* A PUT, as the clients see it.                                           *)

(***************************************************************************)
(* Whether a directory is made can be seen.                                *)
(***************************************************************************)
LEMMA MadeIsSeen ==
  ASSUME LiveInv, NEW u \in Upload, NEW p \in Path
  PROVE  View!MadeFor(u, p) = MadeFor(u, p)
<1>1. PICK f : f = Front(p)
  OBVIOUS
<1>2. View!MadeFor(u, p) =
        IF /\ u = "rest" /\ Len(p) > 1 /\ Seen[f] = "none" /\ ~Through(f, Registered)
           /\ Len(f) > 1 => Seen[Front(f)] = "dir"
        THEN f ELSE <<>>
  <2>1. View!Front(p) = f
    BY <1>1, PrefixesAreSame
  <2>2. View!HasParent(Seen, f) <=> (Len(f) > 1 => Seen[Front(f)] = "dir")
    BY ParentsAreSame
  <2>3. View!Free(f) <=> ~Through(f, Registered)
    BY FreeIsNotThrough
  <2>4. View!MadeFor(u, p) =
          IF /\ u = "rest" /\ Len(p) > 1 /\ Seen[f] = "none" /\ View!Free(f)
             /\ View!HasParent(Seen, f)
          THEN f ELSE <<>>
    BY <2>1 DEF View!MadeFor, Seen
  <2> QED
    BY <2>2, <2>3, <2>4, Zenon
<1>3. MadeFor(u, p) =
        IF u = "rest" /\ Len(p) > 1 /\ tree[f] = "none" /\ IsDirIn(tree, Front(f))
        THEN f ELSE <<>>
  BY <1>1 DEF MadeFor, IsDir
<1>4. ASSUME Len(p) > 1
      PROVE  tree[f] = "none" /\ IsDirIn(tree, Front(f)) <=>
               /\ Seen[f] = "none" /\ ~Through(f, Registered)
               /\ Len(f) > 1 => Seen[Front(f)] = "dir"
  <2>1. f \in Path
    BY <1>1, <1>4, FrontIsPlace, PathIsSeq
  <2>2. Seen = Shown(tree)
    BY SeenIsShown
  <2>3. ASSUME tree[f] = "none", IsDirIn(tree, Front(f))
        PROVE  /\ Seen[f] = "none" /\ ~Through(f, Registered)
               /\ Len(f) > 1 => Seen[Front(f)] = "dir"
    <3>1. Shown(tree)[f] = "none"
      BY <2>1, <2>3 DEF Shown
    <3> QED
      BY <2>1, <2>2, <2>3, <3>1, DirectoriesAreFree, ParentIsSeen
  <2>4. ASSUME Seen[f] = "none", ~Through(f, Registered), Len(f) > 1 => Seen[Front(f)] = "dir"
        PROVE  tree[f] = "none" /\ IsDirIn(tree, Front(f))
    <3>1. tree[f] \in {"none", "part"}
      BY <2>1, <2>2, <2>4 DEF Shown
    <3>2. tree[f] = "none"
      BY <2>1, <2>4, <3>1, ThroughTemps
    <3>3. Front(f) # <<>> => Front(f) \in Path /\ Shown(tree)[Front(f)] = "dir"
      BY <2>1, <2>2, <2>4, FrontIsPlace
    <3>4. Front(f) # <<>> => tree[Front(f)] = "dir"
      BY <3>3 DEF Shown
    <3> QED
      BY <3>2, <3>4 DEF IsDirIn
  <2> QED
    BY <2>3, <2>4
<1>5. CASE u = "rest" /\ Len(p) > 1
  <2>1. tree[f] = "none" /\ IsDirIn(tree, Front(f)) <=>
          /\ Seen[f] = "none" /\ ~Through(f, Registered)
          /\ Len(f) > 1 => Seen[Front(f)] = "dir"
    BY <1>4, <1>5
  <2> QED
    BY <1>2, <1>3, <1>5, <2>1
<1>6. CASE ~(u = "rest" /\ Len(p) > 1)
  BY <1>2, <1>3, <1>6
<1> QED
  BY <1>5, <1>6

LEMMA MakingIsSeen ==
  ASSUME LiveInv, NEW u \in Upload, NEW p \in Path
  PROVE  View!WithMade(View!MadeFor(u, p)) = Shown(WithMade(tree, MadeFor(u, p)))
<1>1. PICK made : made = MadeFor(u, p)
  OBVIOUS
<1>2. View!MadeFor(u, p) = made /\ Seen = Shown(tree)
  BY <1>1, MadeIsSeen, SeenIsShown
<1>3. View!WithMade(made) = IF made = <<>> THEN Seen ELSE [Seen EXCEPT ![made] = "dir"]
  BY DEF View!WithMade, Seen
<1>4. CASE made = <<>>
  BY <1>1, <1>2, <1>3, <1>4 DEF WithMade
<1>5. CASE made # <<>>
  <2>1. made \in Path
    BY <1>1, <1>5, MakingKeepsRooted
  <2>2. tree \in [Path -> Kind]
    BY DEF LiveInv, TypeOK, Kind
  <2>3. WithMade(tree, made) = [tree EXCEPT ![made] = "dir"]
    BY <1>5 DEF WithMade
  <2>4. Shown([tree EXCEPT ![made] = "dir"]) = [Shown(tree) EXCEPT ![made] = "dir"]
    BY <2>1, <2>2 DEF Shown
  <2> QED
    BY <1>1, <1>2, <1>3, <1>5, <2>3, <2>4
<1> QED
  BY <1>4, <1>5

LEMMA OpenIsBegin ==
  ASSUME LiveInv, NEW u \in Upload, NEW p \in Path, PutOpen(u, p)
  PROVE  View!Next
<1>1. PICK made : made = MadeFor(u, p)
  OBVIOUS
<1>2. PICK t : t = WithMade(tree, made)
  OBVIOUS
<1>3. /\ put[u] = NoPut /\ ~Through(p, Registered) /\ t[p] # "dir" /\ IsDirIn(t, Front(p))
  BY <1>1, <1>2 DEF PutOpen
<1>4. LiveInv' /\ t \in [Path -> Kind]
  BY <1>1, <1>2, OpenKeeps, MakingKeepsRooted
<1>5. PICK temp \in TempFor(p) :
        /\ t[temp] = "none" /\ tree' = [t EXCEPT ![temp] = "part"]
        /\ put' = [put EXCEPT ![u] = [target |-> p, temp |-> temp, at |-> temp, made |-> made]]
  BY <1>1, <1>2, OpenKeeps
<1>6. /\ temp \in Path /\ Front(temp) = Front(p) /\ Last(temp) \in TempName /\ temp # p
      /\ tree[temp] = "none" /\ \A v \in InFlight : put[v].target # temp
  BY DEF TempFor
<1>7. PICK now : now = View!WithMade(View!MadeFor(u, p))
  OBVIOUS
<1>8. now = Shown(t) /\ View!MadeFor(u, p) = made
  BY <1>1, <1>2, <1>7, MakingIsSeen, MadeIsSeen
<1>9. now[p] # "dir" /\ now[temp] = "none"
  BY <1>3, <1>5, <1>6, <1>8 DEF Shown
<1>10. View!HasParent(now, p)
  BY <1>3, <1>8, ParentIsSeen, ParentsAreSame
<1>11. ~Through(temp, Registered)
  <2>1. CASE made = <<>>
    <3>1. t = tree
      BY <1>2, <2>1 DEF WithMade
    <3> QED
      BY <1>3, <1>6, <3>1, DirectoriesAreFree
  <2>2. CASE made # <<>>
    <3>1. made = Front(p) /\ made \in Path /\ tree[made] = "none" /\ IsDirIn(tree, Front(made))
      BY <1>1, <2>2, MakingKeepsRooted
    <3>2. ~Through(Front(temp), Registered)
      BY <1>6, <3>1, DirectoriesAreFree
    <3> QED
      BY <1>6, <3>2, BesideTemps
  <2> QED
    BY <2>1, <2>2
<1>12. View!Free(p) /\ View!Free(temp)
  BY <1>3, <1>11, FreeIsNotThrough
<1>13. \A v \in Upload : Asked[v].target # temp
  <2>1. \A v \in Upload : v \notin InFlight => put[v].target = <<>>
    BY DEF InFlight, NoPut
  <2>2. \A v \in Upload : Asked[v].target = put[v].target
    BY AskedIsPut
  <2>3. temp # <<>>
    BY <1>6, PathIsSeq
  <2> QED
    BY <1>6, <2>1, <2>2, <2>3
<1>14. Asked[u] = View!NoRequest
  BY <1>3, AskedIsPut
<1>15. Asked' = [Asked EXCEPT ![u] = View!Begun(p, temp, made)]
  <2>1. PICK w : w = [target |-> p, temp |-> temp, at |-> temp, made |-> made]
    OBVIOUS
  <2>2. put' = [put EXCEPT ![u] = w] /\ TypeOK
    BY <1>5, <2>1 DEF LiveInv
  <2>3. Asked' = [Asked EXCEPT ![u] = [target |-> w.target, temp |-> w.temp, made |-> w.made]]
    BY <2>2, PutIsAsked
  <2> QED
    BY <2>1, <2>3 DEF View!Begun
<1>16. Seen' = now
  <2>1. Shown(tree') = Shown(t)
    BY <1>4, <1>5, <1>6 DEF Shown
  <2> QED
    BY <1>4, <1>8, <2>1, SeenIsShownNext
<1>17. View!Front(temp) = View!Front(p) /\ View!Last(temp) \in TempName
  BY <1>6, PrefixesAreSame
<1>18. View!BeginPut(u, p, temp)
  BY <1>6, <1>7, <1>8, <1>9, <1>10, <1>12, <1>13, <1>14, <1>15, <1>16, <1>17
     DEF View!BeginPut, Asked, Seen
<1> QED
  BY <1>6, <1>18 DEF View!Next, View!PutNext

LEMMA RefusalIsRefuse ==
  ASSUME LiveInv, NEW p \in Path, PutRefused(p)
  PROVE  View!Next
<1>1. PICK made : made = MadeFor("rest", p)
  OBVIOUS
<1>2. PICK w : w = [target |-> p, temp |-> <<>>, at |-> <<>>, made |-> made]
  OBVIOUS
<1>3. /\ put["rest"] = NoPut /\ tree' = WithMade(tree, made)
      /\ put' = [put EXCEPT !["rest"] = w]
  BY <1>1, <1>2 DEF PutRefused
<1>4. "rest" \in Upload /\ TypeOK
  BY DEF Upload, LiveInv
<1>5. PICK now : now = View!WithMade(View!MadeFor("rest", p))
  OBVIOUS
<1>6. View!MadeFor("rest", p) = made /\ now = Shown(WithMade(tree, made))
  BY <1>1, <1>4, <1>5, MadeIsSeen, MakingIsSeen
<1>7. Seen' = now
  BY <1>3, <1>6, RefusalKeeps, SeenIsShownNext
<1>8. Asked' = [Asked EXCEPT !["rest"] = View!Begun(p, <<>>, made)]
  <2>1. Asked' = [Asked EXCEPT !["rest"] =
                    [target |-> w.target, temp |-> w.temp, made |-> w.made]]
    BY <1>3, <1>4, PutIsAsked
  <2> QED
    BY <1>2, <2>1 DEF View!Begun
<1>9. Asked["rest"] = View!NoRequest
  BY <1>3, <1>4, AskedIsPut
<1>10. View!RefusePut(p)
  BY <1>5, <1>6, <1>7, <1>8, <1>9 DEF View!RefusePut, Asked, Seen
<1> QED
  BY <1>10 DEF View!Next, View!PutNext

LEMMA CommitIsComplete ==
  ASSUME LiveInv, NEW u \in Upload, PutCommit(u)
  PROVE  View!Next
<1>1. PICK at : at = put[u].at
  OBVIOUS
<1>2. PICK p : p = put[u].target
  OBVIOUS
<1>3. /\ LiveInv' /\ tree[p] \notin {"dir", "part"} /\ IsDirIn(tree, Front(p))
      /\ at \in Path /\ tree[at] = "part" /\ p # at
      /\ tree' = [tree EXCEPT ![at] = "none", ![p] = "whole"]
  BY <1>1, <1>2, CommitKeeps
<1>4. p \in Path /\ tree \in [Path -> Kind] /\ TypeOK
  BY <1>2, PutParts DEF LiveInv, TypeOK, Kind, PutCommit
<1>5. Shown(tree') = [Shown(tree) EXCEPT ![p] = "file"] /\ Shown(tree)[p] # "dir"
  <2>1. \A x \in Path : /\ x = p => tree'[x] = "whole"
                        /\ x = at => tree'[x] = "none"
                        /\ x # p /\ x # at => tree'[x] = tree[x]
    BY <1>3, <1>4
  <2>2. \A x \in Path : Shown(tree')[x] = IF x = p THEN "file" ELSE Shown(tree)[x]
    BY <1>3, <2>1 DEF Shown
  <2> QED
    BY <1>3, <1>4, <2>2 DEF Shown
<1>6. View!HasParent(Seen, p)
  BY <1>3, <1>4, ParentIsSeen, ParentsAreSame, SeenIsShown
<1>7. Seen' = [Seen EXCEPT ![p] = "file"] /\ Seen[p] # "dir"
  BY <1>3, <1>5, SeenIsShown, SeenIsShownNext
<1>8. Asked' = [Asked EXCEPT ![u] = View!NoRequest]
  BY <1>4, PutIsForgotten DEF PutCommit
<1>9. Asked[u].temp # <<>> /\ Asked[u].target = p
  BY <1>2, AskedIsPut DEF PutCommit, Replaces
<1>10. View!CompletePut(u)
  BY <1>6, <1>7, <1>8, <1>9 DEF View!CompletePut, Asked, Seen
<1> QED
  BY <1>10 DEF View!Next, View!PutNext

(***************************************************************************)
(* The clients can tell whether the directory goes: it does if they see    *)
(* nothing in it and it keeps no name for another PUT's body.              *)
(***************************************************************************)
LEMMA GoingIsSeen ==
  ASSUME LiveInv, NEW u \in InFlight
  PROVE  View!GoesAgain(u) <=>
           /\ put[u].made # <<>> /\ Without(tree, put[u].at)[put[u].made] = "dir"
           /\ \A q \in Below(put[u].made) : Without(tree, put[u].at)[q] = "none"
<1>1. PICK t : t = Without(tree, put[u].at)
  OBVIOUS
<1>2. PICK made : made = put[u].made
  OBVIOUS
<1>3. /\ put[u].at = put[u].temp
      /\ \A x \in Path : /\ x # put[u].at => t[x] = tree[x]
                         /\ x = put[u].at => t[x] = "none" /\ tree[x] = "part"
  BY <1>1, OwnTemp
<1>4. u \in Upload /\ made \in Place /\ Seen = Shown(tree)
  BY <1>2, PutParts, SeenIsShown DEF LiveInv
<1>5. View!GoesAgain(u) <=>
        /\ made # <<>> /\ Seen[made] = "dir" /\ \A q \in Below(made) : Seen[q] = "none"
        /\ \A v \in Upload \ {u} : ~IsStrictPrefix(made, put[v].temp)
  <2>1. View!GoesAgain(u) <=>
          /\ Asked[u].made # <<>> /\ Seen[Asked[u].made] = "dir" /\ View!Vacant(Asked[u].made)
          /\ \A v \in Upload \ {u} : ~View!IsStrictPrefix(Asked[u].made, Asked[v].temp)
    BY DEF View!GoesAgain, Asked, Seen
  <2>2. Asked[u].made = made /\ \A v \in Upload : Asked[v].temp = put[v].temp
    BY <1>2, <1>4, AskedIsPut
  <2>3. View!Vacant(made) <=> \A q \in Below(made) : Seen[q] = "none"
    BY VacantIsBelow
  <2> QED
    BY <2>1, <2>2, <2>3, PrefixesAreSame
<1>6. CASE made = <<>>
  BY <1>2, <1>5, <1>6
<1>7. CASE made # <<>>
  <2>1. made \in Path /\ \A q \in Below(made) : q \in Path
    BY <1>4, <1>7 DEF Place, Below
  <2>2. \A x \in Path : Seen[x] = "dir" <=> t[x] = "dir"
    BY <1>3, <1>4 DEF Shown
  <2>3. \A x \in Path : t[x] = "none" => Seen[x] = "none"
    BY <1>3, <1>4 DEF Shown
  <2>4. ASSUME \A q \in Below(made) : t[q] = "none", NEW v \in Upload, v # u,
               IsStrictPrefix(made, put[v].temp)
        PROVE  FALSE
    <3>1. put[v].temp # <<>>
      <4>1. made \in Seq(Names) /\ Len(made) \in Nat \ {0} /\ <<>> \in Seq(Names) /\ Len(<<>>) = 0
        BY <2>1, PathIsSeq, EmptySeq
      <4>2. IsPrefix(made, <<>>) => Len(made) <= Len(<<>>)
        BY <4>1, PrefixAgrees
      <4> QED
        BY <2>4, <4>1, <4>2 DEF IsStrictPrefix
    <3>2. v \in InFlight
      BY <3>1 DEF InFlight, NoPut
    <3>3. put[v].temp \in Path /\ tree[put[v].temp] = "part"
      BY <3>1, <3>2, PutParts DEF LiveInv, TempsInPlace, Place
    <3>4. t[put[v].temp] = "none"
      BY <2>4, <3>3 DEF Below
    <3>5. put[v].temp = put[u].temp
      BY <1>3, <3>3, <3>4
    <3> QED
      BY <2>4, <3>1, <3>2, <3>5 DEF LiveInv, TempsAreOwn
  <2>5. ASSUME NEW q \in Below(made), Seen[q] = "none",
               \A v \in Upload \ {u} : ~IsStrictPrefix(made, put[v].temp)
        PROVE  t[q] = "none"
    <3>1. q \in Path /\ IsStrictPrefix(made, q)
      BY DEF Below
    <3>2. tree[q] \in {"none", "part"}
      BY <1>4, <2>5, <3>1 DEF Shown
    <3>3. CASE tree[q] = "none"
      BY <1>3, <3>1, <3>3
    <3>4. CASE tree[q] = "part"
      <4>1. PICK v \in InFlight : put[v].temp = q
        BY <3>1, <3>4 DEF LiveInv, PartsAreTemps
      <4>2. v = u
        BY <2>5, <3>1, <4>1 DEF InFlight
      <4> QED
        BY <1>3, <3>1, <4>1, <4>2
    <3> QED
      BY <3>2, <3>3, <3>4
  <2> QED
    BY <1>1, <1>2, <1>5, <1>7, <2>1, <2>2, <2>3, <2>4, <2>5
<1> QED
  BY <1>6, <1>7

LEMMA DiscardIsAbandon ==
  ASSUME LiveInv, NEW u \in Upload, PutDiscard(u)
  PROVE  View!Next
<1>1. PICK t : t = Without(tree, put[u].at)
  OBVIOUS
<1>2. PICK made : made = put[u].made
  OBVIOUS
<1>3. LiveInv' /\ u \in InFlight /\ put' = [put EXCEPT ![u] = NoPut] /\ TypeOK
  BY DiscardKeeps DEF LiveInv
<1>4. /\ t \in [Path -> Kind]
      /\ \A x \in Path : /\ x # put[u].at => t[x] = tree[x]
                         /\ x = put[u].at => t[x] = "none" /\ tree[x] = "part"
  BY <1>1, <1>3, OwnTemp
<1>5. Shown(t) = Shown(tree)
  BY <1>4 DEF Shown
<1>6. Seen = Shown(t) /\ Seen' = Shown(tree')
  BY <1>3, <1>5, SeenIsShown, SeenIsShownNext
<1>7. View!GoesAgain(u) <=>
        made # <<>> /\ t[made] = "dir" /\ \A q \in Below(made) : t[q] = "none"
  BY <1>1, <1>2, <1>3, GoingIsSeen
<1>8. tree' = IF View!GoesAgain(u) THEN [t EXCEPT ![made] = "none"] ELSE t
  <2>1. tree' = IF made = <<>> \/ t[made] # "dir" \/ \E q \in Below(made) : t[q] # "none"
                THEN t ELSE Without(t, made)
    BY <1>1, <1>2 DEF PutDiscard, TakenBack
  <2>2. made # <<>> => Without(t, made) = [t EXCEPT ![made] = "none"]
    BY DEF Without
  <2> QED
    BY <1>7, <2>1, <2>2, Zenon
<1>9. made \in Place
  BY <1>2, <1>3, PutParts
<1>10. Seen' = IF View!GoesAgain(u) THEN [Seen EXCEPT ![made] = "none"] ELSE Seen
  <2>1. CASE View!GoesAgain(u)
    <3>1. made \in Path /\ tree' = [t EXCEPT ![made] = "none"]
      BY <1>7, <1>8, <1>9, <2>1 DEF Place
    <3>2. Shown([t EXCEPT ![made] = "none"]) = [Shown(t) EXCEPT ![made] = "none"]
      BY <1>4, <3>1 DEF Shown
    <3> QED
      BY <1>6, <2>1, <3>1, <3>2
  <2>2. CASE ~View!GoesAgain(u)
    BY <1>6, <1>8, <2>2
  <2> QED
    BY <2>1, <2>2
<1>11. Asked' = [Asked EXCEPT ![u] = View!NoRequest] /\ Asked[u].made = made
  BY <1>2, <1>3, PutIsForgotten, AskedIsPut
<1>12. Asked[u] # View!NoRequest
  <2>1. Asked[u].target \in Path /\ View!NoRequest.target = <<>>
    BY <1>3, AskedIsPut, PutParts DEF View!NoRequest
  <2> QED
    BY <2>1, PathIsSeq
<1>13. View!AbandonPut(u)
  BY <1>10, <1>11, <1>12 DEF View!AbandonPut, Asked, Seen
<1> QED
  BY <1>13 DEF View!Next, View!PutNext

-----------------------------------------------------------------------------
(* The other requests, as the clients see them.                            *)

LEMMA SamePutsAsked ==
  ASSUME put' = put
  PROVE  Asked' = Asked
BY DEF Asked

LEMMA MkdirIsMake ==
  ASSUME LiveInv, NEW p \in Path, FtMkdir(p)
  PROVE  View!Next
<1>1. /\ tree[p] = "none" /\ IsDirIn(tree, Front(p))
      /\ tree' = [tree EXCEPT ![p] = "dir"]
  BY DEF FtMkdir, IsDir
<1>2. tree \in [Path -> Kind]
  BY DEF LiveInv, TypeOK, Kind
<1>3. Shown(tree') = [Shown(tree) EXCEPT ![p] = "dir"] /\ Shown(tree)[p] = "none"
  BY <1>1, <1>2 DEF Shown
<1>4. Seen' = [Seen EXCEPT ![p] = "dir"] /\ Seen[p] = "none"
  BY <1>3, MkdirKeeps, SeenIsShown, SeenIsShownNext
<1>5. View!HasParent(Seen, p)
  BY <1>1, ParentIsSeen, ParentsAreSame, SeenIsShown
<1>6. View!Free(p)
  BY <1>1, DirectoriesAreFree, FreeIsNotThrough
<1>7. Asked' = Asked
  BY MkdirKeeps, SamePutsAsked
<1>8. View!MakeDirectory(p)
  BY <1>4, <1>5, <1>6 DEF View!MakeDirectory, Seen
<1> QED
  BY <1>7, <1>8 DEF View!Next, View!OtherNext, Asked

LEMMA DeleteIsDelete ==
  ASSUME LiveInv, NEW p \in Path, ~Through(p, Registered), FtDelete(p)
  PROVE  View!Next
<1>1. /\ tree[p] \notin {"none", "part"} /\ \A q \in Below(p) : tree[q] = "none"
      /\ tree' = [tree EXCEPT ![p] = "none"]
  BY DeleteKeeps DEF FtDelete, Empty
<1>2. tree \in [Path -> Kind]
  BY DEF LiveInv, TypeOK, Kind
<1>3. Shown(tree') = [Shown(tree) EXCEPT ![p] = "none"] /\ Shown(tree)[p] # "none"
  BY <1>1, <1>2 DEF Shown
<1>4. Seen' = [Seen EXCEPT ![p] = "none"] /\ Seen[p] # "none"
  BY <1>3, DeleteKeeps, SeenIsShown, SeenIsShownNext
<1>5. View!Vacant(p)
  <2>1. \A q \in Below(p) : Shown(tree)[q] = "none"
    BY <1>1 DEF Shown, Below
  <2> QED
    BY <2>1, SeenIsShown, VacantIsBelow
<1>6. View!Free(p) /\ ~View!Busy(p)
  <2>1. ASSUME NEW r \in Registered, IsStrictPrefix(p, r) PROVE FALSE
    <3>1. r \in Path /\ tree[r] = "part"
      BY TempsAreParts
    <3> QED
      BY <1>1, <2>1, <3>1 DEF Below
  <2> QED
    BY <2>1, FreeIsNotThrough
<1>7. Asked' = Asked
  BY DeleteKeeps, SamePutsAsked
<1>8. View!Delete(p)
  BY <1>4, <1>5, <1>6 DEF View!Delete, Seen
<1> QED
  BY <1>7, <1>8 DEF View!Next, View!OtherNext, Asked

LEMMA MoveIsMove ==
  ASSUME ~CarriesOpen, LiveInv, NEW p \in Path, NEW q \in Path,
         ~Through(p, Registered), ~Through(q, Registered), FtMove(p, q)
  PROVE  View!Next
<1>1. /\ LiveInv' /\ tree' = Moved(tree, p, q) /\ put' = put
      /\ tree[p] \notin {"none", "part"} /\ tree[q] # "part"
      /\ IsDirIn(tree, Front(q)) /\ ~IsPrefix(p, q) /\ ~IsPrefix(q, p)
      /\ tree[q] # "none" => "dir" \notin {tree[p], tree[q]}
      /\ \A r \in Registered : ~IsPrefix(p, r)
  BY MoveKeeps
<1>2. Seen = Shown(tree) /\ Seen' = Shown(tree')
  BY <1>1, SeenIsShown, SeenIsShownNext
<1>3. Shown(tree') = Moved(Shown(tree), p, q)
  BY <1>1 DEF Shown, Moved
<1>4. /\ Seen[p] # "none" /\ Seen[q] # "dir"
      /\ Seen[q] = "file" => Seen[p] = "file"
  BY <1>1, <1>2 DEF Shown
<1>5. View!HasParent(Seen, q)
  BY <1>1, <1>2, ParentIsSeen, ParentsAreSame
<1>6. View!Free(p) /\ View!Free(q) /\ ~View!Busy(p)
  BY <1>1, FreeIsNotThrough DEF IsStrictPrefix
<1>7. ~View!IsPrefix(p, q) /\ ~View!IsPrefix(q, p)
  BY <1>1, PrefixesAreSame
<1>8. \A x : View!Moved(q, p, x) = Onto(q, p, x)
  BY DEF View!Moved, Onto
<1>9. Seen' = [x \in Path |->
                 IF View!IsPrefix(p, x) THEN "none"
                 ELSE IF View!IsPrefix(q, x) /\ View!Moved(q, p, x) \in Path
                      THEN Seen[View!Moved(q, p, x)]
                 ELSE Seen[x]]
  BY <1>2, <1>3, <1>8, PrefixesAreSame DEF Moved
<1>10. Asked' = Asked
  BY <1>1, SamePutsAsked
<1>11. View!Move(p, q)
  BY <1>4, <1>5, <1>6, <1>7, <1>9 DEF View!Move, Seen
<1> QED
  BY <1>10, <1>11 DEF View!Next, View!OtherNext, Asked

LEMMA PowerLossIsSeen ==
  ASSUME LiveInv, PowerLoss
  PROVE  View!Next
<1>1. /\ tree' = [p \in Path |-> IF tree[p] = "part" THEN "left" ELSE tree[p]]
      /\ put' = [u \in Upload |-> NoPut]
  BY DEF PowerLoss
<1>2. \A p \in Path : tree[p] = "part" <=> p \in Registered
  BY PartsAreRegistered
<1>3. Shown(tree') = [p \in Path |-> IF p \in Registered THEN "file" ELSE Shown(tree)[p]]
  BY <1>1, <1>2 DEF Shown
<1>4. Seen' = [p \in Path |-> IF p \in View!Kept THEN "file" ELSE Seen[p]]
  BY <1>3, KeptIsRegistered, PowerLossKeeps, SeenIsShown, SeenIsShownNext
<1>5. Asked' = [u \in Upload |-> View!NoRequest]
  BY <1>1 DEF Asked, NoPut, View!NoRequest
<1>6. View!PowerLoss
  BY <1>4, <1>5 DEF View!PowerLoss, Asked, Seen
<1> QED
  BY <1>6 DEF View!Next

LEMMA RestIsSeen ==
  ASSUME LiveInv, RestNext
  PROVE  View!Next
<1>1. PICK p \in Path : PutRefused(p) \/ RestDelete(p) \/ RestMkdir(p)
  BY DEF RestNext
<1>2. CASE PutRefused(p)
  BY <1>2, RefusalIsRefuse
<1>3. CASE RestDelete(p)
  BY <1>3, LiveTempIsThrough, DeleteIsDelete DEF RestDelete
<1>4. CASE RestMkdir(p)
  BY <1>4, MkdirIsMake DEF RestMkdir
<1> QED
  BY <1>1, <1>2, <1>3, <1>4

LEMMA DavIsSeen ==
  ASSUME ~CarriesOpen, LiveInv, DavNext
  PROVE  View!Next
<1>1. CASE \E p \in Path : DavRemove(p) \/ DavMkdir(p)
  BY <1>1, DeleteIsDelete, MkdirIsMake DEF DavRemove, DavMkdir
<1>2. CASE \E p, q \in Path, overwrite \in BOOLEAN : DavMove(p, q, overwrite)
  <2>1. PICK p \in Path, q \in Path : ~LiveTemp(p) /\ ~LiveTemp(q) /\ FtMove(p, q)
    BY <1>2 DEF DavMove
  <2> QED
    BY <2>1, LiveTempIsThrough, MoveIsMove
<1> QED
  BY <1>1, <1>2 DEF DavNext

LEMMA IdleIsSeen ==
  ASSUME LiveInv, UNCHANGED <<tree, put>>
  PROVE  UNCHANGED <<Seen, Asked>>
BY IdleKeeps, SeenIsShown, SeenIsShownNext, SamePutsAsked

LEMMA StepIsSeen ==
  ASSUME ~CarriesOpen, Inv, [ServeNext]_serveVars
  PROVE  View!Next \/ UNCHANGED <<Seen, Asked>>
<1>0. LiveInv /\ "rest" \in Upload
  BY DEF Inv, Upload
<1>1. CASE Setup \/ Unload \/ StopEvents \/ FreeServer \/ Unregister \/ Release
  <2>1. UNCHANGED <<tree, put>>
    BY <1>1 DEF Setup, AttachLog, Prepare, PrepareFails, NewServer, NewServerFails, EnableTls,
         EnableTlsFails, Register, Start, StartFails, Subscribe, Unload, StopEvents, FreeServer,
         Unregister, Release, Idle
  <2> QED
    BY <1>0, <2>1, IdleIsSeen
<1>2. CASE Serve
  <2>1. ASSUME NEW u \in Upload, PutNext(u) PROVE View!Next
    BY <1>0, <2>1, OpenIsBegin, CommitIsComplete, DiscardIsAbandon DEF PutNext
  <2> QED
    BY <1>0, <1>2, <2>1, DavIsSeen, RestIsSeen, DiscardIsAbandon DEF Serve
<1>3. CASE AbortUpload
  BY <1>0, <1>3, DiscardIsAbandon DEF AbortUpload
<1>4. CASE Crash
  BY <1>0, <1>4, PowerLossIsSeen DEF Crash
<1>5. CASE UNCHANGED serveVars
  BY <1>0, <1>5, IdleIsSeen DEF serveVars
<1> QED
  BY <1>1, <1>2, <1>3, <1>4, <1>5 DEF ServeNext, Teardown

LEMMA InitIsSeen == ServeInit => View!Init
<1> SUFFICES ASSUME ServeInit PROVE View!Init
  OBVIOUS
<1>1. Seen = Shown(tree)
  BY InitHolds, SeenIsShown DEF Inv
<1>2. \A p \in Path : Shown(tree)[p] = "none"
  BY DEF ServeInit, Init, Shown
<1>3. Seen \in [Path -> {"none", "dir", "file"}] /\ \A p \in Path : Seen[p] = "none"
  BY <1>1, <1>2 DEF Seen
<1>4. Asked = [u \in Upload |-> View!NoRequest]
  BY DEF ServeInit, Init, Asked, NoPut, View!NoRequest
<1> QED
  BY <1>3, <1>4 DEF View!Init, Seen, Asked

(***************************************************************************)
(* ClientsSeeWholeRequests of LiveTemps: every step of the service is one  *)
(* request of ClientView to the clients, or nothing.  A PUT is stored in   *)
(* one step; no other request gets at the name kept for its body; only a   *)
(* power loss leaves something there; and the directory made for it goes   *)
(* again exactly if nothing else has come into it.                         *)
(***************************************************************************)
THEOREM ClientsSeeWholeRequestsHolds ==
  ASSUME ~CarriesOpen PROVE ServeSpec => ClientsSeeWholeRequests
<1>1. ServeInit => View!Init
  BY InitIsSeen
<1>2. Inv /\ [ServeNext]_serveVars => View!Next \/ UNCHANGED <<Seen, Asked>>
  BY StepIsSeen
<1> QED
  BY <1>1, <1>2, InvHolds, PTL DEF ServeSpec, ClientsSeeWholeRequests, View!Spec, Seen, Asked

=============================================================================
