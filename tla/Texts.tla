------------------------------- MODULE Texts -------------------------------
(***************************************************************************)
(* Texts: sequences of characters.                                         *)
(***************************************************************************)
EXTENDS Naturals, Sequences, FiniteSets, SequencesExt

(***************************************************************************)
(* The k-th of a set of numbers, from the least.                           *)
(***************************************************************************)
Nth(set, k) == CHOOSE n \in set : Cardinality({m \in set : m < n}) = k - 1

(***************************************************************************)
(* The part of a text that comes after position i, up to the next          *)
(* separator.                                                              *)
(***************************************************************************)
PartAfter(text, seps, i) ==
  LET ends == {j \in i + 1..Len(text) : text[j] \in seps} \cup {Len(text) + 1}
  IN  SubSeq(text, i + 1, Min(ends) - 1)

(***************************************************************************)
(* The parts of a text between the separators, empty ones included.        *)
(***************************************************************************)
Split(text, seps) ==
  LET cuts == {0} \cup {i \in DOMAIN text : text[i] \in seps}
  IN  [k \in 1..Cardinality(cuts) |-> PartAfter(text, seps, Nth(cuts, k))]

NonEmpty(parts) ==
  LET kept == {i \in DOMAIN parts : parts[i] # <<>>}
  IN  [k \in 1..Cardinality(kept) |-> parts[Nth(kept, k)]]

(***************************************************************************)
(* The characters up to the first that is in stops, and those from it on.  *)
(***************************************************************************)
UpTo(text, stops) == PartAfter(text, stops, 0)

From(text, stops) == SubSeq(text, Len(UpTo(text, stops)) + 1, Len(text))

Cut(text, length) == SubSeq(text, 1, IF length < Len(text) THEN length ELSE Len(text))

(***************************************************************************)
(* The path made of parts, each after a separator.                         *)
(***************************************************************************)
Joined(parts) ==
  LET upTo[n \in 0..Len(parts)] ==
        IF n = 0 THEN <<>> ELSE upTo[n - 1] \o <<"/">> \o parts[n]
  IN  upTo[Len(parts)]
=============================================================================
