---------------------------- MODULE DigestClaim ----------------------------
(***************************************************************************)
(* The digest a PUT claims for its body: content_digest_claim and          *)
(* digest_value_hex of src/serve/webfs-serve.c, which read a               *)
(* Content-Digest header (RFC 9530) in one pass, against a reading of the  *)
(* list entry by entry.                                                    *)
(*                                                                         *)
(* A header is a sequence of separators and words.  The separators have    *)
(* the names of a grammar: COMMA, SEMI for the semicolon, SP for a blank,  *)
(* a space or a tab.  A word that is a value, `:base64:` or hex, stands    *)
(* for the digest it spells.  The state is the header read so far and the  *)
(* scan of it.                                                             *)
(***************************************************************************)
EXTENDS Texts

CONSTANTS
  Word,       \* what stands between separators
  Sha512,     \* the word "sha-512", in any letter case
  Sha256,     \* likewise
  Readable    \* the words that spell a digest

ASSUME WordAssumption ==
  /\ Word \cap {"COMMA", "SEMI", "=", "SP"} = {}
  /\ Sha512 \in Word /\ Sha256 \in Word /\ Sha512 # Sha256 /\ Readable \subseteq Word

Mark == {"COMMA", "SEMI", "=", "SP"} \cup Word

VARIABLES header, scan

headerVars == <<header, scan>>

Rank(algo) == CASE algo = <<Sha512>> -> 2 [] algo = <<Sha256>> -> 1 [] OTHER -> 0

(***************************************************************************)
(* digest_value_hex: a value that cannot be read is no digest and matches  *)
(* none.                                                                   *)
(***************************************************************************)
DigestValueHex(value) ==
  IF Len(value) = 1 /\ value[1] \in Readable THEN {value[1]} ELSE {}

-----------------------------------------------------------------------------
(* The scan: where it is, the entry it is in, and the claim so far.        *)

Fresh == [place |-> "between", algo |-> <<>>, value |-> <<>>, best |-> 0, claimed |-> {}]

\* Seeded fault: of two entries for one algorithm the last is taken, whatever came before.
EntryEndLatest(s) ==
  LET rank == Rank(s.algo)
  IN  [Fresh EXCEPT !.best = IF rank > 0 THEN rank ELSE s.best,
                    !.claimed = IF rank > 0 THEN DigestValueHex(s.value) ELSE s.claimed]

EntryEnd(s) ==
  LET rank == Rank(s.algo)
  IN  [Fresh EXCEPT !.best = IF rank > s.best THEN rank ELSE s.best,
                    !.claimed = IF rank > s.best THEN DigestValueHex(s.value) ELSE s.claimed]

Scanned(s, c) ==
  IF s.place = "between" /\ c \in {"SP", "COMMA"} THEN s
  ELSE IF c = "COMMA" THEN EntryEnd(s)
  ELSE IF s.place \in {"between", "algo"} THEN
       IF c = "=" THEN [s EXCEPT !.place = "value"]
       ELSE IF c \in {"SEMI", "SP"} THEN [s EXCEPT !.place = "rest"]
       ELSE [s EXCEPT !.place = "algo", !.algo = Append(@, c)]
  ELSE IF s.place = "value" THEN
       IF c \in {"SEMI", "SP"} THEN [s EXCEPT !.place = "rest"]
       ELSE [s EXCEPT !.value = Append(@, c)]
  ELSE s

HeaderInit == header = <<>> /\ scan = Fresh

HeaderGrows(c) == header' = Append(header, c) /\ scan' = Scanned(scan, c)

HeaderNext == \E c \in Mark : HeaderGrows(c)

\* Every header a client can send.
HeaderSpec == HeaderInit /\ [][HeaderNext]_headerVars

(***************************************************************************)
(* What is claimed if the header ends here: the rank of the algorithm to   *)
(* check, 0 for none, and the digest.                                      *)
(***************************************************************************)
ContentDigestClaim ==
  LET e == IF scan.place = "between" THEN scan ELSE EntryEnd(scan)
  IN  [rank |-> e.best, claimed |-> e.claimed]

-----------------------------------------------------------------------------
(* The list, entry by entry.                                               *)

Unblanked(text) == From(text, Mark \ {"SP"})

Entries(text) == LET parts == Split(text, {"COMMA"})
                 IN  NonEmpty([i \in DOMAIN parts |-> Unblanked(parts[i])])

Algorithm(entry) == UpTo(entry, {"=", "SEMI", "SP"})

Value(entry) == LET r == From(entry, {"=", "SEMI", "SP"})
                IN  IF r # <<>> /\ Head(r) = "=" THEN UpTo(Tail(r), {"SEMI", "SP"}) ELSE <<>>

(***************************************************************************)
(* "EVERY entry of the list is scanned and the strongest algorithm hashed  *)
(* here is checked" (webfs-serve.c): the claim that is checked is that of  *)
(* the first entry with the strongest algorithm any entry names; a body    *)
(* goes unchecked only if no entry names one, and an unreadable claim is   *)
(* never passed over for a weaker one that can be read.                    *)
(***************************************************************************)
StrongestIsFirst(list, claim) ==
  /\ \A i \in DOMAIN list : Rank(Algorithm(list[i])) <= claim.rank
  /\ claim.rank > 0 =>
       \E i \in DOMAIN list :
         /\ Rank(Algorithm(list[i])) = claim.rank
         /\ \A j \in 1..i - 1 : Rank(Algorithm(list[j])) < claim.rank
         /\ claim.claimed = DigestValueHex(Value(list[i]))

\* content_digest_claim checks the claim for the strongest algorithm a
\* header names, wherever in the list it stands.
StrongestClaimIsChecked == StrongestIsFirst(Entries(header), ContentDigestClaim)
=============================================================================
