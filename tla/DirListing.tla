---------------------------- MODULE DirListing -----------------------------
(***************************************************************************)
(* A directory as the two surfaces of axl-webfs serve list it: ft_list_dir *)
(* of src/transfer/dir-list.c, which writes into a buffer of fixed size,   *)
(* and the loop of dav_list_dir of src/serve/webfs-dav.c, which fills an   *)
(* array.  The volume returns the entries one by one.                      *)
(*                                                                         *)
(* An entry is the length of the text it makes and whether the filter      *)
(* hides it, which it does to the temps of PUTs in flight.                 *)
(***************************************************************************)
EXTENDS Naturals, Sequences, SequencesExt

CONSTANTS
  BufSize,   \* the room for the listing
  Margin,    \* the "safety margin" at its end
  Opening,   \* the length of what comes before the entries
  Comma,     \* that of what comes between two: 1, or 0 in HTML
  Closing,   \* that of what comes after them
  MaxEntries \* the size of the array of dav_list_dir

ASSUME ListingAssumption ==
  /\ {BufSize, Margin, Opening, Comma, Closing, MaxEntries} \subseteq Nat
  /\ Margin < BufSize /\ Closing < Margin

VARIABLES
  dir,       \* the entries the volume has returned so far
  out,       \* the listing in the buffer
  array,     \* the listing in the array
  visible,   \* of these entries, those that are not hidden
  bare       \* the two listings of a directory that has only these

listingVars == <<dir, out, array, visible, bare>>

Entry(length, hidden) == [length |-> length, hidden |-> hidden]

EntryValue == [length : Nat, hidden : BOOLEAN]

(***************************************************************************)
(* APPEND: what does not fit is cut, and the position stays in the buffer. *)
(***************************************************************************)
Appended(listing, length) ==
  IF listing.pos + length >= BufSize THEN [listing EXCEPT !.pos = BufSize - 1, !.cut = TRUE]
  ELSE [listing EXCEPT !.pos = @ + length]

\* Seeded fault: the margin is taken for room.
FullLate(listing) == listing.pos > BufSize - Margin

Full(listing) == listing.pos >= BufSize - Margin

Opened == Appended([pos |-> 0, cut |-> FALSE, shown |-> <<>>, stopped |-> FALSE], Opening)

(***************************************************************************)
(* The turn of the loop of ft_list_dir for an entry; none after the break. *)
(***************************************************************************)
Listed(listing, e) ==
  IF listing.stopped \/ e.hidden THEN listing
  ELSE LET comma == IF listing.shown = <<>> THEN 0 ELSE Comma
           new   == Appended(Appended(listing, comma), e.length)
       IN  [new EXCEPT !.shown = Append(@, e), !.stopped = Full(new)]

Closed(listing) == Appended(listing, Closing)

DavListed(entries, e) ==
  IF Len(entries) = MaxEntries \/ e.hidden THEN entries ELSE Append(entries, e)

-----------------------------------------------------------------------------

ListInit ==
  /\ dir = <<>> /\ visible = <<>>
  /\ out = Opened /\ array = <<>> /\ bare = [out |-> Opened, array |-> <<>>]

ListEntry(e) ==
  /\ dir' = Append(dir, e) /\ out' = Listed(out, e) /\ array' = DavListed(array, e)
  /\ IF e.hidden THEN UNCHANGED <<visible, bare>>
     ELSE /\ visible' = Append(visible, e)
          /\ bare' = [out |-> Listed(bare.out, e), array |-> DavListed(bare.array, e)]

ListNext == \E e \in EntryValue : ListEntry(e)

ListSpec == ListInit /\ [][ListNext]_listingVars

-----------------------------------------------------------------------------

(***************************************************************************)
(* The listing is closed and holds whole entries, however many there are,  *)
(* if what comes before them leaves the margin free and none of them is    *)
(* longer than it allows for: the check that stops the loop comes after an *)
(* entry and has to leave room for the next.                               *)
(***************************************************************************)
EntriesAreWhole ==
  Opening + Margin < BufSize /\ (\A i \in DOMAIN dir : Comma + dir[i].length + Closing <= Margin)
    => ~Closed(out).cut

(***************************************************************************)
(* A PUT in flight changes nothing in any listing: with temps in it a      *)
(* directory is listed as if they were not there, to the last byte of the  *)
(* buffer and the last place of the array.                                 *)
(***************************************************************************)
HiddenTakeNoRoom == out = bare.out /\ array = bare.array

(***************************************************************************)
(* An entry is left out only of a listing that has used up its room, and   *)
(* the first ones are those that are shown.                                *)
(***************************************************************************)
LeftOutForRoom ==
  /\ IsPrefix(out.shown, visible) /\ IsPrefix(array, visible)
  /\ out.shown # visible => out.pos >= BufSize - Margin
  /\ array # visible => Len(array) = MaxEntries

(***************************************************************************)
(* ft_list_dir never cuts an entry or the closing text in a full buffer,   *)
(* leaves entries out only at the end of one, and dav_list_dir at the end  *)
(* of the array; temps of PUTs in flight change no byte of either.         *)
(***************************************************************************)
ListingsAreWhole == EntriesAreWhole /\ HiddenTakeNoRoom /\ LeftOutForRoom
=============================================================================
