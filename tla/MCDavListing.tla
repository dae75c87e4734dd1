---------------------------- MODULE MCDavListing ----------------------------
(***************************************************************************)
(* Model checking of DavListing: the texts of hrefs and displaynames may   *)
(* come in two tokens, as the reader expects.                              *)
(***************************************************************************)
EXTENDS DavListing

SplitNames == {"href", "displayname", "held"}
=============================================================================
