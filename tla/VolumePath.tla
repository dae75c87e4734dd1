----------------------------- MODULE VolumePath -----------------------------
(***************************************************************************)
(* The paths clients name on the two surfaces of axl-webfs serve:          *)
(* parse_volume_path of src/serve/webfs-serve.c (REST), parse_dav_path,    *)
(* dav_live_temp and dav_hidden_child of src/serve/webfs-dav.c, with       *)
(* ft_build_path and ft_path_components_ok of                              *)
(* src/transfer/file-transfer.c.                                           *)
(*                                                                         *)
(* A text is a sequence of characters, of which the ones that decide       *)
(* something stand for themselves, SP and NUL for blank and end of text;   *)
(* any other run of characters is a name.                                  *)
(* Texts are percent-decoded.  The state is the path of a request.         *)
(***************************************************************************)
EXTENDS Texts

CONSTANTS
  Name,      \* runs of other characters
  Fold,      \* a name in the letter case FAT compares in
  TempName,  \* the names shaped like the SDK's temp, "~APxxxxx.TMP"
  Volume,    \* the names of the volumes
  Rooted,    \* those that have an AxlFsRoot
  PathMax,   \* FT_PATH_MAX and sizeof(sub)
  VolMax,    \* sizeof(vol_name)
  Present,   \* what there is on the volume: paths, as the names in them
  Live       \* the temps of PUTs in flight among them

Char == {"/", "\\", ":", ".", "SP", "NUL"} \cup Name

ASSUME NameAssumption ==
  /\ Name \cap {"/", "\\", ":", ".", "SP", "NUL"} = {}
  /\ {PathMax, VolMax} \subseteq Nat /\ VolMax + 1 < PathMax /\ <<>> \notin Volume
  /\ Fold \in [Name -> Name] /\ TempName \subseteq Name /\ Rooted \subseteq Volume
  /\ \A n \in TempName : {m \in Name : Fold[m] = Fold[n]} \subseteq TempName

ASSUME TempAssumption ==
  /\ Live \subseteq Present
  /\ \A p \in Live : /\ p # <<>> /\ Len(Last(p)) = 1
                     /\ Last(p)[1] \in {Fold[n] : n \in TempName}

VARIABLE path

PathInit == path = <<>>

PathGrows(c) == path' = Append(path, c)

PathNext == \E c \in Char : PathGrows(c)

\* Every path a client can send.
PathSpec == PathInit /\ [][PathNext]_path

-----------------------------------------------------------------------------
(* What the volume makes of a path (external: UEFI paths and FAT).         *)

UefiSeparator == {"/", "\\", ":"}

FoldedName(c) == [i \in DOMAIN c |-> IF c[i] \in Name THEN Fold[c[i]] ELSE c[i]]

(***************************************************************************)
(* Leading blanks, and trailing blanks and periods, are no part of a name. *)
(***************************************************************************)
Trimmed(c) ==
  LET first == {i \in DOMAIN c : c[i] # "SP"}
      last  == {i \in DOMAIN c : c[i] \notin {"SP", "."}}
  IN  IF last = {} THEN <<>> ELSE SubSeq(c, Min(first), Max(last))

Spelled(sub) == LET c == NonEmpty(Split(sub, UefiSeparator))
                IN  [i \in DOMAIN c |-> FoldedName(c[i])]

OnVolume(sub) == LET c == Spelled(sub) IN NonEmpty([i \in DOMAIN c |-> Trimmed(c[i])])

-----------------------------------------------------------------------------
(* The checks both surfaces share.                                         *)

(***************************************************************************)
(* ft_build_path refuses a path it has no room for.                        *)
(***************************************************************************)
FitsVolume(vol, sub) == Len(vol) + 1 + Len(sub) < PathMax

\* Seeded fault: a trailing period passes.
PathComponentsOkButPeriod(sub) ==
  \A c \in ToSet(Split(sub, {"/"})) \ {<<>>} : Head(c) # "SP" /\ Last(c) # "SP"

PathComponentsOk(sub) ==
  \A c \in ToSet(Split(sub, {"/"})) \ {<<>>} : Head(c) # "SP" /\ Last(c) \notin {"SP", "."}

UefiFree(sub) == ~Contains(sub, "\\") /\ ~Contains(sub, ":")

-----------------------------------------------------------------------------
(* parse_volume_path and parse_dav_path.                                   *)

Unslashed(text) == IF text # <<>> /\ Head(text) = "/" THEN Tail(text) ELSE text

VolumeName(text) == UpTo(Unslashed(text), {"/"})

SubPath(text) == From(Unslashed(text), {"/"})

IsVolume(vol, vols) == Len(vol) < VolMax /\ vol \in vols

Object(vol, sub) == [kind |-> "ok", vol |-> vol, sub |-> sub]

Refused(why) == [kind |-> why, vol |-> <<>>, sub |-> <<>>]

(***************************************************************************)
(* The REST surface: too long to decode, %00, no such volume, too long for *)
(* the volume, a character of UEFI's syntax, a name FAT would trim.        *)
(***************************************************************************)
ParseVolumePath(text) ==
  LET vol == VolumeName(text)
      sub == IF SubPath(text) = <<>> THEN <<"/">> ELSE SubPath(text)
  IN  IF Len(text) >= PathMax THEN Refused("too long")
      ELSE IF Contains(text, "NUL") THEN Refused("bad")
      ELSE IF ~IsVolume(vol, Volume) THEN Refused("no volume")
      ELSE IF Len(sub) >= PathMax \/ ~FitsVolume(vol, sub) THEN Refused("too long")
      ELSE IF ~UefiFree(sub) \/ ~PathComponentsOk(sub) THEN Refused("bad")
      ELSE Object(vol, sub)

\* Seeded fault: a path that is too long is cut.
ParseDavPathCut(text) ==
  LET vol == VolumeName(text)
      cut == Cut(SubPath(text), PathMax - 2 - Len(vol))
  IN  IF text \in {<<>>, <<"/">>} THEN Refused("root")
      ELSE IF ~IsVolume(vol, Rooted) THEN Refused("invalid")
      ELSE IF cut = <<>> THEN Object(vol, <<"/">>)
      ELSE IF ~UefiFree(cut) \/ ~PathComponentsOk(cut) THEN Refused("bad")
      ELSE Object(vol, cut)

(***************************************************************************)
(* /dav, where the SDK has decoded the path: the list of the volumes, an   *)
(* unknown volume, a volume (PATH_VOLUME is told by the path that is       *)
(* missing) and a path on it.                                              *)
(***************************************************************************)
ParseDavPath(text) ==
  LET vol == VolumeName(text)
      sub == SubPath(text)
  IN  IF text \in {<<>>, <<"/">>} THEN Refused("root")
      ELSE IF ~IsVolume(vol, Rooted) THEN Refused("invalid")
      ELSE IF sub = <<>> THEN Object(vol, <<"/">>)
      ELSE IF Len(sub) >= PathMax \/ ~FitsVolume(vol, sub)
              \/ ~UefiFree(sub) \/ ~PathComponentsOk(sub) THEN Refused("bad")
      ELSE Object(vol, sub)

(***************************************************************************)
(* The statuses of set_path_error.                                         *)
(***************************************************************************)
PathStatus(kind) ==
  CASE kind = "too long"  -> 414
    [] kind = "bad"       -> 400
    [] kind = "no volume" -> 404

-----------------------------------------------------------------------------
(* Telling a live temp by the SDK's answers.                               *)

Through(p, paths) == \E k \in 1..Len(p) : SubSeq(p, 1, k) \in paths

(***************************************************************************)
(* The SDK's stat, which refuses what its registry has, by exact names.    *)
(***************************************************************************)
SdkStat(sub) == OnVolume(sub) \in Present /\ ~Through(Spelled(sub), Live)

FtStat(sub) == OnVolume(sub) \in Present

DavTempShaped(c) == Len(c) = 1 /\ c[1] \in TempName

\* Seeded fault: only the last component is looked at.
DavLiveTempAtEnd(sub) ==
  LET c == NonEmpty(Split(sub, UefiSeparator))
  IN  c # <<>> /\ DavTempShaped(Last(c)) /\ ~SdkStat(sub) /\ FtStat(sub)

(***************************************************************************)
(* dav_live_temp: a component with a temp's shape, up to which there is    *)
(* something on the volume that the SDK refuses.                           *)
(***************************************************************************)
DavLiveTemp(sub) ==
  LET c == NonEmpty(Split(sub, UefiSeparator))
      upTo(k) == Joined(SubSeq(c, 1, k))
  IN  \E k \in DOMAIN c : /\ DavTempShaped(c[k]) /\ Len(upTo(k)) < PathMax
                          /\ ~SdkStat(upTo(k)) /\ FtStat(upTo(k))

(***************************************************************************)
(* dav_hidden_child: a name in a directory's listing.                      *)
(***************************************************************************)
HiddenChild(dir, name) ==
  /\ DavTempShaped(name)
  /\ DavLiveTemp(Cut(dir \o (IF Last(dir) = "/" THEN <<>> ELSE <<"/">>) \o name, PathMax - 1))

-----------------------------------------------------------------------------
(* Properties of a text a client sends.                                    *)

(***************************************************************************)
(* The two surfaces take the same texts for the same path of the same      *)
(* volume and refuse the same: what one accepts cannot get round the       *)
(* checks of the other.  A NUL ends the text before /dav sees it.          *)
(***************************************************************************)
SurfacesAgree(text) ==
  LET rest == ParseVolumePath(text)
      dav  == ParseDavPath(text)
  IN  ~Contains(text, "NUL") /\ VolumeName(text) \in Rooted =>
        IF rest.kind = "ok" THEN rest = dav ELSE dav.kind # "ok"

(***************************************************************************)
(* "A path is REFUSED, never cut -- a cut path names another file"         *)
(* (webfs-serve.c), "no stored name is spelled that way": the file an      *)
(* accepted path opens on the volume is the one its '/'-components spell,  *)
(* all of them, and only separators can be written more than once.         *)
(***************************************************************************)
NamesWhatItSpells(text) ==
  LET given == NonEmpty(Split(SubPath(text), {"/"}))
  IN  \A parsed \in {ParseVolumePath(text), ParseDavPath(text)} :
        parsed.kind = "ok" =>
          OnVolume(parsed.sub) = [i \in DOMAIN given |-> FoldedName(given[i])]

(***************************************************************************)
(* "EVERY component of a path is checked" (Design.md): of the paths that   *)
(* are accepted, dav_live_temp tells exactly those that go through a live  *)
(* temp, under any spelling; a temp that a power loss left is none.        *)
(***************************************************************************)
LiveTempIsTold(text) ==
  \A parsed \in {ParseVolumePath(text), ParseDavPath(text)} :
    parsed.kind = "ok" => (DavLiveTemp(parsed.sub) <=> Through(OnVolume(parsed.sub), Live))

(***************************************************************************)
(* The listings of an accepted directory leave out the live temps in it,   *)
(* whatever their case there, and nothing else; as long as there is room   *)
(* for the directory as it is spelled and the name.                        *)
(***************************************************************************)
LiveTempIsHidden(text) ==
  \A parsed \in {ParseVolumePath(text), ParseDavPath(text)}, n \in Name :
    LET child == Append(OnVolume(parsed.sub), <<Fold[n]>>)
    IN  parsed.kind = "ok" /\ ~Through(OnVolume(parsed.sub), Live) /\ child \in Present
        /\ Len(parsed.sub) + 2 < PathMax =>
          (HiddenChild(parsed.sub, <<n>>) <=> child \in Live)

\* Whatever path a client sends, REST and /dav take it for the same object
\* or both refuse it (parse_volume_path, parse_dav_path).
SurfacesAgreeOnPaths == SurfacesAgree(path)

\* An accepted path opens the file its components spell, never another that
\* FAT or UEFI makes of it (ft_path_components_ok and the character checks).
PathsNameWhatTheySpell == NamesWhatItSpells(path)

\* dav_live_temp tells the temps of PUTs in flight, and nothing else, under
\* every accepted spelling, and dav_hidden_child leaves them, and nothing
\* else, out of the listing of every accepted directory.
LiveTempsAreTold == LiveTempIsTold(path) /\ LiveTempIsHidden(path)
=============================================================================
