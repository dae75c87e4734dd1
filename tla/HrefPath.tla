------------------------------ MODULE HrefPath ------------------------------
(***************************************************************************)
(* Where the mount finds things on a WebDAV server: the share path of the  *)
(* URL it is given (parse_url of src/mount/webfs-mount.c) and the hrefs of *)
(* a listing (href_to_mount_path of src/mount/webfs-protocol-dav.c),       *)
(* against the resolution of a reference segment by segment (RFC 3986).    *)
(*                                                                         *)
(* A character stands for itself if it decides something, "%2F" and "%5C"  *)
(* for encoded separators, "%00" for an encoded NUL and "%" for an escape  *)
(* that cannot be read.  Any other run of characters is a chunk, a URI     *)
(* scheme and its colon a scheme.  The state is an href of a listing and   *)
(* the path of a URL.                                                      *)
(***************************************************************************)
EXTENDS Texts

CONSTANTS
  Chunk,     \* runs of other characters
  Http,      \* the scheme of the mount
  Scheme,    \* the schemes there are
  OwnHost,   \* the mount's server and port, a chunk
  MaxPath,   \* MAX_PATH_LEN
  MaxBase,   \* sizeof(base_path)
  Share,     \* the share paths of mounts
  Directory, \* directories, as the names that lead to them
  Child      \* names of their entries

\* Names, without the characters a server encodes.
PlainName == Seq(Chunk \cup {"."}) \ {<<>>, <<".">>, <<".", ".">>}

ASSUME HrefAssumption ==
  /\ (Chunk \cup Scheme) \cap {"/", "\\", ".", "?", "#", "%2F", "%5C", "%00", "%"} = {}
  /\ Http \in Scheme /\ OwnHost \in Chunk /\ Chunk \cap Scheme = {}
  /\ Directory \subseteq Seq(PlainName) /\ Child \subseteq PlainName
  /\ MaxPath \in Nat /\ MaxBase \in Nat

VARIABLES href, url

Character == {"/", "\\", ".", "?", "#", "%2F", "%5C", "%00", "%"} \cup Chunk \cup Scheme

HrefInit == href = <<>>

HrefGrows(c) == href' = Append(href, c)

HrefNext == \E c \in Character : HrefGrows(c)

\* Every href a server can answer with.
HrefSpec == HrefInit /\ [][HrefNext]_href

UrlInit == url = <<>>

UrlGrows(c) == (url = <<>> => c = "/") /\ url' = Append(url, c)

UrlNext == \E c \in Character \ ({"?", "#"} \cup Scheme) : UrlGrows(c)

\* Every path of a URL, which parse_url takes without its query.
UrlSpec == UrlInit /\ [][UrlNext]_url

Decoded(text) ==
  [i \in DOMAIN text |-> CASE text[i] = "%2F" -> "/" [] text[i] = "%5C" -> "\\"
                           [] OTHER -> text[i]]

Decodes(text) == ~Contains(text, "%00") /\ ~Contains(text, "%")

-----------------------------------------------------------------------------
(* axl_path_resolve (external).                                            *)

(***************************************************************************)
(* The segments left when "." and ".." are taken out: {} if a ".." leads   *)
(* out of the root.                                                        *)
(***************************************************************************)
Normal(segments) ==
  LET step(done, s) == IF s \in {<<>>, <<".">>} THEN done
                       ELSE IF s = <<".", ".">> THEN {Front(d) : d \in done \ {<<>>}}
                       ELSE {Append(d, s) : d \in done}
      upTo[n \in 0..Len(segments)] ==
        IF n = 0 THEN {<<>>} ELSE step(upTo[n - 1], segments[n])
  IN  upTo[Len(segments)]

AsPath(segments) == IF segments = <<>> THEN <<"/">> ELSE Joined(segments)

PathResolve(dir, text) ==
  LET from == IF text # <<>> /\ Head(text) = "/" THEN text ELSE dir \o <<"/">> \o text
  IN  {AsPath(n) : n \in Normal(Split(from, {"/"}))}

-----------------------------------------------------------------------------
(* The share path: {} if it is refused.                                    *)

WithoutTrailing(text) ==
  LET kept == {i \in DOMAIN text : text[i] # "/"}
  IN  IF kept = {} THEN <<>> ELSE SubSeq(text, 1, Max(kept))

\* Seeded fault: the segments are looked at before the path is decoded.
SharePathRaw(text) ==
  LET base == WithoutTrailing(Decoded(text))
  IN  IF Decodes(text) /\ Len(Decoded(text)) < MaxBase /\ ~Contains(base, "\\")
         /\ {<<>>, <<".">>} \cap ToSet(Split(text, {"/"})) \subseteq {<<>>}
      THEN {base} ELSE {}

(***************************************************************************)
(* parse_url: decoded, without trailing separators; refused if it does not *)
(* fit, holds an encoded separator or a "\", or has a segment that is      *)
(* empty, "." or "..".                                                     *)
(***************************************************************************)
SharePath(text) ==
  LET base == WithoutTrailing(Decoded(text))
  IN  IF /\ Decodes(text) /\ Len(Decoded(text)) < MaxBase
         /\ {"%2F", "%5C"} \cap ToSet(text) = {} /\ ~Contains(base, "\\")
         /\ {<<>>, <<".">>, <<".", ".">>} \cap ToSet(Tail(Split(base, {"/"}))) = {}
      THEN {base} ELSE {}

ASSUME ShareAssumption ==
  \A base \in Share :
    /\ base \in Seq(Character) /\ (base = <<>> \/ Head(base) = "/")
    /\ SharePath(base) = {base}

-----------------------------------------------------------------------------
(* href_to_mount_path.                                                     *)

Absolute(ref) ==
  ref # <<>> /\ (Head(ref) \in Scheme \/ IsPrefix(<<"/", "/">>, ref))

(***************************************************************************)
(* Of an absolute reference: its scheme, what comes after it, and the host *)
(* and port, or {} if it does not parse.                                   *)
(***************************************************************************)
SchemeOf(ref) == IF Head(ref) \in Scheme THEN Head(ref) ELSE Http

AfterScheme(ref) == IF Head(ref) \in Scheme THEN Tail(ref) ELSE ref

Authority(ref) == UpTo(SubSeq(AfterScheme(ref), 3, Len(AfterScheme(ref))), {"/", "?", "#"})

Parses(ref) == IsPrefix(<<"/", "/">>, AfterScheme(ref)) /\ Authority(ref) # <<>>

Ours(ref) == SchemeOf(ref) = Http /\ Authority(ref) = <<OwnHost>>

PathPart(ref) ==
  LET located == SubSeq(AfterScheme(ref), 3, Len(AfterScheme(ref)))
      after == IF Absolute(ref) THEN From(located, {"/", "?", "#"}) ELSE ref
      path  == UpTo(after, {"?", "#"})
  IN  IF Absolute(ref) /\ path = <<>> THEN <<"/">> ELSE path

Found(path) == [kind |-> "entry", path |-> path]

NotFound(kind) == [kind |-> kind, path |-> <<>>]

\* Seeded fault: the base matches within a name.
UnderAnyhow(base, path) == IsPrefix(base, path)

Under(base, path) ==
  IsPrefix(base, path) /\ (Len(path) > Len(base) /\ base # <<>> => path[Len(base) + 1] = "/")

(***************************************************************************)
(* What a resolved path is in the share.                                   *)
(***************************************************************************)
InShare(base, path) ==
  LET rel == SubSeq(path, Len(base) + 1, Len(path))
      out == IF rel = <<>> THEN <<"/">> ELSE rel
  IN  IF ~Under(base, path) THEN NotFound("foreign")
      ELSE IF Len(out) >= MaxPath THEN NotFound("too long")
      ELSE Found(out)

HrefToMountPath(base, dir, ref) ==
  IF Absolute(ref) /\ ~Parses(ref) THEN NotFound("bad")
  ELSE IF Absolute(ref) /\ ~Ours(ref) THEN NotFound("foreign")
  ELSE LET resolved == PathResolve(dir, Decoded(PathPart(ref)))
       IN  IF ~Decodes(PathPart(ref)) \/ resolved = {} THEN NotFound("bad")
           ELSE InShare(base, CHOOSE r \in resolved : TRUE)

-----------------------------------------------------------------------------
(* Properties.                                                             *)

(***************************************************************************)
(* An href is an entry of the share exactly if the resource it refers to,  *)
(* found segment by segment, lies under the share's own segments, and it   *)
(* is then the path below them: asking the server for it, under the base,  *)
(* asks for the resource of the href. "<base>/../x" is not in the share,  *)
(* and neither is "<base>x".  An encoded separator is left out: it is      *)
(* taken for a real one.                                                   *)
(***************************************************************************)
HrefIsResolved(base, dir, ref) ==
  LET share  == NonEmpty(Split(base, {"/"}))
      path   == PathPart(ref)
      rooted == path # <<>> /\ Head(path) = "/"
      target == Normal((IF rooted THEN <<>> ELSE Split(dir, {"/"})) \o Split(path, {"/"}))
      result == HrefToMountPath(base, dir, ref)
      below(t) == AsPath(SubSeq(t, Len(share) + 1, Len(t)))
  IN  {"%2F", "%5C"} \cap ToSet(ref) = {} =>
        /\ result.kind = "entry" =>
             \E t \in target : IsPrefix(share, t) /\ result.path = below(t)
        /\ (Absolute(ref) => Parses(ref) /\ Ours(ref)) /\ Decodes(path) =>
             \A t \in target :
               IsPrefix(share, t) /\ Len(below(t)) < MaxPath => result = Found(below(t))

(***************************************************************************)
(* The hrefs a server that normalizes paths has for a child of a           *)
(* directory: its path, the same as a collection's, with the host or       *)
(* without the scheme, and relative to the directory.                      *)
(***************************************************************************)
HrefsOf(base, dir, child) ==
  LET absolute == {AsPath(n) : n \in Normal(Split(base \o Joined(Append(dir, child)), {"/"}))}
      named    == absolute \cup {a \o <<"/">> : a \in absolute}
  IN  named \cup {<<"/", "/", OwnHost>> \o a : a \in named}
            \cup {<<Http, "/", "/", OwnHost>> \o a : a \in named} \cup {child}

(***************************************************************************)
(* "the hrefs it answers with would then sit outside the share as spelled, *)
(* and the share list as empty" (webfs-mount.c): in a share whose path was *)
(* accepted, a child is found under its name, however the server spells    *)
(* its href.                                                               *)
(***************************************************************************)
ShareIsFound(text) ==
  \A base \in SharePath(text), dir \in Directory, child \in Child :
    \A ref \in HrefsOf(base, dir, child) :
      LET path == Joined(Append(dir, child))
      IN  Len(path) < MaxPath =>
            HrefToMountPath(base, base \o Joined(dir), ref) = Found(path)

\* The mount takes an href of a listing for the entry it refers to
\* (href_to_mount_path), in whatever share and directory.
HrefsAreResolved ==
  \A base \in Share, dir \in Directory : HrefIsResolved(base, base \o Joined(dir), href)

\* In a share whose URL the mount accepts (parse_url) every child is found by
\* its href.
AcceptedSharesAreFound == ShareIsFound(url)
=============================================================================
