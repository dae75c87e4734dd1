------------------------------ MODULE MCTexts ------------------------------
(***************************************************************************)
(* Every text up to a length, grown character by character: the paths and  *)
(* digest headers a client sends to the server, the directories the server *)
(* lists, the hrefs and URLs the mount reads.                              *)
(***************************************************************************)
EXTENDS VolumePath, DigestClaim, DirListing, HrefPath

VARIABLE kind

vars == <<kind, path, headerVars, listingVars, href, url>>

MCFold == [n \in Name |-> IF n = "T" THEN "t" ELSE n]
MCVolume == {<<"v">>, <<"w">>}
MCRooted == {<<"v">>}
MCPresent == {<<<<"t">>>>, <<<<"u">>>>, <<<<"d">>>>, <<<<"d">>, <<"t">>>>, <<<<"d">>, <<"u">>>>}
MCLive == {<<<<"t">>>>, <<<<"d">>, <<"t">>>>}
MCShare == {<<>>, <<"/", "s">>}
MCDirectory == {<<>>, <<<<"x">>>>}
MCChild == {<<"s">>, <<"h">>, <<".", "x">>}

\* The bounds: how long a text grows, and how much longer behind a start of
\* its own.
PathLength == 4
PathStart == <<"/", "v", "/">>
HeaderLength == 6
EntryCount == 4
HrefLength == 4
HrefStarts == {<<"/", "/", "h">>, <<"http:", "/", "/", "h">>, <<"/", "s", "/">>}
UrlLength == 6

\* An href and a URL that are refused at once, to have while others grow.
NoHref == <<"%2F">>
NoUrl == <<"/", "%00">>

Init ==
  /\ kind \in {"path", "header", "directory", "href", "url"}
  /\ PathInit /\ HeaderInit /\ ListInit
  /\ IF kind = "href" THEN HrefInit ELSE href = NoHref
  /\ IF kind = "url" THEN UrlInit ELSE url = NoUrl

GrowPath ==
  /\ kind = "path"
  /\ Len(path) < PathLength + IF IsPrefix(PathStart, path) THEN Len(PathStart) ELSE 0
  /\ \E c \in Char : PathGrows(c)
  /\ UNCHANGED <<kind, headerVars, listingVars, href, url>>

GrowHeader ==
  /\ kind = "header" /\ Len(header) < HeaderLength
  /\ \E c \in Mark : HeaderGrows(c)
  /\ UNCHANGED <<kind, path, listingVars, href, url>>

GrowDirectory ==
  /\ kind = "directory" /\ Len(dir) < EntryCount
  /\ \E length \in 1..Margin, hidden \in BOOLEAN : ListEntry(Entry(length, hidden))
  /\ UNCHANGED <<kind, path, headerVars, href, url>>

GrowHref ==
  /\ kind = "href"
  /\ \E start \in HrefStarts \cup {<<>>} :
       Len(href) < HrefLength + Len(start) - 1 /\ IsPrefix(start, href)
  /\ \E c \in Character \ {"\\", "#", "%5C"} :
       (href # <<>> => c \notin Scheme) /\ HrefGrows(c)
  /\ UNCHANGED <<kind, path, headerVars, listingVars, url>>

GrowUrl ==
  /\ kind = "url" /\ Len(url) < UrlLength
  /\ \E c \in {"/", "\\", ".", "%2F", "%00", "s"} : UrlGrows(c)
  /\ UNCHANGED <<kind, path, headerVars, listingVars, href>>

Next == GrowPath \/ GrowHeader \/ GrowDirectory \/ GrowHref \/ GrowUrl

Spec == Init /\ [][Next]_vars
=============================================================================
