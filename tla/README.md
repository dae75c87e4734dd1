# A verification project for axl-webfs

axl-webfs is a UEFI application with two halves.  `mount` makes a workstation's
directory a UEFI volume: every file call of the firmware becomes HTTP requests
to a server on the workstation.  `serve` is the other way round: an HTTP server
in the firmware through which browsers and WebDAV clients read and write the
machine's volumes.  This directory holds TLA+ models of the parts that decide
something, TLC configurations that check them on small instances, and proofs
that TLAPS checks for every instance.  Paths below are relative to the
repository root; `PROJECT.json` holds the definition-to-lines map, the hazards,
the runs, the mutants, the findings and the theorems in machine-readable form.

    tlc -workers 2 -config MCDirCache.cfg MCDirCache
    tlapm DirCacheProofs.tla

## 1. Inventory

| Component | Source | State it keeps | Operations | Correct when |
|---|---|---|---|---|
| Provider callbacks | `src/mount/webfs-file.c`, `webfs-internal.h` | one `AxlFsProviderFile` per open file: path, position, size, read-ahead, staged writes, running checksum, directory snapshot | open, close, read, write, flush, seek, delete, get/set info, read_dir | reads return the server's bytes; writes arrive whole or are reported; corruption is reported and only corruption; a read-only volume is never written; the listing cache is told of every change |
| Directory cache | `src/mount/webfs-cache.c` | `DirCacheSlot[]` with fetch stamp and use tick | fetch, lookup, invalidate | bounded staleness; no answer goes back in time; own changes visible; LRU eviction; one slot per path |
| Wire protocols | `src/mount/webfs-protocol-json.c`, `-dav.c` | none (the DAV parser has a record being filled) | list, read range, write full, delete, mkdir, rename | the status is the server's; a failed propstat leaves no trace |
| Workstation server | `scripts/xfer-server.py` | the tree being served | list, ranged GET with digest, PUT, DELETE, mkdir, rename | it is the environment of the mount |
| Mount lifecycle | `src/mount/webfs-mount.c`, `src/app/cmd-mount.c` | private block, volume, client | setup, teardown, mount over a mount | every failure undoes what was done; the volume goes before what its callbacks use; the protocol has answered |
| REST PUT | `src/serve/webfs-serve.c` (`m_put_*`) | ONE static upload state for all connections | chunk, final and abort call | atomic; nothing left behind; always let go again |
| REST GET, DELETE, digest cache | same | digest cache keyed by path and size, streams | GET with Range, listing, DELETE, mkdir | the digest sent is that of the bytes sent |
| Serve lifecycle, access, TLS | same, `src/app/cmd-serve.c` | `ServeOpts`, server, loop | setup, run, teardown, middleware | every failure undoes what was done; an upload has all it needs until a stop aborts it |
| WebDAV adapter | `src/serve/webfs-dav.c` | a root per volume, write contexts | the SDK's `AxlWebDavOps` | shares the PUT's write path; a live temp is no resource on either surface, and anything else is |
| File transfer, listing | `src/transfer/` | the listing filter | read, delete, move, mkdir, rmdir, list, path checks | a listing is well formed however long; a path is refused, never cut |
| Upload page | `src/serve/upload-asset.c` | none | | a constant |
| AXL SDK | not in the repository | HTTP server and client, filesystem backend | | modelled from how the code uses it, marked external |

**How they interact.**  Firmware calls enter `webfs-file.c` one at a time (the
provider runs at one TPL and no callback re-enters), which asks `webfs-cache.c`
for listings and the wire protocol for everything else; the protocol blocks for
the reply.  There is therefore no interleaving *inside* the mount; what
interleaves with it is the server, whose other users change the tree at any
moment, the clock, and the network, which loses requests and answers
separately.  In `serve` one event loop runs every connection's handlers, so a
handler is atomic but an upload is not: it is one call per chunk, and between
two calls of an upload any other connection's calls run, on the same statics
and the same volume.

**What is hard.**  Requests that were carried out but whose answer was lost;
listings that were overtaken while in flight; a cache that must be told of
every change, on every path including the failing ones; three buffers of one
file handle (read-ahead, staged writes, checksum) that must agree through
arbitrary orders of read, write, seek and flush; one upload state shared by all
connections with two ways to end and a failure possible at every backend call;
temps of uploads in flight that lie among the files of the volume while every
other request runs, are known only to the SDK, and look like files a power loss
left; setups of ten steps that undo themselves by hand; texts that two parsers,
the volume and the SDK each read by rules of their own.
`PROJECT.json` lists each such hazard at its line, with the properties that
cover it or the reason none does.

## 2. Modules

| Module | Models | State ↔ code | Actions ↔ code |
|---|---|---|---|
| `ListingSource` | abstract: what a listing cache may answer | the server's versions, the floor below which no answer may fall | `Answer`, `Invalidate`, `ServerChange`, `Tick` |
| `DirCache` | `webfs-cache.c` | `slots`, `tick` are `DirCache`; `pending` is the request a fetch waits for | `FetchHit`, `FetchMiss`+`ServerLists`+`FetchFill`/`FetchFail` are `dir_cache_fetch`; `Invalidate` is `dir_cache_invalidate`; every lookup sweeps |
| `DirCacheProofs` | theorems about `DirCache` | | |
| `MountFile` | `webfs-file.c` over the JSON protocol and `xfer-server.py` | `fh` is the `AxlFsProviderFile` of each handle, `cached` the listings held, `fs` the server's tree | one action per callback and outcome: `OpenRoot/Found/Refused/Create`, `ReadHit/Miss/Error`, `Write`, `WriteFails`, `Flush`, `Close`, `Seek`, `Rewind`, `Del`, `SetInfo`, `GetInfo`, `LoadSnapshot`, `ReadDir`; `Forget` and `OthersChange` are the surroundings |
| `MountFileProofs` | theorems about `MountFile` | | |
| `AtomicPut` | abstract: what the sender of a PUT is promised | the resources, the requests | `Receive`, `Store`, `Refuse`, `OthersChange` |
| `PutUpload` | `handle_put_chunk`, `put_end`, `webfs_put_*` | `put` is the `m_put_*` statics; `file`, `dirs` the volume; `req` what each connection has sent and been answered | `ChunkCall`, `BusyCall`, `FinalCall`, `AbortCall`; `OthersChange`, `OthersMakeDir`, `OthersRemoveDir` are /dav and others |
| `PutUploadProofs` | theorems about `PutUpload` | | |
| `ServeDigest` | `handle_get_path`, `get_streamer_*`, the digest cache, `handle_delete_path`, `dav_digest`, `dav_remove`, `dav_move` | `cache` is `m_digest_cache`; `stream` the `GetStreamerCtx` of each download with the headers it was sent with; `upload` the `WebfsPut` of each PUT; `file` the volume | `Get`, `GetHeaders`, `Pull`, `Hangup`; `PutOpen/Write/Commit/Discard`; `DavRemove`, `RestDelete`, `DavMove` (`Rename`, `HalfMove`), `MoveDir`; `Forget` is expiry and eviction, `LocalWrite` a program of the shell |
| `ServeDigestProofs` | theorems about `ServeDigest` | | |
| `DavListing` | `proto_list_dir` and `dav_entry_emit` of `webfs-protocol-dav.c` | the reader: `inside` is its `in_` flags, `cur` and `snapshot` the `DavEntry` and `propstat_snapshot`, `text` what it gathers, `out` the listing; the server: where in its answer it is and what the answer has said | the server writes the answer token by token and the reader takes each as it comes: `Write*` start an element (`Start`), `WriteText` is its text (`ReadText`), `WriteEnd`, `EndWritePropstat`, `EndWriteResponse` end one (`End`, `EndPropstat`, `EndResponse`), `EndWrite` and `BreakOff` end the document, `ListAgain` is the next call |
| `DavListingProofs` | theorems about `DavListing` | | |
| `Texts` | operators on sequences of characters | | |
| `VolumePath` | the paths clients send: `parse_volume_path`, `parse_dav_path`, `ft_path_components_ok`, `dav_live_temp`, `dav_hidden_child`, with what UEFI and FAT make of a path | `path` is the path of a request | `PathGrows` makes every path a client can send; the rest are functions of a text |
| `DigestClaim` | `content_digest_claim`, `digest_value_hex`, with the list read entry by entry | `header` is the header as far as it has been read, `scan` the locals of the loop | `HeaderGrows` is one turn of the loops over its characters, and makes every header |
| `DirListing` | `ft_list_dir` and its filling of a buffer, `dav_list_dir` | `dir` is what the volume has returned, `out` the buffer with its position, `array` the entries of `dav_list_dir`; `visible`, `bare` are histories | `ListEntry` is one turn of either loop; `Closed` what comes after it |
| `TextsProofs` | theorems about `VolumePath`, `DirListing`, `DigestClaim` and `HrefPath` | | |
| `HrefPath` | `parse_url`'s share path and `href_to_mount_path`, with RFC 3986 resolution | `href` is an href of a listing, `url` the path of the URL | `HrefGrows` and `UrlGrows` make every one; the rest are functions of a text |
| `ClientView` | abstract: the volume as clients are promised to see it | `seen` is what there is under each path, `request` of each PUT in flight its target, the name kept for its body and the directory made for it | `BeginPut`, `RefusePut`, `CompletePut`, `AbandonPut`; `MakeDirectory`, `Delete`, `Move`, `Read`; `PowerLoss` |
| `LiveTemps` | the REST handlers and the `AxlWebDavOps` on one volume while PUTs are in flight | `tree` is the volume; `put` the `m_put_*` statics and the `WebfsPut` of each /dav PUT, with where the SDK has registered its temp and where the file really is | `PutOpen`, `PutRefused`, `PutCommit`, `PutDiscard`; `RestDelete`, `RestMkdir`; `DavRemove`, `DavMkdir`, `DavMove`; `PowerLoss`. `RestGet`, `DavStat`, `Listing`, `DavList` are what the reads answer; /dav has nothing of a volume without a root |
| `ServeLifecycle` | `serve_setup`, `enable_tls`, `serve_teardown`, `webfs_dav_register`/`unregister` around `LiveTemps` | `held` is what has been acquired, `stage` the step that is next | one action per step, its failure an action of its own; `Serve` is a request of `LiveTemps`; `AbortUpload` what freeing the server does |
| `ServeLifecycleProofs` | theorems about `ServeLifecycle` and, through it, `LiveTemps` | | |
| `MountLifecycle` | `webfs_mount_handler`, `mount_setup`, `mount_teardown`, `webfs_umount_handler` | `held` is what `WebFsPrivate` holds, `tried` the probes made | one action per step; `SetupFails`; `ProbeAnswers`, `ProbeFails`; `Open`..`Close` are the callbacks; `ForceClose`, `Unpublished`, `Free` the teardown |
| `MountLifecycleProofs` | theorems about `MountLifecycle` | | |
| `MC*` | instances for TLC | | |

`DirCache` and `MountFile` meet at three operators.  `MountFile` uses the cache
as `Fetched`, `Invalidated` and `Forget`: a listing held may vanish at any
moment, which covers expiry and eviction for any number of slots, and how stale
it may be is `DirCache`'s question.  `PutUpload` and `AtomicPut` are related by
`Promise == INSTANCE AtomicPut`, `DirCache` and `ListingSource` by
`Promise == INSTANCE ListingSource WITH Bound <- TTL + Latency`.  `ServeDigest`
takes an upload as `PutUpload` shows it from outside: a body that grows out of
sight (or in sight, in place) until it is committed or discarded, by any number
of connections at once, since /dav has a context per connection.  `LiveTemps`
takes it the same way and looks at what is around it: the temp, its directory and
the requests that name them.  `ServeLifecycle` extends `LiveTemps`; `LiveTemps` and
`ClientView` are related by `View == INSTANCE ClientView` with `seen` the answers of a
GET and `request` the PUTs in flight without the whereabouts of their files.  `VolumePath` shows for one fixed volume what `LiveTemps` assumes of paths: that
under every spelling a path that is accepted goes through a live temp exactly if
`dav_live_temp` says so.  `MCTexts` runs `VolumePath`, `DirListing`, `DigestClaim` and
`HrefPath` side by side, one growing at a time.

**Abstractions.**  A listing in `DirCache` is the version of the directory it
was taken from.  A digest is the content it is the digest of, so a mismatch is
exactly a difference.  Names are model values; case folding is the constant
`Fold`, and where two entries match a name without regard to case the first one
listed is taken, which is a choice in the model because the server's order is
not fixed.  The staging buffer and the read-ahead are sequences of bytes.  The
digest state of a handle is `want`, `active` or `off`: `off` stands for a digest
never offered, given up or refused, between which no step distinguishes.  In `ServeDigest` a file's name is a path and a letter case; the
volume takes two cases for one file, as FAT does, the cache for two keys.  What
becomes of an open handle whose file is replaced, renamed or overwritten is FAT's
business and external.  A directory is the files in it: an empty one is not told
from none.  In `DavListing` a text is two halves, which come in one token or in two;
hrefs are sorted by what `href_to_mount_path` and `href_basename` make of them (the
directory itself, a child, elsewhere in the share, foreign, too long, unreadable); a
length is its digits; elements the reader has no flag for are not written, since it
does nothing at them, but an href inside one is; the displayname, which is only
logged, is gathered and then forgotten.  In `VolumePath`, `DigestClaim` and
`HrefPath` a text is a sequence of the characters that decide something and of runs of
others; percent-encoding is left where it decides ("%2F", "%00", an escape that cannot be
read) and decoded elsewhere; a digest is the word that spells it, readable or not.  In
`DirListing` an entry is its length.  In `LiveTemps` a file is whole, a temp in flight or a temp
left behind, and a name either has a temp's shape or has not; the SDK may choose any free
name of that shape.  In the lifecycles a resource is held or not.  A
histories-only variable (`hist`, `foreign`, `side`, `retired`, `floor`,
`answered`, `maker`, `visible`, `bare`) is read by no guard.

**Left out of the modelled parts.**  Root deletion and a `set_info` that changes
no name (they do nothing), `volume_info` (constants), names too long for their
buffers of the mount's callbacks (refused before any effect), timestamps and attributes, the
wording and markup of answers, the request events published for the console, and the checks of
a request's credentials and method, which are functions of one request and keep no state.

## 3. Runs

Every property of a passing run has a mutant in `PROJECT.json`: a plausible bug
(defined beside the original as a "seeded fault") under which the property
fails.

| Run | Instance | What it shows |
|---|---|---|
| `dir_cache` | 3 directories, 2 slots, TTL 1, latency 1, clock to 3, 4 hand-outs | `OneSlotPerPath`, `SlotsHonest`, `EvictsLeastRecentlyUsed`, and that the cache implements `ListingSource`: an answer is at most TTL + latency old |
| `mount_file` | 1 path, files up to 2 bytes of 2 values, read-ahead and staging buffer of 2, all five faults of a request, and memory that runs out | `NoFalseAlarm`, `CorruptionCaught`, `ReadAheadCoherent`, `FlushedWhole` |
| `mount_tree` | 2 directories that can take each other's name, a file in each, answers lost | `OwnChangesListed` through creates, deletes and renames |
| `put_upload` | 2 requests, 2 resources in one directory that may be missing, bodies of up to 2 chunks, all failures but that of deleting a temp | `HeldByTheSender`, `TempIsSent`, `FailedLeavesNoDirectory`, and that the PUT implements `AtomicPut` |
| `put_in_place` | 2 requests for 1 resource in a directory that may be missing, bodies of up to 2 chunks, a backend that may write in place and fail to restore, fairness | `PartialIsTold`, and `StateFreed`: the state is always let go |
| `serve_digest` | 1 directory, 2 names, files up to 2 bytes of 2 values, 1 upload, 1 download, room for 1 or 2 bytes at a pull | `DigestIsOfFile`, `BodyIsTheSlice` where files change by uploads to temps, moves and deletes of files |
| `serve_any_change` | 2 directories that can be moved, 1 name, files up to 2 bytes of 1 value, uploads in place, moves that stop half way, local writes | `BodyFitsLength`, `DigestFitsSize`, which hold however files change |
| `dav_listing` | one href of each kind, 2 lengths, a cap of 2 entries, names and hrefs whole or in two tokens, no bound on the answer | `ListingIsTheAnswer`, `RefusedForCause` |
| `texts` | every path of 4 characters, and 3 more behind a volume's name, headers of 6 words, directories of 4 entries, hrefs of 4 (and 4 behind a host or the share), URL paths of 6; buffers of a few characters | `SurfacesAgreeOnPaths`, `PathsNameWhatTheySpell`, `LiveTempsAreTold`, `StrongestClaimIsChecked`, `ListingsAreWhole`, `HrefsAreResolved`, `AcceptedSharesAreFound` |
| `service` | 6 paths: two directories, a name for a temp in each and beside them, a file; one REST and one /dav PUT in flight; a power loss anywhere; fairness of the teardown | `TempsStay`, `TempsAreNoResource`, `NothingIsLeft`, `UploadsAreServed`, `StoppedIsClean`, `StopEnds`, and that the service implements `ClientView` (`ClientsSeeWholeRequests`) |
| `mount_lifecycle` | 2 files, all three protocol options, any server at any time; fairness of setup and teardown | `CallsFindTheMount`, `MountedOrClean`, `ProtocolAnswered`, `CommandsEnd` |
| `flush_composes` | as `mount_file` | the finding of section 6 |

**Why the bounds are enough.**  *Directory cache:* two slots for three
directories force an eviction among live slots; the latency of 1 on top of a TTL of 1
distinguishes "age from the request" from "age from the reply", and a clock to 3
lets a listing outlive both; versions and the clock are capped by the guards of
`ServerChange` and `Tick`, hand-outs by `MaxTick`.  *Mount file:* the
read-ahead covers a file partly (a first read of one byte fills it) or wholly,
and with two bytes reads can be in order, out of order, repeated or short.  Two
byte values tell any content from any other of its length.  One handle is
enough for these properties because each is about one handle and everything a
second handle could do to the first goes through the server, where
`OthersChange` does more; what a second handle does to the shared cache is
dropping and filling listings, which `Forget` and `GetInfo` do.  *Mount tree:*
two directories at the root exercise every rename of an empty, a full and a
replaced directory; the content of files is irrelevant to a listing but for its
size, so files are empty.  *PUT:* two requests are one holder and one refused,
the refused one may become the holder later; two chunks are a body cut in the
middle.  *Downloads:* a digest goes wrong by one key and one writer, and a body by
one handle and one change, which the second name lets come from another file; two
bytes make a slice that is neither the start nor the whole of its file and can be
sent in two pieces, and two values make two contents of one size.  The properties
of `serve_any_change` count bytes and do not compare them, so one value will do.
*Texts:* the readers go from left to right and forget all but the part they are in, so a
part of two characters, with something before and after it, has every case of a first, a middle
and a last; four characters behind a volume's name make two components with the characters that
are trimmed or split at in every place, and buffers of a few characters are exceeded by one and
by more.  A header of six words has two entries with values, in either order, or three without.
*Service:* one PUT of each surface is every pair of kinds; one more of a kind would only be
another file with a temp.  Two directories are needed for a MOVE of one into the place of the
other, one file for a temp's target that is not a temp's name.  *Mount lifecycle:* files only
differ in whether they are closed.
*WebDAV listing:* responses to one another are told apart only by what a previous one
left in the reader, so a cap of 2 with one child that may be listed again has every case of
"the first", "another" and "one too many"; two lengths tell a length kept from one
overwritten, and the number of propstats and properties is not bounded.

**Reductions.**  `VIEW AllButReply` and `VIEW Namespace` leave variables out of the
fingerprint that no guard, no assignment to other variables and no property of
that run reads: the last status, and in `mount_tree` the handle histories too.
`FlushedWhole` reads `reply'` of the step itself,
never `reply` of the state.  The symmetry sets permute byte values, file and
directory names, requests, resources, uploads and downloads; no formula names a particular one, and no
symmetric run checks liveness.  The constraints of `mount_tree` keep the volume
writable, the tree two levels deep, and directory reads short.  `CHECK_DEADLOCK`
is on everywhere but in `texts`, which stops where the texts are as long as they get: others
can always change something, a handle be opened, a listing begun again, a service started.

**Fairness.**  Three runs assume some.  `service`: weak fairness of `serve_teardown` once it
has begun, and `mount_lifecycle`: of `mount_setup` and `mount_teardown`; each is one call, which
the framework runs to its end, and what it waits for is bounded by the SDK's timeouts.  That a
stop or an umount is asked for, and that a volume is ever used, is not assumed.  `put_in_place`:
weak fairness of
`req[r].stage = "sending" /\ Ended(r)` for every request, that is, the SDK ends
every upload it has begun by exactly one of the two terminal calls
(`webfs-serve.c:653-660`), at the latest when the connection times out.  Nothing
is assumed of a request that has not begun, of senders or of other users.

## 4. Proofs

TLAPS checks these for every value of the constants.

**`DirCacheProofs`** — `TypeCorrect`, `InvHolds`, `OneSlotPerPathHolds`,
`SlotsHonestHolds`, `Implements` (`Spec => ImplementsListingSource`).  The
inductive invariant is `TypeOK /\ OneSlotPerPath /\ SlotsHonest` strengthened by
`RequestInv` (no slot has the path being fetched, and a request in flight is at
most `Latency` old) and `FloorReached` (only versions the server has had are
promised).  `RequestInv` is what makes `OneSlotPerPath` inductive: without it a
fill could duplicate a path.  `Implements` then needs only that a live slot is
no older than TTL when it is handed out (the lookup has swept it otherwise) and
that it was honest at its stamp.  `EvictsLeastRecentlyUsedHolds` rests on an invariant of its
own, `StampsToldHolds`: a live slot's use stamp is the number of the hand-out in which its
directory was last answered.  Assumed of the constants: at least one slot,
natural TTL and latency, `NoPath` not a directory.

**`MountFileProofs`** — `InvHolds`, `TypeCorrect`, `NoFalseAlarmHolds`, `CorruptionCaughtHolds`,
`ReadAheadCoherentHolds`, `FlushedWholeHolds` and `OwnChangesListedHolds`, for any handles, paths,
names and bytes, any size of the buffers and any faults.  Each of the first four properties is
about the end of something (a close, a flush, a read of the read-ahead) to which every callback in
between has contributed, so none is inductive.  The invariant says of every open handle that
what is staged is what is owed (`StagedIsOwed`), that while the reads follow one another the bytes
heard are the bytes summed and end where the next read begins (`HeardIsSummed`), that of a file
nobody else has changed the read-ahead and the summed bytes are parts and the digest is its own
(`SteadyIsHad`), and that a read-ahead with no write since is part of the file and its handle has
nothing to upload (`CleanIsHad`).  A handle may think its file longer than it is, after a
write that is not flushed, which is why these speak of parts (`IsPart`) and of lengths only in one
direction.  The proof has one lemma per callback about the handle it is called on, and one
about every other handle, which a step reaches only through the server's tree.  `OwnChangesListed`
is proved from what a step does to a listing held: it is left alone, dropped or fetched, and
the listings of the directories of all acknowledged paths are dropped.  Assumed of the constants:
paths are closed under prefixes (`PathAssumption`), sizes are natural and a PUT is no larger
than a file may be (`SizeAssumption`), faults are known ones.

**`PutUploadProofs`** — `InvHolds`, `TypeCorrect`, `HeldByTheSenderHolds`,
`TempIsSentHolds`, `FailedLeavesNoDirectoryHolds`, `PartialIsToldHolds` and
`KeepsPromiseHolds` (the handler implements `AtomicPut`, if `InPlace \subseteq
{FALSE}`).  `TempIsSent` is not inductive alone: the invariant also says that the
statics either are cleared or serve one request (`HeldState`, with the write's
path, backend mode and expected digest), that the state is that of the sending
request (`HeldByTheSender`), that a request that has not begun has sent nothing
(`RequestsFresh`), and that a directory a live request made, and nobody has
remade, is the one the statics remember (`MadeIsRemembered`).  The atomicity
proof maps chunk calls to `Receive`, a final call answered 201 to `Store` and
every other end to `Refuse`.  Assumed: `NoRequest` is no request
(`webfs-serve.c:893-897` refuses id 0), a claim is at most one digest.

**`ServeDigestProofs`** — `FitsHolds`, `BodyFitsLengthHolds` and
`DigestFitsSizeHolds` hold whatever changes the files.  Their invariant, `Fits`,
is about sizes: contents are bounded, a handle has sent and has still to send its
slice between them, a kept digest is of the size it is kept with.
`DigestIsOfFileHolds` and `BodyIsTheSliceHolds` assume `ReplacedOnly`: no upload
in place, no half move, no directory moved, no local write, one spelling of a path.
Their invariant, `Honest`, adds to `Fits` that every slot is right about its file
(`Right`), that an open handle finds the bytes its headers were made from
(`AllFaithful`), that uploads go to temps (`ToTemps`) and that a path has one
content (`Single`).  Each clause of `ReplacedOnly` is needed: what
becomes of dropping one is in section 5 or 6 or, for half moves and local writes, a digest that is stale
until its entry expires, which nothing in the code could prevent for a local
program.

**`DavListingProofs`** — `InvHolds`, `TypeCorrect`, `ListingIsTheAnswerHolds` and
`RefusedForCauseHolds`, for answers of any length with any hrefs, lengths and cap.  None
of the properties is inductive: they speak of the end of a document and everything that
makes them true happens in the middle.  The invariant says, for every place in the answer
(`Reading`), that the flags set are those of the elements open there (`InsideIsWhere`), that
what was gathered and what is still to come make up the element's text (`TextIsRead`), that
`propstat_ok` is what the status read so far says (`StatusIsRead`), and that the entry holds
what the finished propstats said plus what the open one says, the snapshot the former alone
(`EntryIsTold`); and that listing, `saw_self` and troubles so far agree (`SoFar`).  Assumed
(`Plain`): properties hold no href but their resource's own, which is finding 4, and a
status or a length comes in one token (section 5).

**`MountLifecycleProofs`** — `InvHolds`, `TypeCorrect`, `CallsFindTheMountHolds`,
`MountedOrCleanHolds` and `ProtocolAnsweredHolds`, for any set of files.  The properties speak of
a mounted volume and of the end of a command; what makes them true is what holds at the steps
between, so the invariant says what has been acquired at each step (`HeldIsByStage`: the failure
of a step releases exactly that), which steps can find a file open (`OpenIsPublished`: with the
umount's order reversed this is what breaks) and which probes were made (`TriedIsByStage`, which
keeps the next probe within the list of them).  Nothing is assumed.

**`ServeLifecycleProofs`** — `InvHolds`, `TypeCorrect`, `TempsStayHolds`,
`TempsAreNoResourceHolds`, `NothingIsLeftHolds`, `UploadsAreServedHolds`, `StoppedIsCleanHolds` and
`ClientsSeeWholeRequestsHolds` (a service of any length implements `ClientView`), for any tree of
paths, any names and any uploads.  `TempsStay` is not inductive: that a
MOVE or DELETE of a directory spares the temp in it needs the temp to be where it is registered
(`TempsInPlace`), every path of the tree to have directories all the way up to the root (`Rooted`;
one level is not enough, since a directory may be moved with all that is below it), the registered
temps of two uploads to differ (`TempsAreOwn`) and their names to have the shape that makes
`dav_live_temp` look at them (`PartsAreTemps`).  For the lifecycle it says what is held at each
step (`HeldIsByStage`, which the steps of TLS and of registration need for the server too, not only
those after them) and that an upload in flight has a service that runs or is being
freed (`InFlightIsServed`).  `UploadsAreServedHolds` has two parts: from the invariant an upload in
flight has its server, filter and, if it has a temp, root; and no step that leaves one in flight
releases these or the digest cache (`StepKeepsServer`, from the stages a PUT can be in flight in).
The refinement maps every step to one request of `ClientView` or none, with `seen` what a GET
answers and `request` what `put` has of targets, temps and made directories.  `PutOpen` is a
`BeginPut`: the temp takes a name that is free, where nothing is seen, and from then on `Free` and
`Busy` forbid every other request to touch that name or take its directory away.  `PutCommit` is a `CompletePut` and
`PutDiscard` an `AbandonPut`.  What is seen of a PUT before it is complete is the directory a REST
PUT makes (`webfs-serve.c:908-919`), which `ClientView` has as an exception; that it goes again
exactly when nothing is seen in it and no other PUT keeps a name in it is `GoingIsSeen`.  A file
under a temp's name turns up by `PowerLoss` alone.  Assumed: `~CarriesOpen` (section 5 says what happens otherwise) and that paths are closed
under prefixes.

**`TextsProofs`** — `SurfacesAgreeOnAll` and `NamesWhatItSpellsOnAll`, of every text over any
names, and with them `SurfacesAgreeHolds` and `PathsNameHolds`; and `ListingsAreWholeHolds`, of a
directory of any size.  A text is taken apart without recursion: the parts of a text are the pieces
after its separators in their order, the k-th of which is the one with k - 1 before it (`Nth`).
That there is exactly one (`NthIs`) follows from the least number of a set, and with it what
`Split` and `NonEmpty` return (`SplitParts`, `NonEmptyParts`).  The surfaces differ in the order
of their checks, in the path of a bare volume and in how they bound lengths; they agree because a
text too long for the REST buffer is too long for its volume as well.  For
`NamesWhatItSpells` the separators of the volume ("/", "\\", ":") and of the check ("/") cut an
accepted path at the same places (`SplitDependsOnWhatOccurs`), none of its parts is changed by
trimming (`NothingIsTrimmed`), and so dropping empty ones drops the same (`CleanPathOnVolume`).  Of
a listing the invariant (`ListInv`) says that the loop goes on only while more than the margin
is left, that nothing has been cut while no entry was longer than the margin allows, that
what is shown is a prefix of what is visible, the whole of it unless the room was used up, and that
both listings equal those of the directory without its hidden entries.

`LiveTempsAreToldHolds` is the third theorem about paths: under every spelling that is accepted,
`dav_live_temp` and `dav_hidden_child` tell a live temp exactly if the volume opens one there.  They
look at the path as it is composed up to some part, cut at a buffer's end, so the proof needs that a
path composed of the parts of an accepted one splits into these parts again
(`AcceptedPathIs`, `HiddenChildIs`), which is an induction over the parts.

What is computed one part at a time (`Joined`, `Normal`) is a recursive function.  That there is one is `RecursionExists`; what holds of it for every text is proved from
the shortest text that is an exception, which is a least number (`TextInduction`).  `Append`
and concatenation have names of the proof's own there (`Grown`, `Cat`, `One`), whose few laws are
proved once, since the provers fare better with a name than with a sequence's definition.

`StrongestClaimHolds`, of a header of any number of entries: the scan forgets every entry at its
end, while the property splits the whole header.  The invariant (`HeaderInv`) says
that the entries before the one under way are those of the header so far and have been judged rightly
(`Judged`), and that the scan's algorithm, value and place are those of the part behind the last comma; a comma, a
"=", a blank or a word each keep it.

`HrefsAreResolvedHolds` and `AcceptedSharesHold`, of an href, a URL, a directory and a share path of
any length.  The code resolves dots in the composed text and then compares its front with
the share's base character by character; the property compares segments.  They agree because the
segments of a resolved path are again those it was made of (no segment holds a separator), and a
base without dot or empty segments is a front of a path at a "/" exactly if its segments are a front
of the path's.  For the second, an accepted URL decodes to such a base, whatever it holds, and
each spelling of a child's href resolves to the base, the directory and the child.

Assumed of the constants: names are none of the characters that decide something, a volume has
a name shorter than the path buffer, 16 bytes in 512 (`NameAssumption`), live temps are on the volume
under a temp's name (`TempAssumption`), the closing text fits the margin and the margin the buffer (`ListingAssumption`), the words
of a header are no separators and the two algorithms differ (`WordAssumption`), chunks and schemes are
neither characters that decide something nor each other, directories and children have plain names
(`HrefAssumption`), and the base of a share is one that `parse_url` accepts (`ShareAssumption`).

**Only model-checked**: `StateFreed`, `StopEnds` and `CommandsEnd`, which are liveness.  Every
invariant, action property and refinement that a passing run checks has a theorem.

## 5. What the properties do and do not promise

* `NoFalseAlarm` excuses a handle during whose life the file changed on the
  server, the handle's own mid-stream flush included.
* `ReadAheadCoherent` excuses a handle whose write has failed: `webfs_write` has by then marked it
  dirty, but not given up the read-ahead (section 6).
* `OwnChangesListed` excuses a path that others changed, whose request's answer
  was lost, or that a request changed in passing (parents a PUT made, the
  contents of a renamed directory) until its directory is listed again.  The error
  paths of a flush and of a rename drop no listing (`webfs-file.c:419`), so nothing is shown
  of the time between a lost answer and the next listing.  In `mount_tree` files are empty; that the
  upload of a flush drops the listing is shown by the theorem.
* `FlushedWhole` is about one flush; that two flushes compose is false
  (section 6).
* `FailedLeavesNoDirectory` and the atomicity run assume that deleting a temp
  succeeds; a temp that stays keeps its directory, which `put_end` then leaves
  and logs.
* `DigestIsOfFile` and `BodyIsTheSlice` are about files that are replaced, moved
  and deleted through the server.  A same-size write by a local program is served
  with the old digest for up to five minutes, the life of a cache entry.
* `DigestIsOfFile` also assumes one spelling of a path and uploads to temps.  The
  cache's key is the path as the client spelled it (`webfs-serve.c:296`): a PUT to
  `/fs0/A` changes the file of `/fs0/a` and drops the digest of `/fs0/A` only.  A digest
  taken while a write in place is under way is kept when the file is put back
  (`webfs-dav.c:498`), and the REST DELETE keeps that of the file it deletes
  (`webfs-serve.c:1033`), unlike its siblings; a later upload's commit drops it.
* `put_end` takes back a directory by its name (`webfs-serve.c:848`, for `:693`).  When the
  PUT made it, its open failed, and others removed and remade it while the body was
  coming in, the empty directory removed is theirs.
* `ListingIsTheAnswer` is for statuses and lengths that come in one token: of one split
  by a comment or a CDATA section the last token counts
  (`webfs-protocol-dav.c:462-489`).  A status of the response itself, outside any
  propstat, and several hrefs in one response are not in the model.
* The model's server honours a Range.  `webfs-protocol-dav.c:620` takes the first bytes of
  a 200, at any offset, for those asked for.
* Of the listings `LiveTempsAreTold` assumes that the path of the directory, as it was spelled, leaves room
  for the name: `dav_hidden_child` composes both in 512 bytes and looks up what is left of it
  (`webfs-dav.c:242-245`).
* `ListingsAreWhole` assumes entries no longer than the margin of 256 bytes allows
  (`dir-list.c:355`): next to the closing text of the page with the upload button an entry's name
  may have about two dozen characters, on a read-only page some seventy, in JSON some two hundred.
  After a longer one at the end of a full buffer the closing text is cut, or the entry.  That a
  listing was cut short at its end is not said in it.
* `ListingsAreWhole` also assumes that what comes before the entries leaves more than the margin of the
  buffer free.  In JSON that is one byte.  A page has a breadcrumb for every component of
  its path, each with a link as long as the path so far (`dir-list.c:236-255`), and those of a
  very deep directory come to more than the buffer holds: the page is then cut before its
  first entry, or after one.  The proof asked for this premise; no test goes so deep.
* `TempsAreNoResource` says that the two surfaces agree on a volume that has a root.  Where
  `webfs_dav_register` could make none, /dav finds and lists nothing (`webfs-dav.c:138-139`) while
  the REST surface goes on serving; no PUT can be opened there, so there is no temp to hide.
* `UploadsAreServed` does not say that there is a digest cache: `serve_setup` goes on without one.
  It says that a cache there is stays until the last PUT has ended.
* `TempsAreNoResource`, `TempsStay` and `ClientsSeeWholeRequests` assume that the volume refuses
  to move a directory in which a file is open (`CarriesOpen = FALSE`).  On one that does not,
  a MOVE carries the temp to a path the SDK does not know it by, where it shows until the PUT ends
  (`webfs-dav.c:627-632` looks at the paths it is given); with the constant set to TRUE the run
  finds it in four steps.
* `HrefsAreResolved` leaves encoded separators out: `href_to_mount_path` takes "%2F" for a
  separator.  `StrongestClaimIsChecked` takes no quoted string in a parameter for one: a comma in
  it ends the entry (`webfs-serve.c:800`).
* A setup of `serve` that fails leaves its log attached and its digest cache allocated
  (`webfs-serve.c:1196-1249`), as `StoppedIsClean` says; the driver is unloaded then.
* Bytes that are staged when an umount closes their file are uploaded by that close; if the
  server is gone the umount still ends, and the close's status has nobody to go to.
* A download of a file that is overwritten while it is sent has the length its
  header says or breaks off, but may mix the two contents.
* `docs/Design.md:235,290` says that writes go to the server at once and are not
  cached; the code stages them until flush or close (`webfs-file.c:431-467`), as
  `webfs-internal.h:75-90` explains.  The model follows the code.

## 6. Findings

1. **`FlushComposes`** (`webfs-file.c:407`, run `flush_composes`).  A flush uploads the bytes written
   since the previous flush as the whole file.  Write, flush, write, close leaves
   only the second write on the server, with success reported throughout;
   `webfs-internal.h:85-86` promises "the full composed body".

Four more disagreements have no run of their own; the properties that hold assume them away by a
constant or exclude them:

2. An open that may create takes a listing that could not be fetched for one without the entry,
   and PUTs an empty body over the existing file (`webfs-file.c:132-159`); `docs/Design.md:225`
   describes the listing as the check that the file exists.  `OpenKeepsExisting` of `MountFile`
   states it, and TLC refutes it on the instance of `mount_file`.
3. `dav_move` drops the digests of the two paths it is given (`webfs-dav.c:634`); those of the files
   below a moved directory stay, under their old paths, and a file that comes to such a path with
   the size the other had is answered with the other's digest.  `DigestIsOfFile` fails in
   `serve_digest` with two directories in `Movable`.
4. An href counts wherever in a response it stands (`webfs-protocol-dav.c:439`).  One inside a
   property, such as an owner's in `lockdiscovery`, with an address on another host marks the entry
   foreign, and the file is missing from a listing that is returned as whole; lines 16-17 say that
   such properties are skipped.  `ListingIsTheAnswer` fails in `dav_listing` with a foreign href in
   `Held`.
5. The first write of a handle makes it dirty (`webfs-file.c:440-447`) before the size limit is looked
   at and memory for more is asked for (lines 450-460).  If that write is refused the staging buffer
   is empty and dirty, and the flush or close that follows PUTs it over the file: the caller was told
   that nothing was written, the file is emptied, and the close reports success.
   `docs/Design.md:227` has a close flush "any buffered PUT body", of which there is none.
   `EmptyBufferIsNotSent` of `MountFile` states it, and TLC refutes it on the instance of `mount_file`.
   The read-ahead is not given up either (line 465 is not reached), so that a read after
   the flush may return bytes of the file as it was.  The proof of `ReadAheadCoherent` did not
   go through without an excuse for that.

## 7. Plan

Left for later: the rest of `webfs-cache.c` (the digest header the mount reads) and `dav_list_dir`'s
caller; the requests of the WebDAV protocol that read and write files, which `MountFile` takes as
those of the JSON protocol.

Not modelled: the upload page (a constant), the test scripts (they drive the program), option
parsing, credentials and the method filter (functions of one request), the SDK but for what the
code relies on.
