--------------------------- MODULE MountLifecycle ---------------------------
(***************************************************************************)
(* axl-webfs mount from the command to the umount: webfs_mount_handler and *)
(* webfs_umount_handler of src/app/cmd-mount.c, mount_setup and            *)
(* mount_teardown of src/mount/webfs-mount.c.  MountFile has what the      *)
(* callbacks of the mounted volume do; of them this module keeps that they *)
(* need what mount_setup acquired, and that a close uploads what was       *)
(* staged.                                                                 *)
(***************************************************************************)
EXTENDS Naturals, Sequences

CONSTANT File   \* the files that can be open

VARIABLES
  stage,     \* the step that is next
  held,      \* what has been acquired and not been released
  config,    \* the protocol the user asks for
  speaks,    \* the protocols the server answers now
  tried,     \* the probes that have been made
  protocol,  \* the protocol that was chosen
  file       \* each file: closed, open, or open with bytes staged

vars == <<stage, held, config, speaks, tried, protocol, file>>

Protocol == {"dav", "json"}

TypeOK ==
  /\ stage \in {"out", "url", "net", "client", "auth", "cache", "probe", "publish", "mounted",
                "unpublish", "free"}
  /\ held \subseteq {"priv", "http_client", "dir_cache", "fs_handle"}
  /\ config \in {"auto", "dav", "json"} /\ speaks \subseteq Protocol
  /\ tried \in Seq(Protocol) /\ Len(tried) <= 2 /\ protocol \in Protocol
  /\ file \in [File -> {"closed", "open", "staged"}]

Step(from, to) == stage = from /\ stage' = to

Acquire(r) == held' = held \cup {r}

Elsewhere == UNCHANGED <<config, speaks, tried, protocol, file>>

(***************************************************************************)
(* A failed step releases what the steps before it acquired.               *)
(***************************************************************************)
Fails(from, released) == Step(from, "out") /\ held' = held \ released /\ Elsewhere

-----------------------------------------------------------------------------
(* mount_setup.                                                            *)

(***************************************************************************)
(* The command starts the service only if it does not run.                 *)
(***************************************************************************)
Mount ==
  /\ Step("out", "url") /\ Acquire("priv")
  /\ config' \in {"auto", "dav", "json"} /\ tried' = <<>> /\ protocol' = "json"
  /\ UNCHANGED <<speaks, file>>

ParseUrl == Step("url", "net") /\ UNCHANGED held /\ Elsewhere

InitNet == Step("net", "client") /\ UNCHANGED held /\ Elsewhere

NewClient == Step("client", "auth") /\ Acquire("http_client") /\ Elsewhere

SetAuth == Step("auth", "cache") /\ UNCHANGED held /\ Elsewhere

NewDirCache == Step("cache", "probe") /\ Acquire("dir_cache") /\ Elsewhere

\* Seeded fault: without a directory cache the client is kept.
SetupFailsKeepingClient ==
  \/ \E from \in {"url", "net", "client", "cache"} : Fails(from, {"priv"})
  \/ Fails("auth", {"http_client", "priv"})
  \/ Fails("publish", {"dir_cache", "http_client", "priv"})

(***************************************************************************)
(* A URL or credentials that are refused, no network, no memory, no handle *)
(* for the volume.                                                         *)
(***************************************************************************)
SetupFails ==
  \/ \E from \in {"url", "net", "client"} : Fails(from, {"priv"})
  \/ \E from \in {"auth", "cache"} : Fails(from, {"http_client", "priv"})
  \/ Fails("publish", {"dir_cache", "http_client", "priv"})

Probes == IF config = "auto" THEN <<"dav", "json">> ELSE <<config>>

(***************************************************************************)
(* The next protocol in turn is probed; the first that answers is taken.   *)
(***************************************************************************)
ProbeAnswers ==
  /\ Step("probe", "publish") /\ Probes[Len(tried) + 1] \in speaks
  /\ tried' = Append(tried, Probes[Len(tried) + 1])
  /\ protocol' = Probes[Len(tried) + 1]
  /\ UNCHANGED <<held, config, speaks, file>>

\* Seeded fault: the last probe's answer is not looked at.
ProbeFailsUnseen ==
  /\ stage = "probe" /\ Probes[Len(tried) + 1] \notin speaks
  /\ tried' = Append(tried, Probes[Len(tried) + 1])
  /\ stage' = IF Len(tried') < Len(Probes) THEN "probe" ELSE "publish"
  /\ UNCHANGED <<held, config, speaks, protocol, file>>

\* Seeded fault: the probes are made over and over.
ProbeFailsAnew ==
  /\ stage = "probe" /\ Probes[Len(tried) + 1] \notin speaks
  /\ tried' = IF Len(tried) + 1 < Len(Probes) THEN Append(tried, Probes[Len(tried) + 1]) ELSE <<>>
  /\ UNCHANGED <<stage, held, config, speaks, protocol, file>>

ProbeFails ==
  /\ stage = "probe" /\ Probes[Len(tried) + 1] \notin speaks
  /\ tried' = Append(tried, Probes[Len(tried) + 1])
  /\ IF Len(tried') < Len(Probes) THEN UNCHANGED <<stage, held>>
     ELSE stage' = "out" /\ held' = held \ {"dir_cache", "http_client", "priv"}
  /\ UNCHANGED <<config, speaks, protocol, file>>

Publish == Step("publish", "mounted") /\ Acquire("fs_handle") /\ Elsewhere

-----------------------------------------------------------------------------
(* The mounted volume.                                                     *)

Set(f, state) ==
  file' = [file EXCEPT ![f] = state] /\ UNCHANGED <<stage, held, config, speaks, tried, protocol>>

Open(f) == stage = "mounted" /\ file[f] = "closed" /\ Set(f, "open")

Write(f) == stage = "mounted" /\ file[f] = "open" /\ Set(f, "staged")

Flush(f) == stage = "mounted" /\ file[f] = "staged" /\ Set(f, "open")

Close(f) == stage = "mounted" /\ file[f] # "closed" /\ Set(f, "closed")

(***************************************************************************)
(* The server (external) starts, stops, or becomes another.                *)
(***************************************************************************)
ServerChanges ==
  speaks' \in SUBSET Protocol /\ UNCHANGED <<stage, held, config, tried, protocol, file>>

-----------------------------------------------------------------------------
(* mount_teardown: first the volume is unpublished, which closes the files *)
(* that are open.                                                          *)

\* Seeded fault: the client is freed first.
UnmountFreeingClient == Step("mounted", "unpublish") /\ held' = held \ {"http_client"} /\ Elsewhere

Unmount == Step("mounted", "unpublish") /\ UNCHANGED held /\ Elsewhere

ForceClose(f) == stage = "unpublish" /\ file[f] # "closed" /\ Set(f, "closed")

Unpublished ==
  /\ Step("unpublish", "free") /\ \A f \in File : file[f] = "closed"
  /\ held' = held \ {"fs_handle"} /\ Elsewhere

Free == Step("free", "out") /\ held' = held \ {"dir_cache", "http_client", "priv"} /\ Elsewhere

-----------------------------------------------------------------------------

Init ==
  /\ stage = "out" /\ held = {} /\ config = "auto" /\ speaks = {} /\ tried = <<>>
  /\ protocol = "json" /\ file = [f \in File |-> "closed"]

Setup ==
  \/ ParseUrl \/ InitNet \/ NewClient \/ SetAuth \/ NewDirCache \/ SetupFails
  \/ ProbeAnswers \/ ProbeFails \/ Publish

Use == \E f \in File : Open(f) \/ Write(f) \/ Flush(f) \/ Close(f)

Teardown == (\E f \in File : ForceClose(f)) \/ Unpublished \/ Free

Next == Mount \/ Setup \/ Use \/ ServerChanges \/ Unmount \/ Teardown

(***************************************************************************)
(* A setup and a teardown are each one call, which the framework runs to   *)
(* its end; the probes and the uploads in them are bounded by the timeouts *)
(* of the HTTP client.                                                     *)
(***************************************************************************)
Spec == Init /\ [][Next]_vars /\ WF_vars(Setup) /\ WF_vars(Teardown)

-----------------------------------------------------------------------------

(***************************************************************************)
(* As long as a file is open, to be closed by its owner or by the umount,  *)
(* what its callbacks use is there: "Unpublish first" (webfs-mount.c).     *)
(***************************************************************************)
CallsFindTheMount ==
  (\E f \in File : file[f] # "closed") => {"priv", "http_client", "dir_cache"} \subseteq held

(***************************************************************************)
(* A mount that failed at any step, and one that was undone, has released  *)
(* all it acquired, and what is mounted has all of it.                     *)
(***************************************************************************)
MountedOrClean ==
  /\ stage = "out" => held = {}
  /\ stage = "mounted" => held = {"priv", "http_client", "dir_cache", "fs_handle"}

(***************************************************************************)
(* A volume is published only with a protocol that was probed and answered *)
(* just before, and with JSON when both were allowed only after WebDAV had *)
(* not answered; whatever a mount before this one used.                    *)
(***************************************************************************)
ProtocolAnswered ==
  [][stage = "probe" /\ stage' = "publish" =>
       /\ protocol' \in speaks /\ config \in {"auto", protocol'}
       /\ config = "auto" /\ protocol' = "json" => tried = <<"dav">>]_vars

(***************************************************************************)
(* Every mount command ends with a mounted volume or with nothing, and     *)
(* every umount with nothing, with or without a server.                    *)
(***************************************************************************)
CommandsEnd ==
  /\ stage = "url" ~> stage \in {"mounted", "out"}
  /\ stage = "unpublish" ~> stage = "out"
=============================================================================
