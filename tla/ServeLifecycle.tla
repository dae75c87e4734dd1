--------------------------- MODULE ServeLifecycle ---------------------------
(***************************************************************************)
(* axl-webfs serve from its start to its stop: serve_setup and             *)
(* serve_teardown of src/serve/webfs-serve.c, enable_tls, and              *)
(* webfs_dav_register and webfs_dav_unregister of src/serve/webfs-dav.c,   *)
(* around the requests of LiveTemps, which the loop of the service serves  *)
(* in between.                                                             *)
(***************************************************************************)
EXTENDS LiveTemps

VARIABLES
  stage,  \* the step that is next
  held    \* what has been acquired and not been released

serveVars == <<tree, put, stage, held>>

Resource == {"log", "digests", "server", "roots", "filter", "loop", "printer"}

ServeTypeOK ==
  /\ TypeOK
  /\ stage \in {"off", "prepare", "server", "tls", "register", "start", "subscribe", "up",
                "stopping", "unregister", "release", "failed"}
  /\ held \subseteq Resource

Step(from, to) == stage = from /\ stage' = to

Idle == UNCHANGED <<tree, put>>

-----------------------------------------------------------------------------
(* serve_setup, where any step may fail; nothing is served meanwhile.      *)

(***************************************************************************)
(* A log that cannot be opened is done without.                            *)
(***************************************************************************)
AttachLog == Step("off", "prepare") /\ held' \in {held, held \cup {"log"}} /\ Idle

(***************************************************************************)
(* The network, the volumes, and the cache of digests, which may be NULL.  *)
(***************************************************************************)
Prepare == Step("prepare", "server") /\ held' \in {held, held \cup {"digests"}} /\ Idle

PrepareFails == Step("prepare", "failed") /\ UNCHANGED held /\ Idle

NewServer == Step("server", "tls") /\ held' = held \cup {"server"} /\ Idle

NewServerFails == Step("server", "failed") /\ UNCHANGED held /\ Idle

EnableTls == Step("tls", "register") /\ UNCHANGED held /\ Idle

EnableTlsFails == Step("tls", "failed") /\ held' = held \ {"server"} /\ Idle

(***************************************************************************)
(* The volume may be left without a root.                                  *)
(***************************************************************************)
Register ==
  /\ Step("register", "start")
  /\ held' \in {held \cup {"filter"}, held \cup {"filter", "roots"}} /\ Idle

Start == Step("start", "subscribe") /\ UNCHANGED held /\ Idle

StartFails == Step("start", "failed") /\ held' = held \ {"server", "filter", "roots"} /\ Idle

Subscribe == Step("subscribe", "up") /\ held' = held \cup {"loop", "printer"} /\ Idle

Setup ==
  \/ AttachLog \/ Prepare \/ PrepareFails \/ NewServer \/ NewServerFails \/ EnableTls
  \/ EnableTlsFails \/ Register \/ Start \/ StartFails \/ Subscribe

(***************************************************************************)
(* A setup that fails is not torn down (external: the service framework);  *)
(* the driver is unloaded.                                                 *)
(***************************************************************************)
Unload == Step("failed", "off") /\ held' = {} /\ Idle

-----------------------------------------------------------------------------
(* Serving.                                                                *)

(***************************************************************************)
(* On a volume without a root no PUT can be opened, and /dav has none of   *)
(* it.                                                                     *)
(***************************************************************************)
Serve ==
  /\ stage = "up"
  /\ \/ "roots" \in held /\ (DavNext \/ \E u \in Upload : PutNext(u))
     \/ "roots" \notin held /\ PutDiscard("rest")
     \/ RestNext
  /\ UNCHANGED <<stage, held>>

-----------------------------------------------------------------------------
(* serve_teardown.                                                         *)

\* Seeded fault: /dav is unregistered before the server is freed.
StopEventsUnregistered ==
  Step("up", "stopping") /\ held' = held \ {"loop", "printer", "filter", "roots"} /\ Idle

StopEvents == Step("up", "stopping") /\ held' = held \ {"loop", "printer"} /\ Idle

(***************************************************************************)
(* axl_http_server_free: the PUTs in flight are aborted (external).        *)
(***************************************************************************)
AbortUpload ==
  /\ stage = "stopping" /\ (\E u \in Upload : PutDiscard(u)) /\ UNCHANGED <<stage, held>>

FreeServer ==
  Step("stopping", "unregister") /\ InFlight = {} /\ held' = held \ {"server"} /\ Idle

Unregister == Step("unregister", "release") /\ held' = held \ {"filter", "roots"} /\ Idle

\* Seeded fault: the cache of digests is kept.
ReleaseLogOnly == Step("release", "off") /\ held' = held \ {"log"} /\ Idle

Release == Step("release", "off") /\ held' = held \ {"digests", "log"} /\ Idle

Teardown == StopEvents \/ AbortUpload \/ FreeServer \/ Unregister \/ Release

(***************************************************************************)
(* Power is lost at any time.                                              *)
(***************************************************************************)
Crash == PowerLoss /\ stage' = "off" /\ held' = {}

-----------------------------------------------------------------------------

ServeInit == Init /\ stage = "off" /\ held = {}

ServeNext == Setup \/ Unload \/ Serve \/ Teardown \/ Crash

(***************************************************************************)
(* A teardown is one call, which the framework runs to its end.            *)
(***************************************************************************)
ServeSpec ==
  ServeInit /\ [][ServeNext]_serveVars /\ WF_serveVars(Teardown /\ stage # "up")

-----------------------------------------------------------------------------

(***************************************************************************)
(* "While a PUT is in flight its temp is no resource, on either surface"   *)
(* (docs/Design.md): both surfaces find and list exactly what is there     *)
(* except the bodies still coming in; so the temp is told apart from a     *)
(* file a client has named like one, and from what a power loss left, and  *)
(* the two surfaces never disagree, but on a volume without a root, of     *)
(* which /dav has nothing.                                                 *)
(***************************************************************************)
TempsAreNoResource ==
  LET rooted == "roots" \in held IN
  /\ \A p \in Path : LET there == tree[p] \notin {"none", "part"}
                     IN  RestGet(p) = there /\ DavStat(rooted, p) = (rooted /\ there)
  /\ \A dir \in Path \cup {<<>>} :
       LET children == {p \in Children(dir) : tree[p] # "part"}
       IN  Listing(dir) = children /\ DavList(rooted, dir) \in {children, {}}

(***************************************************************************)
(* A PUT in flight has all it needs until it ends: the server that calls   *)
(* its handler, the root its temp is registered with and the filter that   *)
(* hides the temp; and what the service has of these, and the cache its    *)
(* commit drops a digest from, is not released while it is.                *)
(* serve_teardown frees the server, and with it aborts the uploads, before *)
(* it unregisters /dav and frees the cache.  A PUT without a root was      *)
(* refused and has no temp; a service may do without the cache.            *)
(***************************************************************************)
HasServer(u) == {"server", "filter"} \subseteq held /\ (put[u].temp # <<>> => "roots" \in held)

KeepsServer ==
  InFlight' # {} => held \cap {"server", "filter", "roots", "digests"} \subseteq held'

UploadsAreServed == [](\A u \in InFlight : HasServer(u)) /\ [][KeepsServer]_serveVars

(***************************************************************************)
(* When serve has stopped, everything it acquired is released, and of the  *)
(* PUTs the stop interrupted there is nothing on the volume.  A setup that *)
(* fails at any step leaves nothing that the server could be called        *)
(* through ("the service framework doesn't call teardown on a failed       *)
(* setup", webfs-serve.c); the log and the cache of digests it does leave. *)
(***************************************************************************)
StoppedIsClean ==
  /\ stage = "off" => held = {} /\ InFlight = {} /\ \A p \in Path : tree[p] # "part"
  /\ stage = "failed" => held \subseteq {"log", "digests"}

(***************************************************************************)
(* A stop ends, however many PUTs are in flight when it begins.            *)
(***************************************************************************)
StopEnds == stage = "stopping" ~> stage = "off"
=============================================================================
