---------------------------- MODULE UnblockCore ----------------------------
(***************************************************************************)
(* The core of unblockneteasemusic: files that update.sh downloads, from   *)
(* the button of status.js, from cron and from start_service when the core *)
(* is missing.  flock on a file keeps two updates apart, and the Remove    *)
(* button deletes that file with the core.  The downloads of the           *)
(* precompiled files are one step, those of the certificates another.      *)
(***************************************************************************)
EXTENDS Naturals, FiniteSets

CONSTANTS
    MaxVersion,   \* bound: versions published upstream are 1..MaxVersion
    MaxLost,      \* bound: network calls that fail
    MaxClicks     \* bound: clicks on the page, cron runs and service starts

ASSUME VersionsAssumption == MaxVersion \in Nat

Jobs == {"page", "cron", "init"}
None == 0
Empty == MaxVersion + 1     \* app.js, or a certificate, is empty
Partial == MaxVersion + 2   \* app.js is there and another file is not
Short == MaxVersion + 3     \* all files are there and one is cut short

VARIABLES
    core,     \* [dir, app, certs]: the directory and the versions in it, or
              \* what an update made of them
    local,    \* core_local_ver
    latest,   \* the version upstream
    lock,     \* which file $LOCK names; a removed one is never the same again
    jobs,     \* job -> [pc, ver, lock]
    serving,  \* the service runs
    told,     \* the description under the update button
    version,  \* the version on the page: [text, read]
    removing, \* the Remove button waits for its call
    lost, listLost, removals, clicks

coreVars == <<core, local, latest, lock, jobs, serving, told, version, removing,
              lost, listLost, removals, clicks>>

Off == [pc |-> "idle", ver |-> None, lock |-> 0]
Working(j) == jobs[j].pc # "idle"
Held == {jobs[j].lock : j \in {k \in Jobs : Working(k)}}

(*-------------------------------- update.sh -----------------------------*)
FaultyTakeLock(j) == jobs' = [jobs EXCEPT ![j] = [pc |-> "check", ver |-> None, lock |-> lock]]

\* exec 200>"$LOCK"; flock -n 200
TakeLock(j) ==
    /\ lock \notin Held
    /\ jobs' = [jobs EXCEPT ![j] = [pc |-> "check", ver |-> None, lock |-> lock]]

Lose == lost < MaxLost /\ lost' = lost + 1

GoTo(j, pc) == jobs' = [jobs EXCEPT ![j].pc = pc]

Usable(app) == app \notin {None, Empty}

\* The page tells how its own update ended and reads the version again;
\* start_service goes on after its update with any app.js that is there.
Exit(j, outcome, app) ==
    /\ jobs' = [jobs EXCEPT ![j] = Off]
    /\ told' = IF j = "page" THEN outcome ELSE told
    /\ version' = IF j = "page" THEN [version EXCEPT !.read = TRUE] ELSE version
    /\ serving' = IF j = "init" THEN Usable(app) ELSE serving

Stay == UNCHANGED <<told, version, serving>>

check_core_latest_version(j) ==
    /\ jobs[j].pc = "check"
    /\ \/ Lose /\ Exit(j, "failed", core.app) /\ UNCHANGED core
       \/ local = latest /\ Exit(j, "latest", core.app) /\ UNCHANGED <<core, lost>>
       \/ /\ local # latest
          /\ jobs' = [jobs EXCEPT ![j] = [@ EXCEPT !.pc = "list", !.ver = latest]]
          /\ core' = [dir |-> TRUE, app |-> None, certs |-> None]
          /\ Stay /\ UNCHANGED lost
    /\ UNCHANGED <<local, latest, lock, removing, listLost, removals, clicks>>

\* A list of files that does not come is an empty one.
list_precompiled(j) ==
    /\ jobs[j].pc = "list"
    /\ \/ GoTo(j, "app") /\ UNCHANGED <<lost, listLost>>
       \/ Lose /\ GoTo(j, "certs") /\ listLost' = TRUE
    /\ UNCHANGED <<core, local, latest, lock, serving, told, version, removing, removals, clicks>>

\* wget -O fails without the directory.  The update looks at the size of the
\* file and not at the status of wget: it ends at an empty file and goes on
\* with one cut short.
Download(j, part, next) ==
    /\ \/ core.dir /\ core' = [core EXCEPT ![part] = jobs[j].ver] /\ GoTo(j, next)
          /\ Stay /\ UNCHANGED lost
       \/ core.dir /\ Lose /\ core' = [core EXCEPT ![part] = Short] /\ GoTo(j, next) /\ Stay
       \/ /\ core.dir /\ Lose
          /\ \E left \in {Empty, Partial} : core' = [core EXCEPT ![part] = left]
          /\ Exit(j, "failed", core'.app)
       \/ ~core.dir /\ Exit(j, "failed", None) /\ UNCHANGED <<core, lost>>
    /\ UNCHANGED <<local, latest, lock, removing, listLost, removals, clicks>>

FaultyDownloadApp(j) ==
    /\ jobs[j].pc = "app"
    /\ \/ Download(j, "app", "certs")
       \/ /\ core.dir /\ Lose /\ core' = [core EXCEPT !.app = Empty] /\ GoTo(j, "certs")
          /\ Stay /\ UNCHANGED <<local, latest, lock, removing, listLost, removals, clicks>>

download_app(j) == jobs[j].pc = "app" /\ Download(j, "app", "certs")

download_certs(j) == jobs[j].pc = "certs" /\ Download(j, "certs", "finish")

(*------------------------------ the service -----------------------------*)
\* start_service starts a core that is there; for a missing one it runs
\* update.sh and looks again.  The rm of "local_ver" names no file.
StartCore(held) ==
    IF Usable(core.app) THEN serving' = TRUE /\ UNCHANGED jobs
    ELSE /\ serving' = FALSE
         /\ IF lock \in held \/ Working("init") THEN UNCHANGED jobs
            ELSE jobs' = [jobs EXCEPT !["init"] = [pc |-> "check", ver |-> None, lock |-> lock]]

start_service ==
    /\ ~serving /\ ~Working("init") /\ clicks < MaxClicks /\ clicks' = clicks + 1
    /\ StartCore(Held)
    /\ UNCHANGED <<core, local, latest, lock, told, version, removing, lost, listLost, removals>>

finish_update(j) ==
    /\ jobs[j].pc = "finish"
    /\ local' = jobs[j].ver /\ GoTo(j, "restart")
    /\ UNCHANGED <<core, latest, lock, serving, told, version, removing, lost, listLost, removals,
                   clicks>>

\* Unless start_service runs it, an update restarts the service, under its own
\* lock; procd lets one script of the service run at a time.
restart_service(j) ==
    /\ jobs[j].pc = "restart" /\ j # "init" /\ ~Working("init")
    /\ LET missing == ~Usable(core.app) IN
       /\ serving' = ~missing
       /\ jobs' = [jobs EXCEPT
             ![j].pc = "wait",
             !["init"] = IF missing /\ lock \notin Held
                         THEN [pc |-> "check", ver |-> None, lock |-> lock] ELSE @]
    /\ UNCHANGED <<core, local, latest, lock, told, version, removing, lost, listLost, removals,
                   clicks>>

end_update(j) ==
    /\ \/ j = "init" /\ jobs[j].pc = "restart"
       \/ jobs[j].pc = "wait" /\ ~Working("init")
    /\ Exit(j, "updated", core.app)
    /\ UNCHANGED <<core, local, latest, lock, removing, lost, listLost, removals, clicks>>

(*-------------------------------- status.js -----------------------------*)
\* The update button, off while its call runs; a busy lock is told at once.
update_core ==
    /\ ~Working("page") /\ clicks < MaxClicks /\ clicks' = clicks + 1
    /\ \/ TakeLock("page") /\ Stay
       \/ lock \in Held /\ Exit("page", "busy", core.app)
    /\ UNCHANGED <<core, local, latest, lock, removing, lost, listLost, removals>>

\* The line start_service adds to crontab.
cron_update ==
    /\ ~Working("cron") /\ clicks < MaxClicks /\ clicks' = clicks + 1
    /\ TakeLock("cron")
    /\ UNCHANGED <<core, local, latest, lock, serving, told, version, removing, lost, listLost,
                   removals>>

clickRemove ==
    /\ ~removing /\ clicks < MaxClicks /\ clicks' = clicks + 1
    /\ removing' = TRUE
    /\ UNCHANGED <<core, local, latest, lock, jobs, serving, told, version, lost, listLost,
                   removals>>

\* remove_core stops the service and deletes the lock an update may hold.
remove_core ==
    /\ removing /\ removing' = FALSE
    /\ core' = [dir |-> FALSE, app |-> None, certs |-> None] /\ local' = None
    /\ lock' = lock + 1 /\ removals' = removals + 1 /\ serving' = FALSE
    /\ version' = [version EXCEPT !.read = TRUE]
    /\ UNCHANGED <<latest, jobs, told, lost, listLost, clicks>>

\* cfgvalue of _core_version; an empty app.js is a file too.
check_version ==
    /\ version.read
    /\ \/ /\ version' = [text |-> IF local = None \/ core.app = None THEN "missing"
                                  ELSE "installed", read |-> FALSE]
          /\ UNCHANGED lost
       \/ Lose /\ version' = [text |-> "error", read |-> FALSE]
    /\ UNCHANGED <<core, local, latest, lock, jobs, serving, told, removing, listLost, removals,
                   clicks>>

Published ==
    /\ latest < MaxVersion /\ latest' = latest + 1
    /\ UNCHANGED <<core, local, lock, jobs, serving, told, version, removing, lost, listLost,
                   removals, clicks>>
-----------------------------------------------------------------------------
CoreInit ==
    /\ core = [dir |-> FALSE, app |-> None, certs |-> None] /\ local = None /\ latest = 1
    /\ lock = 1 /\ jobs = [j \in Jobs |-> Off] /\ serving = FALSE
    /\ told = "none" /\ version = [text |-> "none", read |-> TRUE] /\ removing = FALSE
    /\ lost = 0 /\ listLost = FALSE /\ removals = 0 /\ clicks = 0

JobStep(j) ==
    \/ check_core_latest_version(j) \/ list_precompiled(j) \/ download_app(j)
    \/ download_certs(j) \/ finish_update(j) \/ restart_service(j)
    \/ end_update(j)

CoreNext ==
    \/ \E j \in Jobs : JobStep(j)
    \/ start_service \/ update_core \/ cron_update \/ clickRemove \/ remove_core
    \/ check_version \/ Published
-----------------------------------------------------------------------------
(* Properties *)

\* flock keeps two updates from writing the core at once, wherever they were
\* started from, as long as nobody has ever removed the core, and the lock
\* file with it: a removal with no update at work is left out too.
OneDownload ==
    removals = 0 => Cardinality({j \in Jobs : jobs[j].pc \in {"list", "app", "certs", "finish"}}) <= 1

\* An update ends with "already the latest" on the word of core_local_ver
\* alone, so what it names must be there, nothing of it missing, empty or of
\* another version, after any failed, repeated or overtaken update.  A file
\* cut short is noted as good, and so is a core without its list of files or
\* removed during an update: the code repairs none of these.
TrustedVersion ==
    /\ local = latest /\ removals = 0 /\ ~listLost
    /\ \A j \in Jobs : ~Working(j)
    => {core.app, core.certs} \subseteq {local, Short}
=============================================================================
