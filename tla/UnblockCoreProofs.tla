------------------------- MODULE UnblockCoreProofs -------------------------
(***************************************************************************)
(* The updates of the unblockneteasemusic core: OneDownload and            *)
(* TrustedVersion, for any number of versions, lost calls, clicks, cron    *)
(* runs and service starts.                                                *)
(*                                                                         *)
(* While the lock file has not been deleted, every update holds the same   *)
(* lock, so at most one is at work; and while it is between emptying the   *)
(* core and noting the version, the noted version is older than the one it *)
(* fetches (CoreInv).                                                      *)
(***************************************************************************)
EXTENDS LuciPages, FiniteSetTheorems, TLAPS

\* The stages in which an update writes the core, and all of them.
Writing == {"list", "app", "certs", "finish"}
Stages == {"idle", "check", "restart", "wait"} \cup Writing

CoreType ==
    /\ jobs \in [Jobs -> [pc : Stages, ver : Nat, lock : Nat]]
    /\ core \in [dir : BOOLEAN, app : Nat, certs : Nat]
    /\ local \in Nat /\ latest \in Nat /\ lock \in Nat /\ removals \in Nat

\* One lock, and one update that holds it.
LockInv ==
    removals = 0 =>
      /\ \A j \in Jobs : Working(j) => jobs[j].lock = lock
      /\ \A j, k \in Jobs : Working(j) /\ Working(k) => j = k

\* What a download that was not given up leaves of a version.
Got(part, ver) == part = ver \/ part = Short

\* What an update has fetched so far, and what is there when none is fetching.
Fetching(j) ==
    /\ jobs[j].pc \in Writing => local < jobs[j].ver /\ jobs[j].ver <= latest
    /\ jobs[j].pc \in {"certs", "finish"} => Got(core.app, jobs[j].ver)
    /\ jobs[j].pc = "finish" => Got(core.certs, jobs[j].ver)

FetchInv ==
    removals = 0 /\ ~listLost =>
      /\ local <= latest
      /\ \A j \in Jobs : Fetching(j)
      /\ local = latest /\ (\A j \in Jobs : jobs[j].pc \notin Writing) =>
           Got(core.app, local) /\ Got(core.certs, local)

CoreInv == CoreType /\ LockInv /\ FetchInv

\* The variables CoreInv is about.
kept == <<core, local, latest, lock, jobs, listLost, removals>>

-----------------------------------------------------------------------------
LEMMA Unchanged == ASSUME CoreInv, UNCHANGED kept PROVE CoreInv'
BY DEF kept, CoreInv, CoreType, LockInv, FetchInv, Fetching, Working

\* While one update is at work, the others are not.
LEMMA Alone ==
  ASSUME CoreInv, NEW j \in Jobs, Working(j), removals = 0,
         NEW k \in Jobs, k # j
  PROVE  jobs[k].pc = "idle"
BY DEF CoreInv, LockInv, Working

\* An update that exits gives its lock back; one that had begun to write
\* leaves an older version noted.
LEMMA JobEnds ==
  ASSUME CoreInv, NEW j \in Jobs, Working(j), jobs' = [jobs EXCEPT ![j] = Off],
         UNCHANGED <<local, latest, lock, listLost, removals>>,
         core' \in [dir : BOOLEAN, app : Nat, certs : Nat],
         core' = core \/ jobs[j].pc \in Writing
  PROVE  CoreInv'
<1>1. /\ jobs \in [Jobs -> [pc : Stages, ver : Nat, lock : Nat]]
      /\ local \in Nat /\ latest \in Nat /\ lock \in Nat /\ removals \in Nat
  BY DEF CoreInv, CoreType
<1>2. jobs'[j].pc = "idle" /\ \A k \in Jobs \ {j} : jobs'[k] = jobs[k]
  BY <1>1 DEF Off
<1>3. CoreType'
  BY <1>1 DEF CoreType, Off, Stages, None
<1>4. LockInv'
  BY <1>2 DEF CoreInv, LockInv, Working
<1>5. FetchInv'
  <2> SUFFICES ASSUME removals = 0, ~listLost
               PROVE  /\ local <= latest
                      /\ \A k \in Jobs : Fetching(k)'
                      /\ local = latest => Got(core'.app, local) /\ Got(core'.certs, local)
    BY DEF FetchInv
  <2>1. local <= latest /\ Fetching(j)
    BY DEF CoreInv, FetchInv
  <2>2. \A k \in Jobs : jobs'[k].pc = "idle"
    BY <1>2, Alone
  <2>3. \A k \in Jobs : Fetching(k)'
    BY <2>2 DEF Fetching, Writing
  <2>4. CASE jobs[j].pc \in Writing
    <3>1. local < latest
      BY <1>1, <2>1, <2>4 DEF Fetching
    <3> QED
      BY <1>1, <2>1, <2>3, <3>1
  <2>5. CASE jobs[j].pc \notin Writing
    <3>1. \A k \in Jobs : jobs[k].pc \notin Writing
      BY <2>5, Alone DEF Writing
    <3>2. core' = core
      BY <2>5
    <3> QED
      BY <2>1, <2>3, <3>1, <3>2 DEF CoreInv, FetchInv
  <2> QED
    BY <2>4, <2>5
<1> QED
  BY <1>3, <1>4, <1>5 DEF CoreInv

\* An update that starts finds the lock free.
LEMMA JobStarts ==
  ASSUME CoreInv, NEW j \in Jobs, ~Working(j), lock \notin Held,
         jobs' = [jobs EXCEPT ![j] = [pc |-> "check", ver |-> None, lock |-> lock]],
         UNCHANGED <<core, local, latest, lock, listLost, removals>>
  PROVE  CoreInv'
<1>1. /\ jobs \in [Jobs -> [pc : Stages, ver : Nat, lock : Nat]]
      /\ lock \in Nat
  BY DEF CoreInv, CoreType
<1>2. /\ jobs'[j].pc = "check" /\ jobs'[j].lock = lock
      /\ \A k \in Jobs \ {j} : jobs'[k] = jobs[k]
  BY <1>1
<1>3. CoreType'
  BY <1>1 DEF CoreInv, CoreType, Stages, None
<1>4. LockInv'
  <2> SUFFICES ASSUME removals = 0
               PROVE  /\ \A k \in Jobs : jobs'[k].pc # "idle" => jobs'[k].lock = lock
                      /\ \A k, l \in Jobs : jobs'[k].pc # "idle" /\ jobs'[l].pc # "idle"
                           => k = l
    BY DEF LockInv, Working
  <2>1. \A k \in Jobs : ~Working(k)
    BY DEF CoreInv, LockInv, Held
  <2> QED
    BY <1>2, <2>1 DEF Working
<1>5. FetchInv'
  <2> SUFFICES ASSUME removals = 0, ~listLost
               PROVE  /\ local <= latest
                      /\ \A k \in Jobs : Fetching(k)'
                      /\ local = latest /\ (\A k \in Jobs : jobs'[k].pc \notin Writing)
                           => Got(core.app, local) /\ Got(core.certs, local)
    BY DEF FetchInv
  <2>1. jobs[j].pc \notin Writing /\ jobs'[j].pc \notin Writing
    BY <1>2 DEF Working, Writing
  <2>2. \A k \in Jobs : Fetching(k)'
    BY <1>2, <2>1 DEF CoreInv, FetchInv, Fetching, Writing
  <2> QED
    BY <1>2, <2>1, <2>2 DEF CoreInv, FetchInv
<1> QED
  BY <1>3, <1>4, <1>5 DEF CoreInv

\* An update that goes on keeps its lock.
LEMMA JobGoesOn ==
  ASSUME CoreInv, NEW j \in Jobs, Working(j),
         NEW r \in [pc : Stages, ver : Nat, lock : Nat],
         jobs' = [jobs EXCEPT ![j] = r], r.pc # "idle", r.lock = jobs[j].lock,
         core' \in [dir : BOOLEAN, app : Nat, certs : Nat], local' \in Nat,
         UNCHANGED <<latest, lock, removals>>,
         ASSUME removals = 0, ~listLost' PROVE ~listLost,
         ASSUME removals = 0, ~listLost',
                local <= latest, Fetching(j),
                jobs[j].pc \notin Writing /\ local = latest =>
                  Got(core.app, local) /\ Got(core.certs, local)
         PROVE  /\ local' <= latest
                /\ Fetching(j)'
                /\ local' = latest /\ r.pc \notin Writing =>
                     Got(core'.app, local') /\ Got(core'.certs, local')
  PROVE  CoreInv'
<1>1. /\ jobs \in [Jobs -> [pc : Stages, ver : Nat, lock : Nat]]
      /\ latest \in Nat /\ lock \in Nat /\ removals \in Nat
  BY DEF CoreInv, CoreType
<1>2. jobs'[j] = r /\ \A k \in Jobs \ {j} : jobs'[k] = jobs[k]
  BY <1>1
<1>3. CoreType'
  BY <1>1 DEF CoreType
<1>4. LockInv'
  BY <1>2 DEF CoreInv, LockInv, Working
<1>5. FetchInv'
  <2> SUFFICES ASSUME removals = 0, ~listLost'
               PROVE  /\ local' <= latest
                      /\ \A k \in Jobs : Fetching(k)'
                      /\ local' = latest /\ (\A k \in Jobs : jobs'[k].pc \notin Writing)
                           => Got(core'.app, local') /\ Got(core'.certs, local')
    BY DEF FetchInv
  <2>0. ~listLost
    OBVIOUS
  <2>1. \A k \in Jobs \ {j} : jobs[k].pc = "idle"
    BY Alone
  <2>2. /\ local <= latest /\ Fetching(j)
        /\ jobs[j].pc \notin Writing /\ local = latest =>
             Got(core.app, local) /\ Got(core.certs, local)
    BY <2>0, <2>1 DEF CoreInv, FetchInv, Writing
  <2>3. /\ local' <= latest /\ Fetching(j)'
        /\ local' = latest /\ r.pc \notin Writing =>
             Got(core'.app, local') /\ Got(core'.certs, local')
    BY <2>2
  <2>4. \A k \in Jobs \ {j} : Fetching(k)'
    BY <1>2, <2>1 DEF Fetching, Writing
  <2> QED
    BY <1>2, <2>3, <2>4
<1> QED
  BY <1>3, <1>4, <1>5 DEF CoreInv

-----------------------------------------------------------------------------
\* The types the actions need.
LEMMA Types ==
  ASSUME CoreInv, NEW j \in Jobs
  PROVE  /\ jobs \in [Jobs -> [pc : Stages, ver : Nat, lock : Nat]]
         /\ jobs[j] \in [pc : Stages, ver : Nat, lock : Nat]
         /\ core \in [dir : BOOLEAN, app : Nat, certs : Nat]
         /\ local \in Nat /\ latest \in Nat /\ lock \in Nat /\ removals \in Nat
         /\ None \in Nat /\ Empty \in Nat /\ Partial \in Nat /\ Short \in Nat
BY VersionsAssumption DEF CoreInv, CoreType, None, Empty, Partial, Short

LEMMA ExitOK ==
  ASSUME CoreInv, NEW j \in Jobs, Working(j), NEW outcome, NEW app,
         Exit(j, outcome, app),
         UNCHANGED <<local, latest, lock, listLost, removals>>,
         core' \in [dir : BOOLEAN, app : Nat, certs : Nat],
         core' = core \/ jobs[j].pc \in Writing
  PROVE  CoreInv'
BY JobEnds DEF Exit

\* The version noted is older than the one upstream when the core is emptied.
LEMMA CheckOK ==
  ASSUME CoreInv, NEW j \in Jobs, check_core_latest_version(j)
  PROVE  CoreInv'
<1>1. Working(j) /\ UNCHANGED <<local, latest, lock, listLost, removals>>
  BY DEF check_core_latest_version, Working
<1>2. CASE core' = core /\ (Exit(j, "failed", core.app) \/ Exit(j, "latest", core.app))
  BY <1>1, <1>2, Types, ExitOK
<1>3. CASE /\ local # latest
           /\ jobs' = [jobs EXCEPT ![j] = [@ EXCEPT !.pc = "list", !.ver = latest]]
           /\ core' = [dir |-> TRUE, app |-> None, certs |-> None]
  <2> DEFINE r == [jobs[j] EXCEPT !.pc = "list", !.ver = latest]
  <2>1. /\ r \in [pc : Stages, ver : Nat, lock : Nat]
        /\ r.pc = "list" /\ r.ver = latest /\ r.lock = jobs[j].lock
    BY Types DEF Stages, Writing
  <2>2. jobs' = [jobs EXCEPT ![j] = r]
    BY <1>3, Types
  <2> HIDE DEF r
  <2>3. jobs'[j] = r /\ core' \in [dir : BOOLEAN, app : Nat, certs : Nat] /\ local' \in Nat
    BY <1>1, <1>3, <2>2, Types
  <2>4. local <= latest => Fetching(j)'
    <3>1. local <= latest => local' < r.ver /\ r.ver <= latest'
      BY <1>1, <1>3, <2>1, Types
    <3> QED
      BY <2>1, <2>3, <3>1 DEF Fetching, Writing
  <2>5. r.pc \in Writing
    BY <2>1 DEF Writing
  <2> QED
    BY <1>1, <2>1, <2>2, <2>3, <2>4, <2>5, JobGoesOn
<1> QED
  BY <1>2, <1>3 DEF check_core_latest_version

LEMMA ListOK ==
  ASSUME CoreInv, NEW j \in Jobs, list_precompiled(j)
  PROVE  CoreInv'
<1>1. /\ Working(j) /\ jobs[j].pc = "list"
      /\ UNCHANGED <<core, local, latest, lock, removals>>
      /\ \/ GoTo(j, "app") /\ listLost' = listLost
         \/ GoTo(j, "certs") /\ listLost' = TRUE
  BY DEF list_precompiled, Working
<1> PICK pc \in {"app", "certs"} :
      /\ GoTo(j, pc)
      /\ \/ pc = "app" /\ listLost' = listLost
         \/ pc = "certs" /\ listLost' = TRUE
  BY <1>1
<1> DEFINE r == [jobs[j] EXCEPT !.pc = pc]
<1>2. /\ r \in [pc : Stages, ver : Nat, lock : Nat]
      /\ r.pc = pc /\ r.ver = jobs[j].ver /\ r.lock = jobs[j].lock
  BY Types DEF Stages, Writing
<1>3. jobs' = [jobs EXCEPT ![j] = r]
  BY Types DEF GoTo
<1> HIDE DEF r
<1>4. jobs'[j] = r /\ core' \in [dir : BOOLEAN, app : Nat, certs : Nat] /\ local' \in Nat
  BY <1>1, <1>3, Types
<1>5. ~listLost' /\ Fetching(j) => Fetching(j)'
  BY <1>1, <1>2, <1>4 DEF Fetching, Writing
<1>6. r.pc \in Writing
  BY <1>2 DEF Writing
<1>7. ~listLost' => ~listLost
  OBVIOUS
<1>8. r.pc # "idle" /\ local' = local /\ UNCHANGED <<latest, lock, removals>>
  BY <1>1, <1>2
<1> QED
  BY <1>1, <1>2, <1>3, <1>4, <1>5, <1>6, <1>7, <1>8, JobGoesOn

\* A download that is given up ends the update with an older version noted; one
\* that goes on has left the version or a file cut short.
LEMMA DownloadOK ==
  ASSUME CoreInv, NEW j \in Jobs,
         \/ jobs[j].pc = "app" /\ Download(j, "app", "certs")
         \/ jobs[j].pc = "certs" /\ Download(j, "certs", "finish")
  PROVE  CoreInv'
<1> PICK part \in {"app", "certs"}, next \in {"certs", "finish"} :
      /\ jobs[j].pc = part /\ Download(j, part, next)
      /\ part = "app" <=> next = "certs"
  OBVIOUS
<1>1. /\ Working(j) /\ jobs[j].pc \in Writing
      /\ UNCHANGED <<local, latest, lock, listLost, removals>>
  BY DEF Working, Writing, Download
<1>2. ASSUME NEW got \in {jobs[j].ver, Short},
             core' = [core EXCEPT ![part] = got], GoTo(j, next)
      PROVE  CoreInv'
  <2> DEFINE r == [jobs[j] EXCEPT !.pc = next]
  <2>1. /\ r \in [pc : Stages, ver : Nat, lock : Nat]
        /\ r.pc = next /\ r.ver = jobs[j].ver /\ r.lock = jobs[j].lock
    BY Types DEF Stages, Writing
  <2>2. jobs' = [jobs EXCEPT ![j] = r]
    BY <1>2, Types DEF GoTo
  <2> HIDE DEF r
  <2>3. jobs'[j] = r /\ local' \in Nat
    BY <1>1, <2>2, Types
  <2>4. /\ core' \in [dir : BOOLEAN, app : Nat, certs : Nat]
        /\ part = "app" => Got(core'.app, jobs[j].ver)
        /\ part = "certs" => Got(core'.certs, jobs[j].ver) /\ core'.app = core.app
    BY <1>2, Types DEF Got
  <2>5. Fetching(j) => Fetching(j)'
    BY <1>1, <2>1, <2>3, <2>4 DEF Fetching
  <2>6. r.pc \in Writing
    BY <2>1 DEF Writing
  <2> QED
    BY <1>1, <2>1, <2>2, <2>3, <2>4, <2>5, <2>6, JobGoesOn
<1>3. ASSUME NEW left \in {Empty, Partial},
             core' = [core EXCEPT ![part] = left], Exit(j, "failed", core'.app)
      PROVE  CoreInv'
  <2>1. core' \in [dir : BOOLEAN, app : Nat, certs : Nat]
    BY <1>3, Types
  <2> QED
    BY <1>1, <1>3, <2>1, ExitOK
<1>4. CASE core' = core /\ Exit(j, "failed", None)
  BY <1>1, <1>4, Types, ExitOK
<1> QED
  BY <1>2, <1>3, <1>4 DEF Download

\* The version is noted once all of it is there.
LEMMA FinishOK ==
  ASSUME CoreInv, NEW j \in Jobs, finish_update(j)
  PROVE  CoreInv'
<1>1. /\ Working(j) /\ jobs[j].pc = "finish" /\ GoTo(j, "restart")
      /\ local' = jobs[j].ver
      /\ UNCHANGED <<core, latest, lock, listLost, removals>>
  BY DEF finish_update, Working
<1> DEFINE r == [jobs[j] EXCEPT !.pc = "restart"]
<1>2. /\ r \in [pc : Stages, ver : Nat, lock : Nat]
      /\ r.pc = "restart" /\ r.ver = jobs[j].ver /\ r.lock = jobs[j].lock
  BY Types DEF Stages
<1>3. jobs' = [jobs EXCEPT ![j] = r]
  BY <1>1, Types DEF GoTo
<1> HIDE DEF r
<1>4. jobs'[j] = r /\ core' \in [dir : BOOLEAN, app : Nat, certs : Nat] /\ local' \in Nat
  BY <1>1, <1>3, Types
<1>5. Fetching(j)'
  BY <1>2, <1>4 DEF Fetching, Writing
<1>6. Fetching(j) => local' <= latest /\ Got(core'.app, local') /\ Got(core'.certs, local')
  BY <1>1 DEF Fetching, Writing
<1> QED
  BY <1>1, <1>2, <1>3, <1>4, <1>5, <1>6, JobGoesOn

\* The restart happens under the lock, so it starts no second update unless
\* the lock file was deleted.
LEMMA RestartOK ==
  ASSUME CoreInv, NEW j \in Jobs, restart_service(j)
  PROVE  CoreInv'
<1> DEFINE r == [jobs[j] EXCEPT !.pc = "wait"]
           started == [pc |-> "check", ver |-> None, lock |-> lock]
<1>1. /\ Working(j) /\ jobs[j].pc = "restart" /\ j # "init" /\ ~Working("init")
      /\ UNCHANGED <<core, local, latest, lock, listLost, removals>>
  BY DEF restart_service, Working
<1>2. /\ r \in [pc : Stages, ver : Nat, lock : Nat]
      /\ r.pc = "wait" /\ r.ver = jobs[j].ver /\ r.lock = jobs[j].lock
  BY Types DEF Stages
<1>3. \/ jobs' = [jobs EXCEPT ![j] = r]
      \/ lock \notin Held /\ jobs' = [jobs EXCEPT ![j] = r, !["init"] = started]
  <2> DEFINE go == ~Usable(core.app) /\ lock \notin Held
  <2>1. jobs' = [jobs EXCEPT ![j].pc = "wait",
                             !["init"] = IF go THEN started ELSE @]
    BY DEF restart_service
  <2> HIDE DEF go
  <2>2. CASE go
    BY <1>1, <2>1, <2>2, Types DEF Jobs, go
  <2>3. CASE ~go
    BY <1>1, <2>1, <2>3, Types DEF Jobs
  <2> QED
    BY <2>2, <2>3
<1> HIDE DEF r
<1>4. CASE jobs' = [jobs EXCEPT ![j] = r]
  <2>1. jobs'[j] = r /\ core' \in [dir : BOOLEAN, app : Nat, certs : Nat] /\ local' \in Nat
    BY <1>1, <1>4, Types
  <2>2. Fetching(j)'
    BY <1>2, <2>1 DEF Fetching, Writing
  <2>3. jobs[j].pc \notin Writing
    BY <1>1 DEF Writing
  <2> QED
    BY <1>1, <1>2, <1>4, <2>1, <2>2, <2>3, JobGoesOn
<1>5. CASE lock \notin Held /\ jobs' = [jobs EXCEPT ![j] = r, !["init"] = started]
  <2>1. removals # 0
    BY <1>1, <1>5 DEF CoreInv, LockInv, Held
  <2>2. CoreType'
    <3>1. started \in [pc : Stages, ver : Nat, lock : Nat]
      BY Types DEF Stages
    <3> HIDE DEF started
    <3>2. jobs' \in [Jobs -> [pc : Stages, ver : Nat, lock : Nat]]
      BY <1>2, <1>5, <3>1, Types
    <3> QED
      BY <1>1, <3>2, Types DEF CoreType
  <2> QED
    BY <1>1, <2>1, <2>2 DEF CoreInv, LockInv, FetchInv
<1> QED
  BY <1>3, <1>4, <1>5

LEMMA EndOK ==
  ASSUME CoreInv, NEW j \in Jobs, end_update(j)
  PROVE  CoreInv'
<1>1. Working(j) /\ UNCHANGED <<core, local, latest, lock, listLost, removals>>
  BY DEF end_update, Working
<1> QED
  BY <1>1, Types, ExitOK DEF end_update

\* Every start of an update but the one of restart_service.
LEMMA StartsOK ==
  ASSUME CoreInv, start_service \/ update_core \/ cron_update
  PROVE  CoreInv'
<1>1. UNCHANGED <<core, local, latest, lock, listLost, removals>>
  BY DEF start_service, update_core, cron_update
<1>2. CASE start_service
  <2>1. \/ jobs' = jobs
        \/ /\ lock \notin Held /\ ~Working("init")
           /\ jobs' = [jobs EXCEPT !["init"] = [pc |-> "check", ver |-> None, lock |-> lock]]
    BY <1>2 DEF start_service, StartCore
  <2> QED
    BY <1>1, <2>1, Unchanged, JobStarts DEF kept, Jobs
<1>3. CASE cron_update
  BY <1>1, <1>3, JobStarts DEF cron_update, TakeLock, Jobs
<1>4. CASE update_core
  <2>1. \/ TakeLock("page")
        \/ jobs' = [jobs EXCEPT !["page"] = Off]
    BY <1>4 DEF update_core, Exit
  <2>2. ~Working("page") /\ "page" \in Jobs
    BY <1>4 DEF update_core, Jobs
  <2>3. CASE TakeLock("page")
    BY <1>1, <2>2, <2>3, JobStarts DEF TakeLock
  <2>4. CASE jobs' = [jobs EXCEPT !["page"] = Off]
    <3>1. /\ jobs \in [Jobs -> [pc : Stages, ver : Nat, lock : Nat]]
          /\ \A k \in Jobs : jobs'[k].pc = jobs[k].pc
          /\ \A k \in Jobs : Working(k) => jobs'[k] = jobs[k]
      BY <2>2, <2>4, Types DEF Working, Off
    <3>2. CoreType'
      BY <1>1, <2>4, <3>1 DEF CoreInv, CoreType, Off, Stages, None
    <3>3. LockInv'
      BY <1>1, <3>1 DEF CoreInv, LockInv, Working
    <3>4. \A k \in Jobs : Fetching(k) => Fetching(k)'
      BY <1>1, <3>1 DEF Fetching, Working, Writing
    <3>5. FetchInv'
      BY <1>1, <3>1, <3>4 DEF CoreInv, FetchInv
    <3> QED
      BY <3>2, <3>3, <3>5 DEF CoreInv
  <2> QED
    BY <2>1, <2>3, <2>4
<1> QED
  BY <1>2, <1>3, <1>4

LEMMA RemoveOK == ASSUME CoreInv, remove_core PROVE CoreInv'
<1>1. /\ core' = [dir |-> FALSE, app |-> None, certs |-> None] /\ local' = None
      /\ lock' = lock + 1 /\ removals' = removals + 1
      /\ UNCHANGED <<latest, jobs>>
  BY DEF remove_core
<1>2. CoreType' /\ removals' # 0
  BY <1>1 DEF CoreInv, CoreType, None
<1> QED
  BY <1>2 DEF CoreInv, LockInv, FetchInv

\* A newer version upstream makes the noted one older still.
LEMMA PublishedOK == ASSUME CoreInv, Published PROVE CoreInv'
<1>1. latest' = latest + 1 /\ UNCHANGED <<core, local, lock, jobs, listLost, removals>>
  BY DEF Published
<1>2. CoreType' /\ LockInv'
  BY <1>1 DEF CoreInv, CoreType, LockInv, Working
<1>3. /\ jobs \in [Jobs -> [pc : Stages, ver : Nat, lock : Nat]]
      /\ local \in Nat /\ latest \in Nat
  BY DEF CoreInv, CoreType
<1>4. \A k \in Jobs : Fetching(k) => Fetching(k)'
  BY <1>1, <1>3 DEF Fetching
<1>5. FetchInv'
  BY <1>1, <1>3, <1>4 DEF CoreInv, FetchInv
<1> QED
  BY <1>2, <1>5 DEF CoreInv

-----------------------------------------------------------------------------
LEMMA CoreStepOK == ASSUME CoreInv, CoreNext PROVE CoreInv'
<1>1. CASE clickRemove \/ check_version
  BY <1>1, Unchanged DEF clickRemove, check_version, kept
<1>2. ASSUME NEW j \in Jobs, JobStep(j) PROVE CoreInv'
  BY <1>2, CheckOK, ListOK, DownloadOK, FinishOK, RestartOK, EndOK
  DEF JobStep, download_app, download_certs
<1> QED
  BY <1>1, <1>2, StartsOK, RemoveOK, PublishedOK DEF CoreNext

\* CoreInv holds of every state of the pages.
THEOREM CoreInvariant == Spec => []CoreInv
<1>1. Init => CoreInv
  <2> SUFFICES ASSUME Init PROVE CoreInv
    OBVIOUS
  <2>1. CoreInit
    BY DEF Init, ServiceInit
  <2>2. CoreType /\ \A j \in Jobs : jobs[j].pc = "idle"
    BY <2>1 DEF CoreInit, CoreType, Off, Stages, None
  <2> QED
    BY <2>1, <2>2 DEF CoreInit, CoreInv, LockInv, FetchInv, Fetching, Working, Writing, None
<1>2. CoreInv /\ [Next]_vars => CoreInv'
  <2> SUFFICES ASSUME CoreInv, [Next]_vars PROVE CoreInv'
    OBVIOUS
  <2>1. UNCHANGED coreVars \/ CoreNext
    BY DEF Next, Service, Log, ServiceNext, OnPage, OnCorePage, vars, serviceVars
  <2> QED
    BY <2>1, CoreStepOK, Unchanged DEF coreVars, kept
<1> QED
  BY <1>1, <1>2, PTL DEF Spec

\* flock keeps two updates from writing the core at once, for any number of
\* clicks, cron runs and service starts, until the lock file is deleted.
THEOREM OneDownloadAtATime == Spec => []OneDownload
<1>1. CoreInv => OneDownload
  <2> SUFFICES ASSUME CoreInv, removals = 0
               PROVE  Cardinality({j \in Jobs : jobs[j].pc \in Writing}) <= 1
    BY DEF OneDownload, Writing
  <2> DEFINE S == {j \in Jobs : jobs[j].pc \in Writing}
  <2>1. CASE S = {}
    BY <2>1, FS_EmptySet
  <2>2. CASE S # {}
    <3> PICK j \in S : TRUE
      BY <2>2
    <3>1. S = {j}
      BY DEF CoreInv, LockInv, Working, Writing
    <3>2. Cardinality({j}) = 1
      BY FS_Singleton
    <3> QED
      BY <3>1, <3>2
  <2> QED
    BY <2>1, <2>2
<1> QED
  BY <1>1, CoreInvariant, PTL

\* Whenever no update is at work and nothing newer is out, the version
\* core_local_ver names is installed, as far as the update looks at a file:
\* one cut short passes.
THEOREM VersionAlwaysTrusted == Spec => []TrustedVersion
<1>1. CoreInv => TrustedVersion
  <2>1. ASSUME CoreInv, local = latest, removals = 0, ~listLost, \A j \in Jobs : ~Working(j)
        PROVE  Got(core.app, local) /\ Got(core.certs, local)
    BY <2>1 DEF CoreInv, FetchInv, Working, Writing
  <2> QED
    BY <2>1 DEF TrustedVersion, Got
<1> QED
  BY <1>1, CoreInvariant, PTL
=============================================================================
