---------------------------- MODULE NetSpeedTest ----------------------------
(***************************************************************************)
(* The pages of luci-app-netspeedtest (htdocs/luci-static/resources/view/  *)
(* netspeedtest): Homebox and iperf3, which start and stop a server and    *)
(* share /etc/config/netspeedtest, and the WAN speed test, which starts    *)
(* /usr/bin/netspeedtest.sh and follows it through a result file.          *)
(*                                                                         *)
(* One page is open at a time; its script's state goes when the user       *)
(* leaves it, but not the requests it sent.  Every command is a call to    *)
(* the router, executed some time later, and what a check saw may be out   *)
(* of date when the page applies it.  The WAN page shares no state with    *)
(* the other two, so a behaviour stays on it or off it.                    *)
(***************************************************************************)
EXTENDS Naturals, Sequences, FiniteSets, SequencesExt

CONSTANTS
    MaxChecks,   \* maxChecks of the Homebox page
    MaxClicks,   \* bound: clicks on Start, Stop, Start Speed Test and Save
    MaxFaults    \* bound: processes that die and commands that fail

NoPid == 0

Tools == {"homebox", "iperf3"}

VARIABLES
    page,     \* the open page
    proc,     \* tool -> its process runs
    procd,    \* procd supervises homebox and starts it again
    config,   \* /etc/config/netspeedtest: tool -> "absent", "0" or "1"
    rc,       \* /etc/init.d/netspeedtest is enabled
    running,  \* state.running of the page
    op,       \* state.operationType while state.operationInProgress, or "none"
    loops,    \* the toggles whose promises or commands have not ended
    polled,   \* what the poll's check saw, while the answer is on its way
    saving,   \* the saveConfigurations under way
    file,     \* /tmp/netspeedtest_result, by its first line
    old,      \* it is older than Timeout
    scripts,  \* running copies of netspeedtest.sh: [id, stage]
    pidFile,  \* /var/run/netspeedtest.pid, or NoPid
    button,   \* the Start Speed Test button is enabled
    shown,    \* what the WAN page shows
    clicks, faults,
    want,     \* history: the last toggle clicked on the Homebox page
    calm,     \* history: no process died, came back or failed to start, every
              \* answer was true when the page came to show it, no toggle gave
              \* the button back while a later one was in progress, no start was
              \* clicked and no page left while an earlier command had yet to run
    sound     \* history: the last save ran alone and to its end

server == <<proc, procd>>
conf == <<config, rc, saving, sound>>
wan == <<file, old, scripts, pidFile, button, shown>>
ui == <<running, op, polled>>
hist == <<want, calm>>
vars == <<page, server, conf, ui, loops, wan, clicks, faults, hist>>

(*---------------------- Homebox and iperf3: the toggle ------------------*)
\* A toggle is a chain of promises.  Nobody waits for a command that is "left".
StopCommands == {"delete", "killall"}
Commands == {"kill", "spawn"} \cup StopCommands

Chain(action, stage, left) ==
    [tool |-> page, action |-> action, stage |-> stage, n |-> 0, saw |-> FALSE, left |-> left]

\* controlService.  Homebox's stop sends killall without waiting for it and
\* then runs the init script, which deletes the service and kills once more.
controlService(action) ==
    IF action = "start"
    THEN <<Chain("start", IF page = "homebox" THEN "kill" ELSE "spawn", FALSE)>>
    ELSE IF page = "homebox"
    THEN <<Chain("stop", "killall", TRUE), Chain("stop", "delete", FALSE)>>
    ELSE <<Chain("stop", "killall", FALSE)>>

\* updateStatus of the Homebox page: the operation ends when the process is
\* what it was to become; the iperf3 page has no such flag.
updateStatus(run, o) ==
    IF (o = "stop" /\ ~run) \/ (o = "start" /\ run) THEN "none" ELSE o

FaultyClickAllowed == TRUE

\* The Homebox button is off while an operation is in progress.  On the
\* iperf3 page createHandlerFn turns it on again at once.
clickAllowed == page = "homebox" => op = "none"

\* Some command has been sent and has yet to run.
UnderWay(commands) == \E i \in 1..Len(loops) : loops[i].stage \in commands

clickToggle ==
    LET action == IF running THEN "stop" ELSE "start"
    IN  /\ page \in Tools /\ clicks < MaxClicks /\ clickAllowed
        /\ clicks' = clicks + 1
        /\ want' = IF page = "homebox" THEN action ELSE want
        /\ op' = IF page = "homebox" THEN updateStatus(running, action) ELSE op
        /\ loops' = loops \o controlService(action)
        /\ calm' = (calm /\ (action = "start" => ~UnderWay(StopCommands)))
        /\ UNCHANGED <<page, server, conf, running, polled, wan, faults>>

\* A command has run: its promise goes on, if there is one.
Then(i, stage) ==
    loops' = IF loops[i].left THEN RemoveAt(loops, i)
             ELSE [loops EXCEPT ![i].stage = stage]

\* Homebox looks for the outcome again and again, iperf3 once.
FirstLook(i) == IF loops[i].tool = "homebox" THEN "check" ELSE "last"

\* controlService('start') on the Homebox page kills what runs first.
killFirst(i) ==
    /\ loops[i].stage = "kill" /\ Then(i, "spawn")
    /\ proc' = [proc EXCEPT !.homebox = FALSE]
    /\ UNCHANGED <<page, procd, conf, ui, wan, clicks, faults, hist>>

spawn(i) ==
    /\ loops[i].stage = "spawn" /\ Then(i, FirstLook(i))
    /\ \/ /\ proc' = [proc EXCEPT ![loops[i].tool] = TRUE]
          /\ UNCHANGED <<faults, calm>>
       \/ faults < MaxFaults /\ faults' = faults + 1 /\ calm' = FALSE /\ UNCHANGED proc
    /\ UNCHANGED <<page, procd, conf, ui, wan, clicks, want>>

\* stop_service of the init script: procd forgets the service and may stop its
\* process, and the script goes on to killall, whether or not anyone waits.
stop_service(i) ==
    /\ loops[i].stage = "delete"
    /\ loops' = [loops EXCEPT ![i].stage = "killall"]
    /\ procd' = FALSE
    /\ proc' \in {proc} \cup (IF procd THEN {[proc EXCEPT !.homebox = FALSE]} ELSE {})
    /\ UNCHANGED <<page, conf, ui, wan, clicks, faults, hist>>

killall(i) ==
    /\ loops[i].stage = "killall" /\ Then(i, FirstLook(i))
    /\ proc' = [proc EXCEPT ![loops[i].tool] = FALSE]
    /\ UNCHANGED <<page, procd, conf, ui, wan, clicks, faults, hist>>

\* A command that the router refuses.  A first kill is tried and no more; after
\* the others the catch looks at the process once.
commandFails(i) ==
    /\ loops[i].stage \in Commands /\ faults < MaxFaults
    /\ faults' = faults + 1 /\ calm' = FALSE
    /\ IF loops[i].stage = "kill" THEN Then(i, "spawn")
       ELSE IF loops[i].tool = "homebox" THEN Then(i, "last")
       ELSE loops' = RemoveAt(loops, i)
    /\ UNCHANGED <<page, server, conf, ui, wan, clicks, want>>

\* doCheck: up to MaxChecks more looks for the outcome, then a last one.
doCheck(i) ==
    LET l == loops[i]
        done == proc[l.tool] = (l.action = "start")
    IN  /\ l.stage = "check"
        /\ loops' = [loops EXCEPT ![i] =
             IF done /\ l.action = "stop" THEN [l EXCEPT !.stage = "apply", !.saw = FALSE]
             ELSE IF ~done /\ l.n < MaxChecks THEN [l EXCEPT !.n = l.n + 1]
             ELSE [l EXCEPT !.stage = "last"]]
        /\ UNCHANGED <<page, server, conf, ui, wan, clicks, faults, hist>>

lastCheck(i) ==
    /\ loops[i].stage = "last"
    /\ loops' = [loops EXCEPT ![i].stage = "apply", ![i].saw = proc[loops[i].tool]]
    /\ UNCHANGED <<page, server, conf, ui, wan, clicks, faults, hist>>

applyCheck(i) ==
    /\ loops[i].stage = "apply"
    /\ running' = loops[i].saw /\ op' = "none"
    /\ loops' = RemoveAt(loops, i)
    /\ calm' = /\ calm /\ (running' # running => proc[loops[i].tool] = loops[i].saw)
               /\ op = "none" \/ i = Len(loops)
    /\ UNCHANGED <<page, server, conf, polled, wan, clicks, faults, want>>

ToggleStep(i) == \/ killFirst(i) \/ spawn(i) \/ stop_service(i) \/ killall(i)
                 \/ doCheck(i) \/ lastCheck(i) \/ applyCheck(i)

(*--------------------------------- polls --------------------------------*)
checkProcess ==
    /\ page \in Tools /\ polled = "none"
    /\ polled' = IF proc[page] THEN "up" ELSE "down"
    /\ UNCHANGED <<page, server, conf, running, op, loops, wan, clicks, faults, hist>>

FaultyPollAnswer ==
    /\ polled # "none" /\ polled' = "none"
    /\ LET up == polled = "up" IN
       IF up = running \/ ~up THEN UNCHANGED <<running, op>>
       ELSE running' = up /\ op' = updateStatus(up, op)
    /\ UNCHANGED <<page, server, conf, loops, wan, clicks, faults, hist>>

\* An answer that differs from what is shown may end the operation, also an
\* answer that is no longer true.
pollAnswer ==
    /\ polled # "none" /\ polled' = "none"
    /\ LET up == polled = "up" IN
       /\ IF up = running THEN UNCHANGED <<running, op>>
          ELSE running' = up /\ op' = updateStatus(up, op)
       /\ calm' = (calm /\ (running' # running => proc[page] = up))
    /\ UNCHANGED <<page, server, conf, loops, wan, clicks, faults, want>>

(*------------------------------- settings -------------------------------*)
\* Save and the Auto Start checkbox, which stays on during a save.  The iperf3
\* page never sets state.enabled and so always saves "0".
saveClick(on) ==
    /\ page \in Tools /\ clicks < MaxClicks
    /\ page = "iperf3" => ~on
    /\ clicks' = clicks + 1
    /\ saving' = Append(saving, [tool |-> page, on |-> on, stage |-> "write", cut |-> FALSE])
    /\ sound' = (saving = <<>>)
    /\ UNCHANGED <<page, server, config, rc, ui, loops, wan, faults, hist>>

\* saveConfiguration writes the whole file with its page's options only ...
saveConfiguration(i) ==
    /\ saving[i].stage = "write"
    /\ config' = [t \in Tools |-> IF t # saving[i].tool THEN "absent"
                                  ELSE IF saving[i].on THEN "1" ELSE "0"]
    /\ saving' = IF saving[i].cut THEN RemoveAt(saving, i)
                 ELSE [saving EXCEPT ![i].stage = "rc"]
    /\ UNCHANGED <<page, server, rc, sound, ui, loops, wan, clicks, faults, hist>>

\* ... and then enables or disables the init script.
enableService(i) ==
    /\ saving[i].stage = "rc" /\ rc' = saving[i].on
    /\ saving' = RemoveAt(saving, i)
    /\ UNCHANGED <<page, server, config, sound, ui, loops, wan, clicks, faults, hist>>

\* Either request fails, and the save ends there.
saveFails(i) ==
    /\ faults < MaxFaults /\ faults' = faults + 1
    /\ saving' = RemoveAt(saving, i) /\ sound' = FALSE
    /\ UNCHANGED <<page, server, config, rc, ui, loops, wan, clicks, hist>>

(*------------------------------ the router ------------------------------*)
ProcessDies(t) ==
    /\ page \in Tools /\ proc[t] /\ faults < MaxFaults
    /\ faults' = faults + 1 /\ calm' = FALSE
    /\ proc' = [proc EXCEPT ![t] = FALSE]
    /\ UNCHANGED <<page, procd, conf, ui, loops, wan, clicks, want>>

\* procd_set_param respawn
Respawn ==
    /\ procd /\ ~proc.homebox /\ calm' = FALSE
    /\ proc' = [proc EXCEPT !.homebox = TRUE]
    /\ UNCHANGED <<page, procd, conf, ui, loops, wan, clicks, faults, want>>

\* What the router still has to do for a page that is gone: the commands sent.
LeftBehind ==
    LET sent == SelectSeq(loops, LAMBDA l : l.stage \in Commands)
    IN  [i \in 1..Len(sent) |-> [sent[i] EXCEPT !.left = TRUE]]

\* Leaving a page drops its promises, whatever they wait for; a new page looks
\* before it shows.
Navigate(to) ==
    /\ page \in Tools /\ to \in Tools \ {page}
    /\ page' = to /\ running' = proc[to] /\ op' = "none" /\ polled' = "none"
    /\ want' = "none"
    /\ \/ ~UnderWay(Commands) /\ loops' = <<>> /\ UNCHANGED calm
       \/ UnderWay(Commands) /\ loops' = LeftBehind /\ calm' = FALSE
    /\ saving' = [i \in 1..Len(saving) |-> [saving[i] EXCEPT !.cut = TRUE]]
    /\ sound' = (sound /\ saving = <<>>)
    /\ UNCHANGED <<server, config, rc, wan, clicks, faults>>

(*---------------------------- WAN speed test ----------------------------*)
\* startSpeedTest: the page writes "Testing", then starts the script.
startSpeedTest ==
    /\ page = "wan" /\ button /\ clicks < MaxClicks
    /\ clicks' = clicks + 1
    /\ file' = "Testing" /\ old' = FALSE
    /\ scripts' = Append(scripts, [id |-> clicks', stage |-> "check"])
    /\ UNCHANGED <<page, server, conf, ui, loops, pidFile, button, shown, faults, hist>>

\* A copy past check_running has the lock; its children keep it if it is killed.
Holders == {"pid", "test", "end", "orphan"}
Locked == \E i \in 1..Len(scripts) : scripts[i].stage \in Holders
Alive(id) == \E i \in 1..Len(scripts) : scripts[i].id = id /\ scripts[i].stage # "orphan"

Reach(i, stage) == scripts' = [scripts EXCEPT ![i].stage = stage]
GiveUp(i) == Reach(i, "gave up") /\ file' = "Testing" /\ old' = FALSE

\* check_running of netspeedtest.sh: first the PID file, ...
check_running(i) ==
    /\ scripts[i].stage = "check"
    /\ \/ pidFile = NoPid /\ Reach(i, "lock") /\ UNCHANGED <<file, old>>
       \/ pidFile # NoPid /\ ~Alive(pidFile) /\ Reach(i, "stale") /\ UNCHANGED <<file, old>>
       \/ pidFile # NoPid /\ Alive(pidFile) /\ GiveUp(i)
    /\ UNCHANGED <<page, server, conf, ui, loops, pidFile, button, shown, clicks, faults, hist>>

removeStale(i) ==
    /\ scripts[i].stage = "stale" /\ Reach(i, "lock") /\ pidFile' = NoPid
    /\ UNCHANGED <<page, server, conf, ui, loops, file, old, button, shown, clicks, faults, hist>>

FaultyTakeLock(i) ==
    /\ scripts[i].stage = "lock" /\ Reach(i, "pid")
    /\ UNCHANGED <<page, server, conf, ui, loops, file, old, pidFile, button, shown, clicks, faults, hist>>

\* ... then flock, ...
takeLock(i) ==
    /\ scripts[i].stage = "lock"
    /\ IF Locked THEN GiveUp(i) ELSE Reach(i, "pid") /\ UNCHANGED <<file, old>>
    /\ UNCHANGED <<page, server, conf, ui, loops, pidFile, button, shown, clicks, faults, hist>>

\* ... then its own PID.
writePid(i) ==
    /\ scripts[i].stage = "pid" /\ Reach(i, "test") /\ pidFile' = scripts[i].id
    /\ UNCHANGED <<page, server, conf, ui, loops, file, old, button, shown, clicks, faults, hist>>

\* main_test: the test ends within its timeouts and writes its outcome.
main_test(i) ==
    /\ scripts[i].stage = "test" /\ Reach(i, "end")
    /\ file' \in {"result", "failed"} /\ old' = FALSE
    /\ UNCHANGED <<page, server, conf, ui, loops, pidFile, button, shown, clicks, faults, hist>>

\* The exit trap, also of a copy that gave up: the PID file goes whosever it is.
cleanup(i) ==
    /\ scripts[i].stage \in {"end", "gave up"}
    /\ scripts' = RemoveAt(scripts, i) /\ pidFile' = NoPid
    /\ UNCHANGED <<page, server, conf, ui, loops, file, old, button, shown, clicks, faults, hist>>

\* SIGKILL runs no trap; the test it started goes on to its timeout.
ScriptKilled(i) ==
    /\ faults < MaxFaults /\ faults' = faults + 1 /\ scripts[i].stage # "orphan"
    /\ IF scripts[i].stage = "test" THEN Reach(i, "orphan")
       ELSE scripts' = RemoveAt(scripts, i)
    /\ UNCHANGED <<page, server, conf, ui, loops, file, old, pidFile, button, shown, clicks, hist>>

OrphanEnds(i) ==
    /\ scripts[i].stage = "orphan" /\ scripts' = RemoveAt(scripts, i)
    /\ UNCHANGED <<page, server, conf, ui, loops, file, old, pidFile, button, shown, clicks, faults, hist>>

\* 300 seconds without a write; a test takes at most 180.
Ages ==
    /\ page = "wan" /\ file # "none" /\ ~old /\ scripts = <<>> /\ old' = TRUE
    /\ UNCHANGED <<page, server, conf, ui, loops, file, scripts, pidFile, button, shown, clicks, faults, hist>>

\* "Testing" counts for Timeout after the file was written.
isTesting == file = "Testing" /\ ~old

poll_status ==
    /\ page = "wan"
    /\ button' = ~isTesting
    /\ shown' = IF isTesting THEN "in progress"
                ELSE IF file = "Testing" THEN "none" ELSE file
    /\ UNCHANGED <<page, server, conf, ui, loops, file, old, scripts, pidFile, clicks, faults, hist>>

Init ==
    /\ page \in Tools \cup {"wan"}
    /\ procd \in (IF page = "wan" THEN {FALSE} ELSE BOOLEAN)
    /\ proc = [homebox |-> procd, iperf3 |-> FALSE]
    /\ config = [homebox |-> IF procd THEN "1" ELSE "0", iperf3 |-> "absent"] /\ rc = procd
    /\ running = (page \in Tools /\ proc[page]) /\ op = "none" /\ loops = <<>> /\ polled = "none"
    /\ saving = <<>> /\ sound = TRUE
    /\ file \in (IF page = "wan" THEN {"none", "Testing"} ELSE {"none"})
    /\ old = (file = "Testing") /\ scripts = <<>> /\ pidFile = NoPid
    /\ button = TRUE /\ shown = "none"
    /\ clicks = 0 /\ faults = 0 /\ want = "none" /\ calm = TRUE

Toggling == \E i \in 1..Len(loops) : ToggleStep(i)
ScriptGoes(i) == \/ check_running(i) \/ removeStale(i) \/ takeLock(i) \/ writePid(i)
                 \/ main_test(i) \/ cleanup(i) \/ OrphanEnds(i)
Scripts == \E i \in 1..Len(scripts) : ScriptGoes(i)

Next ==
    \/ clickToggle \/ Toggling
    \/ \E i \in 1..Len(loops) : commandFails(i)
    \/ checkProcess \/ pollAnswer
    \/ \E on \in BOOLEAN : saveClick(on)
    \/ \E i \in 1..Len(saving) : saveConfiguration(i) \/ enableService(i) \/ saveFails(i)
    \/ \E t \in Tools : ProcessDies(t) \/ Navigate(t)
    \/ Respawn
    \/ startSpeedTest \/ Scripts \/ Ages \/ poll_status
    \/ \E i \in 1..Len(scripts) : ScriptKilled(i)

Spec == Init /\ [][Next]_vars

\* Calls to the router answer, polls repeat, the script's test has timeouts and
\* time passes; nothing obliges the user to click.
FairSpec ==
    /\ Spec
    /\ WF_vars(Toggling) /\ WF_vars(checkProcess) /\ WF_vars(pollAnswer)
    /\ WF_vars(Scripts) /\ WF_vars(Ages) /\ WF_vars(poll_status)

(*------------------------------ properties ------------------------------*)
\* A server is what was asked for, now and at the next boot.  On the Homebox
\* page, when every toggle and every command has ended, it runs as the last
\* click asked, although the poll may end an operation early and let the next
\* click overlap the first: a stop overlaps what a start still has to check.
\* Nothing is claimed once a process died, came back or did not start, an
\* answer was shown out of date, the first toggle, ending late, gave the button
\* back during the second, or a start was clicked (or the page left) while an
\* earlier command had yet to run: killall, which nobody waits for, or the init
\* script's, when the poll ends a stop early, then hits the new server.  (The
\* iperf3 page, whose button stays on, lets a late start overtake a stop.)
\* When no save is under way the init script is enabled exactly when the file
\* asks for Homebox, whichever of the two pages overwrote the file last and
\* whatever earlier saves failed, overlapped or were cut short, provided the
\* last one ran alone and to its end.
ServerAsAsked ==
    /\ (page = "homebox" /\ calm /\ loops = <<>> /\ want # "none") =>
            proc.homebox = (want = "start")
    /\ (saving = <<>> /\ sound) => rc = (config.homebox = "1")

\* However often and however fast the test is started, one test runs at a time
\* and writes the result file, although a copy that gave up removes the PID
\* file of the one that runs and a killed copy leaves its own behind.
OneTestAtATime ==
    Cardinality({i \in 1..Len(scripts) : scripts[i].stage \in Holders}) <= 1

\* Every page settles, once no more clicks, saves or faults come: "Starting..."
\* and "Stopping..." give way to a button that can be clicked, the page shows
\* the true state of its server for good, whatever late answers it still had to
\* apply, and the WAN page never shows a test in progress for ever, even when
\* the script gave up on a second start and left "Testing" behind.
PageSettles ==
    <>[](/\ op = "none" /\ button /\ shown # "in progress"
         /\ page \in Tools => running = proc[page])
=============================================================================
