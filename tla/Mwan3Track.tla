----------------------------- MODULE Mwan3Track -----------------------------
(***************************************************************************)
(* The tracker of one mwan3 interface (usr/sbin/mwan3track) together with  *)
(* the hotplug scripts it starts and is signalled by (Mwan3Hotplug).  The  *)
(* tracker is a shell loop: it probes, keeps a score with hysteresis and   *)
(* calls hotplug in the foreground.  Its traps run between two commands,   *)
(* never while a foreground command runs, and all pending ones at once.    *)
(***************************************************************************)
EXTENDS Mwan3Hotplug

CONSTANTS
  Configs,      \* the tracking thresholds UCI may hold: [up, down]
  FirstConfig,  \* the ones it holds at the start
  Hosts,        \* number of track_ip hosts
  Reliability,  \* hosts that must answer
  MaxCrashes    \* bound: times the tracker is killed

ASSUME TrackAssumption ==
  /\ Configs \subseteq [up: Nat \ {0}, down: Nat \ {0}]
  /\ FirstConfig \in Configs
  /\ Hosts \in Nat
  /\ Reliability \in Nat \ {0}
  /\ MaxCrashes \in Nat

VARIABLES
  pc,             \* the command main() is at, "dead" when there is no process
  ret,            \* where the foreground hotplug-call returns to
  site,           \* which event checks run: at start, loop top or bottom
  STATUS, STARTED, IFDOWN_EVENT, IFUP_EVENT, RELOAD_EVENT,
  score,
  cfg,            \* up and down as load_tracking_config read them
  left,           \* hosts of probe_ips that the round has not visited
  host_up_count,
  uci,            \* the thresholds in /etc/config/mwan3
  orphan,         \* a killed tracker's sleep holds the interface's flock
  crashes,
  missed          \* history: if_up has put off an ifdown that nothing looks at
                  \* any more, since firstconnect had been there already

shell == <<STATUS, STARTED, IFDOWN_EVENT, IFUP_EVENT, RELOAD_EVENT>>
round == <<left, host_up_count>>
env == <<uci, orphan, crashes, missed>>
trackVars == <<pc, ret, site, shell, score, cfg, round, env>>
vars == <<hotplugVars, trackVars>>

\* The variables of Mwan3Hotplug a command of the tracker may change.
hotplugRest == <<ifUp, event, flaps, reloads, lock, iface_state, policy, pins,
                 rules>>

Max(c) == c.down + c.up
warn_threshold == cfg.up + (cfg.down + 2) \div 3

Goto(label) == pc' = label /\ UNCHANGED <<ret, site>>

-----------------------------------------------------------------------------
(***************************************************************************)
(* The functions of the script.  Each sets STATUS', the STATUS file and    *)
(* the score, starts a hotplug script or not and goes on at next.          *)
(***************************************************************************)
SetStatus(s) == STATUS' = s /\ status_file' = s

\* env -i ACTION=a hotplug-call iface, in the foreground
hotplug_call(a, next) ==
  /\ hp' = [hp EXCEPT !["tracker"] = Script(a)]
  /\ pc' = "hotplug"
  /\ ret' = next
  /\ UNCHANGED site

\* Fault: only an online interface is taken out of the policy.
Faulty_disconnected(was, next) ==
  /\ SetStatus("offline")
  /\ score' = 0
  /\ IF was = "online"
     THEN hotplug_call("disconnected", next)
     ELSE Goto(next) /\ UNCHANGED hp

\* was: what the STATUS file held
disconnected(was, next) ==
  /\ SetStatus("offline")
  /\ score' = 0
  /\ IF was \in {"online", "disconnecting"}
     THEN hotplug_call("disconnected", next)
     ELSE Goto(next) /\ UNCHANGED hp

connected(next) ==
  /\ SetStatus("online")
  /\ score' = Max(cfg)
  /\ hotplug_call("connected", next)

disabled(next) ==
  /\ SetStatus("disabled")
  /\ STARTED' = FALSE
  /\ Goto(next)

-----------------------------------------------------------------------------
(***************************************************************************)
(* main(), up to the loop, and firstconnect().  The scripts that the       *)
(* connected and disconnected of firstconnect run return at once           *)
(* (FIRSTCONNECT=1) or are not run (disconnected 1).                       *)
(***************************************************************************)
\* procd starts the tracker, and starts it again when it dies.  It waits for
\* the flock, which every process the last tracker left behind still holds.
Main ==
  /\ pc = "dead"
  /\ Idle("tracker")
  /\ ~orphan
  /\ pc' = "firstconnect" /\ site' = "start"
  /\ STATUS' = "" /\ STARTED' = FALSE
  /\ IFDOWN_EVENT' = FALSE /\ IFUP_EVENT' = FALSE /\ RELOAD_EVENT' = FALSE
  /\ cfg' = uci
  /\ score' = Max(uci)
  /\ left' = 0
  /\ host_up_count' = 0
  /\ UNCHANGED <<ret, env, hotplugVars>>

\* network_is_up: what it saw is acted on by later commands
firstconnect ==
  /\ pc = "firstconnect"
  /\ STATUS' = IF STATUS = "online" THEN "online" ELSE initial_state
  /\ Goto(IF ifUp THEN "track" ELSE "give_up")
  /\ missed' = FALSE
  /\ UNCHANGED <<STARTED, IFDOWN_EVENT, IFUP_EVENT, RELOAD_EVENT, score, cfg,
                 round, uci, orphan, crashes, hotplugVars>>

GiveUp ==
  /\ pc = "give_up"
  /\ disabled("ifup_done")
  /\ UNCHANGED <<IFDOWN_EVENT, IFUP_EVENT, RELOAD_EVENT, score, cfg, round,
                 env, hotplugRest, hp, pending>>

Track ==
  /\ pc = "track"
  /\ STARTED' = TRUE
  /\ SetStatus(STATUS)
  /\ score' = IF STATUS = "offline" THEN 0 ELSE Max(cfg)
  /\ Goto("ifup_done")
  /\ UNCHANGED <<IFDOWN_EVENT, IFUP_EVENT, RELOAD_EVENT, cfg, round, env,
                 hotplugRest, hp, pending>>

IfupDone ==
  /\ pc = "ifup_done"
  /\ IFUP_EVENT' = (IFUP_EVENT /\ site = "start")
  /\ Goto(IF site = "bottom" THEN "reload" ELSE "loop")
  /\ UNCHANGED <<STATUS, STARTED, IFDOWN_EVENT, RELOAD_EVENT, score, cfg,
                 round, env, hotplugVars>>

-----------------------------------------------------------------------------
(***************************************************************************)
(* The loop: sleeping while disabled, and the three event checks that run  *)
(* at the top of the loop and again after the sleep at its bottom.         *)
(***************************************************************************)
Loop ==
  /\ pc = "loop"
  /\ pc' = IF STARTED THEN "ifdown" ELSE "fork_sleep"
  /\ site' = "top"
  /\ UNCHANGED <<ret, shell, score, cfg, round, env, hotplugVars>>

\* sleep $MAX_SLEEP & wait $!: only a trap ends it
ForkSleep ==
  /\ pc = "fork_sleep"
  /\ Goto("asleep")
  /\ UNCHANGED <<shell, score, cfg, round, env, hotplugVars>>

CheckIfdown ==
  /\ pc = "ifdown"
  /\ IF IFDOWN_EVENT
     THEN disconnected(status_file, "disable")
     ELSE Goto("ifup") /\ UNCHANGED <<hp, STATUS, status_file, score>>
  /\ UNCHANGED <<STARTED, IFDOWN_EVENT, IFUP_EVENT, RELOAD_EVENT, cfg, round,
                 env, hotplugRest, pending>>

Disable ==
  /\ pc = "disable"
  /\ disabled("ifdown_done")
  /\ UNCHANGED <<IFDOWN_EVENT, IFUP_EVENT, RELOAD_EVENT, score, cfg, round,
                 env, hotplugRest, hp, pending>>

IfdownDone ==
  /\ pc = "ifdown_done"
  /\ IFDOWN_EVENT' = FALSE
  /\ Goto(IF site = "top" THEN "loop" ELSE "ifup")
  /\ UNCHANGED <<STATUS, STARTED, IFUP_EVENT, RELOAD_EVENT, score, cfg, round,
                 env, hotplugVars>>

CheckIfup ==
  /\ pc = "ifup"
  /\ Goto(IF IFUP_EVENT THEN "firstconnect" ELSE "reload")
  /\ UNCHANGED <<shell, score, cfg, round, env, hotplugVars>>

\* Fault: the score is left alone.
FaultyClamp(s, c) == s

Clamp(s, c) == IF s > Max(c) THEN Max(c) ELSE s

CheckReload ==
  /\ pc = "reload"
  /\ IF RELOAD_EVENT
     THEN /\ cfg' = uci
          /\ score' = Clamp(score, uci)
          /\ Goto("reload_done")
     ELSE /\ Goto(IF site = "top" THEN "round" ELSE "loop")
          /\ UNCHANGED <<cfg, score>>
  /\ UNCHANGED <<shell, round, env, hotplugVars>>

ReloadDone ==
  /\ pc = "reload_done"
  /\ RELOAD_EVENT' = FALSE
  /\ Goto("loop")
  /\ UNCHANGED <<STATUS, STARTED, IFDOWN_EVENT, IFUP_EVENT, score, cfg, round,
                 env, hotplugVars>>

-----------------------------------------------------------------------------
(***************************************************************************)
(* A round of probes and the score.                                        *)
(***************************************************************************)
\* ROUTE_STATUS down makes a round without hosts, which fails.
StartRound ==
  /\ pc = "round"
  /\ left' \in {0, Hosts}
  /\ Goto("probe")
  /\ UNCHANGED <<shell, score, cfg, host_up_count, env, hotplugVars>>

Events == IFDOWN_EVENT \/ IFUP_EVENT \/ RELOAD_EVENT

\* One host: it answers or not; an answer of a quality between the thresholds
\* does not count either.  A host is not probed once enough have answered.
Probe(answers) ==
  /\ pc = "probe"
  /\ left > 0
  /\ host_up_count' = IF answers /\ host_up_count < Reliability
                      THEN host_up_count + 1 ELSE host_up_count
  /\ left' = IF Events THEN 0 ELSE left - 1
  /\ UNCHANGED <<pc, ret, site, shell, score, cfg, env, hotplugVars>>

\* An event that came in meanwhile makes the round void.
EndRound ==
  /\ pc = "probe"
  /\ left = 0
  /\ IF Events
     THEN host_up_count' = 0 /\ Goto("loop")
     ELSE UNCHANGED host_up_count /\ Goto("score")
  /\ UNCHANGED <<left, shell, score, cfg, env, hotplugVars>>

Met == host_up_count >= Reliability

\* What a failed round does with s, the score less one: far down, at the
\* threshold, and above it, where it may be noted as disconnecting.

StayDown(s) ==
  /\ s < cfg.up
  /\ score' = 0
  /\ Goto("rest") /\ UNCHANGED <<hp, STATUS, status_file>>

\* Fault: disconnecting without the disconnected that follows it.
FaultyLoseLink(s) ==
  /\ s = cfg.up
  /\ SetStatus("disconnecting")
  /\ score' = s
  /\ Goto("rest") /\ UNCHANGED hp

LoseLink(s) ==
  /\ s = cfg.up
  /\ disconnected("disconnecting", "rest")

Weaken(s) ==
  /\ s > cfg.up
  /\ score' = s
  /\ IF s <= warn_threshold THEN SetStatus("disconnecting")
     ELSE UNCHANGED <<STATUS, status_file>>
  /\ Goto("rest") /\ UNCHANGED hp

ScoreDown ==
  /\ pc = "score"
  /\ ~Met
  /\ StayDown(score - 1) \/ LoseLink(score - 1) \/ Weaken(score - 1)
  /\ UNCHANGED <<STARTED, IFDOWN_EVENT, IFUP_EVENT, RELOAD_EVENT, cfg, round,
                 env, hotplugRest, pending>>

\* What a successful round does with s, the score plus one.
StillConnecting(s) ==
  /\ s < cfg.up
  /\ score' = s
  /\ SetStatus("connecting")
  /\ Goto("rest") /\ UNCHANGED hp

RegainLink(s) ==
  /\ s = cfg.up
  /\ connected("rest")

\* Fault: one step up instead of a full score.
FaultyConfirm(s) ==
  /\ s > cfg.up
  /\ score' = IF s > Max(cfg) THEN Max(cfg) ELSE s
  /\ STATUS' = IF STATUS = "disconnecting" THEN "online" ELSE STATUS
  /\ status_file' = "online"
  /\ Goto("rest") /\ UNCHANGED hp

\* Fault: the status stays disconnecting.
FaultyConfirmStatus(s) ==
  /\ s > cfg.up
  /\ score' = Max(cfg)
  /\ Goto("rest") /\ UNCHANGED <<hp, STATUS, status_file>>

Confirm(s) ==
  /\ s > cfg.up
  /\ score' = Max(cfg)
  /\ STATUS' = IF STATUS = "disconnecting" THEN "online" ELSE STATUS
  /\ status_file' = "online"
  /\ Goto("rest") /\ UNCHANGED hp

ScoreUp ==
  /\ pc = "score"
  /\ Met
  /\ StillConnecting(score + 1) \/ RegainLink(score + 1) \/ Confirm(score + 1)
  /\ UNCHANGED <<STARTED, IFDOWN_EVENT, IFUP_EVENT, RELOAD_EVENT, cfg, round,
                 env, hotplugRest, pending>>

Rest ==
  /\ pc = "rest"
  /\ host_up_count' = 0
  /\ pc' = IF IFDOWN_EVENT \/ IFUP_EVENT THEN "ifdown" ELSE "nap"
  /\ site' = "bottom"
  /\ UNCHANGED <<ret, left, shell, score, cfg, env, hotplugVars>>

\* sleep $sleep_time & wait $! ends
Nap ==
  /\ pc = "nap"
  /\ Goto("ifdown")
  /\ UNCHANGED <<shell, score, cfg, round, env, hotplugVars>>

\* The foreground hotplug-call returns.
HotplugReturn ==
  /\ pc = "hotplug"
  /\ Idle("tracker")
  /\ pc' = ret
  /\ UNCHANGED <<ret, site, shell, score, cfg, round, env, hotplugVars>>

-----------------------------------------------------------------------------
(***************************************************************************)
(* Signals and crashes.                                                    *)
(***************************************************************************)
\* config_reload, if_down and if_up, in the order of the signals' numbers.
\* Their stop_subprocs ends the sleep that main() waits for.
Trap ==
  /\ pc \notin {"dead", "hotplug"}
  /\ pending # {}
  /\ pending' = {}
  /\ RELOAD_EVENT' = (RELOAD_EVENT \/ "HUP" \in pending)
  /\ IFDOWN_EVENT' = (/\ IFDOWN_EVENT \/ "USR1" \in pending
                      /\ "USR2" \notin pending)
  /\ IFUP_EVENT' = (IFUP_EVENT \/ "USR2" \in pending)
  /\ STARTED' = (STARTED \/ "USR2" \in pending)
  /\ pc' = IF pc \in {"asleep", "nap"} THEN "ifdown" ELSE pc
  /\ missed' = (missed \/ (/\ {"USR1", "USR2"} \subseteq pending
                           /\ pc \in {"track", "ifup_done"} /\ site # "start"))
  /\ UNCHANGED <<ret, site, STATUS, score, cfg, round, uci, orphan, crashes,
                 hotplugRest, hp, status_file>>

\* The tracker is killed.  The child it waits for goes on: a probe or a short
\* sleep ends soon, the sleep of a disabled tracker does not.
Crash ==
  /\ pc # "dead"
  /\ crashes < MaxCrashes
  /\ crashes' = crashes + 1
  /\ pc' = "dead"
  /\ orphan' = (pc = "asleep")
  /\ pending' = {}
  /\ UNCHANGED <<ret, site, shell, score, cfg, round, uci, missed, hotplugRest,
                 hp, status_file>>

-----------------------------------------------------------------------------
\* The colour the Routing Health page gives the interface, from the STATUS
\* file and the rules.  The unreachable rule is there as long as the service
\* runs, so an online interface without the others is a partial one.
ifaceHealth ==
  IF status_file = "online" THEN IF rules THEN "success" ELSE "warning"
  ELSE IF status_file \in {"offline", "disconnecting"} THEN "warning" ELSE "muted"

Init ==
  /\ HotplugInit
  /\ pc = "dead" /\ ret = "rest" /\ site = "start"
  /\ STATUS = "" /\ STARTED = FALSE
  /\ IFDOWN_EVENT = FALSE /\ IFUP_EVENT = FALSE /\ RELOAD_EVENT = FALSE
  /\ cfg = FirstConfig /\ uci = FirstConfig
  /\ score = 0
  /\ left = 0 /\ host_up_count = 0
  /\ orphan = FALSE /\ crashes = 0 /\ missed = FALSE

\* The user commits other thresholds, and the commit triggers a reload.
Commit ==
  /\ Reload
  /\ uci' \in Configs
  /\ UNCHANGED <<pc, ret, site, shell, score, cfg, round, orphan, crashes,
                 missed>>

Scripts ==
  /\ \/ Dispatch
     \/ \E c \in Callers : \/ procd_lock(c)
                           \/ HandlerStep(c, pc # "dead")
                           \/ HandlerExit(c)
  /\ UNCHANGED trackVars

Environment ==
  /\ Flap \/ OtherInterface \/ Traffic
  /\ UNCHANGED trackVars

\* The next command, once the traps of the signals that came in have run.
Command ==
  /\ pending = {}
  /\ \/ firstconnect \/ GiveUp \/ Track \/ IfupDone
     \/ Loop \/ ForkSleep
     \/ CheckIfdown \/ Disable \/ IfdownDone
     \/ CheckIfup \/ CheckReload \/ ReloadDone
     \/ StartRound \/ EndRound
     \/ \E answers \in BOOLEAN : Probe(answers)
     \/ ScoreDown \/ ScoreUp \/ Rest \/ Nap

Next == Main \/ Command \/ HotplugReturn \/ Trap \/ Crash \/ Commit \/ Scripts \/ Environment

Spec == Init /\ [][Next]_vars

\* Processes that can run do run, a released lock is obtained by those that
\* wait for it, a delivered signal is trapped and procd restarts the tracker.
Fairness ==
  /\ WF_vars(Main) /\ WF_vars(Command) /\ WF_vars(HotplugReturn) /\ WF_vars(Trap)
  /\ WF_vars(Dispatch /\ UNCHANGED trackVars)
  /\ \A c \in Callers :
       /\ SF_vars(procd_lock(c) /\ UNCHANGED trackVars)
       /\ WF_vars(HandlerStep(c, pc # "dead") /\ UNCHANGED trackVars)
       /\ WF_vars(HandlerExit(c) /\ UNCHANGED trackVars)

FairSpec == Spec /\ Fairness

-----------------------------------------------------------------------------
(***************************************************************************)
(* Properties.                                                             *)
(***************************************************************************)
\* Types, and the range of the score.
TypeOK ==
  /\ HotplugType
  /\ pc \in {"dead", "firstconnect", "give_up", "track", "ifup_done", "loop",
             "fork_sleep", "asleep", "ifdown", "disable", "ifdown_done",
             "ifup", "reload", "reload_done", "round", "probe", "score",
             "rest", "nap", "hotplug"}
  /\ ret \in {"disable", "rest"}
  /\ site \in {"start", "top", "bottom"}
  /\ STATUS \in {"", "online", "offline", "connecting", "disconnecting",
                 "disabled"}
  /\ STARTED \in BOOLEAN
  /\ IFDOWN_EVENT \in BOOLEAN
  /\ IFUP_EVENT \in BOOLEAN
  /\ RELOAD_EVENT \in BOOLEAN
  /\ orphan \in BOOLEAN
  /\ cfg \in Configs /\ uci \in Configs
  /\ score \in 0..Max(cfg)
  /\ left \in 0..Hosts
  /\ host_up_count \in 0..Reliability
  /\ crashes \in 0..MaxCrashes
  /\ missed \in BOOLEAN

\* The policy never marks packets for the interface while its ip rules are
\* missing, whatever scripts of netifd, tracker and init follow each other;
\* only while a script re-creates the rules of an interface that is in the
\* policy already does it delete them first (mwan3_create_iface_rules).
PolicyRoutable ==
  policy /\ ~rules =>
    \E c \in Callers : /\ lock = c
                        /\ hp[c].todo # <<>>
                        /\ Head(hp[c].todo) = "add_rules"

\* No source stays pinned to the interface once the policy has dropped it:
\* every path that drops it flushes its sticky sets in the same transaction,
\* and nothing pins a source again afterwards.
PinsFollowPolicy == pins => policy

\* Between rounds the score and the status tell the same story, so that the
\* next threshold the score crosses fires the event the status waits for.
ScoreMatchesStatus ==
  pc \in {"nap", "round", "probe", "score"} =>
    /\ STATUS = "online" => score > cfg.up
    /\ STATUS = "disconnecting" => score \in (cfg.up + 1)..warn_threshold
    /\ STATUS \in {"offline", "connecting"} => score < cfg.up

H == INSTANCE Hysteresis WITH
       Up <- FirstConfig.up, Down <- FirstConfig.down,
       inUse <- score > cfg.up,
       against <- IF score > cfg.up THEN Max(cfg) - score ELSE score

ScoreStep == pc = "score" /\ pc' \notin {"score", "dead"}

\* Every round moves the score exactly as counting consecutive failures and
\* successes would: down failures in a row give the interface up, up
\* successes in a row take it back, and nothing else does.
RoundsFollowHysteresis == [][ScoreStep => H!Round(Met)]_vars

\* Nothing but the next round can change anything: no event, no script and no
\* signal is under way, and the tracker sleeps; with a flag set it goes on
\* after the short sleep, but not after the long one.
Settled ==
  /\ event = "none" /\ pending = {}
  /\ \A c \in Callers : Idle(c)
  /\ pc = "asleep" \/ (pc = "nap" /\ ~Events)

\* Once everything has settled, an interface that its tracker holds to be
\* offline is not in the policy, and one whose STATUS file says online is not
\* reported as lacking its rules, up or not; only a tracker that if_up has made
\* put off an ifdown (missed) may hold an interface that is down for online.
SettledIsSound ==
  Settled => /\ STATUS = "offline" => ~policy
             /\ status_file = "online" /\ (ifUp \/ ~missed) => ifaceHealth = "success"

\* The comment in mwan3track that handling pending events at the top of the
\* loop "avoids pinging with stale DEVICE/SRC_IP after wakeup from disabled
\* state": no probe is sent by a tracker that holds its interface disabled.
NoProbeWhileDisabled == pc = "probe" /\ ~Events => STATUS # "disabled"

\* A link whose rounds fail from some time on, while the tracker goes on
\* probing it, is out of the policy from some time on, unless the tracker has
\* lost an ifup the way NoProbeWhileDisabled excludes.
FailoverEventually ==
  /\ []NoProbeWhileDisabled
  /\ <>[](pc = "score" => ~Met)
  /\ []<>(pc = "score")
  => <>[]~policy

\* Claims of the documents and comments that the code does not keep.  Run mwan3_online
\* checks OnlineInPolicy.
\* The README, "Where the code and its documentation disagree", tells the
\* behaviour that refutes each.

\* README.md: SIGUSR2 triggers "immediate state transitions without waiting
\* for the next probe interval": when the ifup script has signalled the
\* tracker of an interface that is up, the tracker is not left asleep.
UpIsAwake == Settled /\ ifUp => pc # "asleep"

\* README.md: "on recovery new traffic returns to the better connection": an
\* interface that is up and online for its tracker is in the policy.
OnlineInPolicy == Settled /\ ifUp /\ STATUS = "online" => policy

\* README.md: "When score reaches `up` threshold from above (on decline):
\* fires `disconnecting` then `disconnected`".
DeclineDisconnects ==
  [][ScoreStep /\ ~Met /\ STATUS \in {"online", "disconnecting"}
     /\ score' <= cfg.up => STATUS' = "offline"]_vars

\* README.md: "The lock is held for the lifetime of the process and released
\* unconditionally on exit": a tracker that procd restarts comes to run.
TrackerRespawns == pc = "dead" ~> pc # "dead"

=============================================================================
