--------------------------- MODULE WirelessDevice ---------------------------
(***************************************************************************)
(* The wireless device manager of netifd (wireless-device.uc, wireless.uc  *)
(* and the callbacks main.uc exports).  Every radio is a small state       *)
(* machine; one external script at a time configures or unconfigures a     *)
(* radio, and everything else (ubus calls, configuration reloads, network  *)
(* changes, the script's own notifications, dying daemons) may arrive      *)
(* between any two callbacks of the event loop.                            *)
(*                                                                         *)
(* Device methods end in a tail call of setup, teardown or run_handler in  *)
(* the code, and so do their operators here: each takes the device d, its  *)
(* object w with the assignments made so far, and the run c that wdev_cur  *)
(* holds, and fixes wdev', wdev_cur', wdev_handler' and the queue's order. *)
(***************************************************************************)
EXTENDS Naturals, FiniteSets

CONSTANTS
  Devices,      \* names of the radios
  Datas,        \* versions of a radio's configuration in /etc/config/wireless
  Nets,         \* what a vif depends on in netifd: disabled, or an ifindex
  NoNet,        \* enabled and without an ifindex: the empty caches of new()
  None,         \* no device, no data
  DEFAULT_RETRY,
  RetryValues,  \* what handler scripts pass with NOTIFY_CMD_SET_RETRY
  MaxEvents     \* bound on requests and environment changes

ASSUME ConstantsAssumption ==
  /\ None \notin Devices
  /\ None \notin Datas
  /\ NoNet \in Nets
  /\ DEFAULT_RETRY \in Nat
  /\ RetryValues \subseteq 0..DEFAULT_RETRY
  /\ MaxEvents \in Nat

VARIABLES
  devices,      \* keys of netifd.wireless.devices
  wdev,         \* the device objects
  wdev_cur,     \* the handler script that runs, dev = None when none does
  wdev_handler, \* the queued operation of each device, "none" when absent
  ahead,        \* <<d, e>>: both queued, time of d earlier than time of e
  fresh,        \* queued devices whose time is the current second
  armed,        \* handler_timer is pending
  announced,    \* wireless_config_done ran and no handler was started since
  link,         \* the vif's link was last reported up to its network
  applied,      \* configuration of the script that last reported UP
  net,          \* netifd: the network state each device's vifs see
  loop, todo,   \* a for loop over the devices, and those it has not visited
  events        \* requests and environment changes so far

sched == <<wdev_cur, wdev_handler, ahead, fresh, announced>>
vars == <<devices, wdev, sched, armed, link, applied, net, loop, todo, events>>

Configs == (Datas \cup {None}) \X Nets

WDev == [state: {"down", "setup", "up", "teardown"},
         autostart: BOOLEAN, delete: BOOLEAN, cancel_setup: BOOLEAN,
         config_change: BOOLEAN, retry_setup_failed: BOOLEAN,
         retry: 0..DEFAULT_RETRY,
         procs: BOOLEAN,            \* processes are monitored
         data: Datas \cup {None},
         seen: Nets,                \* disabled_vifs and ifindex_cache
         handler_config: Configs,   \* the data and the view it was made from
         ifname: BOOLEAN]           \* handler_data has a vif with an ifname

Runs == [dev: Devices \cup {None}, op: {"none", "setup", "teardown"},
         cfg: Configs,              \* the configuration in the script's argv
         up: BOOLEAN]               \* the script has sent NOTIFY_CMD_UP

NoRun == [dev |-> None, op |-> "none", cfg |-> <<None, NoNet>>, up |-> FALSE]

NoWdev == [state |-> "down", autostart |-> FALSE, delete |-> FALSE,
           cancel_setup |-> FALSE, config_change |-> FALSE,
           retry_setup_failed |-> FALSE, retry |-> 0, procs |-> FALSE,
           data |-> None, seen |-> NoNet,
           handler_config |-> <<None, NoNet>>, ifname |-> FALSE]

-----------------------------------------------------------------------------
(***************************************************************************)
(* The handler queue.                                                      *)
(***************************************************************************)

Pending(q) == {d \in Devices : q[d] # "none"}

\* sort(keys(wdev_handler), handler_sort_fn)[0]: no queued entry is older.
\* Entries of the same second compare equal and any of them may come first.
Oldest(q, a) == {d \in Pending(q) : \A e \in Pending(q) : <<e, d>> \notin a}

Without(a, d) == {p \in a : p[1] # d /\ p[2] # d}

\* Fault: the next entry is taken without sorting by time.
FaultyRunNext(objs, q, a, f) ==
  \E d \in Pending(q) :
    /\ wdev_cur' = [dev |-> d, op |-> q[d], up |-> FALSE,
                    cfg |-> objs[d].handler_config]
    /\ wdev_handler' = [q EXCEPT ![d] = "none"]
    /\ ahead' = Without(a, d)
    /\ fresh' = f \ {d}
    /\ announced' = FALSE

\* __run_next_handler: dequeue an oldest entry and start its script with the
\* device's handler_config of this moment on the command line.
RunNext(objs, q, a, f) ==
  \E d \in Oldest(q, a) :
    /\ wdev_cur' = [dev |-> d, op |-> q[d], up |-> FALSE,
                    cfg |-> objs[d].handler_config]
    /\ wdev_handler' = [q EXCEPT ![d] = "none"]
    /\ ahead' = Without(a, d)
    /\ fresh' = f \ {d}
    /\ announced' = FALSE

\* run_handler and the run_next_handler call it ends with.  A script that
\* cannot be spawned is one whose run_handler_cb follows at once.
run_handler(d, w, c, op) ==
  LET objs == [wdev EXCEPT ![d] = w]
      q == [wdev_handler EXCEPT ![d] = op]
      a == Without(ahead, d) \cup
             {<<e, d>> : e \in Pending(wdev_handler) \ (fresh \cup {d})}
  IN /\ wdev' = objs
     /\ IF c.dev = None
        THEN RunNext(objs, q, a, fresh \cup {d})
        ELSE /\ wdev_cur' = c
             /\ wdev_handler' = q
             /\ ahead' = a
             /\ fresh' = fresh \cup {d}
             /\ UNCHANGED announced

\* A method returns without a handler run.
Return(d, w, c) ==
  /\ wdev' = [wdev EXCEPT ![d] = w]
  /\ wdev_cur' = c
  /\ UNCHANGED <<wdev_handler, ahead, fresh, announced>>

-----------------------------------------------------------------------------
(***************************************************************************)
(* The methods of a device object.                                         *)
(***************************************************************************)

wdev_config_init(w) ==
  [w EXCEPT !.handler_config = <<w.data, w.seen>>, !.ifname = FALSE]

wdev_update_disabled_vifs(d, w) ==
  [w EXCEPT !.config_change = @ \/ net[d] # w.seen, !.seen = net[d]]

wdev_reset(w) ==
  [w EXCEPT !.retry = DEFAULT_RETRY, !.retry_setup_failed = FALSE]

setup(d, w, c) ==
  IF w.state \in {"up", "down"} /\ w.autostart /\ ~w.retry_setup_failed
  THEN run_handler(d, [w EXCEPT !.procs = FALSE, !.config_change = FALSE,
                                !.state = "setup"], c, "setup")
  ELSE Return(d, w, c)

\* Fault: the processes of the run stay monitored.
Faulty_teardown(d, w, c) ==
  IF w.state \in {"teardown", "down"}
  THEN Return(d, [w EXCEPT !.cancel_setup = FALSE], c)
  ELSE run_handler(d, [w EXCEPT !.cancel_setup = FALSE,
                                !.state = "teardown"], c, "teardown")

teardown(d, w, c) ==
  IF w.state \in {"teardown", "down"}
  THEN Return(d, [w EXCEPT !.cancel_setup = FALSE], c)
  ELSE run_handler(d, [w EXCEPT !.cancel_setup = FALSE, !.procs = FALSE,
                                !.state = "teardown"], c, "teardown")

check(d, w, c) ==
  LET u == wdev_update_disabled_vifs(d, w)
  IN IF u.config_change /\ u.state \in {"up", "down"}
     THEN setup(d, wdev_config_init(u), c)
     ELSE Return(d, u, c)

\* update(data); data is None when reconf calls it without an argument.
update(d, w, data, c) ==
  LET u == IF data = None THEN w
           ELSE [w EXCEPT !.data = data, !.delete = FALSE]
  IN IF w.data = data
     THEN Return(d, w, c)
     ELSE check(d, [wdev_reset(u) EXCEPT !.config_change = TRUE], c)

start(d, w, c) ==
  LET s == wdev_reset([w EXCEPT !.autostart = TRUE])
      u == wdev_update_disabled_vifs(d, s)
  IN CASE w.delete -> Return(d, w, c)
       [] ~w.delete /\ w.state # "down" -> Return(d, s, c)
       [] ~w.delete /\ w.state = "down" ->
            setup(d, IF u.config_change THEN wdev_config_init(u) ELSE u, c)

retry_setup(d, w, c) ==
  IF w.delete \/ w.state # "down" \/ ~w.autostart
  THEN Return(d, w, c)
  ELSE start(d, w, c)

stop(d, w, c) ==
  LET s == [w EXCEPT !.autostart = FALSE]
  IN CASE w.state = "setup" -> Return(d, [s EXCEPT !.cancel_setup = TRUE], c)
       [] w.state = "up" -> teardown(d, s, c)
       [] w.state \in {"down", "teardown"} -> Return(d, s, c)

\* delete_wdev: the object leaves netifd.wireless.devices.
delete_wdev(d, c) ==
  /\ devices' = devices \ {d}
  /\ Return(d, NoWdev, c)

\* Fault: the object is deleted whatever its state.
Faulty_destroy(d, w, c) == delete_wdev(d, c)

destroy(d, w, c) ==
  IF w.state = "down"
  THEN delete_wdev(d, c)
  ELSE /\ stop(d, [w EXCEPT !.autostart = FALSE, !.delete = TRUE], c)
       /\ UNCHANGED devices

\* handle_link for the vif in handler_data, if one was reported.
handle_link(d, w, up) ==
  link' = IF w.ifname THEN [link EXCEPT ![d] = up] ELSE link

\* new(): the constructor, which also creates handler_timer anew.
new(d, data, c) ==
  /\ devices' = devices \cup {d}
  /\ Return(d, wdev_config_init(wdev_update_disabled_vifs(d,
                 [NoWdev EXCEPT !.autostart = TRUE, !.data = data])), c)

\* Fault: the retry counter is not checked before it is decremented.
FaultyRetry_setup_cb(d, w, c) ==
  CASE w.state = "setup" -> teardown(d, [w EXCEPT !.retry = @ - 1], c)
    [] w.state = "up" /\ w.config_change -> setup(d, wdev_config_init(w), c)
    [] w.state # "setup" /\ ~(w.state = "up" /\ w.config_change) ->
         Return(d, w, c)

\* Fault: the retry counter is never decremented.
FaultyForever_setup_cb(d, w, c) ==
  CASE w.state = "setup" -> teardown(d, w, c)
    [] w.state = "up" /\ w.config_change -> setup(d, wdev_config_init(w), c)
    [] w.state # "setup" /\ ~(w.state = "up" /\ w.config_change) ->
         Return(d, w, c)

\* Fault: a configuration change that was deferred is not applied.
FaultyReapply_setup_cb(d, w, c) ==
  IF w.state = "setup"
  THEN teardown(d, IF w.retry > 0 THEN [w EXCEPT !.retry = @ - 1]
                   ELSE [w EXCEPT !.retry_setup_failed = TRUE], c)
  ELSE Return(d, w, c)

wdev_setup_cb(d, w, c) ==
  CASE w.state = "setup" ->
         teardown(d, IF w.retry > 0 THEN [w EXCEPT !.retry = @ - 1]
                     ELSE [w EXCEPT !.retry_setup_failed = TRUE], c)
    [] w.state = "up" /\ w.config_change -> setup(d, wdev_config_init(w), c)
    [] w.state # "setup" /\ ~(w.state = "up" /\ w.config_change) ->
         Return(d, w, c)

\* Fault: the device is not set up again after the teardown.
FaultyDown_teardown_cb(d, w, c) ==
  IF w.delete
  THEN delete_wdev(d, c)
  ELSE /\ Return(d, [w EXCEPT !.ifname = FALSE, !.state = "down"], c)
       /\ UNCHANGED devices

\* Fault: the delete flag is not looked at.
FaultyDelete_teardown_cb(d, w, c) ==
  LET u == [w EXCEPT !.ifname = FALSE, !.state = "down"]
  IN /\ setup(d, IF w.config_change THEN wdev_config_init(u) ELSE u, c)
     /\ UNCHANGED devices

wdev_teardown_cb(d, w, c) ==
  LET u == [w EXCEPT !.ifname = FALSE, !.state = "down"]
  IN IF w.delete
     THEN delete_wdev(d, c)
     ELSE /\ setup(d, IF w.config_change THEN wdev_config_init(u) ELSE u, c)
          /\ UNCHANGED devices

-----------------------------------------------------------------------------
(***************************************************************************)
(* What the event loop delivers.                                           *)
(***************************************************************************)

\* No for loop over the devices is under way: its iterations, and the failed
\* spawns they may meet, run before any other callback.
Idle == loop = "idle"

\* A request or an environment change, at most MaxEvents of them.
Event == /\ Idle
         /\ events < MaxEvents
         /\ events' = events + 1

\* The loop l goes on to the devices in s; config_start follows config_init.
Iterate(l, s, devs) ==
  CASE s # {} -> loop' = l /\ todo' = s
    [] s = {} /\ l = "init" /\ devs # {} -> loop' = "start" /\ todo' = devs
    [] s = {} /\ (l # "init" \/ devs = {}) -> loop' = "idle" /\ todo' = {}

\* netifd reads its configuration: config_init, then config_start.
config_reload ==
  /\ Event
  /\ Iterate("init", Devices, devices)
  /\ UNCHANGED <<devices, wdev, sched, armed, link, applied, net>>

\* One iteration of update_config: d's new section, or None without one.
update_config(d, data) ==
  /\ loop = "init" /\ d \in todo
  /\ \/ /\ d \in devices /\ data = None
        /\ destroy(d, wdev[d], wdev_cur)
        /\ UNCHANGED armed
     \/ /\ d \in devices /\ data # None
        /\ update(d, wdev[d], data, wdev_cur)
        /\ UNCHANGED <<devices, armed>>
     \/ /\ d \notin devices /\ data # None
        /\ new(d, data, wdev_cur)
        /\ armed' = TRUE
     \/ /\ d \notin devices /\ data = None
        /\ UNCHANGED <<devices, wdev, sched, armed>>
  /\ Iterate("init", todo \ {d}, devices')
  /\ UNCHANGED <<link, applied, net, events>>

\* One iteration of config_start.
config_start(d) ==
  /\ loop = "start" /\ d \in todo
  /\ IF d \in devices /\ wdev[d].autostart
     THEN start(d, wdev[d], wdev_cur)
     ELSE UNCHANGED <<wdev, sched>>
  /\ Iterate("start", todo \ {d}, devices)
  /\ UNCHANGED <<devices, armed, link, applied, net, events>>

\* The network of d's vifs is enabled, disabled or gets another ifindex;
\* netifd then calls check_interfaces.
net_change(d, n) ==
  /\ Event
  /\ n # net[d]
  /\ net' = [net EXCEPT ![d] = n]
  /\ Iterate("check", devices, devices)
  /\ UNCHANGED <<devices, wdev, sched, armed, link, applied>>

\* One iteration of check_interfaces.
check_interfaces(d) ==
  /\ loop = "check" /\ d \in todo
  /\ IF d \in devices /\ wdev[d].autostart
     THEN check(d, wdev[d], wdev_cur)
     ELSE UNCHANGED <<wdev, sched>>
  /\ Iterate("check", todo \ {d}, devices)
  /\ UNCHANGED <<devices, armed, link, applied, net, events>>

\* The ubus methods up, down, retry and reconf of network.wireless.  A call
\* without a device is one call for each of them.
ubus_call(d) ==
  /\ Event
  /\ d \in devices
  /\ \/ start(d, wdev[d], wdev_cur)
     \/ stop(d, wdev[d], wdev_cur)
     \/ retry_setup(d, wdev[d], wdev_cur)
     \/ update(d, wdev[d], None, wdev_cur)
  /\ UNCHANGED <<devices, armed, link, applied, net, loop, todo>>

\* A ubus notify of the script that sets up d.  UP is its last one.
Notifies(d) ==
  /\ Idle
  /\ wdev_cur.dev = d /\ wdev_cur.op = "setup" /\ ~wdev_cur.up
  /\ UNCHANGED <<devices, armed, net, loop, todo, events>>

\* Fault: cancel_setup, autostart and delete are not looked at.
Faulty_mark_up(d) ==
  LET w == wdev[d]
      c == [wdev_cur EXCEPT !.up = TRUE]
  IN /\ Notifies(d)
     /\ IF w.state # "setup"
        THEN Return(d, w, c) /\ UNCHANGED <<link, applied>>
        ELSE /\ Return(d, [wdev_reset(w) EXCEPT !.state = "up"], c)
             /\ handle_link(d, w, TRUE)
             /\ applied' = [applied EXCEPT ![d] = wdev_cur.cfg]

\* NOTIFY_CMD_UP and wdev_mark_up.
wdev_mark_up(d) ==
  LET w == wdev[d]
      c == [wdev_cur EXCEPT !.up = TRUE]
  IN /\ Notifies(d)
     /\ CASE w.state # "setup" ->
               Return(d, w, c) /\ UNCHANGED <<link, applied>>
          [] w.state = "setup" /\ (w.cancel_setup \/ ~w.autostart \/ w.delete) ->
               teardown(d, w, c) /\ UNCHANGED <<link, applied>>
          [] w.state = "setup" /\ ~(w.cancel_setup \/ ~w.autostart \/ w.delete) ->
               /\ Return(d, [wdev_reset(w) EXCEPT !.state = "up"], c)
               /\ handle_link(d, w, TRUE)
               /\ applied' = [applied EXCEPT ![d] = wdev_cur.cfg]

\* NOTIFY_CMD_SET_DATA for a vif, with its ifname.
wdev_set_data(d) ==
  /\ Notifies(d)
  /\ Return(d, [wdev[d] EXCEPT !.ifname = TRUE], wdev_cur)
  /\ UNCHANGED <<link, applied>>

\* NOTIFY_CMD_PROCESS_ADD.
wdev_proc_add(d) ==
  /\ Notifies(d)
  /\ Return(d, IF wdev[d].state \in {"setup", "up"}
               THEN [wdev[d] EXCEPT !.procs = TRUE] ELSE wdev[d], wdev_cur)
  /\ UNCHANGED <<link, applied>>

\* NOTIFY_CMD_SET_RETRY.
set_retry(d, r) ==
  /\ Notifies(d)
  /\ Return(d, [wdev[d] EXCEPT !.retry = r], wdev_cur)
  /\ UNCHANGED <<link, applied>>

\* The interval timer of a monitored device finds a process gone.
wdev_proc_check(d) ==
  /\ Idle
  /\ wdev[d].procs
  /\ teardown(d, wdev[d], wdev_cur)
  /\ UNCHANGED <<devices, armed, link, applied, net, loop, todo, events>>

\* The kernel adds or removes the network device of a reported vif.
hotplug(d, add) ==
  /\ Event
  /\ d \in devices /\ wdev[d].autostart /\ wdev[d].ifname
  /\ handle_link(d, wdev[d], add)
  /\ UNCHANGED <<devices, wdev, sched, armed, applied, net, loop, todo>>

\* Fault: handler_timer is not armed when a run completes.
FaultyTimer_handler_cb(d) ==
  LET w == wdev[d]
  IN /\ wdev_cur.dev = d
     /\ IF wdev_cur.op = "setup"
        THEN /\ wdev_setup_cb(d, w, NoRun)
             /\ UNCHANGED <<devices, link>>
        ELSE /\ wdev_teardown_cb(d, w, NoRun)
             /\ handle_link(d, w, FALSE)
     /\ UNCHANGED <<armed, applied, net, loop, todo, events>>

\* Fault: the links of the vifs are not reported down after a teardown.
FaultyLink_handler_cb(d) ==
  LET w == wdev[d]
  IN /\ wdev_cur.dev = d
     /\ armed' = TRUE
     /\ IF wdev_cur.op = "setup"
        THEN /\ wdev_setup_cb(d, w, NoRun)
             /\ UNCHANGED devices
        ELSE wdev_teardown_cb(d, w, NoRun)
     /\ UNCHANGED <<link, applied, net, loop, todo, events>>

\* The script exits, is killed after DEFAULT_SCRIPT_TIMEOUT, or could not be
\* spawned (inside a loop over the devices, only the latter).
run_handler_cb(d) ==
  LET w == wdev[d]
  IN /\ wdev_cur.dev = d
     /\ armed' = TRUE
     /\ IF wdev_cur.op = "setup"
        THEN /\ wdev_setup_cb(d, w, NoRun)
             /\ UNCHANGED <<devices, link>>
        ELSE /\ wdev_teardown_cb(d, w, NoRun)
             /\ handle_link(d, w, FALSE)
     /\ UNCHANGED <<applied, net, loop, todo, events>>

\* Fault: completion is announced although a script still runs.
Faulty_run_next_handler ==
  /\ Idle
  /\ armed
  /\ armed' = FALSE
  /\ UNCHANGED wdev
  /\ CASE wdev_cur.dev = None /\ Pending(wdev_handler) # {} ->
            RunNext(wdev, wdev_handler, ahead, fresh)
       [] wdev_cur.dev # None \/ Pending(wdev_handler) = {} ->
            /\ announced' = TRUE
            /\ UNCHANGED <<wdev_cur, wdev_handler, ahead, fresh>>
  /\ UNCHANGED <<devices, link, applied, net, loop, todo, events>>

\* handler_timer expires: run_next_handler.
run_next_handler ==
  /\ Idle
  /\ armed
  /\ armed' = FALSE
  /\ UNCHANGED wdev
  /\ CASE wdev_cur.dev # None -> UNCHANGED sched
       [] wdev_cur.dev = None /\ Pending(wdev_handler) # {} ->
            RunNext(wdev, wdev_handler, ahead, fresh)
       [] wdev_cur.dev = None /\ Pending(wdev_handler) = {} ->
            /\ announced' = TRUE
            /\ UNCHANGED <<wdev_cur, wdev_handler, ahead, fresh>>
  /\ UNCHANGED <<devices, link, applied, net, loop, todo, events>>

\* time() moves on to the next second.
Tick ==
  /\ Idle
  /\ fresh # {}
  /\ fresh' = {}
  /\ UNCHANGED <<devices, wdev, wdev_cur, wdev_handler, ahead, announced,
                 armed, link, applied, net, loop, todo, events>>

-----------------------------------------------------------------------------
Init ==
  /\ devices = {}
  /\ wdev = [d \in Devices |-> NoWdev]
  /\ wdev_cur = NoRun
  /\ wdev_handler = [d \in Devices |-> "none"]
  /\ ahead = {}
  /\ fresh = {}
  /\ armed = FALSE
  /\ announced = FALSE
  /\ link = [d \in Devices |-> FALSE]
  /\ applied = [d \in Devices |-> <<None, NoNet>>]
  /\ net \in [Devices -> Nets]
  /\ loop = "idle"
  /\ todo = {}
  /\ events = 0

LoopStep(d) ==
  \/ \E data \in Datas \cup {None} : update_config(d, data)
  \/ config_start(d)
  \/ check_interfaces(d)

Next ==
  \/ config_reload
  \/ run_next_handler
  \/ Tick
  \/ \E d \in Devices :
       \/ LoopStep(d)
       \/ \E n \in Nets : net_change(d, n)
       \/ ubus_call(d)
       \/ wdev_mark_up(d)
       \/ wdev_set_data(d)
       \/ wdev_proc_add(d)
       \/ \E r \in RetryValues : set_retry(d, r)
       \/ wdev_proc_check(d)
       \/ \E add \in BOOLEAN : hotplug(d, add)
       \/ run_handler_cb(d)

\* The event loop returns to its timers, a script ends or is killed when its
\* timeout expires, for loops come to their end and time passes.
Fairness ==
  /\ WF_vars(run_next_handler)
  /\ WF_vars(Tick)
  /\ WF_vars(\E d \in Devices : LoopStep(d))
  /\ WF_vars(\E d \in Devices : run_handler_cb(d))

Spec == Init /\ [][Next]_vars
FairSpec == Spec /\ Fairness

-----------------------------------------------------------------------------
(***************************************************************************)
(* Properties.                                                             *)
(***************************************************************************)
\* The fields of the device objects, the queue and the running script have
\* their types, and the retry counter of wdev_setup_cb stays in its range.
TypeOK ==
  /\ devices \subseteq Devices
  /\ wdev \in [Devices -> WDev]
  /\ wdev_cur \in Runs
  /\ wdev_handler \in [Devices -> {"none", "setup", "teardown"}]
  /\ ahead \subseteq Devices \X Devices
  /\ fresh \subseteq Devices
  /\ armed \in BOOLEAN
  /\ announced \in BOOLEAN
  /\ link \in [Devices -> BOOLEAN]
  /\ applied \in [Devices -> Configs]
  /\ net \in [Devices -> Nets]
  /\ loop \in {"idle", "init", "start", "check"}
  /\ todo \subseteq Devices
  /\ events \in 0..MaxEvents

Queued(d, op) == wdev_handler[d] = op
Running(d, op) == wdev_cur.dev = d /\ wdev_cur.op = op

\* No device is wedged: setup() and teardown() refuse to act in the states
\* "setup" and "teardown", so only a handler run that is queued or under way
\* can lead out of them; and a device that is settled, or whose object has
\* left netifd.wireless.devices, has none that would change it behind its
\* back (wireless-device.uc, setup, teardown, delete_wdev).
NoWedge ==
  \A d \in Devices :
    /\ wdev[d].state = "setup" => Queued(d, "setup") \/ Running(d, "setup")
    /\ wdev[d].state = "teardown" =>
         Queued(d, "teardown") \/ Running(d, "teardown")
    /\ wdev[d].state = "up" =>
         Queued(d, "none") /\ (wdev_cur.dev = d => wdev_cur.up)
    /\ wdev[d].state = "down" => Queued(d, "none") /\ wdev_cur.dev # d
    /\ d \notin devices => wdev[d].state = "down"

\* No lost wakeup: when no script runs, queued handlers and a completion
\* event that is still to be sent have the timer of run_handler_cb or new()
\* to count on (wireless-device.uc, run_handler_cb, run_next_handler).
NoLostWakeup ==
  wdev_cur.dev = None /\ (Pending(wdev_handler) # {} \/ (devices # {} /\ ~announced))
    => armed

\* wireless_config_done tells wpa_supplicant to start its MLD interfaces and
\* procd that wireless is done; once it has, and until another handler runs,
\* no device is halfway through a setup or a teardown.
DoneMeansSettled ==
  announced => \A d \in Devices : wdev[d].state \in {"up", "down"}

\* A device that was stopped or removed is never left up: stop() and
\* destroy() during a setup only leave flags that wdev_mark_up, or the
\* callbacks of the runs to come, must honour (cancel_setup, delete).
StopIsHonoured ==
  \A d \in Devices :
    /\ wdev[d].state = "up" => wdev[d].autostart /\ ~wdev[d].delete
    /\ wdev[d].cancel_setup => wdev[d].state = "setup"
    /\ wdev[d].delete => /\ wdev[d].state \in {"setup", "teardown"}
                         /\ ~wdev[d].autostart

\* A device that should run is down only after its retries are used up: a
\* teardown, a reload or a reconfiguration never leaves a device down that
\* is neither stopped nor failed (the setup() that ends wdev_teardown_cb,
\* start and check).  Only a new device waits, for its config_start.
DownIsDeliberate ==
  \A d \in devices :
    wdev[d].state = "down" =>
      \/ ~wdev[d].autostart
      \/ wdev[d].retry_setup_failed
      \/ loop = "init" \/ (loop = "start" /\ d \in todo)

\* Once its setup script has ended, a device that is up runs the latest
\* configuration it was given, however updates, network changes and the
\* script's notifications interleaved (config_change, wdev_config_init).
UpRunsLatestConfig ==
  \A d \in Devices :
    wdev[d].state = "up" /\ wdev_cur.dev # d =>
      applied[d] = <<wdev[d].data, wdev[d].seen>>

\* Processes are watched only while the device they belong to is being set
\* up or up: a monitor left over from an earlier run would tear down a
\* device that no longer owns the process (wdev_proc_reset).
MonitorBelongsToRun ==
  \A d \in Devices :
    wdev[d].procs =>
      /\ wdev[d].state \in {"setup", "up"}
      /\ wdev[d].state = "setup" => Running(d, "setup")

\* A vif whose link is reported up is forgotten without being reported down
\* only by the reconfiguration of a device that stays up meanwhile: the
\* wdev_config_init of check and wdev_setup_cb drops it from handler_data,
\* and the next setup script is expected to report it again.
LinkForgottenOnlyByReconf ==
  [][\A d \in Devices :
       link[d] /\ wdev[d].ifname /\ ~wdev[d].ifname' =>
         \/ ~link[d]'
         \/ wdev[d].state = "up" /\ wdev[d].state' = "setup"]_vars

\* Handlers are served oldest first: whatever the other devices do, even if
\* their daemons die again and again, a queued handler run gets its turn.
Served ==
  \A d \in Devices : ~Queued(d, "none") ~> wdev_cur.dev = d

\* A device removed from the configuration goes away, unless a later reload
\* brings it back: destroy() only marks a device that is not down.
RemovedEventually ==
  \A d \in Devices : wdev[d].delete ~> ~wdev[d].delete

Settled ==
  /\ \A d \in Devices : wdev[d].state \in {"up", "down"}
  /\ devices # {} => announced

\* Retries end: when requests, network changes and dying daemons have
\* stopped, every device is eventually up, stopped or given up, no handler
\* runs any more and completion was announced.
Stabilises ==
  <>[][\A d \in Devices : ~wdev_proc_check(d)]_vars => <>[]Settled

\* Claims of the documents and comments that the code does not keep.  No
\* standing run checks this one.
\* The README, "Where the code and its documentation disagree", tells the
\* behaviour that refutes each.

\* The comment in check(): "Defer applying a new config while a handler run
\* is in progress: the running script keeps its start-time config, and the
\* setup/teardown callback re-applies once it finishes".  No new
\* handler_config is made for a device while its script runs.
ApplyDeferredDuringRun ==
  \A d \in Devices :
    wdev_cur.dev = d => wdev[d].handler_config = wdev_cur.cfg

=============================================================================
