# Verification of imoutowrt's control logic

imoutowrt is an OpenWrt/ImmortalWrt distribution. Most of the tree is build
system, kernel patches and packages of other projects. The program logic that
lives in the tree itself, runs concurrently with the rest of the router and is
hard to test is

* the **wireless device manager** of netifd
  (`package/network/config/wifi-scripts/files/lib/netifd/wireless-device.uc`,
  `wireless.uc`, and `package/network/config/netifd/files/lib/netifd/main.uc`),
* **mwan3**, the multi-WAN manager (`swlplay/apk/mwan3/files`): the link
  tracker `mwan3track`, the hotplug script `25-mwan3` and the service script,
* **unetmsg**, the message broker between hosts
  (`package/network/services/unetmsg`),
* the **LuCI applications** under `swlplay/apk`: JavaScript pages that edit
  configuration and drive services through asynchronous calls, with the shell
  scripts behind them.

The first two and the JavaScript applications are modelled here; unetmsg is not
yet.

All paths below are relative to `src/`; `WD` stands for `wireless-device.uc`,
`TR` for `usr/sbin/mwan3track`, `HP` for `etc/hotplug.d/iface/25-mwan3`, `IN` for
`etc/init.d/mwan3`, `SH` for `lib/mwan3/mwan3.sh`, `RM` for mwan3's `README.md`.
Pages are named by file: `policy.js` and the other mwan3 pages are in
`luci-app-mwan3/htdocs/luci-static/resources`, the others in the
`htdocs` or `root/www` tree of their `luci-app-…`.

## Inventory

| Part | State it keeps | Operations | Interaction | What is hard | What makes it correct |
|---|---|---|---|---|---|
| Wireless device manager | one object per radio (`state`, `autostart`, `delete`, `cancel_setup`, `config_change`, retries, monitored processes, `handler_data`, `handler_config`), the handler queue, the running script, `handler_timer` | `config_init`, `config_start`, `check_interfaces`, ubus `up`/`down`/`retry`/`reconf`, `notify` from the script, `hotplug`, process monitor, script exit and timeout | ubus, netifd callbacks, child processes, uloop timers | one script slot for all radios; requests arrive while a script runs and leave only flags; the state machine refuses calls silently | no radio wedged, no run lost, stop and removal honoured, latest configuration applied, completion announced when settled |
| mwan3 tracker | score, `STATUS`, three event flags, `STARTED`, thresholds, the STATUS file, the lock file | start, first connect, probe round, score, event checks, traps, sleep | starts hotplug scripts in the foreground; receives HUP/USR1/USR2; procd restarts it | traps between any two commands; flags cleared late; scripts wait for a lock | hysteresis, status agrees with score, dead links leave the policy, live links come back |
| mwan3 hotplug and reload | `iface_state`, policy chains, sticky sets, ip rules | `ifup`, `ifdown`, `connected`, `disconnected`, `reload_service` | started by netifd, tracker and procd, serialised by `procd_lock` | order of lock acquisition, order of steps inside an arm | policy never selects an unroutable member; no pin to a dropped member |
| mwan3 rules and policies (`mwan3.sh`, `common.sh`) | nft batch, rule bases, interface ids | render sets, chains, marks | called by the two above | metric tiers and weights, bit masks, nested batches | chains equal a reference selection |
| mwan3rtmon, CLI, rpcd | route tables, status output | copy routes, print | netlink, ubus | – | – |
| unetmsg | tx/rx channels per peer, handles, publish/subscribe registries, timers | connect, auth, announce, request, disconnect | ubus and TCP channels between hosts | reconnects, timers, stale registrations | registries of two hosts agree once connected |
| mwan3 policy builder (`widgets.js`, `policy.js`, `member.js`) | editor state, the browser's uci cache, the member table of the page load, orphans offered | edit tiers and shares, save, fail, retry, delete orphans, edit members | uci calls | the cache differs from the router after a failed save; rounding between weights and shares; members shared by policies | what is saved is what was drawn, nothing dangles, no dropped member is forgotten |
| mwan3 rule pages (`rule.js`, `configuration.js`, `simulator.js`, `ipmath.js`) | the rule list, mask, sets | edit, move, disable rules; report shadowed rules; simulate a packet | predict what `mwan3.sh` renders | two families, CIDR arithmetic, order, sets, marks, source interfaces, destinations exempt from the rules | reports and predictions agree with the nft rules |
| OpenClash version checker (`subconverter-version.js`) | timer, request number, controller, cache, status | select, type, schedule, run, answers, hide | fetch, AbortController | late and aborted answers | the status is the selected backend's, the best verdict wins, checking ends |
| OpenClash editor (`common.js`, `entry.js`, `config_edit.htm`) | window globals for full screen, zoom, theme, differences | hot keys, modal, merge view | the modal's own copies, late answers | copies in two places, editors replaced under hot keys | copies agree, patched styles are restored |
| netspeedtest (`homebox.js`, `iperf3.js`, `wanspeedtest.js`, `netspeedtest.sh`) | page state, configuration file, processes, result, PID and lock file | toggle, poll, save, leave, start test | procd, init script | polls race toggles; commands nobody waits for; saves overlap, fail or are cut short; two starts of the script | server as asked, one test at a time, pages settle |
| Log pages of six applications and OpenClash's start log | remembered content, clearing | poll, clear, stream | file on the router | answers cross a clear or a failure | page follows the log |
| Status pages (ddns-go, openlist2, smartdns, timecontrol, unblockneteasemusic, qbittorrent, mwan3) | status line, dialogs, buttons | poll, restart, reset password, update | ubus calls, init scripts | crossing handlers, failing calls | the truth comes back, handlers end |
| unblockneteasemusic updater (`update.sh`, `status.js`, init) | core files, `core_local_ver`, lock file | update from page, cron and init; remove | wget, flock | failure half way, truncated files, three starters, lock removed | one download at a time, the version file tells the truth |
| Settings forms (openlist2, unblockneteasemusic, timecontrol, ddns-go, mwan3 interface) | widgets, uci, what the service runs with | edit, hide, clear, save, apply, reset | uci defaults against script defaults | an option that is not stored takes another default; a script that overrules or writes back an option | the page shows what runs |
| hostapd/wpa_supplicant glue, wifi scripts, unetd scripts, base-files, procd helpers, cli, mtd, gpio-button-hotplug, the timecontrol daemon, openclash's shell scripts, shipped dashboards, build system, targets | – | – | – | sequential scripts, I/O, presentation or code of other projects | – |

`PROJECT.json` lists every part with its status, and under `hazards` the places
in the code that a test would hardly reach, with the property that watches them.

## Modules

| Module | Content |
|---|---|
| `WirelessDevice` | the wireless device manager, its properties and fairness |
| `MCWirelessDevice` | its instances for TLC |
| `WirelessDeviceProofs` | theorems about it: scheduling; flags, configurations, links and wakeups |
| `Hysteresis` | what link tracking promises, as an abstract specification |
| `Mwan3Hotplug` | one mwan3 interface, the scripts that change it and their lock |
| `Mwan3Track` | `EXTENDS Mwan3Hotplug`: the tracker of the interface, composed with the scripts it starts and is signalled by, and all properties |
| `MCMwan3Track` | instances for TLC |
| `Mwan3Proofs` | theorems about scripts, lock, policy and pins, about the states in which all is settled, and about the tracker's score |
| `PolicyBuilder`, `MCPolicyBuilder` | the Policies and Members pages and the configuration check of what they save |
| `PolicyBuilderProofs` | theorems about them, with the arithmetic of shares and weights |
| `IpMath` | the address arithmetic of `ipmath.js` |
| `RuleBook`, `MCRuleBook` | `EXTENDS IpMath`: rules, shadow report, simulator, and the core's matches as reference |
| `RuleBookProofs` | theorems about the report and the simulator, with the number theory of prefixes |
| `SubconverterVersion` | OpenClash's version checker |
| `OcEditor` | OpenClash's editor state |
| `OpenClashPages`, `MCOpenClashPages` | composes the two, one page open at a time |
| `OpenClashProofs` | theorems about both |
| `NetSpeedTest`, `MCNetSpeedTest` | the three test pages and their scripts |
| `NetSpeedTestProofs` | theorems about them |
| `LogPages` | seven log pages |
| `UnblockCore` | the core of unblockneteasemusic and its updates |
| `ServicePages` | `EXTENDS UnblockCore`: eleven status pages and their handlers |
| `LuciPages`, `MCLuciPages` | composes `ServicePages` and `LogPages` in one browser |
| `UnblockCoreProofs` | theorems about the core updates within `LuciPages` |
| `ConfigForms`, `MCConfigForms` | five settings forms and the scripts that read them |
| `ConfigFormsProofs` | theorems about them |

### WirelessDevice

The methods of a device end in a call of `setup`, `teardown` or `run_handler`,
and the operators with these names follow the code in this: each takes the
device, its object with the assignments made so far and the run in `wdev_cur`,
and passes them on. An action is one callback of the event loop, which ucode
runs without interruption: a ubus call, a notification of the script, a timer,
the end of the script. The three loops over all devices (`config_init` followed
by `config_start`, and `check_interfaces`) are one action per device in an
arbitrary order, with `loop` and `todo` as their state; no other action happens
meanwhile, since the code does not return to the event loop in between.

*The queue.* `handler_sort_fn` orders runs by `time()`, which has a resolution
of a second: runs queued in the same second compare equal. `ahead` holds the
pairs whose order is known and `fresh` the runs of the current second, so that
no clock value is needed; `Tick` lets a second pass.

*The script* is a child process. It sends its notifications only during a setup
run, `NOTIFY_CMD_UP` once and last, as the handler scripts do
(`netifd-wireless.sh`), and then exits. Its 30 s timeout, a failure to start it
(WD:235) and its exit have the same effect, `run_handler_cb`.

*The data.* A configuration is a version (`Datas`), what a radio's interfaces
see of netifd is one value (`Nets`: the disabled flags and the ifindex of
WD:330-373 together); `handler_config` is the pair of both that
`wdev_config_init` used. How `config_init` assembles a version from UCI
sections, MLO devices, vlans and stations (`wireless.uc` 113-354) does not
matter to the properties and is left out, as are `status` and `get_validate`,
which change nothing.

### Mwan3Hotplug and Mwan3Track

One interface, with the processes that act on it: netifd, the tracker, the
service's reload, and scripts run for other interfaces, which rebuild all
policies (`OtherInterface`). netifd runs one script per interface at a time and
keeps only the newest event meanwhile. The arms of `25-mwan3` and
`reload_service` are sequences of steps (`Arm`); a step is what other processes
or packets can see a half of: writing `iface_state`, one nft transaction,
deleting or adding the ip rules with the routing table, sending a signal.
`procd_lock` admits one script at a time, in any order. The state starts when
`start_service` has ended.

`policy` says that the policy chains choose the interface; the interface is
taken to be in the lowest metric tier, where being online decides this.
`pins` says that a sticky set of the interface holds a source.

The tracker is one action per command, or per group of commands between which
neither a trap nor another process makes a difference. Busybox ash runs pending
traps between two commands, lowest signal number first and all of them: `Trap`
does this and `Command` waits until no signal is pending. While a hotplug script
runs in the foreground traps are held back (`pc = "hotplug"`); `sleep & wait`
ends at once when a trap kills the sleep. The numbers of a probe's quality, the
lengths of intervals, LOST/TURN/ONLINE files and log output are left out. A
round with `ROUTE_STATUS` down is a round without hosts. Signals sent before the
traps are installed kill the process, which is the same as `Crash` and a lost
signal. `up` and `down` are positive, as all values that the configuration form
offers are (`luci-app-mwan3`, `interface.js` 260-287).

Not modelled here: `stop_service`, the restart of the service when `reload_service`
counts too few trackers (the runs with reloads have no crashes), conntrack, the
per-interface nft chain, the `mwan3` command line.

### PolicyBuilder

`saved` is the router's configuration and `cache` the browser's; a click on Save
changes the cache at once (`applyPolicy`) and the router when the call succeeds
(`saveDone`). `saveFailed` leaves the cache changed, as the code does. Section
names are sequences, so that a generated name (`<iface>_m<m>_w<w>`) equals a
typed one exactly when the texts do. `gcdList`, `computeWeights`, `RoundShare`
and `distributeEqual` are the widget's arithmetic; `collectIssues` is what the
Configuration page says of members and policies. Sorting and filtering are
written by position: `Increasing` lists the numbers of a set in order and `At`
takes the elements of a sequence at such positions. `RoundShare` is exact; where
all members of a family and metric have weight 0 it gives `NaN`, as 0/0 does in
JavaScript, with which no total is 100. The interfaces of rows are fixed
whenever the page draws them (`Rendered`). The assumptions say that the user's
shares are in `1..100` (the input's limits), weights are natural numbers, no
interface has the empty name and each has a family (`BoundsAssumption`), and
that the page is first loaded with a configuration without errors, in which
every member has a metric and a weight (`ConfigAssumption`).

### IpMath and RuleBook

Literals are records of family, value and prefix length with `W4` and `W6` bits,
or a dotted netmask, which the fields accept (validators.js:42), of which the
pages' `parseInt` reads the first number, and which the core does not take for an
address (`AddrFamily`): the rule is then not installed. What a parser makes of a
literal of the other family is modelled as JavaScript's
`parseInt` and shifts make it. `shadowed` and `handleSimulate` are the pages;
`NftMatch` and `CoreVerdict` are the rules that SH renders, as reference.

A packet is the first of a connection that the router forwards, with the device
it came in on. `FromIface` is the core's match of `src_iface`, an option that
the form does not have, so that no edit touches it; `Rendered` drops a rule
whose interface has no device. `ReachesRules` is `mwan3_prerouting` before the
rules (SH:596-633): packets from the devices of mwan3's own interfaces are
marked on the way in (`WanDevices`), and those to a destination in the
connected, custom or dynamic sets, in a single-link IPv6 network or of the
router itself return (`Connected` and `Exempt`). The simulator looks at
`Connected` alone, and neither page at `src_iface` or at the dotted netmask.
`Legible`, `Local` and `NotExempt` are what has to be said of rules and packets
for the pages to be right, and the claims `ShadowReportsTrue` and
`ExemptionsPredicted`, which TLC refutes, show that it has to be said. Neighbour
discovery, which is accepted first, and marks restored from conntrack are left
out.

The actions are the edits that the rule form's validators let through. `Rules` is the
type of a rule, `Literals` of what the fields accept; the assumptions of `RuleBook`
say that the values offered to the edits have these types, that a set holds
entries of its own family, and that a packet has one family and, with tcp and
udp, a port.

### SubconverterVersion, OcEditor, OpenClashPages

A check is a record that runs through its candidates, directly and then through
the proxy; `Stale` is the test of request number and abort. `crossed` remembers
that an early return of `run()` or a `hide()` left a check running, which
`SettledShowsSelection` excludes. In `OcEditor` an editor is its kind, its place
in the document, its zoom classes and its theme; the patch of ancestor styles is
modelled element by element. `HasView` are the panes whose `.cm-editor` element
carries the `cmView` that `ocApplyEditorTheme` asks for (common.js:586): none,
with the CodeMirror 6 that is shipped (`cm6.min.js`), which sets it on
`.cm-content` and below. A pane therefore keeps the theme it was created with,
and what `ViewsAgree` can say of themes is that the two panes agree and a chosen
theme is the page's; that the editor has it too is the claim
`EditorHasPageTheme`, which TLC refutes.

### NetSpeedTest

Each toggle is a chain of promises of its own (`loops`), so that two of them can
overlap after the poll has ended the first. A command is a step of the chain,
executed some time after it was sent. Homebox's stop sends `killall` without
waiting for it (homebox.js:61) and then runs the init script, which deletes the
service and kills once more (init script 30, 32): the first is a chain of its
own that nobody waits for (`left`), the other two are two steps (`stop_service`,
`killall`). A page that is left takes its promises with it but not the commands
it has sent (`LeftBehind`). `calm` is lost when a process dies, comes back or
does not start, when an answer is applied out of date, when an earlier toggle,
ending late, gives the button back during a later one, when a start is clicked
while a command of an earlier stop has yet to run, and when the page is left
with a command under way.

A save is a write of the whole file and then an enable or disable, each of which
may fail; the checkbox stays enabled, so saves overlap, and leaving the page
drops the second half (`cut`). `sound` says that the last save was alone from
its start and came to its end. The test script reads the PID file, removes a
stale one, takes the flock, writes its PID, tests, and removes the PID file in
its exit trap, each a step of its own; a killed copy leaves the PID file, and
its child the lock (`orphan`). PIDs are not used again, SIGTERM is not sent, and
`killall` takes effect when it runs.

### LogPages, UnblockCore, ServicePages, LuciPages

A read is a snapshot taken on the router and handled later. An update job goes
through lock, version, file list, files, certificates and version file, and may
stop at each. `wget`'s exit status is not looked at, only whether the file has
any content (update.sh:52, 61): a download that fails leaves an empty file and
ends the update (`Empty`, `Partial`), one that is cut short is taken for good
(`Short`). The Remove button deletes the lock with the core. The handlers of
ddns-go are steps between two awaits each. The status pages of mwan3 load before
they render and have no catch: a failing load leaves an error page, a failing
poll the old content, a ubus error an empty answer until the next poll. The
browser shows one page of either kind.

### ConfigForms

Each form is a table: kind of widget, default in the form, whether an empty
value is kept, default in the script, `depends()`. `Load`, `Valid`, `Store` and
`Active` are LuCI's form rules (external), `Effective` the scripts' reading. Two
options the scripts overrule: with fw4 `pub_access` counts only with `use_ipset`
(init script of unblockneteasemusic, 173 and 214), and `delayed_start` of
openlist2 is 0 once the router has been up for two minutes (openlist2.init:139,
`late`); `Overruled` names both, and `ShownIsRun` says that they are then off.
One they write: openlist2's `get_config` makes up a `jwt_secret` and commits it
(`Started`), which happens before the page loads again. `Tables` holds the forms
and `Installed` the configuration files that the packages install, by page.
`Active` repeats a round of `checkDepends` (`Shown`) three times, which is until
nothing changes, since no option is more than two parents deep. Options with
equal rows behave alike, so one of each is edited (`MCEdited`).

## What is model-checked

Passing runs (two workers, each below five minutes):

| Run | Instance | Distinct states | Properties |
|---|---|---|---|
| `wireless_one` | one radio, two configurations, two network states, three retries as in the code, five requests or changes | 552,352 | `TypeOK`, `NoWedge`, `StopIsHonoured`, `DownIsDeliberate`, `UpRunsLatestConfig`, `MonitorBelongsToRun`, `LinkForgottenOnlyByReconf` |
| `wireless_pair` | two radios, one retry, two events, fair | 290,615 | `NoLostWakeup`, `DoneMeansSettled`, `Served`, `RemovedEventually`, `Stabilises` |
| `mwan3_flap` | four flaps, one crash, two hosts, `up` 2 and `down` 3, fair | 444,966 | `PinsFollowPolicy`, `ScoreMatchesStatus`, `SettledIsSound`, `RoundsFollowHysteresis`, `FailoverEventually` |
| `mwan3_reload` | three flaps, two reloads between two sets of thresholds | 6,368,039 | `TypeOK`, `PolicyRoutable` |
| `policy_builder` | three interfaces of two families, two policies that share a member, four edits, one failed save | 653,575 | `SavedIsReadable`, `SavedAsDrawn`, `DroppedMembersHandled` |
| `rule_book` | the shipped rules and four edits; three devices, addresses of 2 and 4 bits; 144 packets | 310,142 | `ShadowSound`, `SimulatorAgreesWithCore` |
| `openclash_pages` | three ancestors, three answers on their way; two backends, four typed values, three checks, with and without proxy and AbortController, fair | 1,017,623 | `SettledShowsSelection`, `FullscreenRestored`, `ViewsAgree`, `VerdictIsBest`, `CheckingEnds` |
| `netspeedtest` | three clicks on toggles, tests and saves, one fault, fair | 787,409 | `ServerAsAsked`, `OneTestAtATime`, `PageSettles` |
| `luci_pages` | two core versions, one lost or truncated download or lost call, three clicks, two log lines, one clear, fair | 258,830 | `OneDownload`, `TrustedVersion`, `StatusRight`, `HandlersEnd`, `PageFollowsLog` |
| `config_forms` | five forms, four edits, with fw4 | 274,983 | `ShownIsRun`, `NeutralSave`, `HiddenIsOff` |

What they show:

* *wireless*: no radio is left neither settled nor scheduled, a stop or removal
  is not overruled by a late notification, a radio that is up runs the
  configuration stored last, and no queued run is lost or starved.
* *mwan3*: the order in which scripts get the lock does not leave the policy
  with an unroutable member or a pin to a dropped one, once things have settled
  a link held offline is out of the policy and the Routing Health page
  (`ifaceHealth`) does not show an online interface without its rules, but for
  the put-off ifdown that `missed` names (see the proofs), and a link whose rounds
  keep failing leaves the policy.
* *policy_builder*: shares survive the way through weights, members and metrics
  and back, also after a failed save; no orphan deletion breaks another policy.
* *rule_book*: a rule reported unreachable below one without source interface and
  dotted netmask is, and for rules whose addresses are
  of the family they name and packets of the local networks to destinations not
  exempt the simulator finds the rule that nft finds.
* *openclash_pages*: apart from the two returns named above no late answer
  overwrites a newer verdict, and neither hot keys nor replaced editors leave
  flags, styles, zoom or the themes of two panes apart.
* *netspeedtest*: apart from the cases that `calm` names, overlapping toggles end
  as the last click asked, a save that ran alone leaves file and init script in
  agreement whatever failed before it, flock keeps tests apart although the PID
  file does not, and every page settles.
* *luci_pages*: statuses become true again, handlers end, logs are followed, and
  the version file is trustworthy except where the observations say.
* *config_forms*: outside the options of `Disagree` a form shows what runs and a
  save without edits is neutral, and what the scripts overrule is off.

Deaths of monitored daemons, notifications, traffic, probe rounds and scripts of
other interfaces are not bounded. Bounded are requests and changes from outside
(`MaxEvents`, `MaxFlaps`, `MaxReloads`, `MaxCrashes`); the code keeps no count
of them, so what matters is how many can overlap one script: five suffice for
stop, start, remove, re-add and a network change within one run, three flaps for
an ifup overtaking an ifdown overtaking an ifup, and the fourth of `mwan3_flap`
for both signals to be trapped together while an earlier ifup is handled.
Behaviours stop at the bound, therefore the runs have `CHECK_DEADLOCK FALSE`;
that nothing gets stuck is what `NoWedge`, `NoLostWakeup` and the liveness
properties say. With `up` 2 and `down` 3 every branch of the scoring code is
taken, the warn threshold and the full score included.

The bounds of the pages count clicks, failures and answers under way. The code
compares request numbers and flags only with the newest, so three checks or
clicks reach every order of an old, a replaced and a new one (for Homebox three
were too few to show the late toggle described under the proofs, which takes
four; `ServerAlwaysAsAsked` has no bound); one failure is
enough since every `catch` resets what its own chain set. Four edits of a rule
list can set family, protocol and an address of one rule and disable or move
another; four edits of a form clear, hide, show and set an option. `Fw4` is
true in `config_forms`, the case in which `pub_access` is overruled; the proofs cover
both. Address
widths of 2 and 4 bits keep a first octet or group and a rest, the one thing the
parsers tell apart. `config_forms` and `netspeedtest` check for deadlock; the others
stop at their bounds.

Each property is also known to be breakable: for each a faulty variant of one
definition (`Faulty…`, next to the definition, listed under `mutants`) makes TLC
find a violation.

### Where the code and its documentation disagree

Two runs end in a counterexample.

| Run | Property | Code | What is written |
|---|---|---|---|
| `mwan3_online` | `OnlineInPolicy` | a late `disconnected` script undoes the ifup, and `FIRSTCONNECT=1` (HP:14) keeps the tracker from repairing it | RM:2431 "on recovery new traffic returns to the better connection" |
| `policy_weight` | `WeightsAcceptable` | widgets.js:124 rounds the weights 1 and 300 to 0 % and 100 %; the next save creates a member with weight 0 | member.js:58 "Acceptable values: 1-1000. Defaults to 1 if not set" |

The following claims are stated in the modules too, without a standing run; TLC
refutes each when it is put in place of the properties in the configuration of
the component's run.

| Property (module) | Code | What is written |
|---|---|---|
| `ApplyDeferredDuringRun` (`WirelessDevice`) | WD:454 tests the state; between `NOTIFY_CMD_UP` and the exit of the script a change is applied at once, and the exit then counts as a failure of the new setup | WD:449-453 "Defer applying a new config while a handler run is in progress" |
| `UpIsAwake` (`Mwan3Track`) | TR:359-362, TR:369-372: an ifup signal before the sleep is started, or held back during the `disconnected` script, leaves the tracker in its endless sleep | RM:872 "immediate state transitions" |
| `NoProbeWhileDisabled` (`Mwan3Track`) | TR:379: `IFUP_EVENT=0` also clears an ifup that arrived during `firstconnect` | TR:363-366 "avoids pinging with stale DEVICE/SRC_IP" |
| `DeclineDisconnects` (`Mwan3Track`, with reloads) | TR:535-537: a score that a reload has put at or below `up` goes to 0 without `disconnected` | RM:846 |
| `TrackerRespawns` (`Mwan3Track`) | TR:279-287, TR:360: the sleep inherits descriptor 9 and survives a killed tracker | RM:4401 "released unconditionally on exit" |
| `OrphansOffered` (`PolicyBuilder`) | policy.js:118-126: a retry after a failed save computes orphans from the changed cache and finds none | policy.js:87-90 "offer them for selective deletion" |
| `SaveInStep` (`PolicyBuilder`) | a failed save enables the button whatever the state is | policy.js:173-175 "keeps the Save button in step with validity" |
| `ShadowReportsTrue` (`RuleBook`) | configuration.js:24-66 does not look at `src_iface` (SH:1524, 1589) nor at dotted netmasks: below a rule for one interface a rule is reported that packets of other interfaces meet | configuration.js:21 "every packet matching B also matches A so B is shadowed." |
| `ExemptionsPredicted` (`RuleBook`) | simulator.js:445-460 tests the connected networks only; SH:623-629 also exempts the router's addresses and the custom and dynamic sets | simulator.js:326 "simulate which mwan3 rule matches and which policy would handle the traffic" |
| `EditorHasPageTheme` (`OcEditor`) | common.js:586: `.cm-editor` has no `cmView` in the shipped CodeMirror, so an open editor is never given the new theme | common.js:580 "Apply CM6 editor themes + highlight.js theme based on current data-darkmode." |
| `AccessGiven` (`ConfigForms`) | init script of unblockneteasemusic, 173 and 214: with fw4 the ports are opened only with `use_ipset` | config.js:265 "默认仅放行局域网请求，如需提供公开访问请勾选此选项。" (by default only requests from the LAN are let in; tick this option for public access) |
| `DefaultRulesPredicted` (`RuleBook`) | with the family left open `::/0` matches IPv4 addresses in the simulator and `0.0.0.0/0` IPv6 ones | simulator.js:68 "Returns true if the rule matches the simulation input." |
| `MarkBitsDisjoint` (`RuleBook`) | the mask on the Globals page may be changed under existing rules | rule.js:151 "Mask must not overlap mwan3 internal mark bits." |
| `RestartedMeansRunning` (`ServicePages`) | ddns-go config.js:208 reads `.checked` of a list of elements, which is undefined, so the service is disabled and stopped | config.js:221 "DDNS-Go service restarted successfully" |

### Fairness

`WirelessDevice`: weak fairness of the timer, of the end of a script (it exits
or is killed after 30 s), of the loops and of passing time. Nothing is assumed
of requests, and daemons may die for ever. `Served` needs the queue order: with
any pending run allowed to go first it fails. `Stabilises` assumes that daemons
stop dying.

`Mwan3Track`: weak fairness of every process step, of trapping a delivered
signal and of procd's respawn, strong fairness of obtaining `procd_lock`, which
waiting processes get in some order once it is released (flock). Nothing is
assumed of links, probes, traffic, flaps, reloads or crashes.
`FailoverEventually` states its own premises: rounds go on and fail from some
time on, and the tracker has not lost an ifup in the way of
`NoProbeWhileDisabled`.

The pages: polls repeat, calls are answered or fail, timers and animation frames
fire, and scripts on the router go on (`wget -T10` and the test script have
timeouts). LuCI's poll and the browser's promises guarantee this while a page is
open. Fairness is stated per reader and for the disjunction of the handlers of a
page, of which at most one chain of each kind is under way. Nothing is assumed of
clicks, faults, services or log lines; the properties of the form `<>[]` hold
because these are bounded in the instances, which stands for "once the user and
the services are quiet".

## What is proved

TLAPS checks these for every value of the constants that the named assumptions
allow; TLC evaluates the assumptions in the runs. "Any number" below means that
the bounds of the runs are constants of the theorem.

| Theorem (module) | States |
|---|---|
| `TypeCorrect`, `NeverWedged`, `DoneOnlyWhenSettled` (`WirelessDeviceProofs`) | `TypeOK`, `NoWedge`, `DoneMeansSettled` |
| `StopAlwaysHonoured`, `LatestConfigRuns`, `MonitorsBelong`, `DownOnlyDeliberately`, `WakeupsNeverLost`, `LinksReportedDown` (`WirelessDeviceProofs`) | `StopIsHonoured`, `UpRunsLatestConfig`, `MonitorBelongsToRun`, `DownIsDeliberate`, `NoLostWakeup`, `LinkForgottenOnlyByReconf` |
| `ScoreInvariant`, `HysteresisFollowed`, `ScoreAlwaysMatches` (`Mwan3Proofs`) | the range of the score, `RoundsFollowHysteresis`, `ScoreMatchesStatus` |
| `TrackTypeCorrect`, `PolicyAlwaysRoutable`, `PinsAlwaysFollow` (`Mwan3Proofs`) | `TypeOK`, `PolicyRoutable`, `PinsFollowPolicy` |
| `SettledInvariant`, `SettledOnlineHasRules`, `SettledAlwaysSound` (`Mwan3Proofs`) | who has the news of a lost rule, its consequence for both initial states, and `SettledIsSound` |
| `PoliciesNameMembers`, `DroppedAlwaysHandled`, `SavedAlwaysReadable`, `SavedAlwaysAsDrawn` (`PolicyBuilderProofs`) | no policy on the router names a missing member, `DroppedMembersHandled`, `SavedIsReadable`, `SavedAsDrawn` |
| `ShadowAlwaysSound`, `SimulatorAlwaysAgrees` (`RuleBookProofs`) | `ShadowSound`, `SimulatorAgreesWithCore` |
| `FullscreenAlwaysRestored`, `ViewsAlwaysAgree`, `SettledAlwaysShowsSelection`, `VerdictAlwaysBest` (`OpenClashProofs`) | `FullscreenRestored`, `ViewsAgree`, `SettledShowsSelection`, `VerdictIsBest` |
| `OneTestAlways`, `ServerAlwaysAsAsked` (`NetSpeedTestProofs`) | `OneTestAtATime`, `ServerAsAsked` |
| `OneDownloadAtATime`, `VersionAlwaysTrusted` (`UnblockCoreProofs`) | `OneDownload`, `TrustedVersion` |
| `FormsShownIsRun`, `FormsNeutralSave`, `FormsHiddenIsOff` (`ConfigFormsProofs`) | `ShownIsRun`, `NeutralSave`, `HiddenIsOff` |

### The wireless device manager

From `ConstantsAssumption` (`None` is no device and no data, retries are natural
numbers), for any number of radios, configurations and requests.

*Scheduling.* The inductive invariant is `IInv = TypeOK /\ SchedInv /\ AbsentInv`.
`NoWedge` alone is not inductive: it does not say that a running teardown
excludes a queued run of the same radio, nor that a setup script that has not
reported UP excludes a queued setup; without these the end of a script could
strand the radio. `SchedInv` adds both (`DevOK`, one radio's object against its
queue entry and the running script) and ties `announced` to an empty queue.
Since all methods of a device end in `run_handler` or return, the argument is
made once for these and carried up the calls: `Before(d, w, c)` is what a method
may assume of the object it is given and `After(d)` what it leaves behind; each
method has its lemma, and each action its step.

*Promises.* `PromiseInv` adds `FlagInv`, `DownInv` and `NoLostWakeup`. `FlagInv` says of
each object which flags go with which state (`FlagsOK`) and how it relates to the
running script and to what last came up (`RunOK`). `UpRunsLatestConfig` is not
inductive without `RunOK`: an UP notification makes the script's configuration the
applied one, so the script must be known to carry the stored configuration
unless `config_change` is set, and a radio that is up with `config_change` set
must still have its script running, whose end starts the change.
`LinksReportedDown` is an action property; its step is the one that shows the
invariant.

### mwan3

*The score*, from `TrackAssumption` (positive thresholds) and for thresholds that
are not reconfigured (`Configs = {FirstConfig}`). The invariant is that the score
stays in `0..down+up` and is never at `up`; at `score = up` the code would drop a
link without calling `disconnected`, which is the case a reload can bring about
(`DeclineDisconnects`), hence the hypothesis. Every scoring command is then a
`Round` of `Hysteresis`, with `inUse` mapped to `score > up` and `against` to the
distance of the score from its end. `StatusInv` adds that `STATUS` agrees with the
score at every command after the start, not only between rounds.

*The scripts*, from `HotplugAssumption` and `TrackAssumption`, for any number of
flaps, reloads, crashes, hosts and sets of thresholds. Only the holder of
`procd_lock` changes `iface_state`, `policy` and the rules, so what may be said of these
between two steps depends on the steps the holder has left. `StateOK(t)` says it
for each remainder `t` of each arm: for instance that the rules are there unless
the next step adds them, and that a script that has written `offline` has yet to
rebuild the policies. `ScriptsOK` says that a script without the lock has done
nothing yet. Neither `PolicyRoutable` nor the order of steps in one arm alone is
inductive: a script must find the state as any other may have left it.

`PinsAlwaysFollow` assumes `initial_state = "online"`, the default. With `offline` it
is false (HP:80, see the observations): ifup then writes the state without a
rebuild, and a rebuild for another interface drops the member and leaves its
pins.

*Settled states.* `SettledIsSound` speaks of a state in which nothing is under way,
so its invariant must say, of every state, who still has to act. `DownNews` does
this for an interface that has lost its rules: netifd's event or a script is
under way, or `USR1` is pending, or the tracker has a flag set, or it is at a
command that will look again. The other parts say which script a caller can be
at (`CallersOK`), that netifd's newest event is about the state the interface is
in (`NetifdOK`), that an ifup's signal is not the last one of an interface without
rules (`SignalsOK`), which commands need `STARTED` or an event (`ControlOK`), and what
a disabled tracker has published (`PublishedOK`). `SettledInvariant` and
`SettledOnlineHasRules` hold for both initial states. `SettledAlwaysSound` assumes
`initial_state = "online"` for the other half of the property, that a link held
offline is not in the policy (`UpNews`): with `offline` a tracker killed while its
`connected` script runs is replaced by one that starts with `STATUS` offline, and
the script then puts the link into the policy.

The attempt to prove it showed that an earlier form of the property, without
`missed`, held only because the run had three flaps. With four, TLC finds that
`USR1` and `USR2` pending together are trapped in the order of their numbers
(TR:37-43): `if_up` runs last and clears `IFDOWN_EVENT`. When this happens in the
`firstconnect` of an earlier ifup, TR:379 then clears `IFUP_EVENT` as well, so that
the tracker goes on as online for an interface that is down, until its rounds
fail. `missed` remembers exactly this trap, and the property still speaks of such
a tracker once the interface is up again.

### Policy builder

From `BoundsAssumption` and `ConfigAssumption`: for any interfaces, any first
configuration without errors, any shares and weights, and any number of tiers,
entries, edits and failed saves.

*Names* (`BuilderInv`). In the cache and on the router policies name only members
that exist, and the members that may be deleted, those of the save in flight and
those in the dialog, are named by no policy of the cache. For a save that began
with a clean cache, every member that has come to be without a policy is deleted
or among the orphans (`SaveOK`), which `DroppedMembersHandled`, a statement about the
end of the save, needs.

*Reading* (`ReadInv`). Router and cache hold configurations that can be read,
and the page's member table and the editor's rows are of the kind made from one,
also after a failed save, when they are no longer those of the cache. Grid and
builder then take the same members in the same order: filtering by family and
then by metric, and by metric and then by family, select the same positions
(lemmas on `At` and `Increasing`).

*Drawing* (`DrawnInv`). While a save is in flight the cache shows the policy as it
was drawn. In one tier and family the shares make 100 (`getErrors`), their
weights are the shares divided by the greatest common divisor, and since that
divides every share the quotient `weight * 100 / total` is exact and gives the
share back (`ExactDivision`). The members of tier `t` are the ones with metric `t` in
the list, so tiers come back in order. A member found for a row has its
interface, metric and weight; it is neither deleted with the orphans, which
exclude the names in use, nor overwritten by a new one, whose name must be free.

What needs induction over sequences and sums is proved by the least
counterexample of a property of natural numbers, stated with sets and functions,
since the library's induction theorems cannot be instantiated here; sums appear
as functions of partial sums.

### Rules

From `WidthAssumption`, `PowerAssumption`, `RulesAssumption`, `SetsAssumption`
and `PacketsAssumption`: for addresses of any width (32 and 128 bits included),
any rule list, sets, connected networks and packets, and any number of edits.
`PowerAssumption` is the law of exponents up to `W6`, `2^(m+n) = 2^m * 2^n`; it
is true of the integers, but needs induction, which the provers lack. The state
part of the proof is small (`RuleInv`: the list keeps its type, and ports occur
only with tcp or udp, which the form's `depends` ensures). Source interfaces,
devices and exempt destinations are arbitrary. The rest is about the operators:
two numbers agree under a mask exactly when they lie in the same block of `2^k`
(`SameBlock`, `Unique`); a coarser mask keeps agreement (`Coarser`); so
`ipv4CidrContains` and `ipv6CidrContains` of the page imply that every address
that the inner network covers is covered by the outer one (`ContainsCovers`),
and a rule that contains another takes all its packets (`ContainsMatches`). The
IPv4 mask needs care: JavaScript takes the shift distance modulo the word width,
and only the test for length 0 keeps `/0` right (`MaskedAlike4`). For the
simulator, each field's test is shown equal to the core's match for rules of one
family (`RuleAlike`), and then the first match is the same.

### OpenClash

From `AncestorsAssumption` and `ValuesAssumption`, for any elements around the
editor, any answers on their way, any backends and number of checks. `ScreenInv`
adds to `FullscreenRestored` that the stored patch is the one the styles show,
which leaving full screen relies on. `CheckInv` says of every check under way
which candidates it has asked and what they gave, of every cached verdict that
it is of its key, and (`SelectionInv`) that the current check is of the selected
backend unless a change waits for the timer or the check was crossed.

### netspeedtest and the core updates

`OneTestAlways` rests on the flock (`ScriptInv`): one copy is past it, whatever
the PID file says. `ServerAlwaysAsAsked` needs `SaveInv` for the settings, and
for the process `ToggleInv`: while the page is calm, only the toggle clicked
last may still start a server, commands that kill are under way only where a
stop was asked, and the last toggle drives the process while an operation is in
progress. The attempt to prove it was what showed that the property, in an
earlier form, held only because the run has three clicks. With four, TLC finds
that a toggle that ends late resets `operationInProgress` (homebox.js:272)
although a later one has set it, after which a start and a stop can be under way
together. `calm` now names this case.

`UnblockCoreProofs` assumes that `MaxVersion` is a natural number and covers any
number of clicks, cron runs, starts, versions and lost calls. `CoreInv` says that
while the lock file is not deleted every update at work holds the same lock
(`LockInv`), and that between emptying the core and writing the version file the
noted version is older than the one being fetched (`FetchInv`), which
`TrustedVersion`, a statement about states without a running update, does not say.
A part that an update has passed is of its version or cut short (`Got`).

### Forms

From `PagesAreForms` (the pages are among the five) and `Fw4Assumption` (fw4 is there
or not), for any number of edits. What
the proof needs of a form is stated once for a row (`RowOK`), for instance that an
option whose two defaults differ is required and always shown, or that a flag
which may be hidden is off for the script when it is not stored, and checked for
every row of every form. The invariant is `FormOK`, about the widgets, and `UciOK`,
about what is stored: no empty value, always the options whose two defaults
differ (outside `Disagree`), and of a hidden option nothing but the script's own
default. The installed files satisfy it, and saving a valid form keeps it.
`ShownIsRun` is not inductive without it: what a cleared or hidden option falls
back to depends on what the file held before.

### Only model-checked

* Liveness: `Served`, `RemovedEventually`, `Stabilises`, `FailoverEventually`,
  `CheckingEnds`, `PageSettles`, `StatusRight`, `HandlersEnd`, `PageFollowsLog`.
  Fairness and `ENABLED` are outside what the prover supports.
* The claims that the code does not keep, which are counterexamples.

Every safety property of a passing run is stated by a theorem. Outside the models
and therefore outside the proofs is the rounding of JavaScript's numbers: the
model computes shares exactly.

## Observations without a run

* WD:383: a radio removed and added again with identical data while it is being
  torn down returns early from `update`, keeps its `delete` flag and disappears.
  With other data it stays, but with `autostart` false.
* WD:136-140: `wdev_config_init` forgets the interfaces it has reported up; when
  the setup that follows fails they are never reported down.
* WD:408: `start` during the teardown of a `stop` does not look at the networks
  again.
* HP:80-83: with `initial_state` offline, ifup writes `iface_state` offline and
  leaves policy and pins; a rebuild for another interface then drops the member
  with its pins left, until the tracker's own script runs. `PinsFollowPolicy` is
  checked with `initial_state` online.
* TR:491-503, 532: a host in the grey zone counts as not answering, so a round of
  grey hosts lowers the score, whereas RM:868 says that it "neither increments
  nor decrements score".
* SH:1056: `mwan3_create_iface_rules` deletes the rules before it adds them, so
  `connected` and a reload leave a moment without rules for a member that the
  policy selects; `PolicyRoutable` allows exactly this moment. RM:1461 calls the
  calls "harmless no-ops".
* TR:37-43, 379: an ifdown trapped together with an ifup while an earlier ifup
  is handled is forgotten, since `if_up` runs last and clears `IFDOWN_EVENT`;
  the tracker holds the interface online, although it is down, until its rounds
  fail. RM:872 speaks of "immediate state transitions".
* TR:391: a HUP that arrives while a reload is handled is cleared with it.
* A `connected` script that waits while the interface goes down, up and down
  again may put the interface, now down, back into the policy.

Policy builder and rules:

* rule.js documents ranges with `-` ("1024-2048"); `portMatches` of the simulator
  knows only `:`. IPv6 set ranges are compared as IPv4. The rule base fields of
  globals.js are not validated when empty, and renaming a set leaves rules with
  the old name.
* The builder rounds `weight / total * 100` and the grid `weight * 100 / total`; as
  floating point numbers these differ at some exact halves: for the weights 23
  and 17 the builder opens with 57 % and the grid shows 58 %.

OpenClash:

* `run()` returns early for an empty or invalid value without aborting the check
  under way, and `hide()` keeps the debounce timer: the old answer is shown.
* `loadConfigContent` has no request number: the late answer for file A fills the
  editor that is titled B, from where it can be saved into B.
* A new editor has no zoom class while `_ocCurrentZoom` keeps its level;
  `_ocMergeShowDifferences` is not reset for a new merge view; the `matchMedia`
  listener is never registered.

netspeedtest:

* homebox.js:272: the end of a toggle resets `operationInProgress` whichever
  toggle set it, so a first toggle that ends late enables the button during a
  second; two more clicks then have a start and a stop under way at once, and
  which of them the process follows is open.
* homebox.js:61: the stop's `killall` is not waited for. When it is executed late,
  after the stop has been seen done and a start been clicked, it kills the new
  server; the same holds for the init script's `killall` when the poll ends the
  stop early. `calm` excludes exactly the start clicked while such a command has
  yet to run: without this TLC finds, with no fault, a server that was asked for
  and is not there.
* homebox.js:299-339: saves overlap, since the checkbox stays enabled, and one may
  fail between write and enable or be cut there by leaving the page; file and
  init script then disagree until a later save runs alone.
* iperf3 enables its button at once, so a late start can overtake a stop; its
  save does not update `state.port`.
* Each page's save replaces the whole `/etc/config/netspeedtest`.
* A copy of the test script that gives up removes the running test's PID file.

Logs and status pages:

* ddns-go log.js: after a failure the error stays while the log equals
  `lastLogContent`, although the page says it refreshes every 5 seconds.
* A poll that read the log before a clear shows the old log again until the
  next poll. timecontrol sorts lines without a stamp to the top.
* ddns-go's password reset writes back the whole file it has read.
* smartdns may report "Dnsmasq Forwarded To Smartdns Failure" while the dhcp
  configuration is loading.

unblockneteasemusic:

* When the file list does not come, `core_local_ver` is the latest version without
  a core, and every later update says it is the latest; the repair in the init
  script removes a file of another name.
* Removing the core deletes the lock file under a running update.
* update.sh:51-65: a file that was cut short counts as downloaded, and
  `core_local_ver` is written; the next update says that the core is the latest.

Forms whose default differs from the script's (`Disagree`):

* ddns-go `delay` (form 60, script 0 once cleared); unblockneteasemusic
  `hijack_ways` (leaving the advanced mode turns ipset hijacking on again);
  openlist2 `enable_active_conn_ip_check` and `enable_pasv_conn_ip_check` (form
  off, script 1: saving any option switches the checks off); mwan3
  `failure_interval` and `recovery_interval` (form 5, tracker `interval`: the first
  save changes 10 to 5).

Options a script overrules or writes: `delayed_start` of openlist2 is 0 for every
start later than two minutes after boot, so that the value on the page is not
the one in force after an apply; `jwt_secret` is stored by the service itself
while the page may be open.

## Not modelled

unetmsg (planned), the rendering of policies and rules by `mwan3.sh` except for
what a rule matches, `mwan3rtmon` and the command line, the smartdns settings form
(its init script is not in the tree), openclash's shell scripts around a
downloaded core, the dashboards that are shipped in built form, and the parts
listed as not modelled in `PROJECT.json`. Of the modelled pages, layout, texts,
icons and translations are left out.

## Plan

1. Done: the wireless device manager, its runs and its scheduling theorems; the
   mwan3 interface with tracker and scripts, its runs and the hysteresis theorem;
   the LuCI applications.
2. Done: every safety property of the passing runs, for every value of the
   constants.
3. unetmsg: two hosts, channels, handshake, reconnect timers and registries, with
   an abstract registry that they implement once connected.
4. mwan3 policies: member selection by metric and weight (SH:1076-1270) against a
   reference over bounded inputs.
