---------------------------- MODULE ServicePages ----------------------------
(***************************************************************************)
(* The pages that show and drive a service: the status line polled by      *)
(* ddns-go/config.js, ddns-go/ddns-go.js, openlist2/basic.js,              *)
(* unblockneteasemusic/config.js, smartdns.js, timecontrol/basic.js,       *)
(* qbittorrent.js and mwan3/status/{overview,detail,routing}.js,           *)
(* the restart, password and update handlers of ddns-go/config.js, and the *)
(* core of unblockneteasemusic (UnblockCore) behind status.js.  Texts and  *)
(* colours are left out.                                                   *)
(***************************************************************************)
EXTENDS UnblockCore

CONSTANTS
    MaxFlips,    \* bound: starts and stops from outside, changes of dnsmasq
    MaxFaults,   \* bound: calls that fail
    MaxHandled   \* bound: clicks on the buttons of ddns-go

Plain == {"openlist2", "unblock-config", "qbittorrent"}
Mwan3Status == {"overview", "detail", "routing"}
Viewers == Plain \cup Mwan3Status \cup {"ddns-go", "ddns-go-panel", "smartdns", "timecontrol", "unblock"}
Sources == {"poll", "first", "extra"}

VARIABLES
    viewer,   \* the open page
    up,       \* its service runs
    enabled,  \* ddns-go: the option the init script reads
    polls,    \* source -> "idle", "due" or the answer under way
    shown,    \* the status line
    dhcp,     \* smartdns: [wanted, forwards, cache, loading]
    restart,  \* handleRestartService: where it is
    alert,    \* what it has said
    reset,    \* handleResetPassword: where it is
    modal,    \* the dialogue it shows
    update,   \* handleUpdate: [pc, text, timer]
    flips, faults, handled

ddnsVars == <<enabled, restart, alert, reset, modal, update, handled>>
pageVars == <<viewer, up, polls, shown, dhcp, ddnsVars, flips, faults>>
serviceVars == <<coreVars, pageVars>>

Fault == faults < MaxFaults /\ faults' = faults + 1

(*------------------------------ status lines ----------------------------*)
Status == IF up THEN "up" ELSE "down"

\* getServiceStatus, checkProcess and checkTimeControlProcess take a call
\* that fails for a service that is down.
getServiceStatus(src) ==
    \/ polls' = [polls EXCEPT ![src] = Status] /\ UNCHANGED faults
    \/ Fault /\ polls' = [polls EXCEPT ![src] = "down"]

\* pidof, and ps when the call of pidof fails.
checkProcess(src) ==
    \/ getServiceStatus(src)
    \/ Fault /\ polls' = [polls EXCEPT ![src] = Status]

checkTimeControlProcess(src) == getServiceStatus(src)

\* checkRunning of ddns-go.js has no catch: its poll does nothing then, its
\* render fails.
checkRunning(src) ==
    \/ polls' = [polls EXCEPT ![src] = Status] /\ UNCHANGED faults
    \/ Fault /\ polls' = [polls EXCEPT ![src] = IF src = "first" THEN "broken" ELSE "idle"]

\* The status pages of mwan3 have no catch either, and a ubus error comes
\* back as an answer without interfaces, shown as such.
callMwan3Status(src) ==
    \/ checkRunning(src)
    \/ Fault /\ polls' = [polls EXCEPT ![src] = "empty"]

detailStatus(src) == callMwan3Status(src)

callRoutingHealth(src) == callMwan3Status(src)

\* The poll of a page that loads its status first is added by its render.
Rendered == shown \notin {"collecting", "broken"}

Ask(src) ==
    /\ viewer # "unblock"
    /\ polls[src] = (IF src = "poll" THEN "idle" ELSE "due")
    /\ src = "poll" /\ viewer \in Mwan3Status \cup {"ddns-go-panel"} => Rendered
    /\ CASE viewer = "ddns-go-panel" -> checkRunning(src)
         [] viewer = "overview" -> callMwan3Status(src)
         [] viewer = "detail" -> detailStatus(src)
         [] viewer = "routing" -> callRoutingHealth(src)
         [] viewer = "ddns-go" -> checkProcess(src)
         [] viewer = "timecontrol" -> checkTimeControlProcess(src)
         [] OTHER -> getServiceStatus(src)
    /\ UNCHANGED <<viewer, up, shown, dhcp, ddnsVars, flips>>

FaultySmartdnsRenderStatus(s) ==
    /\ shown' = IF s = "up" /\ dhcp.wanted /\ dhcp.cache # "forwards" THEN "warn" ELSE s
    /\ dhcp' = [dhcp EXCEPT !.cache = "none"]

\* The warning is decided on what was loaded before; the same call then drops
\* it and loads dhcp again without waiting.
smartdnsRenderStatus(s) ==
    IF s = "up" /\ dhcp.wanted
    THEN /\ shown' = IF dhcp.cache = "forwards" THEN "up" ELSE "warn"
         /\ dhcp' = [dhcp EXCEPT !.cache = "none", !.loading = TRUE]
    ELSE shown' = s /\ UNCHANGED dhcp

\* ddns-go.js loads the page again when the service changes.
reloadPanel(s) ==
    IF shown = "collecting" \/ s = shown
    THEN shown' = s /\ polls' = [polls EXCEPT !["poll"] = "idle", !["first"] = "idle"]
    ELSE shown' = "collecting" /\ polls' = [polls EXCEPT !["poll"] = "idle", !["first"] = "due"]

renderStatus(src) ==
    /\ polls[src] \notin {"idle", "due"}
    /\ IF viewer = "ddns-go-panel" THEN reloadPanel(polls[src]) /\ UNCHANGED dhcp
       ELSE /\ polls' = [polls EXCEPT ![src] = "idle"]
            /\ IF viewer = "smartdns" THEN smartdnsRenderStatus(polls[src])
               ELSE shown' = polls[src] /\ UNCHANGED dhcp
    /\ UNCHANGED <<viewer, up, ddnsVars, flips, faults>>

dhcpLoaded ==
    /\ dhcp.loading
    /\ dhcp' = [dhcp EXCEPT !.loading = FALSE,
                            !.cache = IF dhcp.forwards THEN "forwards" ELSE "other"]
    /\ UNCHANGED <<viewer, up, polls, shown, ddnsVars, flips, faults>>

\* The service starts, dies, or is restarted by hand; dnsmasq is set up anew.
Outside ==
    /\ viewer # "unblock" /\ flips < MaxFlips /\ flips' = flips + 1
    /\ \/ up' = ~up /\ UNCHANGED dhcp
       \/ viewer = "smartdns" /\ dhcp' = [dhcp EXCEPT !.forwards = ~@] /\ UNCHANGED up
    /\ UNCHANGED <<viewer, polls, shown, ddnsVars, faults>>

(*-------------------- handleRestartService of ddns-go -------------------*)
\* "checked" of the list querySelectorAll returns is undefined, whatever the
\* box shows.
enabledValue == FALSE

Click == viewer = "ddns-go" /\ handled < MaxHandled /\ handled' = handled + 1

StatusPoll == polls' = [polls EXCEPT !["extra"] = IF @ = "idle" THEN "due" ELSE @]

RestartFailed ==
    /\ Fault /\ restart' = "none" /\ alert' = "error"
    /\ UNCHANGED <<enabled, up, polls>>

handleRestartService ==
    /\ \/ restart = "save"
          /\ \/ enabled' = enabledValue /\ restart' = "stop" /\ UNCHANGED <<up, polls, alert, faults>>
             \/ RestartFailed
       \/ restart = "stop"
          /\ \/ up' = FALSE /\ restart' = "wait" /\ UNCHANGED <<enabled, polls, alert, faults>>
             \/ RestartFailed
       \/ restart = "wait"
          /\ \/ up' = (enabledValue \/ up) /\ restart' = "none" /\ alert' = "restarted"
                /\ StatusPoll /\ UNCHANGED <<enabled, faults>>
             \/ enabledValue /\ RestartFailed
    /\ UNCHANGED <<viewer, shown, dhcp, reset, modal, update, flips, handled>>

\* The button of the dialogue closes it and starts the handler.
clickRestart ==
    /\ Click /\ modal \in {"reset", "partial"} /\ restart = "none"
    /\ modal' = "none" /\ restart' = "save"
    /\ UNCHANGED <<viewer, up, enabled, polls, shown, dhcp, alert, reset, update, flips, faults>>

(*--------------------- handleResetPassword of ddns-go -------------------*)
clickReset ==
    /\ Click /\ reset = "none" /\ modal' = "spinning" /\ reset' = "exec"
    /\ UNCHANGED <<viewer, up, enabled, polls, shown, dhcp, restart, alert, update, flips, faults>>

FaultyResetFailed == Fault /\ reset' = "none" /\ UNCHANGED modal

ResetFailed == Fault /\ reset' = "none" /\ modal' = "none"

\* A command that ends with an error goes on; a call that fails does not.
\* The file is read and written in any case.
handleResetPassword ==
    /\ \/ reset = "exec" /\ reset' \in {"read", "read_partial"} /\ UNCHANGED <<modal, faults>>
       \/ reset = "read" /\ reset' = "write" /\ UNCHANGED <<modal, faults>>
       \/ reset = "read_partial" /\ reset' = "write_partial" /\ UNCHANGED <<modal, faults>>
       \/ reset = "write" /\ reset' = "none" /\ modal' = "reset" /\ UNCHANGED faults
       \/ reset = "write_partial" /\ reset' = "none" /\ modal' = "partial" /\ UNCHANGED faults
       \/ reset # "none" /\ ResetFailed
    /\ UNCHANGED <<viewer, up, enabled, polls, shown, dhcp, restart, alert, update, flips, handled>>

hideModal ==
    /\ modal \in {"reset", "partial"} /\ modal' = "none"
    /\ UNCHANGED <<viewer, up, enabled, polls, shown, dhcp, restart, alert, reset, update, flips,
                   faults, handled>>

(*------------------------- handleUpdate of ddns-go ----------------------*)
clickUpdate ==
    /\ Click /\ update.pc = "none" /\ update' = [update EXCEPT !.pc = "asked", !.text = "updating"]
    /\ UNCHANGED <<viewer, up, enabled, polls, shown, dhcp, restart, alert, reset, modal, flips,
                   faults>>

\* An update that was made asks for the status and, 3 s later, for the version.
handleUpdate ==
    /\ update.pc = "asked"
    /\ \/ update' = [pc |-> "none", text |-> "updated", timer |-> TRUE] /\ StatusPoll
       \/ /\ \E t \in {"latest", "failed", "unknown"} : update' = [update EXCEPT !.pc = "none", !.text = t]
          /\ UNCHANGED polls
    /\ UNCHANGED <<viewer, up, enabled, shown, dhcp, restart, alert, reset, modal, flips, faults,
                   handled>>

versionTimer ==
    /\ update.timer /\ update' = [update EXCEPT !.timer = FALSE, !.text = "version"]
    /\ UNCHANGED <<viewer, up, enabled, polls, shown, dhcp, restart, alert, reset, modal, flips,
                   faults, handled>>
-----------------------------------------------------------------------------
\* The pages that read the status once more when they are rendered.
ReadsAtOnce == {"timecontrol", "ddns-go-panel"} \cup Mwan3Status

PageInit ==
    /\ viewer \in Viewers /\ up \in BOOLEAN /\ enabled = up
    /\ polls = [s \in Sources |->
                  IF s = "first" /\ viewer \in ReadsAtOnce THEN "due" ELSE "idle"]
    /\ shown = "collecting"
    /\ dhcp \in {[wanted |-> w, forwards |-> f, cache |-> IF f THEN "forwards" ELSE "other",
                  loading |-> FALSE] : w, f \in BOOLEAN}
    /\ viewer # "smartdns" => dhcp.wanted /\ dhcp.forwards
    /\ restart = "none" /\ alert = "none" /\ reset = "none" /\ modal = "none"
    /\ update = [pc |-> "none", text |-> "version", timer |-> FALSE]
    /\ flips = 0 /\ faults = 0 /\ handled = 0

ServiceInit == PageInit /\ CoreInit

PageNext ==
    \/ \E s \in Sources : Ask(s) \/ renderStatus(s)
    \/ dhcpLoaded \/ Outside
    \/ clickRestart \/ handleRestartService \/ clickReset \/ handleResetPassword \/ hideModal
    \/ clickUpdate \/ handleUpdate \/ versionTimer

OnPage(A) == A /\ UNCHANGED coreVars
OnCorePage(A) == viewer = "unblock" /\ A /\ UNCHANGED pageVars

ServiceNext ==
    \/ OnPage(PageNext)
    \/ OnCorePage(CoreNext)
-----------------------------------------------------------------------------
(* Properties *)

Truth == IF up /\ dhcp.wanted /\ ~dhcp.forwards THEN "warn" ELSE Status

\* Once the service is left alone its page comes to tell the truth about it
\* and goes on to, whatever polls, first reads and handlers crossed; a page
\* whose render failed (ddns-go.js, mwan3) is the exception.  On smartdns a poll
\* that overtakes the load of dhcp warns for nothing, so the truth returns
\* again and again.
StatusRight ==
    /\ []<>(viewer # "unblock" => shown \in {Truth, "broken"})
    /\ <>[](viewer \notin {"unblock", "smartdns"} => shown \in {Truth, "broken"})

\* Every handler ends: the dialogue stops spinning, the restart comes to an
\* alert, the update of the core gives its button back.
HandlersEnd ==
    /\ modal = "spinning" ~> modal # "spinning"
    /\ restart # "none" ~> restart = "none"
    /\ Working("page") ~> ~Working("page")

\* Claims of the documents and comments that the code does not keep.  No
\* standing run checks this one.
\* The README, "Where the code and its documentation disagree", tells the
\* behaviour that refutes each.

\* The alert of handleRestartService says "DDNS-Go service restarted
\* successfully" only when the service runs again.
RestartedMeansRunning == alert = "restarted" => up
=============================================================================
