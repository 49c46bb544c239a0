------------------------------ MODULE LuciPages ------------------------------
(***************************************************************************)
(* A browser on the applications that drive a service: it shows one page,  *)
(* a status page (ServicePages, with the core of unblockneteasemusic       *)
(* behind it) or a log page (LogPages).  A page that is not shown does     *)
(* nothing.                                                                *)
(***************************************************************************)
EXTENDS ServicePages, LogPages

VARIABLE tab   \* the kind of page shown: "service" or "log"

vars == <<tab, serviceVars, logVars>>

\* The page that is not shown is in any one of its initial states.
Init ==
    /\ tab \in {"service", "log"} /\ ServiceInit /\ LogInit
    /\ tab = "service" => logPage = "openclash"
    /\ tab = "log" => viewer = "unblock" /\ ~up

Service(A) == tab = "service" /\ A /\ UNCHANGED <<tab, logVars>>
Log(A) == tab = "log" /\ A /\ UNCHANGED <<tab, serviceVars>>

Next == Service(ServiceNext) \/ Log(LogNext)

Spec == Init /\ [][Next]_vars

\* Polls repeat, calls are answered or fail, timers and animation frames fire,
\* scripts on the router go on.
Handlers == dhcpLoaded \/ handleRestartService \/ handleResetPassword \/ handleUpdate \/ versionTimer
Scripts == remove_core \/ check_version \/ \E j \in Jobs : JobStep(j)

FairSpec ==
    /\ Spec
    /\ \A s \in Sources : WF_vars(Service(OnPage(Ask(s) \/ renderStatus(s))))
    /\ WF_vars(Service(OnPage(Handlers))) /\ WF_vars(Service(OnCorePage(Scripts)))
    /\ \A s \in Readers : WF_vars(Log(Read(s) \/ Answer(s)))
    /\ WF_vars(Log(Clearing \/ PathLoaded \/ Frames))
=============================================================================
