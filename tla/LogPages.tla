------------------------------ MODULE LogPages ------------------------------
(***************************************************************************)
(* The pages that show a growing log.  Six LuCI views read it on a poll    *)
(* and may clear it: ddns-go/log.js, timecontrol/log.js, smartdns/log.js,  *)
(* openlist2/logs.js, netspeedtest/logs.js and the log of                  *)
(* unblockneteasemusic/status.js.  A read is a snapshot taken on the       *)
(* router that the page handles later, in any order with the clearing.     *)
(* The seventh is the start log of OpenClash: lines are streamed, and      *)
(* ocAnimateScroll of openclash/js/common.js decides when a batch is       *)
(* drawn.  Scroll positions and styles are left out.                       *)
(***************************************************************************)
EXTENDS Naturals, Sequences, SequencesExt

CONSTANTS
    MaxTime,    \* stamps of lines are 1..MaxTime; 0 is a line without one
    MaxLines,   \* bound: lines ever logged
    MaxClears,  \* bound: clicks on Clear Logs, stops of the start log
    MaxLogFaults \* bound: failed calls and removals of the file

Remembering == {"ddns-go", "timecontrol"}       \* compare with lastLogContent
Appending == {"openlist2", "netspeedtest"}      \* read a path loaded from uci
Polling == Remembering \cup Appending \cup {"smartdns", "unblockneteasemusic"}
LogViewers == Polling \cup {"openclash"}
Readers == {"poll", "first", "clear"}           \* who calls for a read

VARIABLES
    logPage,   \* the open page
    file,      \* the log: [there, lines], a line is its stamp
    ready,     \* log_path is known
    reads,     \* source -> Idle, Due or the answer on its way
    last,      \* lastLogContent
    logShown,  \* what the page shows
    clearing,  \* the Clear button: "none", "sent", the outcome, "timer"
    panel,     \* OpenClash: [stream, lines, drawn, anim, pending, flush]
    logged, clears, logFaults

bounds == <<logged, clears, logFaults>>
logVars == <<logPage, file, ready, reads, last, logShown, clearing, panel, bounds>>

Nothing == [kind |-> "nothing", lines |-> <<>>]
Clean == [kind |-> "clean", lines |-> <<>>]
Missing == [kind |-> "missing", lines |-> <<>>]
Failed == [kind |-> "failed", lines |-> <<>>]
Idle == [kind |-> "idle", lines |-> <<>>]
Due == [kind |-> "due", lines |-> <<>>]
Text(lines) == IF lines = <<>> THEN Clean ELSE [kind |-> "text", lines |-> lines]

(*------------------------------- rendering ------------------------------*)
\* formatLogContent of ddns-go/log.js: the newest line first.
formatLogContent(c) == [c EXCEPT !.lines = Reverse(c.lines)]

\* parseLogTimestamp takes a line without a stamp for one of this moment.
parseLogTimestamp(stamp) == IF stamp = 0 THEN MaxTime + 1 ELSE stamp

\* reverseLogLines of timecontrol/log.js sorts by the stamp; lines of one
\* second keep the order of the file.
reverseLogLines(c) ==
    LET Of(t) == SelectSeq(c.lines, LAMBDA s : parseLogTimestamp(s) = t)
    IN  [c EXCEPT !.lines = FlattenSeq([k \in 1..MaxTime + 1 |-> Of(MaxTime + 2 - k)])]

Format(c) == CASE logPage = "ddns-go" -> formatLogContent(c)
               [] logPage = "timecontrol" -> reverseLogLines(c)
               [] OTHER -> c

\* What a read finds now: get_logs prints a text of its own for no lines,
\* tail of smartdns-call one for no file.
Content ==
    IF ~ready THEN Failed
    ELSE IF file.there THEN Text(file.lines) ELSE Missing

(*-------------------------------- reading -------------------------------*)
\* One poll at a time; the other two reads are those of ddns-go/log.js, at
\* 200 ms and after clearing.
Read(src) ==
    /\ logPage \in Polling
    /\ reads[src] = (IF src = "poll" THEN Idle ELSE Due)
    /\ \/ reads' = [reads EXCEPT ![src] = Content] /\ UNCHANGED logFaults
       \/ logFaults < MaxLogFaults /\ logFaults' = logFaults + 1
          /\ reads' = [reads EXCEPT ![src] = Failed]
    /\ UNCHANGED <<logPage, file, ready, last, logShown, clearing, panel, logged, clears>>

\* fetchLogs of ddns-go/log.js: a failure is logShown and not remembered.
fetchLogs(c) ==
    IF c = Failed THEN logShown' = Failed /\ UNCHANGED last
    ELSE IF c # last THEN logShown' = Format(c) /\ last' = c
    ELSE UNCHANGED <<logShown, last>>

FaultyPollTimecontrol(c) ==
    IF c = Failed THEN logShown' = Failed /\ UNCHANGED last
    ELSE IF c # last THEN logShown' = Format(c) /\ last' = c ELSE UNCHANGED <<logShown, last>>

\* The poll of timecontrol/log.js remembers its messages too.
pollTimecontrol(c) ==
    IF c # last THEN logShown' = Format(c) /\ last' = c ELSE UNCHANGED <<logShown, last>>

\* The poll of smartdns/log.js ...
pollAlways(c) == logShown' = Format(c) /\ UNCHANGED last

\* ... and the one of unblockneteasemusic/status.js, which does the same.
logview(c) == pollAlways(c)

\* pollLog of the other two has no catch: a failed read leaves the text.
pollLog(c) ==
    /\ logShown' = IF c.kind \in {"failed", "missing"} THEN logShown ELSE Format(c)
    /\ UNCHANGED last

Answer(src) ==
    /\ reads[src] \notin {Idle, Due}
    /\ reads' = [reads EXCEPT ![src] = Idle]
    /\ LET c == reads[src] IN
       CASE logPage = "ddns-go" -> fetchLogs(c)
         [] logPage = "timecontrol" -> pollTimecontrol(c)
         [] logPage \in Appending -> pollLog(c)
         [] logPage = "smartdns" -> pollAlways(c)
         [] OTHER -> logview(c)
    /\ clearing' = IF src = "clear" THEN "timer" ELSE clearing
    /\ UNCHANGED <<logPage, file, ready, panel, bounds>>

(*------------------------------- clearing -------------------------------*)
\* The button is off while clearing is not "none"; openlist2 and netspeedtest
\* leave it on, but their handler keeps no state.
clickClear ==
    /\ logPage \in Polling \ {"unblockneteasemusic"}
    /\ clearing = "none" /\ clears < MaxClears
    /\ clears' = clears + 1 /\ clearing' = "sent"
    /\ UNCHANGED <<logPage, file, ready, reads, last, logShown, panel, logged, logFaults>>

execClear ==
    /\ clearing = "sent"
    /\ \/ /\ ready
          /\ file' = [there |-> TRUE, lines |-> <<>>]
          /\ clearing' = "cleared" /\ UNCHANGED logFaults
       \/ /\ ~ready \/ logFaults < MaxLogFaults
          /\ logFaults' = IF ready THEN logFaults + 1 ELSE logFaults
          /\ clearing' = "failed" /\ UNCHANGED file
    /\ UNCHANGED <<logPage, ready, reads, last, logShown, panel, logged, clears>>

\* clearLogs of ddns-go/log.js forgets what it showed and reads again.
clearLogs ==
    /\ logPage = "ddns-go" /\ clearing = "cleared" /\ clearing' = "reading"
    /\ reads' = [reads EXCEPT !.clear = Due] /\ last' = Nothing
    /\ UNCHANGED <<logPage, file, ready, logShown, panel, bounds>>

\* The other two pages with a button that waits show "Log is clean." at once.
showClean ==
    /\ logPage \in {"timecontrol", "smartdns"} /\ clearing = "cleared"
    /\ logShown' = Clean
    /\ clearing' = IF logPage = "smartdns" THEN "timer" ELSE "none"
    /\ last' = IF logPage = "timecontrol" THEN Clean ELSE last
    /\ UNCHANGED <<logPage, file, ready, reads, panel, bounds>>

\* handleCleanLogs only writes the file; the poll will show it.
handleCleanLogs ==
    /\ logPage \in Appending /\ clearing = "cleared" /\ clearing' = "none"
    /\ UNCHANGED <<logPage, file, ready, reads, last, logShown, panel, bounds>>

FaultyClearFailed == clearing = "failed" /\ logPage \in Appending /\ clearing' = "none"
    /\ UNCHANGED <<logPage, file, ready, reads, last, logShown, panel, bounds>>

clearFailed ==
    /\ clearing = "failed"
    /\ clearing' = IF logPage \in {"ddns-go", "smartdns"} THEN "timer" ELSE "none"
    /\ UNCHANGED <<logPage, file, ready, reads, last, logShown, panel, bounds>>

\* setTimeout: 2 seconds on ddns-go, 5 on smartdns
buttonReturns ==
    /\ clearing = "timer" /\ clearing' = "none"
    /\ UNCHANGED <<logPage, file, ready, reads, last, logShown, panel, bounds>>

(*------------------------------ the router ------------------------------*)
\* Lines come in the order of their stamps; some have none.
LogGrows(stamp) ==
    /\ logPage \in Polling /\ logged < MaxLines /\ logged' = logged + 1
    /\ \A i \in DOMAIN file.lines : stamp # 0 => file.lines[i] <= stamp
    /\ file' = [there |-> TRUE, lines |-> Append(file.lines, stamp)]
    /\ UNCHANGED <<logPage, ready, reads, last, logShown, clearing, panel, clears, logFaults>>

FileRemoved ==
    /\ logPage \in Polling \ {"ddns-go"} /\ file.there /\ logFaults < MaxLogFaults
    /\ logFaults' = logFaults + 1
    /\ file' = [there |-> FALSE, lines |-> <<>>]
    /\ UNCHANGED <<logPage, ready, reads, last, logShown, clearing, panel, logged, clears>>

PathLoaded ==
    /\ ~ready /\ ready' = TRUE
    /\ UNCHANGED <<logPage, file, reads, last, logShown, clearing, panel, bounds>>

(*-------------------------- OpenClash start log -------------------------*)
FaultyOcAnimateScroll(p, isFirst, far) ==
    IF p.anim THEN [p EXCEPT !.flush = TRUE]
    ELSE [p EXCEPT !.anim = isFirst \/ far, !.flush = TRUE]

\* ocAnimateScroll of a panel p: a batch that is still moving keeps the slot
\* and the new one becomes pending; a batch that needs no move ends at once.
ocAnimateScroll(p, isFirst, far) ==
    IF p.anim THEN [p EXCEPT !.pending = TRUE, !.flush = TRUE]
    ELSE [p EXCEPT !.anim = isFirst \/ far, !.flush = TRUE]

renderLog(p) == [p EXCEPT !.drawn = p.lines]

displayLog(n, far) ==
    /\ panel.stream = "open" /\ logged + n <= MaxLines
    /\ logged' = logged + n
    /\ LET isFirst == panel.lines = 0 /\ n = 1
           p == [panel EXCEPT !.lines = @ + n]
       IN  panel' = ocAnimateScroll(IF p.anim THEN p ELSE renderLog(p), isFirst, far)
    /\ UNCHANGED <<logPage, file, ready, reads, last, logShown, clearing, clears, logFaults>>

\* The last frame of an animation frees the slot and flushes what is pending.
step(far) ==
    /\ panel.anim
    /\ LET p == [panel EXCEPT !.anim = FALSE, !.pending = FALSE] IN
       panel' = IF panel.pending /\ panel.flush
                THEN ocAnimateScroll(renderLog(p), FALSE, far) ELSE p
    /\ UNCHANGED <<logPage, file, ready, reads, last, logShown, clearing, bounds>>

\* stopLogDisplay, and finalCleanup(true) at the end of the log, drop the
\* animation with the stream.
stopLogDisplay ==
    /\ panel.stream # "off" /\ clears < MaxClears
    /\ clears' = clears + 1
    /\ panel' = [panel EXCEPT !.stream = "off", !.anim = FALSE, !.pending = FALSE,
                              !.flush = FALSE]
    /\ UNCHANGED <<logPage, file, ready, reads, last, logShown, clearing, logged, logFaults>>

\* onerror, or onload of a script that goes on: finalCleanup(false)
streamLost ==
    /\ panel.stream = "open" /\ logFaults < MaxLogFaults /\ logFaults' = logFaults + 1
    /\ panel' = [panel EXCEPT !.stream = "lost"]
    /\ UNCHANGED <<logPage, file, ready, reads, last, logShown, clearing, logged, clears>>

NewPanel(stream) == [stream |-> stream, lines |-> 0, drawn |-> 0, anim |-> FALSE,
                     pending |-> FALSE, flush |-> FALSE]

\* With a message, a new log; without one, the lost stream goes on.
startLogDisplay(initialMessage) ==
    /\ logPage = "openclash"
    /\ IF initialMessage THEN panel' = NewPanel("open")
       ELSE panel.stream = "lost" /\ panel' = [panel EXCEPT !.stream = "open"]
    /\ UNCHANGED <<logPage, file, ready, reads, last, logShown, clearing, bounds>>
-----------------------------------------------------------------------------
LogInit ==
    /\ logPage \in LogViewers
    /\ file = [there |-> logPage = "ddns-go", lines |-> <<>>]
    /\ ready = (logPage \notin Appending)
    /\ reads = [s \in Readers |-> IF s = "first" /\ logPage = "ddns-go" THEN Due ELSE Idle]
    /\ last = Nothing /\ logShown = Nothing /\ clearing = "none"
    /\ panel = NewPanel("off")
    /\ logged = 0 /\ clears = 0 /\ logFaults = 0

Reads == \E s \in Readers : Read(s)
Answers == \E s \in Readers : Answer(s)
Clearing == execClear \/ clearLogs \/ showClean \/ handleCleanLogs \/ clearFailed \/ buttonReturns
Frames == \E far \in BOOLEAN : step(far)

LogNext ==
    \/ Reads \/ Answers \/ clickClear \/ Clearing
    \/ \E s \in 0..MaxTime : LogGrows(s)
    \/ FileRemoved \/ PathLoaded
    \/ \E n \in 1..2, far \in BOOLEAN : displayLog(n, far)
    \/ Frames \/ stopLogDisplay \/ streamLost
    \/ \E initialMessage \in BOOLEAN : startLogDisplay(initialMessage)
-----------------------------------------------------------------------------
(* Properties *)

\* Whatever reads, clearings and failures crossed, once the log is quiet the
\* page comes to show it and stays so, the Clear button works again after
\* every outcome, and every line of the start log is drawn ("every batch
\* animation runs to completion") unless the panel is stopped first.  Two
\* exceptions are in the code: a failure on ddns-go stays while the log equals
\* the remembered one, and the pages without a catch keep the text of a file
\* that went away.
PageFollowsLog ==
    /\ <>[](logPage \in Polling =>
               \/ logShown = Format(Content)
               \/ logPage = "ddns-go" /\ logShown = Failed /\ last = Content
               \/ logPage \in Appending /\ ~file.there)
    /\ clearing # "none" ~> clearing = "none"
    /\ panel.stream # "off" /\ panel.drawn < panel.lines
           ~> panel.stream = "off" \/ panel.drawn = panel.lines
=============================================================================
