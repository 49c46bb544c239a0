------------------------ MODULE SubconverterVersion ------------------------
(***************************************************************************)
(* The backend version checker of luci-app-openclash                       *)
(* (root/www/luci-static/resources/openclash/js/subconverter-version.js):  *)
(* one checker, as init() builds it on the subscription dialog.  The user  *)
(* picks a subscription-converter backend; the checker asks each candidate *)
(* /version URL of it, directly and then through the router's proxy, and   *)
(* shows the verdict under the field.                                      *)
(*                                                                         *)
(* A field value is a record of what new URL() tells apart; a version text *)
(* is the URL that sent it.  Whether a body is a version text at all       *)
(* (sanitizeVersionText) is the choice between "success" and               *)
(* "unrecognized" in an answer.                                            *)
(***************************************************************************)
EXTENDS Naturals, Sequences, FiniteSets, SequencesExt

CONSTANTS
    Typed,        \* what the custom field may hold
    Listed,       \* the backends of the select list (Custom apart)
    ProxyURLs,    \* the proxy option of the pages: a subset of BOOLEAN
    MaxRequests,  \* bound: checks started
    MaxExpiries   \* bound: cache entries that grow older than cacheMs

Values == Typed \cup Listed
Custom == [kind |-> "custom"]
Empty == [kind |-> "empty"]
Broken == [kind |-> "unparsable"]
Address(scheme, host, path) ==
    [kind |-> "address", scheme |-> scheme, host |-> host, path |-> path]

ASSUME ValuesAssumption ==
    \A v \in Values : v \in {Empty, Broken} \/
        v = Address(v.scheme, v.host, v.path)

VARIABLES
    select,      \* the select element: a member of Listed, or Custom
    customInput, \* the custom field
    enable,      \* the sub_convert checkbox
    abortable,   \* the browser has AbortController
    proxyURL,    \* the page passed a proxy endpoint
    debounce,    \* debounceTimer is armed
    reqs,        \* checks whose promise has not settled
    requestId,
    active,      \* the request activeController belongs to, or 0
    cache,       \* version URLs -> verdict, for the keys stored
    status,      \* the status element: [hidden, state, message]
    expiries,
    crossed      \* history: run() or hide() left a current check running

checkerVars == <<select, customInput, enable, abortable, proxyURL, debounce, reqs,
          requestId, active, cache, status, expiries, crossed>>
page == <<abortable, proxyURL>>
field == <<select, customInput, enable>>

(*------------------------------ the address -----------------------------*)
(* A path without its trailing slashes is a sequence of segments.  The     *)
(* last "sub" segment is dropped; a candidate under the remaining path     *)
(* comes before the one at the root.                                       *)
buildVersionURLs(url) ==
    LET pathBase == IF url.path # <<>> /\ Last(url.path) = "sub"
                    THEN Front(url.path) ELSE url.path
        root == [origin |-> url.origin, path |-> <<"version">>]
    IN  IF pathBase = <<>> THEN <<root>>
        ELSE <<[root EXCEPT !.path = Append(pathBase, "version")], root>>

\* An address without a scheme gets https; only http and https are valid.
normalizeBackendURL(value) ==
    CASE value = Empty  -> [error |-> "empty"]
      [] value = Broken -> [error |-> "invalid"]
      [] OTHER ->
           LET protocol == IF value.scheme = "none" THEN "https" ELSE value.scheme
           IN  IF protocol \notin {"http", "https"} THEN [error |-> "invalid"]
               ELSE [error |-> "",
                     versionURLs |-> buildVersionURLs(
                        [origin |-> <<protocol, value.host>>, path |-> value.path])]

getSelectedBackend(s, c) == IF s = Custom THEN c ELSE s

Keys == {normalizeBackendURL(v).versionURLs :
            v \in {w \in Values : normalizeBackendURL(w).error = ""}}

(*--------------------------- the status element -------------------------*)
renderStatus(state, message) ==
    [hidden |-> FALSE, state |-> state, message |-> message]
hideStatus(s) == [s EXCEPT !.hidden = TRUE, !.state = "idle"]

(*--------------------------- run and schedule ---------------------------*)
\* Aborting settles a check as "aborted", which renders and stores nothing.
abort(rs) == {r \in rs : ~(abortable /\ r.id = active)}

\* An early return neither aborts nor renumbers a check that is under way.
EarlyReturn ==
    /\ crossed' = (crossed \/ \E r \in reqs : r.id = requestId)
    /\ UNCHANGED <<reqs, requestId, active>>

\* run() with the field as s, c, e: four early returns, else a new check.
run(s, c, e) ==
    LET normalized == normalizeBackendURL(getSelectedBackend(s, c))
        key == normalized.versionURLs
    IN  /\ debounce' = FALSE
        /\ IF ~e
           THEN status' = hideStatus(status) /\ EarlyReturn
           ELSE IF normalized.error = "empty"
           THEN status' = renderStatus("empty", <<>>) /\ EarlyReturn
           ELSE IF normalized.error = "invalid"
           THEN status' = renderStatus("error", <<>>) /\ EarlyReturn
           ELSE IF key \in DOMAIN cache
           THEN status' = cache[key] /\ EarlyReturn
           ELSE /\ requestId < MaxRequests
                /\ requestId' = requestId + 1
                /\ active' = IF abortable THEN requestId' ELSE 0
                /\ reqs' = abort(reqs) \cup
                     {[id |-> requestId', urls |-> key, index |-> 1,
                       stage |-> "direct", saw |-> FALSE, seen |-> <<>>]}
                /\ status' = renderStatus("checking", <<>>)
                /\ crossed' = FALSE
        /\ UNCHANGED <<page, cache, expiries>>

schedule == debounce' = TRUE

(* User and timer events.  The select fires input and change together.     *)
ChangeSelect(s) ==
    /\ s # select
    /\ select' = s /\ UNCHANGED <<customInput, enable>>
    /\ run(s, customInput, enable)

TypeCustom(c) ==
    /\ select = Custom /\ c # customInput
    /\ customInput' = c /\ schedule
    /\ UNCHANGED <<select, enable, page, reqs, requestId, active, cache, status, expiries, crossed>>

CommitCustom == select = Custom /\ UNCHANGED field /\ run(select, customInput, enable)

ToggleEnable ==
    /\ enable' = ~enable /\ UNCHANGED <<select, customInput>>
    /\ run(select, customInput, ~enable)

DebounceFires == debounce /\ UNCHANGED field /\ run(select, customInput, enable)

\* hide() of the dialog: the current check is aborted and the status hidden.
hide ==
    /\ reqs' = abort(reqs)
    /\ status' = hideStatus(status)
    /\ crossed' = (crossed \/ \E r \in reqs' : r.id = requestId)
    /\ UNCHANGED <<field, page, debounce, requestId, active, cache, expiries>>

(*------------------------------ the answers -----------------------------*)
Replace(r, new) == reqs' = (reqs \ {r}) \cup {new}

FaultyStale(r) == FALSE

\* A verdict of a check that a later one has replaced is dropped.
Stale(r) == r.id # requestId

FaultyNoCatch(r, result) ==
    /\ reqs' = reqs \ {r}
    /\ IF Stale(r) \/ result.state = "error" THEN UNCHANGED <<cache, status>>
       ELSE /\ status' = renderStatus(result.state, result.text)
            /\ cache' = [k \in DOMAIN cache \cup {r.urls} |->
                          IF k = r.urls THEN status' ELSE cache[k]]

\* The then and catch of run(): store and show a verdict, show an error.
Settle(r, result) ==
    /\ reqs' = reqs \ {r}
    /\ IF Stale(r) THEN UNCHANGED <<cache, status>>
       ELSE /\ status' = renderStatus(result.state, result.text)
            /\ IF result.state = "error" THEN UNCHANGED cache
               ELSE cache' = [k \in DOMAIN cache \cup {r.urls} |->
                                IF k = r.urls THEN status' ELSE cache[k]]

FaultyCandidateDone(r, result) ==
    IF result.state = "success" THEN Settle(r, result)
    ELSE IF r.index < Len(r.urls)
         THEN /\ Replace(r, [r EXCEPT !.index = @ + 1, !.stage = "direct",
                                      !.seen = Append(@, result)])
              /\ UNCHANGED <<cache, status>>
         ELSE Settle(r, result)

\* next(): a success ends the check, otherwise the next candidate is asked;
\* after the last, one unrecognised answer outweighs the failures.
CandidateDone(r, result) ==
    LET saw == r.saw \/ result.state = "unrecognized"
    IN  IF result.state = "success" THEN Settle(r, result)
        ELSE IF r.index < Len(r.urls)
        THEN /\ Replace(r, [r EXCEPT !.index = @ + 1, !.stage = "direct",
                                     !.saw = saw, !.seen = Append(@, result)])
             /\ UNCHANGED <<cache, status>>
        ELSE Settle(r, [result EXCEPT !.state = IF saw THEN "unrecognized" ELSE @])

\* What a candidate can answer; a failure is any HTTP, network or CORS error
\* and, with AbortController, the timeout.
Answer(r, state) ==
    [state |-> state, text |-> IF state = "success" THEN <<r.urls[r.index]>> ELSE <<>>]

fetchDirectVersion(r, state) ==
    /\ r.stage = "direct"
    /\ IF state = "error" /\ proxyURL
       THEN Replace(r, [r EXCEPT !.stage = "proxy"]) /\ UNCHANGED <<cache, status>>
       ELSE CandidateDone(r, Answer(r, state))
    /\ UNCHANGED <<field, page, debounce, requestId, active, expiries, crossed>>

fetchProxiedVersion(r, state) ==
    /\ r.stage = "proxy"
    /\ CandidateDone(r, Answer(r, state))
    /\ UNCHANGED <<field, page, debounce, requestId, active, expiries, crossed>>

States == {"success", "unrecognized", "error"}
Responds(r, state) == fetchDirectVersion(r, state) \/ fetchProxiedVersion(r, state)

\* An entry of age cacheMs is as good as absent.
CacheExpires(k) ==
    /\ k \in DOMAIN cache /\ expiries < MaxExpiries
    /\ cache' = [j \in DOMAIN cache \ {k} |-> cache[j]]
    /\ expiries' = expiries + 1
    /\ UNCHANGED <<field, page, debounce, reqs, requestId, active, status, crossed>>

\* init() ends with a run() on the page's field.
CheckerInit ==
    /\ select \in Listed /\ customInput = Empty /\ enable = FALSE
    /\ abortable \in BOOLEAN /\ proxyURL \in ProxyURLs
    /\ debounce = FALSE /\ reqs = {} /\ requestId = 0 /\ active = 0
    /\ cache = <<>> /\ expiries = 0 /\ crossed = FALSE
    /\ status = [hidden |-> TRUE, state |-> "idle", message |-> <<>>]

CheckerNext ==
    \/ \E s \in Listed \cup {Custom} : ChangeSelect(s)
    \/ \E c \in Typed : TypeCustom(c)
    \/ CommitCustom
    \/ ToggleEnable
    \/ DebounceFires
    \/ hide
    \/ \E r \in reqs, state \in States : Responds(r, state)
    \/ \E k \in Keys : CacheExpires(k)

\* Every fetch settles: the timeout aborts it, or the browser gives up.
Answered == \E r \in reqs : r.id = requestId /\ \E state \in States : Responds(r, state)

(*------------------------------ properties ------------------------------*)
\* Once no check and no timer is pending, a visible version is the version of
\* the backend that is selected, whatever checks were started, replaced,
\* answered late or answered from the cache on the way; the exception is a
\* run() that returned early, or a hide() without AbortController, while a
\* check was under way: neither stops that check.
SettledShowsSelection ==
    (reqs = {} /\ ~debounce /\ ~crossed /\ ~status.hidden) =>
        LET n == normalizeBackendURL(getSelectedBackend(select, customInput))
        IN  /\ enable
            /\ CASE n.error = "empty"   -> status.state = "empty"
                 [] n.error = "invalid" -> status.state = "error"
                 [] OTHER -> /\ status.state \in States
                             /\ status.state = "success" =>
                                    Head(status.message) \in Range(n.versionURLs)

\* The verdict a check ends with is the best its candidates gave: a version if
\* one answered with a version, else "unrecognized" if one was reachable, and
\* an error only if all of them failed, directly and through the proxy.
VerdictIsBest ==
    [][\A r \in reqs : \A state \in States :
         LET results == {x.state : x \in Range(r.seen)} \cup {state}
         IN  Responds(r, state) /\ r \notin reqs' /\ {s \in reqs' : s.id = r.id} = {}
               /\ ~Stale(r) =>
             status'.state = CHOOSE best \in States :
                /\ best \in results
                /\ best = "error" => "unrecognized" \notin results
                /\ best # "success" => "success" \notin results]_checkerVars

\* "Checking backend version..." is never the last word.
CheckingEnds == []<>(status.state # "checking")
=============================================================================
