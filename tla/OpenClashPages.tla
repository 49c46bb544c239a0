--------------------------- MODULE OpenClashPages ---------------------------
(***************************************************************************)
(* The pages of luci-app-openclash with state of their own: the overview   *)
(* page with its editor (OcEditor) and the subscription dialog with the    *)
(* version checker (SubconverterVersion).  They are different documents,   *)
(* so one of them is open and the other one does nothing.                  *)
(***************************************************************************)
EXTENDS OcEditor, SubconverterVersion

VARIABLE open   \* the page in the browser: "overview" or "subscribe"

vars == <<open, editorVars, checkerVars>>

\* The page that is not open is in any one of its initial states.
Init ==
    /\ open \in {"overview", "subscribe"} /\ EditorInit /\ CheckerInit
    /\ open = "overview" => /\ select = (CHOOSE s \in Listed : TRUE) /\ abortable
                            /\ proxyURL = (CHOOSE p \in ProxyURLs : TRUE)
    /\ open = "subscribe" => ocTheme = "auto" /\ ~pageDark

Overview == open = "overview" /\ EditorNext /\ UNCHANGED <<open, checkerVars>>
Subscribe(A) == open = "subscribe" /\ A /\ UNCHANGED <<open, editorVars>>

Next == Overview \/ Subscribe(CheckerNext)

Spec == Init /\ [][Next]_vars

\* Every fetch settles and the debounce timer fires.
FairSpec == Spec /\ WF_vars(Subscribe(Answered)) /\ WF_vars(Subscribe(DebounceFires))
=============================================================================
