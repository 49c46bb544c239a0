------------------------------ MODULE OcEditor ------------------------------
(***************************************************************************)
(* The editor state luci-app-openclash keeps in window globals             *)
(* (root/www/luci-static/resources/openclash/js/common.js) and the editor  *)
(* bundle (tools/codemirror/entry.js): full screen, zoom, difference       *)
(* marking and the light or dark theme, driven by global hot keys.  The    *)
(* other actor is the ConfigEditor modal of the overview page              *)
(* (luasrc/view/openclash/config_edit.htm), which keeps its own copies of  *)
(* the full screen flag and of the zoom level and destroys and creates the *)
(* editor under the hot keys, also when a late answer arrives.             *)
(*                                                                         *)
(* File contents are left out: an editor is its kind, its place in the     *)
(* page, its zoom classes and its theme.                                   *)
(***************************************************************************)
EXTENDS Naturals, Sequences, FiniteSets, SequencesExt, FiniteSetsExt

CONSTANTS
    Ancestors,   \* the elements around an editor, innermost first, each with
                 \* [filter, layered]: it has a backdrop filter, a z-index
    MaxPending   \* bound: answers on their way

ASSUME AncestorsAssumption ==
    Ancestors \in Seq([filter : BOOLEAN, layered : BOOLEAN])

\* window._ocZoomLevels
ZoomLevels == <<75, 90, 100, 110, 125, 150, 200>>
Sides == {"a", "b"}   \* the panels of a MergeView; a single editor is "a"

VARIABLES
    overlay,      \* the modal is shown
    editor,       \* ConfigEditor.editorInstance: "none", "single", "merge"
    inPage,       \* its element is still in the document
    focused,      \* the focus is inside the editor
    loads,        \* answers of loadConfigContent ("load") and showMergeView
                  \* ("merge") on their way
    fsActive,     \* window._ocFullscreenActive
    isFullscreen, \* ConfigEditor.isFullscreen
    fsDom,        \* the element with class cm-fullscreen, or "none"
    patch,        \* window._ocFullscreenPatch: [bf, z], indexes or 0
    style,        \* inline style of each ancestor, "own" or "patched"
    zoomWin,      \* window._ocCurrentZoom
    zoomCE,       \* ConfigEditor.currentZoom
    zoomClass,    \* zoom classes of each side
    showDiff,     \* window._ocMergeShowDifferences
    diffHidden,   \* class oc-diff-hidden of the merge view
    ocTheme,      \* localStorage oc-theme
    pageDark,     \* what the page's own background says
    rootDark,     \* data-darkmode of the document
    cmDark        \* the theme each side was created with or last given

fs == <<fsActive, isFullscreen, fsDom, patch, style>>
zoom == <<zoomWin, zoomCE, zoomClass>>
diff == <<showDiff, diffHidden>>
theme == <<ocTheme, pageDark, rootDark, cmDark>>
modal == <<overlay, editor, inPage, focused, loads>>
editorVars == <<modal, fs, zoom, diff, theme>>

Own == [i \in 1..Len(Ancestors) |-> [filter |-> "own", layer |-> "own"]]
NoPatch == [set |-> FALSE, bf |-> 0, z |-> 0]

(*------------------------------ full screen -----------------------------*)
FaultyExitFullscreen(p, s) ==
    [i \in DOMAIN s |-> [s[i] EXCEPT !.layer = IF i = p.z THEN "own" ELSE @]]

\* The style after _ocExitFullscreen undoes patch p.
_ocExitFullscreen(p, s) ==
    [i \in DOMAIN s |-> [filter |-> IF i = p.bf THEN "own" ELSE s[i].filter,
                         layer  |-> IF i = p.z THEN "own" ELSE s[i].layer]]

\* The patch _ocEnterFullscreen takes: the closest ancestor with a backdrop
\* filter and the outermost one with a z-index.
PatchOf ==
    LET filters == {i \in 1..Len(Ancestors) : Ancestors[i].filter}
        layers  == {i \in 1..Len(Ancestors) : Ancestors[i].layered}
    IN  [set |-> TRUE,
         bf |-> IF filters = {} THEN 0 ELSE Min(filters),
         z  |-> IF layers = {} THEN 0 ELSE Max(layers)]

_ocEnterFullscreen ==
    LET base == _ocExitFullscreen(patch, style)
    IN  /\ patch' = PatchOf
        /\ style' = [i \in DOMAIN base |->
                       [filter |-> IF i = PatchOf.bf THEN "patched" ELSE base[i].filter,
                        layer  |-> IF i = PatchOf.z THEN "patched" ELSE base[i].layer]]

\* Leaving full screen, from F11, Escape or ConfigEditor.toggleFullscreen(false).
Leave ==
    /\ fsDom' = "none"
    /\ patch' = NoPatch /\ style' = _ocExitFullscreen(patch, style)
    /\ fsActive' = FALSE /\ isFullscreen' = FALSE

\* CM6.getActiveEditor(): the focused merge view or editor, else the first
\* editor of the document, which in a merge view is its left side.
getActiveEditor ==
    IF editor = "none" \/ ~inPage THEN "none"
    ELSE IF editor = "merge" /\ focused THEN "merge" ELSE "a"

(*------------------------------- the theme ------------------------------*)
isDarkBackground == IF ocTheme = "auto" THEN pageDark ELSE ocTheme = "dark"

FaultyApplyEditorTheme(dark) == [s \in Sides |-> IF s = "a" THEN dark ELSE cmDark[s]]

\* The .cm-editor elements whose cmView leads to a view: none, for the bundled
\* CodeMirror sets cmView on the .cm-content inside them only.
HasView == {}

\* The editors that are found so get the root's theme.
ocApplyEditorTheme(dark) ==
    [s \in Sides |-> IF inPage /\ s \in HasView THEN dark ELSE cmDark[s]]

\* ocUpdateTheme with the theme stored: the root, then the editors.
toggleThemeMode ==
    LET themes == <<"light", "dark", "auto">>
        next == themes[(IndexFirstSubSeq(<<ocTheme>>, themes) % 3) + 1]
        dark == IF next = "auto" THEN pageDark ELSE next = "dark"
    IN  /\ ~fsActive
        /\ ocTheme' = next /\ rootDark' = dark
        /\ cmDark' = ocApplyEditorTheme(dark)
        /\ UNCHANGED <<modal, fs, zoom, diff, pageDark>>

\* The background changes with the system's preference.  The listener for it
\* is guarded by !window._ocCommonLoaded, which line 2 has set: none runs.
SystemThemeChanges ==
    /\ pageDark' = ~pageDark
    /\ UNCHANGED <<modal, fs, zoom, diff, ocTheme, rootDark, cmDark>>

(*--------------------------------- zoom ---------------------------------*)
IndexOf(level) == CHOOSE i \in 1..Len(ZoomLevels) : ZoomLevels[i] = level
ocZoomIn(level) == ZoomLevels[Min({IndexOf(level) + 1, Len(ZoomLevels)})]
ocZoomOut(level) == ZoomLevels[Max({IndexOf(level) - 1, 1})]

FaultyApplyZoom(level) ==
    IF editor = "none" THEN UNCHANGED <<zoomWin, zoomClass>>
    ELSE /\ zoomWin' = level
         /\ zoomClass' = [s \in Sides |->
                zoomClass[s] \cup (IF level = 100 THEN {} ELSE {level})]

\* Both sides of a merge view lose every zoom class and get the new one.
ocApplyZoom(level) ==
    IF editor = "none" THEN UNCHANGED <<zoomWin, zoomClass>>
    ELSE /\ zoomWin' = level
         /\ zoomClass' = [s \in Sides |-> IF level = 100 THEN {} ELSE {level}]

\* Ctrl with +, - or 0, and Ctrl+wheel outside the modal: the window's level.
ZoomKey(level) ==
    /\ editor # "none"
    /\ ocApplyZoom(level)
    /\ UNCHANGED <<modal, fs, zoomCE, diff, theme>>

\* Ctrl+wheel in the modal: ConfigEditor's own level.
ZoomWheel(level) ==
    /\ overlay /\ level # zoomCE
    /\ zoomCE' = level /\ ocApplyZoom(level)
    /\ UNCHANGED <<modal, fs, diff, theme>>

(*------------------------------- hot keys -------------------------------*)
KeyF11 ==
    /\ IF fsActive THEN Leave
       ELSE IF getActiveEditor = "none" THEN UNCHANGED fs
       ELSE /\ _ocEnterFullscreen
            /\ fsDom' = IF fsDom = getActiveEditor THEN "none" ELSE getActiveEditor
            /\ fsActive' = (fsDom' # "none") /\ isFullscreen' = fsActive'
    /\ cmDark' = ocApplyEditorTheme(rootDark)
    /\ UNCHANGED <<modal, zoom, diff, ocTheme, pageDark, rootDark>>

KeyF10 ==
    /\ editor = "merge" /\ inPage
    /\ showDiff' = ~showDiff /\ diffHidden' = showDiff
    /\ UNCHANGED <<modal, fs, zoom, theme>>

(*-------------------------- the ConfigEditor modal ----------------------*)
FaultyDestroyEditor ==
    editor' = "none" /\ inPage' = FALSE /\ focused' = FALSE /\ UNCHANGED fs

\* _destroyEditor: full screen ends first, then the instance goes.
destroyEditor ==
    editor' = "none" /\ inPage' = FALSE /\ focused' = FALSE /\ Leave

\* A new editor in the place of the old one: no zoom class, the theme of the
\* background.
NewEditor(kind) ==
    /\ IF editor = "none" THEN UNCHANGED fs ELSE Leave
    /\ editor' = kind /\ inPage' = TRUE /\ focused' = FALSE
    /\ zoomClass' = [s \in Sides |-> {}]
    /\ cmDark' = [s \in Sides |-> isDarkBackground]

\* show(): whatever editor was left goes; hideMergeView and show itself both
\* ask for the content.
show ==
    /\ ~overlay /\ Len(loads) + 2 <= MaxPending
    /\ overlay' = TRUE /\ loads' = loads \o <<"load", "load">>
    /\ IF editor # "none" THEN destroyEditor
       ELSE isFullscreen' = FALSE /\ UNCHANGED <<editor, inPage, focused, fsActive, fsDom, patch, style>>
    /\ UNCHANGED <<zoom, diff, theme>>

\* An answer of loadConfigContent: a single editor of the same mode takes the
\* text, anything else is replaced.  Nothing asks whether the modal is shown.
LoadAnswered(i) ==
    /\ loads[i] = "load" /\ loads' = RemoveAt(loads, i)
    /\ \/ /\ editor = "single"
          /\ UNCHANGED <<editor, inPage, focused, fs, zoomClass, cmDark>>
       \/ NewEditor("single")
    /\ UNCHANGED <<overlay, zoomWin, zoomCE, diff, ocTheme, pageDark, rootDark>>

LoadFailed(i) ==
    /\ loads[i] = "load" /\ loads' = RemoveAt(loads, i)
    /\ UNCHANGED <<overlay, editor, inPage, focused, fs, zoom, diff, theme>>

\* The layout button: showMergeView asks for both texts ...
showMergeView ==
    /\ overlay /\ ~(editor = "merge" /\ inPage) /\ ~fsActive /\ Len(loads) < MaxPending
    /\ loads' = Append(loads, "merge")
    /\ UNCHANGED <<overlay, editor, inPage, focused, fs, zoom, diff, theme>>

\* ... and replaces the editor when they are there.
MergeAnswered(i) ==
    /\ loads[i] = "merge" /\ loads' = RemoveAt(loads, i)
    /\ NewEditor("merge")
    /\ diffHidden' = FALSE
    /\ UNCHANGED <<overlay, zoomWin, zoomCE, showDiff, ocTheme, pageDark, rootDark>>

\* hideMergeView empties the container and loads the single editor again.
hideMergeView ==
    /\ overlay /\ editor = "merge" /\ inPage /\ ~fsActive /\ Len(loads) < MaxPending
    /\ inPage' = FALSE /\ focused' = FALSE
    /\ loads' = Append(loads, "load")
    /\ UNCHANGED <<overlay, editor, fs, zoom, diff, theme>>

\* closeEditor; hideMergeView may ask once more for the content.
closeEditor(again) ==
    /\ overlay' = FALSE /\ destroyEditor
    /\ loads' = IF again THEN Append(loads, "load") ELSE loads
    /\ Len(loads') <= MaxPending
    /\ UNCHANGED <<zoom, diff, theme>>

\* The global handler runs first and stops the key when it was full screen.
KeyEscape ==
    \/ /\ fsActive /\ Leave /\ cmDark' = ocApplyEditorTheme(rootDark)
       /\ UNCHANGED <<modal, zoom, diff, ocTheme, pageDark, rootDark>>
    \/ ~fsActive /\ overlay /\ \E again \in BOOLEAN : closeEditor(again)

FocusMoves ==
    /\ inPage /\ overlay /\ focused' = ~focused
    /\ UNCHANGED <<overlay, editor, inPage, loads, fs, zoom, diff, theme>>

EditorInit ==
    /\ overlay = FALSE /\ editor = "none" /\ inPage = FALSE /\ focused = FALSE
    /\ loads = <<>>
    /\ fsActive = FALSE /\ isFullscreen = FALSE /\ fsDom = "none"
    /\ patch = NoPatch /\ style = Own
    /\ zoomWin = 100 /\ zoomCE = 100 /\ zoomClass = [s \in Sides |-> {}]
    /\ showDiff = TRUE /\ diffHidden = FALSE
    /\ ocTheme \in {"auto", "dark", "light"} /\ pageDark \in BOOLEAN
    /\ rootDark = isDarkBackground /\ cmDark = [s \in Sides |-> rootDark]

EditorNext ==
    \/ KeyF11 \/ KeyF10 \/ KeyEscape
    \/ \E level \in {ocZoomIn(zoomWin), ocZoomOut(zoomWin), 100} : ZoomKey(level)
    \/ \E level \in {ocZoomIn(zoomCE), ocZoomOut(zoomCE)} : ZoomWheel(level)
    \/ toggleThemeMode \/ SystemThemeChanges
    \/ show \/ showMergeView \/ hideMergeView \/ FocusMoves
    \/ overlay /\ ~fsActive /\ \E again \in BOOLEAN : closeEditor(again)
    \/ \E i \in 1..Len(loads) : LoadAnswered(i) \/ LoadFailed(i) \/ MergeAnswered(i)

(*------------------------------ properties ------------------------------*)
\* The two full screen flags and the document say the same, however hot keys,
\* the modal and late answers that replace the editor interleave (F11 and
\* Escape never find a flag for an editor that is gone); outside full screen
\* every ancestor has its own style back, and in full screen exactly the two
\* elements the patch names are changed.
FullscreenRestored ==
    /\ fsActive = (fsDom # "none") /\ isFullscreen = fsActive
    /\ fsActive => inPage
    /\ \A i \in DOMAIN style :
        /\ (style[i].filter = "patched") = (fsActive /\ i = PatchOf.bf)
        /\ (style[i].layer = "patched") = (fsActive /\ i = PatchOf.z)

\* The views of one editor agree.  No editor carries a zoom class other than
\* the window's level, and the two panels of a merge view are never zoomed
\* differently, although the hot keys and the modal's wheel step from levels
\* of their own; nor do its panels have different themes, whatever the theme
\* is changed to while they are open, and the document has the theme stored.
ViewsAgree ==
    /\ {zoomWin, zoomCE} \subseteq Range(ZoomLevels)
    /\ zoomClass["a"] = zoomClass["b"]
    /\ zoomClass["a"] \subseteq {zoomWin}
    /\ ocTheme # "auto" => rootDark = (ocTheme = "dark")
    /\ inPage => cmDark["a"] = cmDark["b"]

\* A claim that no run checks; the README, "Where the code and its documentation
\* disagree", tells the behaviour that refutes it.
\* common.js, of ocApplyEditorTheme: "Apply CM6 editor themes + highlight.js
\* theme based on current data-darkmode."  An editor that is open when the
\* theme is changed keeps the theme it was created with.
EditorHasPageTheme ==
    inPage /\ ocTheme # "auto" => \A s \in Sides : cmDark[s] = rootDark
=============================================================================
