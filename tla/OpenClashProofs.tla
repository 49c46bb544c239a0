--------------------------- MODULE OpenClashProofs ---------------------------
(***************************************************************************)
(* The pages of luci-app-openclash: FullscreenRestored and ViewsAgree of   *)
(* the editor, for any elements around it and any number of answers on     *)
(* their way, and SettledShowsSelection and VerdictIsBest of the version   *)
(* checker, for any backends, number of checks and expiries.               *)
(***************************************************************************)
EXTENDS OpenClashPages, TLAPS

(*------------------------------- the editor -----------------------------*)
Styles == [filter : {"own", "patched"}, layer : {"own", "patched"}]

\* What FullscreenRestored needs to be inductive: an editor in the page is an
\* editor, and the patch kept is the one the styles show.
ScreenInv ==
    /\ inPage \in BOOLEAN /\ fsActive \in BOOLEAN
    /\ inPage => editor # "none"
    /\ style \in [1..Len(Ancestors) -> Styles]
    /\ patch = IF fsActive THEN PatchOf ELSE NoPatch
    /\ FullscreenRestored

\* What ViewsAgree needs: types.
ViewInv ==
    /\ inPage \in BOOLEAN /\ rootDark \in BOOLEAN
    /\ zoomClass \in [Sides -> SUBSET Nat] /\ cmDark \in [Sides -> BOOLEAN]
    /\ ViewsAgree

\* Leaving full screen gives every element its own style back.
LEMMA LeaveStyles ==
  ASSUME ScreenInv
  PROVE  /\ _ocExitFullscreen(patch, style) \in [1..Len(Ancestors) -> Styles]
         /\ \A i \in 1..Len(Ancestors) :
              /\ _ocExitFullscreen(patch, style)[i].filter = "own"
              /\ _ocExitFullscreen(patch, style)[i].layer = "own"
<1> DEFINE s == _ocExitFullscreen(patch, style)
<1>1. style \in [1..Len(Ancestors) -> Styles] /\ DOMAIN style = 1..Len(Ancestors)
  BY DEF ScreenInv
<1>2. \A i \in 1..Len(Ancestors) :
        /\ s[i].filter = IF i = patch.bf THEN "own" ELSE style[i].filter
        /\ s[i].layer = IF i = patch.z THEN "own" ELSE style[i].layer
  BY <1>1 DEF _ocExitFullscreen
<1>3. s \in [1..Len(Ancestors) -> Styles]
  BY <1>1 DEF _ocExitFullscreen, Styles
<1> HIDE DEF s
<1>4. ASSUME NEW i \in 1..Len(Ancestors)
      PROVE  s[i].filter = "own" /\ s[i].layer = "own"
  <2>1. style[i] \in Styles /\ i \in DOMAIN style
    BY <1>1
  <2>2. /\ (style[i].filter = "patched") = (fsActive /\ i = PatchOf.bf)
        /\ (style[i].layer = "patched") = (fsActive /\ i = PatchOf.z)
    BY <2>1 DEF ScreenInv, FullscreenRestored
  <2>3. fsActive => patch = PatchOf
    BY DEF ScreenInv
  <2>4. (style[i].filter = "patched" => i = patch.bf) /\ (style[i].layer = "patched" => i = patch.z)
    BY <2>2, <2>3
  <2>5. style[i].filter \in {"own", "patched"} /\ style[i].layer \in {"own", "patched"}
    BY <2>1 DEF Styles
  <2>6. s[i].filter = "own"
    BY <1>2, <2>4, <2>5
  <2>7. s[i].layer = "own"
    BY <1>2, <2>4, <2>5
  <2> QED
    BY <2>6, <2>7
<1> QED
  BY <1>3, <1>4 DEF s

LEMMA LeaveOK ==
  ASSUME ScreenInv, Leave, inPage' \in BOOLEAN, inPage' => editor' # "none"
  PROVE  ScreenInv'
<1>1. /\ fsDom' = "none" /\ patch' = NoPatch /\ fsActive' = FALSE /\ isFullscreen' = FALSE
      /\ style' = _ocExitFullscreen(patch, style)
  BY DEF Leave
<1>2. /\ style' \in [1..Len(Ancestors) -> Styles]
      /\ \A i \in 1..Len(Ancestors) : style'[i].filter = "own" /\ style'[i].layer = "own"
  BY <1>1, LeaveStyles
<1>3. DOMAIN style' = 1..Len(Ancestors)
  BY <1>2
<1>4. FullscreenRestored'
  BY <1>1, <1>2, <1>3 DEF FullscreenRestored
<1> QED
  BY <1>1, <1>2, <1>4 DEF ScreenInv

LEMMA EnterOK ==
  ASSUME ScreenInv, ~fsActive, _ocEnterFullscreen, fsDom' # "none",
         fsActive' = TRUE, isFullscreen' = TRUE, inPage, UNCHANGED <<inPage, editor>>
  PROVE  ScreenInv'
<1> DEFINE base == _ocExitFullscreen(patch, style)
<1>1. /\ base \in [1..Len(Ancestors) -> Styles]
      /\ \A i \in 1..Len(Ancestors) : base[i].filter = "own" /\ base[i].layer = "own"
  BY LeaveStyles
<1>2. /\ patch' = PatchOf
      /\ style' = [i \in DOMAIN base |->
                       [filter |-> IF i = PatchOf.bf THEN "patched" ELSE base[i].filter,
                        layer  |-> IF i = PatchOf.z THEN "patched" ELSE base[i].layer]]
  BY DEF _ocEnterFullscreen
<1> HIDE DEF base
<1>3. DOMAIN base = 1..Len(Ancestors)
  BY <1>1
<1>4. \A i \in 1..Len(Ancestors) :
        /\ style'[i].filter = IF i = PatchOf.bf THEN "patched" ELSE "own"
        /\ style'[i].layer = IF i = PatchOf.z THEN "patched" ELSE "own"
  BY <1>1, <1>2, <1>3
<1>5. DOMAIN style' = 1..Len(Ancestors) /\ style' \in [1..Len(Ancestors) -> Styles]
  BY <1>1, <1>2, <1>3 DEF Styles
<1>6. \A i \in 1..Len(Ancestors) : /\ (style'[i].filter = "patched") <=> i = PatchOf.bf
                                   /\ (style'[i].layer = "patched") <=> i = PatchOf.z
  BY <1>4
<1>7. FullscreenRestored'
  BY <1>5, <1>6 DEF FullscreenRestored, PatchOf
<1> QED
  BY <1>2, <1>5, <1>7 DEF ScreenInv, PatchOf

\* The patch depends on the page alone.
LEMMA PatchSame == PatchOf' = PatchOf
BY DEF PatchOf

LEMMA StayOK ==
  ASSUME ScreenInv, UNCHANGED fs, inPage' \in BOOLEAN, inPage' => editor' # "none",
         fsActive => inPage'
  PROVE  ScreenInv'
<1>1. UNCHANGED <<fsActive, isFullscreen, fsDom, patch, style>>
  BY DEF fs
<1>2. FullscreenRestored'
  BY <1>1, PatchSame DEF ScreenInv, FullscreenRestored
<1> QED
  BY <1>1, <1>2, PatchSame DEF ScreenInv, NoPatch

LEMMA F11OK == ASSUME ScreenInv, KeyF11 PROVE ScreenInv'
<1>1. UNCHANGED <<editor, inPage>>
  BY DEF KeyF11, modal
<1>2. /\ inPage \in BOOLEAN /\ (inPage => editor # "none") /\ (fsActive => inPage)
      /\ ~fsActive => fsDom = "none"
  BY DEF ScreenInv, FullscreenRestored
<1>3. CASE fsActive
  BY <1>1, <1>2, <1>3, LeaveOK DEF KeyF11
<1>4. CASE ~fsActive /\ getActiveEditor = "none"
  BY <1>1, <1>2, <1>4, StayOK DEF KeyF11
<1>5. CASE ~fsActive /\ getActiveEditor # "none"
  <2>1. /\ _ocEnterFullscreen
        /\ fsDom' = IF fsDom = getActiveEditor THEN "none" ELSE getActiveEditor
        /\ fsActive' = (fsDom' # "none") /\ isFullscreen' = fsActive'
    BY <1>5 DEF KeyF11
  <2>2. fsDom' = getActiveEditor /\ inPage
    BY <1>2, <1>5, <2>1 DEF getActiveEditor
  <2>3. fsActive' = TRUE /\ isFullscreen' = TRUE /\ fsDom' # "none"
    BY <1>5, <2>1, <2>2
  <2> QED
    BY <1>1, <1>5, <2>1, <2>2, <2>3, EnterOK
<1> QED
  BY <1>3, <1>4, <1>5

\* An editor is destroyed, created or replaced: full screen ends first.
LEMMA ReplaceOK ==
  ASSUME ScreenInv,
         \/ show
         \/ \E again \in BOOLEAN : closeEditor(again)
         \/ \E i \in 1..Len(loads) : LoadAnswered(i) \/ LoadFailed(i) \/ MergeAnswered(i)
  PROVE  ScreenInv'
<1>1. /\ inPage \in BOOLEAN /\ (inPage => editor # "none") /\ (fsActive => inPage)
      /\ fsActive \in BOOLEAN /\ isFullscreen = fsActive
  BY DEF ScreenInv, FullscreenRestored
<1>2. CASE destroyEditor
  <2>1. Leave /\ inPage' = FALSE
    BY <1>2 DEF destroyEditor
  <2> QED
    BY <2>1, LeaveOK
<1>3. CASE NewEditor("single") \/ NewEditor("merge")
  <2>1. inPage' = TRUE /\ editor' # "none" /\ ((editor = "none" /\ UNCHANGED fs) \/ Leave)
    BY <1>3 DEF NewEditor
  <2> QED
    BY <1>1, <2>1, LeaveOK, StayOK
<1>4. CASE UNCHANGED <<editor, inPage, fs>>
  BY <1>1, <1>4, StayOK
<1>5. CASE show /\ editor = "none"
  <2>1. /\ isFullscreen' = FALSE
        /\ UNCHANGED <<editor, inPage, fsActive, fsDom, patch, style>>
    BY <1>5 DEF show
  <2>2. isFullscreen = FALSE
    BY <1>1, <1>5
  <2> QED
    BY <1>4, <2>1, <2>2 DEF fs
<1> QED
  BY <1>2, <1>3, <1>4, <1>5 DEF show, closeEditor, LoadAnswered, LoadFailed, MergeAnswered

LEMMA ScreenStep == ASSUME ScreenInv, EditorNext PROVE ScreenInv'
<1>1. /\ inPage \in BOOLEAN /\ (inPage => editor # "none") /\ (fsActive => inPage)
  BY DEF ScreenInv, FullscreenRestored
<1>2. CASE UNCHANGED <<editor, inPage, fs>>
  BY <1>1, <1>2, StayOK
<1>3. CASE KeyEscape
  <2>1. CASE Leave /\ UNCHANGED modal
    BY <1>1, <2>1, LeaveOK DEF modal
  <2> QED
    BY <1>3, <2>1, ReplaceOK DEF KeyEscape
<1>4. CASE hideMergeView
  BY <1>1, <1>4, StayOK DEF hideMergeView
<1>5. CASE \/ KeyF10 \/ toggleThemeMode \/ SystemThemeChanges \/ showMergeView \/ FocusMoves
           \/ \E level \in {ocZoomIn(zoomWin), ocZoomOut(zoomWin), 100} : ZoomKey(level)
           \/ \E level \in {ocZoomIn(zoomCE), ocZoomOut(zoomCE)} : ZoomWheel(level)
  BY <1>2, <1>5 DEF KeyF10, toggleThemeMode, SystemThemeChanges, showMergeView, FocusMoves,
                    ZoomKey, ZoomWheel, modal
<1> QED
  BY <1>3, <1>4, <1>5, F11OK, ReplaceOK DEF EditorNext

\* Full screen ends as it began, for any elements around the editor.
LEMMA ScreenInit == EditorInit => ScreenInv
<1> SUFFICES ASSUME EditorInit PROVE ScreenInv
  OBVIOUS
<1>1. /\ fsActive = FALSE /\ isFullscreen = FALSE /\ fsDom = "none" /\ inPage = FALSE
      /\ patch = NoPatch /\ style = Own
  BY DEF EditorInit
<1>2. /\ style \in [1..Len(Ancestors) -> Styles] /\ DOMAIN style = 1..Len(Ancestors)
      /\ \A i \in 1..Len(Ancestors) : style[i].filter = "own" /\ style[i].layer = "own"
  BY <1>1 DEF Own, Styles
<1>3. FullscreenRestored
  BY <1>1, <1>2 DEF FullscreenRestored
<1> QED
  BY <1>1, <1>2, <1>3 DEF ScreenInv

-----------------------------------------------------------------------------
\* Stepping from a level of the list stays in the list, at both ends too.
LEMMA ZoomSteps ==
  ASSUME NEW level \in Range(ZoomLevels)
  PROVE  {ocZoomIn(level), ocZoomOut(level), 100} \subseteq Range(ZoomLevels)
<1>1. Len(ZoomLevels) = 7 /\ DOMAIN ZoomLevels = 1..7
  BY DEF ZoomLevels
<1>2. IndexOf(level) \in 1..7
  BY <1>1 DEF IndexOf, Range
<1>3. \A i \in 1..7 : ZoomLevels[i] \in Range(ZoomLevels)
  BY <1>1 DEF Range
<1>4. Min({IndexOf(level) + 1, 7}) \in 1..7
  BY <1>2 DEF Min
<1>5. Max({IndexOf(level) - 1, 1}) \in 1..7
  BY <1>2 DEF Max
<1>6. ZoomLevels[3] = 100
  BY DEF ZoomLevels
<1> QED
  BY <1>1, <1>3, <1>4, <1>5, <1>6 DEF ocZoomIn, ocZoomOut

LEMMA LevelsNat == Range(ZoomLevels) \subseteq Nat
BY DEF Range, ZoomLevels

\* A step that applies a level of the list.
LEMMA ZoomOK ==
  ASSUME ViewInv, NEW level \in Range(ZoomLevels), ocApplyZoom(level),
         zoomCE' \in {zoomCE, level}, UNCHANGED <<inPage, theme>>
  PROVE  ViewInv'
<1>1. /\ zoomClass \in [Sides -> SUBSET Nat] /\ {zoomWin, zoomCE} \subseteq Range(ZoomLevels)
      /\ zoomClass["a"] = zoomClass["b"] /\ zoomClass["a"] \subseteq {zoomWin}
  BY DEF ViewInv, ViewsAgree
<1>2. UNCHANGED <<ocTheme, pageDark, rootDark, cmDark>>
  BY DEF theme
<1>3. /\ zoomClass' \in [Sides -> SUBSET Nat] /\ {zoomWin', zoomCE'} \subseteq Range(ZoomLevels)
      /\ zoomClass'["a"] = zoomClass'["b"] /\ zoomClass'["a"] \subseteq {zoomWin'}
  <2>1. CASE UNCHANGED <<zoomWin, zoomClass>>
    BY <1>1, <2>1
  <2>2. CASE /\ zoomWin' = level
             /\ zoomClass' = [s \in Sides |-> IF level = 100 THEN {} ELSE {level}]
    BY <1>1, <2>2, LevelsNat DEF Sides
  <2> QED
    BY <2>1, <2>2 DEF ocApplyZoom
<1>4. ViewsAgree'
  BY <1>2, <1>3 DEF ViewInv, ViewsAgree
<1> QED
  BY <1>2, <1>3, <1>4 DEF ViewInv

\* A step that leaves the zoom alone: all that counts is the theme.
LEMMA ThemeOK ==
  ASSUME ViewInv, UNCHANGED <<zoomWin, zoomCE>>,
         zoomClass' = zoomClass \/ zoomClass' = [s \in Sides |-> {}],
         inPage' \in BOOLEAN, rootDark' \in BOOLEAN, cmDark' \in [Sides -> BOOLEAN],
         ocTheme' # "auto" => rootDark' = (ocTheme' = "dark"),
         inPage' => cmDark'["a"] = cmDark'["b"]
  PROVE  ViewInv'
<1>1. /\ zoomClass \in [Sides -> SUBSET Nat] /\ {zoomWin, zoomCE} \subseteq Range(ZoomLevels)
      /\ zoomClass["a"] = zoomClass["b"] /\ zoomClass["a"] \subseteq {zoomWin}
  BY DEF ViewInv, ViewsAgree
<1>2. /\ zoomClass' \in [Sides -> SUBSET Nat]
      /\ zoomClass'["a"] = zoomClass'["b"] /\ zoomClass'["a"] \subseteq {zoomWin'}
  BY <1>1 DEF Sides
<1>3. ViewsAgree'
  BY <1>1, <1>2 DEF ViewsAgree
<1> QED
  BY <1>2, <1>3 DEF ViewInv

\* The theme of the editors before a step.
LEMMA ThemeNow ==
  ASSUME ViewInv
  PROVE  /\ inPage \in BOOLEAN /\ rootDark \in BOOLEAN /\ cmDark \in [Sides -> BOOLEAN]
         /\ ocTheme # "auto" => rootDark = (ocTheme = "dark")
         /\ inPage => cmDark["a"] = cmDark["b"]
BY DEF ViewInv, ViewsAgree

\* An editor may leave the page, and everything else stays.
LEMMA LeavePageOK ==
  ASSUME ViewInv, UNCHANGED <<zoom, theme>>, inPage' \in {inPage, FALSE}
  PROVE  ViewInv'
<1>1. UNCHANGED <<zoomWin, zoomCE, zoomClass, ocTheme, rootDark, cmDark>>
  BY DEF zoom, theme
<1>2. inPage' \in BOOLEAN /\ (inPage' => inPage)
  <2>1. CASE inPage' = inPage
    BY <2>1, ThemeNow
  <2>2. CASE inPage' = FALSE
    BY <2>2
  <2> QED
    BY <2>1, <2>2
<1> QED
  BY <1>1, <1>2, ThemeNow, ThemeOK

\* ocApplyEditorTheme leaves every editor the theme it has.
LEMMA ApplyThemeOK ==
  ASSUME ViewInv, UNCHANGED <<inPage, zoom>>, NEW dark \in BOOLEAN,
         cmDark' = ocApplyEditorTheme(dark), rootDark' = dark,
         ocTheme' # "auto" => dark = (ocTheme' = "dark")
  PROVE  ViewInv'
<1>1. UNCHANGED <<zoomWin, zoomCE, zoomClass>>
  BY DEF zoom
<1>2. /\ cmDark' \in [Sides -> BOOLEAN]
      /\ inPage => cmDark'["a"] = cmDark'["b"]
  BY ThemeNow DEF ocApplyEditorTheme, HasView, Sides
<1>3. inPage' \in BOOLEAN /\ inPage' = inPage
  BY ThemeNow
<1> QED
  BY <1>1, <1>2, <1>3, ThemeOK

\* A new editor takes its theme from the background.
LEMMA NewEditorOK ==
  ASSUME ViewInv, pageDark \in BOOLEAN, NEW kind, NewEditor(kind),
         UNCHANGED <<zoomWin, zoomCE, ocTheme, rootDark>>
  PROVE  ViewInv'
<1>1. /\ inPage' = TRUE /\ zoomClass' = [s \in Sides |-> {}]
      /\ cmDark' = [s \in Sides |-> isDarkBackground]
  BY DEF NewEditor
<1>2. isDarkBackground \in BOOLEAN
  BY DEF isDarkBackground
<1>3. cmDark' \in [Sides -> BOOLEAN] /\ cmDark'["a"] = cmDark'["b"]
  BY <1>1, <1>2 DEF Sides
<1> QED
  BY <1>1, <1>2, <1>3, ThemeNow, ThemeOK

LEMMA ViewStep ==
  ASSUME ViewInv, pageDark \in BOOLEAN, EditorNext
  PROVE  ViewInv' /\ pageDark' \in BOOLEAN
<1>1. pageDark' \in BOOLEAN
  <2>1. pageDark' \in {pageDark, ~pageDark}
    BY DEF EditorNext, KeyF11, KeyF10, KeyEscape, closeEditor, ZoomKey, ZoomWheel,
           toggleThemeMode, SystemThemeChanges, show, showMergeView, hideMergeView,
           FocusMoves, LoadAnswered, LoadFailed, MergeAnswered, theme
  <2> QED
    BY <2>1
<1>2. CASE \E level \in {ocZoomIn(zoomWin), ocZoomOut(zoomWin), 100} : ZoomKey(level)
  <2> PICK level \in {ocZoomIn(zoomWin), ocZoomOut(zoomWin), 100} : ZoomKey(level)
    BY <1>2
  <2>1. level \in Range(ZoomLevels)
    BY ZoomSteps DEF ViewInv, ViewsAgree
  <2>2. ocApplyZoom(level) /\ UNCHANGED <<inPage, theme, zoomCE>>
    BY DEF ZoomKey, modal
  <2> QED
    BY <1>1, <2>1, <2>2, ZoomOK
<1>3. CASE \E level \in {ocZoomIn(zoomCE), ocZoomOut(zoomCE)} : ZoomWheel(level)
  <2> PICK level \in {ocZoomIn(zoomCE), ocZoomOut(zoomCE)} : ZoomWheel(level)
    BY <1>3
  <2>1. level \in Range(ZoomLevels)
    BY ZoomSteps DEF ViewInv, ViewsAgree
  <2>2. ocApplyZoom(level) /\ zoomCE' = level /\ UNCHANGED <<inPage, theme>>
    BY DEF ZoomWheel, modal
  <2> QED
    BY <1>1, <2>1, <2>2, ZoomOK
<1>4. CASE toggleThemeMode
  <2> PICK next : /\ ocTheme' = next
                  /\ rootDark' = IF next = "auto" THEN pageDark ELSE next = "dark"
                  /\ cmDark' = ocApplyEditorTheme(IF next = "auto" THEN pageDark
                                                  ELSE next = "dark")
    BY <1>4 DEF toggleThemeMode
  <2> DEFINE dark == IF next = "auto" THEN pageDark ELSE next = "dark"
  <2>1. dark \in BOOLEAN /\ (next # "auto" => dark = (next = "dark"))
    OBVIOUS
  <2>2. UNCHANGED <<inPage, zoom>>
    BY <1>4 DEF toggleThemeMode, modal
  <2> HIDE DEF dark
  <2>3. cmDark' = ocApplyEditorTheme(dark) /\ rootDark' = dark
    BY DEF dark
  <2> QED
    BY <1>1, <2>1, <2>2, <2>3, ApplyThemeOK
<1>5. CASE SystemThemeChanges
  <2>1. UNCHANGED <<inPage, zoomWin, zoomCE, zoomClass, ocTheme, rootDark, cmDark>>
    BY <1>5 DEF SystemThemeChanges, modal, zoom
  <2> QED
    BY <1>1, <2>1, ThemeNow, ThemeOK
<1>6. CASE KeyF11 \/ (KeyEscape /\ fsActive)
  <2>1. cmDark' = ocApplyEditorTheme(rootDark) /\ UNCHANGED <<inPage, zoom, rootDark, ocTheme>>
    BY <1>6 DEF KeyF11, KeyEscape, modal
  <2> QED
    BY <1>1, <2>1, ThemeNow, ApplyThemeOK
<1>7. CASE \E i \in 1..Len(loads) : LoadAnswered(i) \/ LoadFailed(i) \/ MergeAnswered(i)
  <2>1. \/ UNCHANGED <<inPage, zoom, theme>>
        \/ /\ NewEditor("single") \/ NewEditor("merge")
           /\ UNCHANGED <<zoomWin, zoomCE, ocTheme, rootDark>>
    BY <1>7 DEF LoadAnswered, LoadFailed, MergeAnswered, zoom, theme
  <2> QED
    BY <1>1, <2>1, NewEditorOK, LeavePageOK
<1>8. CASE \/ KeyF10 \/ show \/ showMergeView \/ hideMergeView \/ FocusMoves
           \/ \E again \in BOOLEAN : closeEditor(again)
  <2>1. UNCHANGED <<zoom, theme>> /\ inPage' \in {inPage, FALSE}
    BY <1>8 DEF KeyF10, show, showMergeView, hideMergeView, FocusMoves, closeEditor,
                destroyEditor, modal
  <2> QED
    BY <1>1, <2>1, LeavePageOK
<1> QED
  BY <1>2, <1>3, <1>4, <1>5, <1>6, <1>7, <1>8 DEF EditorNext, KeyEscape

LEMMA ViewInit == EditorInit => ViewInv /\ pageDark \in BOOLEAN
<1> SUFFICES ASSUME EditorInit PROVE ViewInv /\ pageDark \in BOOLEAN
  OBVIOUS
<1>1. /\ inPage = FALSE /\ zoomWin = 100 /\ zoomCE = 100 /\ zoomClass = [s \in Sides |-> {}]
      /\ pageDark \in BOOLEAN /\ rootDark = isDarkBackground /\ cmDark = [s \in Sides |-> rootDark]
  BY DEF EditorInit
<1>2. rootDark \in BOOLEAN /\ (ocTheme # "auto" => rootDark = (ocTheme = "dark"))
  BY <1>1 DEF isDarkBackground
<1>3. 100 \in Range(ZoomLevels)
  BY DEF Range, ZoomLevels
<1>4. /\ zoomClass \in [Sides -> SUBSET Nat] /\ cmDark \in [Sides -> BOOLEAN]
      /\ zoomClass["a"] = {} /\ zoomClass["b"] = {}
  BY <1>1, <1>2 DEF Sides
<1>5. ViewsAgree
  BY <1>1, <1>2, <1>3, <1>4 DEF ViewsAgree
<1> QED
  BY <1>1, <1>2, <1>4, <1>5 DEF ViewInv

(*------------------------------ the checker -----------------------------*)
\* What the field asks for, and whether it is a backend at all.
Wanted == normalizeBackendURL(getSelectedBackend(select, customInput))
Usable(n) == n.error \notin {"empty", "invalid"}

StatusFields == {"hidden", "state", "message"}

\* A verdict st of the candidates k, and the status that fits the field.
Verdict(k, st) ==
    /\ DOMAIN st = StatusFields /\ ~st.hidden /\ st.state \in States
    /\ st.state = "success" => Head(st.message) \in Range(k)

Fits(n, st) ==
    /\ n.error = "empty" => st.state = "empty"
    /\ n.error = "invalid" => st.state = "error"
    /\ Usable(n) => Verdict(n.versionURLs, st)

\* Answers that do not end a check.
Misses == [state : {"unrecognized", "error"}, text : {<<>>}]

Requests == [id : Nat, urls : Keys, index : Nat, stage : {"direct", "proxy"},
             saw : BOOLEAN, seen : Seq(Misses)]

RequestOK(r) ==
    /\ r \in Requests
    /\ r.id <= requestId
    /\ r.index \in DOMAIN r.urls
    /\ r.saw <=> \E k \in DOMAIN r.seen : r.seen[k].state = "unrecognized"

Current == {r \in reqs : r.id = requestId}

Fields(s, c, e) ==
    s \in Listed \cup {Custom} /\ c \in Typed \cup {Empty} /\ e \in BOOLEAN

\* Unless it was crossed or a change waits for the timer, the current check is
\* of the backend that is selected; without one, the status is of it.
SelectionInv ==
    ~debounce /\ ~crossed =>
      /\ \A r \in Current : enable /\ Usable(Wanted) /\ r.urls = Wanted.versionURLs
      /\ Current = {} /\ ~status.hidden => enable /\ Fits(Wanted, status)

CheckInv ==
    /\ Fields(select, customInput, enable) /\ requestId \in Nat
    /\ DOMAIN status = StatusFields
    /\ \A r \in reqs : RequestOK(r)
    /\ \A k \in DOMAIN cache : Verdict(k, cache[k])
    /\ SelectionInv

-----------------------------------------------------------------------------
\* The candidates of a backend are one or two.
LEMMA UsableShape ==
  ASSUME NEW v, Usable(normalizeBackendURL(v))
  PROVE  LET n == normalizeBackendURL(v)
         IN  /\ n.error = "" /\ Len(n.versionURLs) \in Nat
             /\ DOMAIN n.versionURLs = 1..Len(n.versionURLs)
             /\ 1 \in DOMAIN n.versionURLs
<1>1. v # Empty /\ v # Broken
  BY DEF normalizeBackendURL, Usable
<1> DEFINE protocol == IF v.scheme = "none" THEN "https" ELSE v.scheme
           u == [origin |-> <<protocol, v.host>>, path |-> v.path]
           k == buildVersionURLs(u)
<1>2. protocol \in {"http", "https"}
  BY <1>1 DEF normalizeBackendURL, Usable
<1>3. normalizeBackendURL(v).error = "" /\ normalizeBackendURL(v).versionURLs = k
  BY <1>1, <1>2 DEF normalizeBackendURL
<1>4. \E a, b : k = <<a>> \/ k = <<a, b>>
  BY Zenon DEF buildVersionURLs
<1> HIDE DEF k, u, protocol
<1>5. Len(k) \in Nat /\ DOMAIN k = 1..Len(k) /\ 1 \in DOMAIN k
  BY <1>4
<1> QED
  BY <1>3, <1>5

LEMMA KeyShape ==
  ASSUME NEW k \in Keys
  PROVE  Len(k) \in Nat /\ DOMAIN k = 1..Len(k) /\ 1 \in DOMAIN k
<1> PICK v \in Values : /\ normalizeBackendURL(v).error = ""
                        /\ k = normalizeBackendURL(v).versionURLs
  BY DEF Keys
<1> QED
  BY UsableShape DEF Usable

LEMMA FieldKey ==
  ASSUME NEW s, NEW c, NEW e, Fields(s, c, e),
         Usable(normalizeBackendURL(getSelectedBackend(s, c)))
  PROVE  normalizeBackendURL(getSelectedBackend(s, c)).versionURLs \in Keys
<1> DEFINE v == getSelectedBackend(s, c)
<1>1. v \in Values \cup {Empty}
  BY DEF getSelectedBackend, Fields, Values
<1>2. normalizeBackendURL(v).error = ""
  BY UsableShape
<1>3. normalizeBackendURL(Empty).error = "empty"
  BY DEF normalizeBackendURL, Empty, Broken
<1>4. v \in Values
  BY <1>1, <1>2, <1>3
<1> HIDE DEF v
<1>5. normalizeBackendURL(v).versionURLs \in Keys
  BY <1>2, <1>4 DEF Keys
<1> QED
  BY <1>5 DEF v

\* A run() that returns early shows what fits the field; a current check that
\* goes on all the same is crossed.
LEMMA EarlyOK ==
  ASSUME CheckInv, NEW s, NEW c, NEW e, Fields(s, c, e),
         select' = s /\ customInput' = c /\ enable' = e,
         EarlyReturn, UNCHANGED cache, DOMAIN status' = StatusFields,
         ~status'.hidden =>
           e /\ Fits(normalizeBackendURL(getSelectedBackend(s, c)), status')
  PROVE  CheckInv'
<1>1. UNCHANGED <<reqs, requestId, cache>> /\ Fields(select', customInput', enable')
  BY DEF EarlyReturn
<1>2. Current' = Current
  BY <1>1 DEF Current
<1>3. ~crossed' => Current = {}
  BY DEF EarlyReturn, Current
<1>4. Wanted' = normalizeBackendURL(getSelectedBackend(s, c))
  BY DEF Wanted
<1>5. SelectionInv'
  BY <1>2, <1>3, <1>4 DEF SelectionInv
<1>6. /\ requestId' \in Nat
      /\ \A r \in reqs' : RequestOK(r)'
      /\ \A k \in DOMAIN cache' : Verdict(k, cache'[k])
  BY <1>1 DEF CheckInv, RequestOK
<1> QED
  BY <1>1, <1>5, <1>6 DEF CheckInv

\* A new check is of the backend that is selected, and the only current one.
LEMMA NewCheckOK ==
  ASSUME CheckInv, NEW s, NEW c, NEW e, Fields(s, c, e), e,
         select' = s /\ customInput' = c /\ enable' = e, UNCHANGED cache,
         NEW key, key = normalizeBackendURL(getSelectedBackend(s, c)).versionURLs,
         Usable(normalizeBackendURL(getSelectedBackend(s, c))),
         requestId' = requestId + 1,
         DOMAIN status' = StatusFields,
         NEW q, q = [id |-> requestId', urls |-> key, index |-> 1,
                     stage |-> "direct", saw |-> FALSE, seen |-> <<>>],
         reqs' = abort(reqs) \cup {q}
  PROVE  CheckInv'
<1>1. requestId \in Nat /\ \A r \in reqs : RequestOK(r)
  BY DEF CheckInv
<1>2. key \in Keys /\ 1 \in DOMAIN key
  BY FieldKey, KeyShape
<1>3. /\ q \in Requests /\ q.id = requestId' /\ q.urls = key /\ q.index = 1
      /\ q.saw = FALSE /\ q.seen = <<>>
  <2>1. requestId' \in Nat /\ <<>> \in Seq(Misses)
    BY <1>1
  <2> QED
    BY <1>2, <2>1 DEF Requests
<1>4. requestId' \in Nat /\ q.id <= requestId'
  BY <1>1, <1>3
<1>5. RequestOK(q)'
  <2>1. q.index \in DOMAIN q.urls /\ DOMAIN q.seen = {}
    BY <1>2, <1>3
  <2> QED
    BY <1>3, <1>4, <2>1 DEF RequestOK
<1>6. \A r \in reqs : r.id \in Nat /\ r.id <= requestId /\ r.id # requestId'
  BY <1>1 DEF RequestOK, Requests
<1>7. \A r \in reqs' : RequestOK(r)'
  <2> SUFFICES ASSUME NEW r \in reqs, r # q PROVE RequestOK(r)'
    BY <1>5 DEF abort
  <2>1. r.id <= requestId'
    BY <1>1, <1>6
  <2> QED
    BY <1>1, <2>1 DEF RequestOK
<1>8. Current' = {q}
  BY <1>3, <1>6 DEF Current, abort
<1>9. Wanted' = normalizeBackendURL(getSelectedBackend(s, c))
  BY DEF Wanted
<1>10. SelectionInv'
  BY <1>3, <1>8, <1>9 DEF SelectionInv
<1>11. Fields(select', customInput', enable')
  OBVIOUS
<1>12. \A k \in DOMAIN cache' : Verdict(k, cache'[k])
  BY DEF CheckInv
<1> QED
  BY <1>4, <1>7, <1>10, <1>11, <1>12 DEF CheckInv

LEMMA RunOK ==
  ASSUME CheckInv, NEW s, NEW c, NEW e, Fields(s, c, e),
         select' = s /\ customInput' = c /\ enable' = e, run(s, c, e)
  PROVE  CheckInv'
<1> DEFINE n == normalizeBackendURL(getSelectedBackend(s, c))
           key == n.versionURLs
<1>1. UNCHANGED cache
  BY DEF run
<1>2. CASE ~e
  <2>1. status' = hideStatus(status) /\ EarlyReturn
    BY <1>2 DEF run
  <2>2. status'.hidden /\ DOMAIN status' = StatusFields
    BY <2>1 DEF hideStatus, CheckInv, StatusFields
  <2> QED
    BY <1>1, <2>1, <2>2, EarlyOK
<1>3. CASE e /\ n.error = "empty"
  <2>1. status' = renderStatus("empty", <<>>) /\ EarlyReturn
    BY <1>3 DEF run
  <2>2. Fits(n, status') /\ DOMAIN status' = StatusFields
    BY <1>3, <2>1 DEF Fits, Usable, renderStatus, StatusFields
  <2> QED
    BY <1>1, <1>3, <2>1, <2>2, EarlyOK
<1>4. CASE e /\ n.error = "invalid"
  <2>1. status' = renderStatus("error", <<>>) /\ EarlyReturn
    BY <1>4 DEF run
  <2>2. Fits(n, status') /\ DOMAIN status' = StatusFields
    BY <1>4, <2>1 DEF Fits, Usable, renderStatus, StatusFields
  <2> QED
    BY <1>1, <1>4, <2>1, <2>2, EarlyOK
<1>5. CASE e /\ n.error # "empty" /\ n.error # "invalid" /\ key \in DOMAIN cache
  <2>1. status' = cache[key] /\ EarlyReturn
    BY <1>5 DEF run
  <2>2. Fits(n, status') /\ DOMAIN status' = StatusFields
    <3>1. Verdict(key, status')
      BY <1>5, <2>1 DEF CheckInv
    <3> QED
      BY <1>5, <3>1 DEF Fits, Usable, Verdict
  <2> QED
    BY <1>1, <1>5, <2>1, <2>2, EarlyOK
<1>6. CASE e /\ n.error # "empty" /\ n.error # "invalid" /\ key \notin DOMAIN cache
  <2>1. /\ requestId' = requestId + 1
        /\ reqs' = abort(reqs) \cup
             {[id |-> requestId', urls |-> key, index |-> 1,
               stage |-> "direct", saw |-> FALSE, seen |-> <<>>]}
    BY <1>6 DEF run
  <2> PICK q : q = [id |-> requestId', urls |-> key, index |-> 1,
                    stage |-> "direct", saw |-> FALSE, seen |-> <<>>]
    OBVIOUS
  <2>2. Usable(n)
    BY <1>6 DEF Usable
  <2>3. DOMAIN status' = StatusFields
    BY <1>6 DEF run, renderStatus, StatusFields
  <2> QED
    BY <1>1, <1>6, <2>1, <2>2, <2>3, NewCheckOK
<1> QED
  BY <1>2, <1>3, <1>4, <1>5, <1>6 DEF Fields

-----------------------------------------------------------------------------
\* The check r goes on as q.
LEMMA GoesOnOK ==
  ASSUME CheckInv, NEW r \in reqs, NEW q, Replace(r, q), RequestOK(q),
         q.id = r.id, q.urls = r.urls,
         UNCHANGED <<field, debounce, requestId, cache, status, crossed>>
  PROVE  CheckInv'
<1>1. UNCHANGED <<select, customInput, enable>>
  BY DEF field
<1>2. reqs' = (reqs \ {r}) \cup {q}
  BY DEF Replace
<1>3. Wanted' = Wanted
  BY <1>1 DEF Wanted
<1>4. /\ \A x \in Current' : \E y \in Current : x.urls = y.urls
      /\ Current' = {} => Current = {}
  BY <1>2 DEF Current
<1>5. SelectionInv'
  BY <1>1, <1>3, <1>4 DEF CheckInv, SelectionInv
<1>6. \A x \in reqs' : RequestOK(x)'
  BY <1>2 DEF CheckInv, RequestOK
<1>7. requestId' \in Nat /\ Fields(select', customInput', enable')
      /\ \A k \in DOMAIN cache' : Verdict(k, cache'[k])
  BY <1>1 DEF CheckInv
<1> QED
  BY <1>5, <1>6, <1>7 DEF CheckInv

\* The check r ends with a result.
LEMMA SettleOK ==
  ASSUME CheckInv, NEW r \in reqs, NEW result, Settle(r, result),
         result.state \in States,
         result.state = "success" => Head(result.text) \in Range(r.urls),
         UNCHANGED <<field, debounce, requestId, crossed>>
  PROVE  CheckInv'
<1>1. UNCHANGED <<select, customInput, enable>>
  BY DEF field
<1>2. reqs' = reqs \ {r}
  BY DEF Settle
<1>3. Wanted' = Wanted
  BY <1>1 DEF Wanted
<1>4. Current' = Current \ {r}
  BY <1>2 DEF Current
<1>5. \A x \in reqs' : RequestOK(x)'
  BY <1>2 DEF CheckInv, RequestOK
<1>6. requestId' \in Nat /\ Fields(select', customInput', enable')
  BY <1>1 DEF CheckInv
<1>7. CASE Stale(r)
  <2>1. UNCHANGED <<cache, status>> /\ r \notin Current
    BY <1>7 DEF Settle, Stale, Current
  <2>2. SelectionInv'
    BY <1>1, <1>3, <1>4, <2>1 DEF CheckInv, SelectionInv
  <2> QED
    BY <1>5, <1>6, <2>1, <2>2 DEF CheckInv
<1>8. CASE ~Stale(r)
  <2>1. /\ status' = renderStatus(result.state, result.text) /\ r \in Current
        /\ \/ UNCHANGED cache
           \/ cache' = [k \in DOMAIN cache \cup {r.urls} |->
                          IF k = r.urls THEN status' ELSE cache[k]]
    BY <1>8 DEF Settle, Stale, Current
  <2>2. Verdict(r.urls, status')
    BY <2>1 DEF Verdict, renderStatus, StatusFields
  <2>3. \A k \in DOMAIN cache' : Verdict(k, cache'[k])
    <3>1. \A k \in DOMAIN cache : Verdict(k, cache[k])
      BY DEF CheckInv
    <3> QED
      BY <2>1, <2>2, <3>1
  <2>4. SelectionInv'
    <3> SUFFICES ASSUME ~debounce, ~crossed
                 PROVE  /\ \A x \in Current' : /\ enable /\ Usable(Wanted)
                                               /\ x.urls = Wanted.versionURLs
                        /\ enable /\ Fits(Wanted, status')
      BY <1>1, <1>3 DEF SelectionInv
    <3>1. \A x \in Current : enable /\ Usable(Wanted) /\ x.urls = Wanted.versionURLs
      BY DEF CheckInv, SelectionInv
    <3> QED
      BY <1>4, <2>1, <2>2, <3>1 DEF Fits, Usable
  <2> QED
    BY <1>5, <1>6, <2>2, <2>3, <2>4 DEF CheckInv, Verdict
<1> QED
  BY <1>7, <1>8

-----------------------------------------------------------------------------
\* What the check r is asked next when a candidate has answered with a miss.
NextCandidate(r, result) ==
    [r EXCEPT !.index = @ + 1, !.stage = "direct",
              !.saw = r.saw \/ result.state = "unrecognized",
              !.seen = Append(@, result)]

\* saw stays in step with the answers seen.
LEMMA NextCandidateOK ==
  ASSUME CheckInv, NEW r \in reqs, NEW result \in Misses, r.index < Len(r.urls)
  PROVE  LET q == NextCandidate(r, result)
         IN  RequestOK(q) /\ q.id = r.id /\ q.urls = r.urls
<1> DEFINE q == NextCandidate(r, result)
<1>1. RequestOK(r)
  BY DEF CheckInv
<1>2. r \in Requests /\ r.seen \in Seq(Misses) /\ r.saw \in BOOLEAN
      /\ r.index \in Nat /\ r.urls \in Keys
  BY <1>1 DEF RequestOK, Requests
<1>3. /\ q \in Requests /\ q.id = r.id /\ q.urls = r.urls /\ q.index = r.index + 1
      /\ q.seen = Append(r.seen, result)
  <2>1. Append(r.seen, result) \in Seq(Misses) /\ r.index + 1 \in Nat
    BY <1>2
  <2>2. (r.saw \/ result.state = "unrecognized") \in BOOLEAN
    BY <1>2
  <2> QED
    BY <1>2, <2>1, <2>2 DEF NextCandidate, Requests
<1>4. q.saw = (r.saw \/ result.state = "unrecognized")
  BY <1>2 DEF NextCandidate, Requests
<1> HIDE DEF q
<1>5. q.index \in DOMAIN q.urls
  <2>1. r.index \in 1..Len(r.urls) /\ DOMAIN r.urls = 1..Len(r.urls) /\ Len(r.urls) \in Nat
    BY <1>1, <1>2, KeyShape DEF RequestOK
  <2> QED
    BY <1>3, <2>1
<1>6. q.saw <=> \E k \in DOMAIN q.seen : q.seen[k].state = "unrecognized"
  <2>1. /\ Len(r.seen) \in Nat /\ DOMAIN r.seen = 1..Len(r.seen)
        /\ DOMAIN q.seen = 1..(Len(r.seen) + 1)
        /\ \A k \in 1..Len(r.seen) : q.seen[k] = r.seen[k]
        /\ q.seen[Len(r.seen) + 1] = result
    BY <1>2, <1>3
  <2>2. r.saw <=> \E k \in 1..Len(r.seen) : r.seen[k].state = "unrecognized"
    BY <1>1, <2>1 DEF RequestOK
  <2>3. 1..(Len(r.seen) + 1) = 1..Len(r.seen) \cup {Len(r.seen) + 1}
    BY <2>1
  <2>4. (\E k \in DOMAIN q.seen : q.seen[k].state = "unrecognized") <=>
          \/ \E k \in 1..Len(r.seen) : r.seen[k].state = "unrecognized"
          \/ result.state = "unrecognized"
    BY <2>1, <2>3
  <2> QED
    BY <1>4, <2>2, <2>4
<1>7. RequestOK(q)
  BY <1>1, <1>3, <1>5, <1>6 DEF RequestOK
<1> QED
  BY <1>3, <1>7 DEF q

\* The candidate of r answers: with a version, with none, or not at all.
LEMMA AnswerShape ==
  ASSUME CheckInv, NEW r \in reqs, NEW state \in States
  PROVE  LET a == Answer(r, state)
         IN  /\ a.state = state
             /\ state = "success" => Head(a.text) \in Range(r.urls)
             /\ state # "success" => a \in Misses
<1>1. r.index \in DOMAIN r.urls
  BY DEF CheckInv, RequestOK
<1>2. CASE state = "success"
  <2>1. /\ Answer(r, state).state = state
        /\ Answer(r, state).text = <<r.urls[r.index]>>
    BY <1>2 DEF Answer
  <2>2. Head(<<r.urls[r.index]>>) = r.urls[r.index]
    OBVIOUS
  <2> QED
    BY <1>1, <1>2, <2>1, <2>2 DEF Range
<1>3. CASE state # "success"
  <2>1. Answer(r, state) = [state |-> state, text |-> <<>>]
    BY <1>3 DEF Answer
  <2>2. state \in {"unrecognized", "error"}
    BY <1>3 DEF States
  <2>3. Answer(r, state) \in Misses /\ Answer(r, state).state = state
    BY <2>1, <2>2 DEF Misses
  <2> QED
    BY <1>3, <2>3
<1> QED
  BY <1>2, <1>3

LEMMA CandidateOK ==
  ASSUME CheckInv, NEW r \in reqs, NEW state \in States,
         CandidateDone(r, Answer(r, state)),
         UNCHANGED <<field, debounce, requestId, crossed>>
  PROVE  CheckInv'
<1> PICK result : result = Answer(r, state)
  OBVIOUS
<1>1. /\ result.state = state
      /\ state = "success" => Head(result.text) \in Range(r.urls)
      /\ state # "success" => result \in Misses
  BY AnswerShape
<1>2. CASE result.state = "success"
  <2>1. Settle(r, result) /\ result.state \in States
    BY <1>2 DEF CandidateDone, States
  <2> QED
    BY <1>1, <2>1, SettleOK
<1>3. CASE result.state # "success" /\ r.index < Len(r.urls)
  <2>1. Replace(r, NextCandidate(r, result)) /\ UNCHANGED <<cache, status>>
    BY <1>3 DEF CandidateDone, NextCandidate
  <2> PICK q : q = NextCandidate(r, result)
    OBVIOUS
  <2>2. RequestOK(q) /\ q.id = r.id /\ q.urls = r.urls
    BY <1>1, <1>3, NextCandidateOK
  <2> QED
    BY <2>1, <2>2, GoesOnOK
<1>4. CASE result.state # "success" /\ ~(r.index < Len(r.urls))
  <2> PICK last : last = [result EXCEPT !.state =
        IF r.saw \/ result.state = "unrecognized" THEN "unrecognized" ELSE @]
    OBVIOUS
  <2>1. Settle(r, last)
    BY <1>4 DEF CandidateDone
  <2>2. last.state \in {"unrecognized", "error"}
    BY <1>1, <1>4 DEF Misses
  <2>3. last.state \in States /\ last.state # "success"
    BY <2>2 DEF States
  <2> QED
    BY <2>1, <2>3, SettleOK
<1> QED
  BY <1>2, <1>3, <1>4

LEMMA RespondsOK ==
  ASSUME CheckInv, NEW r \in reqs, NEW state \in States, Responds(r, state)
  PROVE  CheckInv'
<1>1. UNCHANGED <<field, debounce, requestId, crossed>>
  BY DEF Responds, fetchDirectVersion, fetchProxiedVersion
<1>2. CASE CandidateDone(r, Answer(r, state))
  BY <1>1, <1>2, CandidateOK
<1>3. CASE Replace(r, [r EXCEPT !.stage = "proxy"]) /\ UNCHANGED <<cache, status>>
  <2> PICK q : q = [r EXCEPT !.stage = "proxy"]
    OBVIOUS
  <2>1. RequestOK(r) /\ r \in Requests
    BY DEF CheckInv, RequestOK
  <2>2. /\ q \in Requests /\ q.id = r.id /\ q.urls = r.urls /\ q.index = r.index
        /\ q.seen = r.seen
    BY <2>1 DEF Requests
  <2>3. q.saw = r.saw
    BY <2>1 DEF Requests
  <2>4. RequestOK(q)
    BY <2>1, <2>2, <2>3 DEF RequestOK
  <2> QED
    BY <1>1, <1>3, <2>2, <2>4, GoesOnOK
<1> QED
  BY <1>2, <1>3 DEF Responds, fetchDirectVersion, fetchProxiedVersion

LEMMA HideOK == ASSUME CheckInv, hide PROVE CheckInv'
<1>1. /\ UNCHANGED <<select, customInput, enable, requestId, cache, debounce>>
      /\ reqs' \subseteq reqs
  BY DEF hide, abort, field
<1>2. ~crossed' => Current' = {}
  BY <1>1 DEF hide, Current
<1>3. status'.hidden /\ DOMAIN status' = StatusFields
  BY DEF hide, hideStatus, CheckInv, StatusFields
<1>4. SelectionInv'
  BY <1>2, <1>3 DEF SelectionInv
<1>5. \A x \in reqs' : RequestOK(x)'
  BY <1>1 DEF CheckInv, RequestOK
<1> QED
  BY <1>1, <1>4, <1>5, <1>3 DEF CheckInv

LEMMA CheckStep == ASSUME CheckInv, CheckerNext PROVE CheckInv'
<1>1. Fields(select, customInput, enable)
  BY DEF CheckInv
<1>2. ASSUME NEW s \in Listed \cup {Custom}, ChangeSelect(s) PROVE CheckInv'
  BY <1>1, <1>2, RunOK DEF ChangeSelect, Fields
<1>3. ASSUME NEW c \in Typed, TypeCustom(c) PROVE CheckInv'
  <2>1. /\ customInput' = c /\ debounce' = TRUE
        /\ UNCHANGED <<select, enable, reqs, requestId, cache, status>>
    BY <1>3 DEF TypeCustom, schedule
  <2>2. Fields(select, customInput, enable)' /\ SelectionInv'
    BY <1>1, <2>1 DEF Fields, SelectionInv
  <2>3. \A x \in reqs' : RequestOK(x)'
    BY <2>1 DEF CheckInv, RequestOK
  <2> QED
    BY <2>1, <2>2, <2>3 DEF CheckInv
<1>4. CASE CommitCustom \/ DebounceFires
  <2>1. UNCHANGED <<select, customInput, enable>> /\ run(select, customInput, enable)
    BY <1>4 DEF CommitCustom, DebounceFires, field
  <2> PICK s, c, e : s = select /\ c = customInput /\ e = enable
    OBVIOUS
  <2> QED
    BY <1>1, <2>1, RunOK
<1>5. CASE ToggleEnable
  <2>1. /\ enable' = ~enable /\ UNCHANGED <<select, customInput>>
        /\ run(select, customInput, ~enable)
    BY <1>5 DEF ToggleEnable
  <2> PICK s, c, e : s = select /\ c = customInput /\ e = ~enable
    OBVIOUS
  <2>2. Fields(s, c, e)
    BY <1>1 DEF Fields
  <2> QED
    BY <2>1, <2>2, RunOK
<1>6. ASSUME NEW k \in Keys, CacheExpires(k) PROVE CheckInv'
  <2>1. /\ UNCHANGED <<select, customInput, enable, debounce, reqs, requestId, status, crossed>>
        /\ cache' = [j \in DOMAIN cache \ {k} |-> cache[j]]
    BY <1>6 DEF CacheExpires, field
  <2>2. Wanted' = Wanted /\ Current' = Current
    BY <2>1 DEF Wanted, Current
  <2>3. SelectionInv'
    BY <2>1, <2>2 DEF CheckInv, SelectionInv
  <2>4. \A x \in reqs' : RequestOK(x)'
    BY <2>1 DEF CheckInv, RequestOK
  <2>5. \A j \in DOMAIN cache' : Verdict(j, cache'[j])
    BY <2>1 DEF CheckInv
  <2> QED
    BY <2>1, <2>3, <2>4, <2>5 DEF CheckInv
<1> QED
  BY <1>2, <1>3, <1>4, <1>5, <1>6, HideOK, RespondsOK DEF CheckerNext

LEMMA CheckInit == CheckerInit => CheckInv
<1> SUFFICES ASSUME CheckerInit PROVE CheckInv
  OBVIOUS
<1>1. /\ Fields(select, customInput, enable) /\ requestId = 0 /\ reqs = {}
      /\ cache = <<>> /\ status.hidden /\ DOMAIN status = StatusFields
  BY DEF CheckerInit, Fields, StatusFields
<1>2. DOMAIN cache = {} /\ Current = {}
  BY <1>1 DEF Current
<1>3. SelectionInv
  BY <1>1, <1>2 DEF SelectionInv
<1> QED
  BY <1>1, <1>2, <1>3 DEF CheckInv

-----------------------------------------------------------------------------
PagesInv == ScreenInv /\ ViewInv /\ pageDark \in BOOLEAN /\ CheckInv

\* A page that is not open does not change.
LEMMA EditorStays ==
  ASSUME ScreenInv, ViewInv, pageDark \in BOOLEAN, UNCHANGED editorVars
  PROVE  ScreenInv' /\ ViewInv' /\ pageDark' \in BOOLEAN
<1>1. UNCHANGED <<editor, inPage, fs, zoom, theme>>
  BY DEF editorVars, modal
<1>2. ScreenInv'
  <2>1. inPage \in BOOLEAN /\ (inPage => editor # "none") /\ (fsActive => inPage)
    BY DEF ScreenInv, FullscreenRestored
  <2> QED
    BY <1>1, <2>1, StayOK
<1> QED
  BY <1>1, <1>2, LeavePageOK DEF theme

LEMMA CheckerStays ==
  ASSUME CheckInv, UNCHANGED checkerVars
  PROVE  CheckInv'
<1>1. UNCHANGED <<select, customInput, enable, debounce, reqs, requestId, cache, status, crossed>>
  BY DEF checkerVars
<1>2. Wanted' = Wanted /\ Current' = Current
  BY <1>1 DEF Wanted, Current
<1>3. SelectionInv'
  BY <1>1, <1>2 DEF CheckInv, SelectionInv
<1>4. \A x \in reqs' : RequestOK(x)'
  BY <1>1 DEF CheckInv, RequestOK
<1> QED
  BY <1>1, <1>3, <1>4 DEF CheckInv

\* The invariants of both pages hold in every state.
THEOREM PagesInvariant == Spec => []PagesInv
<1>1. Init => PagesInv
  BY ScreenInit, ViewInit, CheckInit DEF Init, PagesInv
<1>2. PagesInv /\ [Next]_vars => PagesInv'
  <2> SUFFICES ASSUME PagesInv, [Next]_vars PROVE PagesInv'
    OBVIOUS
  <2>1. CASE UNCHANGED vars
    BY <2>1, EditorStays, CheckerStays DEF vars, PagesInv
  <2>2. CASE Overview
    BY <2>2, ScreenStep, ViewStep, CheckerStays DEF Overview, PagesInv
  <2>3. CASE Subscribe(CheckerNext)
    BY <2>3, CheckStep, EditorStays DEF Subscribe, PagesInv
  <2> QED
    BY <2>1, <2>2, <2>3 DEF Next
<1> QED
  BY <1>1, <1>2, PTL DEF Spec

\* Full screen is undone completely, for any elements around the editor.
THEOREM FullscreenAlwaysRestored == Spec => []FullscreenRestored
<1>1. PagesInv => FullscreenRestored
  BY DEF PagesInv, ScreenInv
<1> QED
  BY <1>1, PagesInvariant, PTL

\* Zoom levels and themes of the views of one editor agree, and the document
\* has the theme stored.
THEOREM ViewsAlwaysAgree == Spec => []ViewsAgree
<1>1. PagesInv => ViewsAgree
  BY DEF PagesInv, ViewInv
<1> QED
  BY <1>1, PagesInvariant, PTL

\* A settled checker shows the verdict of the backend that is selected, for any
\* backends and any number of checks, answers and expiries.
THEOREM SettledAlwaysShowsSelection == Spec => []SettledShowsSelection
<1>1. PagesInv => SettledShowsSelection
  <2> SUFFICES ASSUME CheckInv, reqs = {}, ~debounce, ~crossed, ~status.hidden
               PROVE  /\ enable
                      /\ CASE Wanted.error = "empty"   -> status.state = "empty"
                           [] Wanted.error = "invalid" -> status.state = "error"
                           [] OTHER -> /\ status.state \in States
                                       /\ status.state = "success" =>
                                            Head(status.message) \in Range(Wanted.versionURLs)
    BY DEF PagesInv, SettledShowsSelection, Wanted
  <2>1. enable /\ Fits(Wanted, status)
    BY DEF CheckInv, SelectionInv, Current
  <2>2. /\ Wanted.error = "empty" => status.state = "empty"
        /\ Wanted.error = "invalid" => status.state = "error"
        /\ Wanted.error # "empty" /\ Wanted.error # "invalid" =>
             /\ status.state \in States
             /\ status.state = "success" => Head(status.message) \in Range(Wanted.versionURLs)
    BY <2>1 DEF Fits, Usable, Verdict
  <2> QED
    BY <2>1, <2>2
<1> QED
  BY <1>1, PagesInvariant, PTL

-----------------------------------------------------------------------------
\* The verdict r would end with after a last answer.
BestOf(r, state) ==
    LET results == {x.state : x \in Range(r.seen)} \cup {state}
    IN  CHOOSE best \in States :
          /\ best \in results
          /\ best = "error" => "unrecognized" \notin results
          /\ best # "success" => "success" \notin results

LEMMA BestIs ==
  ASSUME CheckInv, NEW r \in reqs, NEW state \in States
  PROVE  BestOf(r, state) = IF state = "success" THEN "success"
                            ELSE IF r.saw \/ state = "unrecognized" THEN "unrecognized"
                            ELSE "error"
<1> DEFINE results == {x.state : x \in Range(r.seen)} \cup {state}
           P(best) == /\ best \in results
                      /\ best = "error" => "unrecognized" \notin results
                      /\ best # "success" => "success" \notin results
<1>1. /\ r.seen \in Seq(Misses)
      /\ r.saw <=> \E k \in DOMAIN r.seen : r.seen[k].state = "unrecognized"
  BY DEF CheckInv, RequestOK, Requests
<1>2. \A k \in DOMAIN r.seen : r.seen[k].state \in {"unrecognized", "error"}
  <2>1. \A k \in DOMAIN r.seen : r.seen[k] \in Misses
    BY <1>1
  <2> QED
    BY <2>1 DEF Misses
<1>3. "success" \in results <=> state = "success"
  BY <1>2 DEF Range
<1>4. "unrecognized" \in results <=> r.saw \/ state = "unrecognized"
  BY <1>1 DEF Range
<1>5. state \in results
  OBVIOUS
<1>6. BestOf(r, state) = CHOOSE best \in States : P(best)
  BY DEF BestOf
<1> HIDE DEF results
<1>7. ASSUME NEW v \in States, P(v), \A w \in States : P(w) => w = v
      PROVE  BestOf(r, state) = v
  <2> HIDE DEF P
  <2> QED
    BY <1>6, <1>7
<1>8. CASE state = "success"
  <2>1. P("success") /\ \A w \in States : P(w) => w = "success"
    BY <1>3, <1>8
  <2> QED
    BY <1>7, <1>8, <2>1 DEF States
<1>9. CASE state # "success" /\ (r.saw \/ state = "unrecognized")
  <2>1. P("unrecognized") /\ \A w \in States : P(w) => w = "unrecognized"
    BY <1>3, <1>4, <1>9 DEF States
  <2> QED
    BY <1>7, <1>9, <2>1 DEF States
<1>10. CASE state # "success" /\ ~(r.saw \/ state = "unrecognized")
  <2>1. state = "error"
    BY <1>10 DEF States
  <2>2. P("error") /\ \A w \in States : P(w) => w = "error"
    BY <1>3, <1>4, <1>5, <1>10, <2>1 DEF States
  <2> QED
    BY <1>7, <1>10, <2>2 DEF States
<1> QED
  BY <1>8, <1>9, <1>10

LEMMA BestShown ==
  ASSUME CheckInv, NEW r \in reqs, NEW state \in States, Responds(r, state),
         {s \in reqs' : s.id = r.id} = {}, ~Stale(r)
  PROVE  status'.state = BestOf(r, state)
<1>1. r \in Requests
  BY DEF CheckInv, RequestOK
<1>2. ASSUME NEW q, Replace(r, q), q.id = r.id PROVE FALSE
  BY <1>2 DEF Replace
<1>3. ~Replace(r, [r EXCEPT !.stage = "proxy"])
  <2> PICK q : q = [r EXCEPT !.stage = "proxy"]
    OBVIOUS
  <2>1. q.id = r.id
    BY <1>1 DEF Requests
  <2> QED
    BY <1>2, <2>1
<1> PICK result : result = Answer(r, state)
  OBVIOUS
<1>4. CandidateDone(r, result)
  BY <1>3 DEF Responds, fetchDirectVersion, fetchProxiedVersion
<1>5. result.state = state /\ (state # "success" => result \in Misses)
  BY AnswerShape
<1>6. ASSUME NEW x, Settle(r, x) PROVE status'.state = x.state
  BY <1>6 DEF Settle, renderStatus
<1>7. CASE state = "success"
  BY <1>4, <1>5, <1>6, <1>7, BestIs DEF CandidateDone
<1>8. CASE state # "success"
  <2>1. ~Replace(r, NextCandidate(r, result))
    <3> PICK q : q = NextCandidate(r, result)
      OBVIOUS
    <3>1. q.id = r.id
      BY <1>1 DEF NextCandidate, Requests
    <3> QED
      BY <1>2, <3>1
  <2> PICK last : last = [result EXCEPT !.state =
        IF r.saw \/ result.state = "unrecognized" THEN "unrecognized" ELSE @]
    OBVIOUS
  <2>2. Settle(r, last)
    BY <1>4, <1>5, <1>8, <2>1 DEF CandidateDone, NextCandidate
  <2>3. last.state = IF r.saw \/ state = "unrecognized" THEN "unrecognized" ELSE state
    BY <1>5, <1>8 DEF Misses
  <2>4. state \in {"unrecognized", "error"}
    BY <1>8 DEF States
  <2> QED
    BY <1>6, <1>8, <2>2, <2>3, <2>4, BestIs
<1> QED
  BY <1>7, <1>8

\* A check ends with the best answer of its candidates, for any number of them.
THEOREM VerdictAlwaysBest == Spec => VerdictIsBest
<1> DEFINE A == \A r \in reqs : \A state \in States :
         LET results == {x.state : x \in Range(r.seen)} \cup {state}
         IN  Responds(r, state) /\ r \notin reqs' /\ {s \in reqs' : s.id = r.id} = {}
               /\ ~Stale(r) =>
             status'.state = CHOOSE best \in States :
                /\ best \in results
                /\ best = "error" => "unrecognized" \notin results
                /\ best # "success" => "success" \notin results
<1>1. CheckInv => A
  BY BestShown DEF BestOf
<1>2. PagesInv => A
  BY <1>1 DEF PagesInv
<1>3. PagesInv => [A]_checkerVars
  BY <1>2
<1> QED
  BY <1>3, PagesInvariant, PTL DEF VerdictIsBest
=============================================================================
