--------------------------- MODULE PolicyBuilder ---------------------------
(***************************************************************************)
(* The Policies page of luci-app-mwan3: the PolicyTierEditor widget        *)
(* (mwan3/widgets.js), the modal and the apply step around it              *)
(* (view/mwan3/network/policy.js), the member lookup they share, and the   *)
(* Members page (view/mwan3/network/member.js), whose edits the builder    *)
(* meets.                                                                  *)
(*                                                                         *)
(* `saved' is the configuration on the router, `cache' the browser's uci   *)
(* state: a click on Save changes the cache at once and the router only    *)
(* when uci.save() succeeds.  Section names are sequences: <<n>> for a     *)
(* name the user typed, <<iface, metric, weight>> for a generated one      *)
(* (<iface>_m<metric>_w<weight>), so that two names are equal exactly when *)
(* the texts are.                                                          *)
(***************************************************************************)
EXTENDS Integers, Sequences, FiniteSets, TLC, SequencesExt, FiniteSetsExt, Functions

CONSTANTS
    IfaceOrder,     \* mwan3 interface names in configuration order
    FamilyOf,       \* their family, "ipv4" or "ipv6"
    Names,          \* names the user may give to a policy
    Percents,       \* shares the user types
    Weights,        \* weights given on the Members page
    FirstConfig,    \* the configuration the page is first loaded with
    LastResorts,    \* the choices of the last-resort selector
    MaxTiers, MaxEntries, MaxSteps, MaxFailures     \* bounds

ASSUME BoundsAssumption ==
    /\ {MaxTiers, MaxEntries, MaxSteps, MaxFailures} \subseteq Nat
    /\ Percents \subseteq 1..100
    /\ Weights \subseteq Nat
    /\ IfaceOrder \in Seq(STRING) /\ "" \notin ToSet(IfaceOrder)
    /\ FamilyOf \in [ToSet(IfaceOrder) -> {"ipv4", "ipv6"}]

VARIABLES
    saved,      \* /etc/config/mwan3: [member, policy], each a function on names
    cache,      \* the browser's uci state
    memberInfo, \* the member table built when the page was rendered
    modal,      \* "closed", "builder" or "orphans"
    state,      \* the editor's state
    saveBtn,    \* TRUE when the Save button is enabled
    sent,       \* what the save in flight was clicked with, or Nothing
    offered,    \* members listed in the orphan dialog
    autoDelete, \* the page preference mwan3.autoDeleteMembers
    steps, failures

page == <<saved, cache, memberInfo>>
vars == <<saved, cache, memberInfo, modal, state, saveBtn, sent, offered,
          autoDelete, steps, failures>>

Families == <<"ipv4", "ipv6">>
Nothing == [busy |-> FALSE]
-----------------------------------------------------------------------------
(* Weight arithmetic and lookups *)

\* The numbers of a finite set in increasing order, and the elements of s at
\* the positions ks in the order they have in s (sort and filter).
Increasing(S) ==
    [k \in 1..Cardinality(S) |-> CHOOSE x \in S : Cardinality({y \in S : y <= x}) = k]
At(s, ks) == LET order == Increasing(ks) IN [k \in DOMAIN order |-> s[order[k]]]

ifacesByFamily(fam) == At(IfaceOrder, {k \in DOMAIN IfaceOrder : FamilyOf[IfaceOrder[k]] = fam})

\* The default choice: the family's first interface, or none.
firstIface(fam) ==
    IF ifacesByFamily(fam) = <<>> THEN "" ELSE Head(ifacesByFamily(fam))

gcdList(pcts) ==
    Max({d \in 1..100 : \A k \in DOMAIN pcts : pcts[k] % d = 0})

ofFamily(entries, fam) == At(entries, {k \in DOMAIN entries : entries[k].family = fam})
withMetric(infos, m) == At(infos, {k \in DOMAIN infos : infos[k].metric = m})

\* What 0/0 gives, where every member of a family and metric has weight 0; no
\* share that is typed or computed from others is negative.
NaN == -1

Total(f) ==
    LET sum[n \in 0..Len(f)] == IF n = 0 THEN 0 ELSE sum[n - 1] + f[n]
    IN IF NaN \in ToSet(f) THEN NaN ELSE sum[Len(f)]

computeWeights(fe) ==
    IF Len(fe) = 1 THEN <<1>>
    ELSE [k \in DOMAIN fe |->
            fe[k].pct \div gcdList([j \in DOMAIN fe |-> fe[j].pct])]

distributeEqual(entries, fam) ==
    LET pos   == {k \in DOMAIN entries : entries[k].family = fam}
        share == 100 \div Cardinality(pos)
    IN [k \in DOMAIN entries |->
          IF k \notin pos THEN entries[k]
          ELSE [entries[k] EXCEPT !.pct =
                  IF k = Min(pos) THEN 100 - share * (Cardinality(pos) - 1)
                                  ELSE share]]

FaultyFindExistingMember(c, i, metric, weight) ==
    {n \in DOMAIN c.member : c.member[n].iface = i /\ c.member[n].weight = weight}

\* Members with the wanted values; which of several is found is the order of
\* the sections in the file, and no property depends on it.
findExistingMember(c, i, metric, weight) ==
    {n \in DOMAIN c.member :
        c.member[n] = [iface |-> i, metric |-> metric, weight |-> weight]}

\* The interface and rule sections never change here: only their names matter.
sectionNameInUse(c, n) ==
    n \in DOMAIN c.member \cup DOMAIN c.policy \cup {<<i>> : i \in ToSet(IfaceOrder)}

\* The page's lookup table, built once per page load.
buildMemberInfo(c) ==
    [n \in DOMAIN c.member |->
        [iface  |-> c.member[n].iface,
         metric |-> c.member[n].metric,
         weight |-> c.member[n].weight,
         family |-> IF c.member[n].iface \in DOMAIN FamilyOf
                    THEN FamilyOf[c.member[n].iface] ELSE "ipv4"]]

\* Math.round(weight / total * 100) in the builder and Math.round(weight * 100 /
\* total) in the grid, without the rounding of doubles, which tells the two apart
\* at some exact halves (README, observations).
RoundShare(weight, total) ==
    IF total = 0 THEN NaN ELSE (200 * weight + total) \div (2 * total)

EntriesOf(infos, fam) ==
    LET mine  == ofFamily(infos, fam)
        total == Total([k \in DOMAIN mine |-> mine[k].weight])
    IN [k \in DOMAIN mine |-> [family |-> fam, iface |-> mine[k].iface,
                               pct |-> RoundShare(mine[k].weight, total)]]

metricsOf(infos) == Increasing({infos[k].metric : k \in DOMAIN infos})

stateFromPolicy(c, info, p) ==
    LET use     == c.policy[p].use_member
        known   == At(use, {k \in DOMAIN use : use[k] \in DOMAIN info})
        infos   == [k \in DOMAIN known |-> info[known[k]]]
        metrics == metricsOf(infos)
        tier(m) == EntriesOf(withMetric(infos, m), "ipv4")
                     \o EntriesOf(withMetric(infos, m), "ipv6")
    IN [mode |-> "existing", policyName |-> p, newPolicyName |-> <<>>,
        lastResort |-> c.policy[p].last_resort,
        tiers |-> IF metrics = <<>> THEN << <<>> >>
                  ELSE [k \in DOMAIN metrics |-> tier(metrics[k])]]

\* The grid's description of one family of a policy: per metric the interfaces
\* and their shares (a single one is shown without); unknown members are left
\* out of it and only mentioned.
FaultyFamilyDesc(c, info, p, fam) ==
    LET use  == c.policy[p].use_member
        mine == At(use, {k \in DOMAIN use : use[k] \in DOMAIN info /\ info[use[k]].family = fam})
    IN << EntriesOf([k \in DOMAIN mine |-> info[mine[k]]], fam) >>

familyDesc(c, info, p, fam) ==
    LET use     == c.policy[p].use_member
        mine    == At(use, {k \in DOMAIN use : use[k] \in DOMAIN info /\ info[use[k]].family = fam})
        infos   == [k \in DOMAIN mine |-> info[mine[k]]]
        metrics == metricsOf(infos)
    IN [j \in DOMAIN metrics |-> EntriesOf(withMetric(infos, metrics[j]), fam)]

UsedIn(c) == UNION {ToSet(c.policy[p].use_member) : p \in DOMAIN c.policy}

\* The Configuration page's view of members and policies: the sections with an
\* error and the members no policy uses.  Its checks of rules are RuleBook's,
\* its other warnings are advice.
collectIssues(c) ==
    [errors |-> {n \in DOMAIN c.member : c.member[n].iface \notin ToSet(IfaceOrder)}
                \cup {p \in DOMAIN c.policy :
                        \/ c.policy[p].use_member = <<>>
                        \/ ~(ToSet(c.policy[p].use_member) \subseteq DOMAIN c.member)},
     unused |-> DOMAIN c.member \ UsedIn(c)]

\* The router's configuration is one without errors when the page is loaded;
\* it gives every member a metric and a weight and every policy a list of
\* members.
ASSUME ConfigAssumption ==
    /\ FirstConfig = [member |-> FirstConfig.member, policy |-> FirstConfig.policy]
    /\ \A n \in DOMAIN FirstConfig.member :
         FirstConfig.member[n].metric \in Nat /\ FirstConfig.member[n].weight \in Nat
    /\ \A p \in DOMAIN FirstConfig.policy :
         FirstConfig.policy[p].use_member \in Seq(DOMAIN FirstConfig.member)
    /\ collectIssues(FirstConfig).errors = {}

newState(n) == [mode |-> "new", policyName |-> <<>>, newPolicyName |-> n,
                lastResort |-> "unreachable", tiers |-> << <<>> >>]
-----------------------------------------------------------------------------
(* Validation and the specification computed from the state *)

\* Rows of one tier as they are turned into members: IPv4 first, then IPv6.
MembersOfTier(entries, metric) ==
    LET part(fam) ==
            LET fe == ofFamily(entries, fam)
                w  == computeWeights(fe)
            IN [k \in DOMAIN fe |->
                  [iface |-> fe[k].iface, metric |-> metric, weight |-> w[k]]]
    IN part("ipv4") \o part("ipv6")

WantedMembers(s) ==
    FlattenSeq([t \in DOMAIN s.tiers |-> MembersOfTier(s.tiers[t], t)])

GeneratedName(m) == <<m.iface, m.metric, m.weight>>

getErrors(c, s) ==
    (IF s.mode = "new" /\ (s.newPolicyName = <<>> \/ sectionNameInUse(c, s.newPolicyName))
       THEN {"name"} ELSE {})
    \cup (IF \A t \in DOMAIN s.tiers : s.tiers[t] = <<>> THEN {"no entries"} ELSE {})
    \cup (IF \E t \in DOMAIN s.tiers : \E k \in DOMAIN s.tiers[t] : s.tiers[t][k].iface = ""
            THEN {"no interface"} ELSE {})
    \cup (IF \E t \in DOMAIN s.tiers : \E fam \in ToSet(Families) :
               LET fe == ofFamily(s.tiers[t], fam)
               IN /\ fe # <<>>
                  /\ Total([k \in DOMAIN fe |-> fe[k].pct]) # 100
            THEN {"total"} ELSE {})
    \cup (IF \E m \in ToSet(WantedMembers(s)) :
               /\ m.iface # ""
               /\ findExistingMember(c, m.iface, m.metric, m.weight) = {}
               /\ GeneratedName(m) \in DOMAIN c.member
            THEN {"collision"} ELSE {})

isValid(c, s) == getErrors(c, s) = {}

FaultyOrphans(c, p, old, new) == ToSet(old) \ ToSet(new)

\* Members named by the policy before and dropped now, unless another policy
\* names them.
Orphans(c, p, old, new) ==
    {n \in ToSet(old) \ ToSet(new) :
        \A q \in DOMAIN c.policy \ {p} : n \notin ToSet(c.policy[q].use_member)}

getValue(c, s) ==
    LET p      == IF s.mode = "new" THEN s.newPolicyName ELSE s.policyName
        old    == IF s.mode = "new" THEN <<>> ELSE c.policy[p].use_member
        wanted == WantedMembers(s)
        name(m) == LET found == findExistingMember(c, m.iface, m.metric, m.weight)
                   IN IF found # {} THEN CHOOSE n \in found : TRUE
                                    ELSE GeneratedName(m)
        use    == [k \in DOMAIN wanted |-> name(wanted[k])]
    IN [isNew |-> s.mode = "new", policyName |-> p, lastResort |-> s.lastResort,
        useMembers |-> use,
        membersToCreate |-> {m \in ToSet(wanted) :
            findExistingMember(c, m.iface, m.metric, m.weight) = {}},
        orphans |-> Orphans(c, p, old, use)]
-----------------------------------------------------------------------------
(* The editor.  Every handler below ends in refreshTiers or updateErrors,  *)
(* whose onChange sets the Save button, except where the comment says so.  *)
(* Rendering a row whose interface is not of its family picks the first    *)
(* one that is.                                                            *)

Without(f, drop) == Restrict(f, DOMAIN f \ drop)

\* Rendering a row fixes its interface, and every tier block is rebuilt.
fixRow(e) ==
    IF ifacesByFamily(e.family) # <<>> /\ e.iface \notin ToSet(ifacesByFamily(e.family))
    THEN [e EXCEPT !.iface = firstIface(e.family)] ELSE e
Rendered(tiers) == [t \in DOMAIN tiers |-> [k \in DOMAIN tiers[t] |-> fixRow(tiers[t][k])]]

\* Lists the errors and calls onChange, which sets the button.
updateErrors == saveBtn' = isValid(cache, state')

refreshTiers(tiers) ==
    /\ state' = [state EXCEPT !.tiers = Rendered(tiers)]
    /\ updateErrors

\* Replaces the whole state; the controls and rows are rendered from it.
setValue(s) ==
    /\ state' = [s EXCEPT !.tiers = Rendered(s.tiers)]
    /\ updateErrors

\* A user action on the open builder.
Editing ==
    /\ modal = "builder" /\ steps < MaxSteps
    /\ steps' = steps + 1
    /\ UNCHANGED <<page, modal, sent, offered, autoDelete, failures>>

changeFamily(t, k) ==
    /\ Editing
    /\ \E fam \in ToSet(Families) \ {state.tiers[t][k].family} :
         LET moved == [state.tiers[t] EXCEPT ![k].family = fam,
                                             ![k].iface = firstIface(fam)]
             even(es, f) == IF ofFamily(es, f) = <<>> THEN es ELSE distributeEqual(es, f)
         IN refreshTiers([state.tiers EXCEPT ![t] = even(even(moved, "ipv4"), "ipv6")])

\* The handler stores the choice and nothing else: neither the error list nor
\* the button is brought up to date.
changeIface(t, k) ==
    /\ Editing
    /\ \E i \in ToSet(ifacesByFamily(state.tiers[t][k].family)) :
         state' = [state EXCEPT !.tiers[t][k].iface = i]
    /\ UNCHANGED saveBtn

\* The field is read-only for the only entry of its family.
typePercent(t, k) ==
    /\ Editing
    /\ Len(ofFamily(state.tiers[t], state.tiers[t][k].family)) > 1
    /\ \E v \in Percents : state' = [state EXCEPT !.tiers[t][k].pct = v]
    /\ updateErrors

removeEntry(t, k) ==
    /\ Editing
    /\ LET fam  == state.tiers[t][k].family
           rest == RemoveAt(state.tiers[t], k)
       IN refreshTiers([state.tiers EXCEPT ![t] =
            IF ofFamily(rest, fam) = <<>> THEN rest ELSE distributeEqual(rest, fam)])

addEntry(t) ==
    /\ Editing
    /\ Len(state.tiers[t]) < MaxEntries
    /\ LET present == {state.tiers[t][k].family : k \in DOMAIN state.tiers[t]}
           fam == IF Cardinality(present) = 1 THEN CHOOSE f \in present : TRUE
                  ELSE IF ifacesByFamily("ipv4") # <<>> THEN "ipv4" ELSE "ipv6"
           entry == [family |-> fam, iface |-> firstIface(fam), pct |-> 0]
       IN refreshTiers([state.tiers EXCEPT ![t] =
                          distributeEqual(Append(state.tiers[t], entry), fam)])

addTier ==
    /\ Editing
    /\ Len(state.tiers) < MaxTiers
    /\ refreshTiers(Append(state.tiers, <<>>))

removeTier(t) ==
    /\ Editing
    /\ Len(state.tiers) > 1
    /\ refreshTiers(RemoveAt(state.tiers, t))

typeName ==
    /\ Editing
    /\ state.mode = "new"
    /\ \E n \in Names \cup {<<>>} : state' = [state EXCEPT !.newPolicyName = n]
    /\ updateErrors

\* Changes no part of the state that can be invalid.
changeLastResort ==
    /\ Editing
    /\ \E l \in LastResorts : state' = [state EXCEPT !.lastResort = l]
    /\ UNCHANGED saveBtn

\* The policy selector, shown only while an existing policy is edited.
selectPolicy ==
    /\ Editing
    /\ state.mode = "existing"
    /\ \/ setValue(newState(<<>>))
       \/ \E p \in DOMAIN cache.policy : setValue(stateFromPolicy(cache, memberInfo, p))
-----------------------------------------------------------------------------
(* The page *)

openBuilder(s) ==
    /\ modal = "closed" /\ steps < MaxSteps
    /\ state' = [s EXCEPT !.tiers = Rendered(s.tiers)]
    /\ saveBtn' = isValid(cache, state')
    /\ modal' = "builder"
    /\ steps' = steps + 1
    /\ UNCHANGED <<page, sent, offered, autoDelete, failures>>

handleAdd == \E n \in Names : openBuilder(newState(n))
handleEdit == \E p \in DOMAIN cache.policy : openBuilder(stateFromPolicy(cache, memberInfo, p))

hideModal ==
    /\ modal = "builder"
    /\ modal' = "closed"
    /\ UNCHANGED <<page, state, saveBtn, sent, offered, autoDelete, steps, failures>>

toggleAutoDelete ==
    /\ modal = "closed" /\ steps < MaxSteps
    /\ autoDelete' = ~autoDelete
    /\ steps' = steps + 1
    /\ UNCHANGED <<page, modal, state, saveBtn, sent, offered, failures>>

\* applyPolicy's changes to the uci cache: members are created and the policy
\* is written, then the orphans are deleted if that is the preference.
Applied(c, spec, auto) ==
    LET made == {GeneratedName(m) : m \in spec.membersToCreate}
        gone == IF auto THEN spec.orphans ELSE {}
    IN [member |-> [n \in (DOMAIN c.member \cup made) \ gone |->
                      IF n \in made THEN [iface |-> n[1], metric |-> n[2], weight |-> n[3]]
                      ELSE c.member[n]],
        policy |-> [q \in DOMAIN c.policy \cup {spec.policyName} |->
                      IF q = spec.policyName
                      THEN [use_member |-> spec.useMembers, last_resort |-> spec.lastResort]
                      ELSE c.policy[q]]]

\* Click on Save.  An invalid state returns early; otherwise the cache is
\* changed and uci.save() starts.  A second click while a save is in flight
\* is left out.
applyPolicy ==
    /\ modal = "builder" /\ saveBtn /\ sent = Nothing
    /\ isValid(cache, state)
    /\ LET spec == getValue(cache, state) IN
         /\ cache' = Applied(cache, spec, autoDelete)
         /\ sent' = [busy |-> TRUE, kind |-> "policy", name |-> spec.policyName,
                     tiers |-> state.tiers, orphans |-> spec.orphans,
                     auto |-> autoDelete, clean |-> cache = saved]
    /\ saveBtn' = FALSE
    /\ UNCHANGED <<saved, memberInfo, modal, state, offered, autoDelete, steps, failures>>

\* Click on "Delete selected" in the orphan dialog.
deleteSelected ==
    /\ modal = "orphans" /\ sent = Nothing
    /\ \E ticked \in SUBSET offered :
         cache' = [cache EXCEPT !.member = Without(@, ticked)]
    /\ sent' = [busy |-> TRUE, kind |-> "orphans"]
    /\ UNCHANGED <<saved, memberInfo, modal, state, saveBtn, offered, autoDelete,
                   steps, failures>>

\* window.location.reload(): every table is built again.
reload(c) ==
    /\ cache' = c
    /\ memberInfo' = buildMemberInfo(c)
    /\ modal' = "closed"
    /\ offered' = {}

FaultySaveDone ==
    /\ sent # Nothing
    /\ saved' = cache
    /\ sent' = Nothing
    /\ reload(cache)
    /\ UNCHANGED <<state, saveBtn, autoDelete, steps, failures>>

saveDone ==
    /\ sent # Nothing
    /\ saved' = cache
    /\ sent' = Nothing
    /\ IF sent.kind = "policy" /\ sent.orphans # {} /\ ~sent.auto
       THEN /\ offered' = sent.orphans
            /\ modal' = "orphans"
            /\ UNCHANGED <<cache, memberInfo>>
       ELSE reload(cache)
    /\ UNCHANGED <<state, saveBtn, autoDelete, steps, failures>>

\* A notification is all that happens: the cache keeps the changes.  The
\* framework enables the clicked button again.
saveFailed ==
    /\ sent # Nothing
    /\ failures < MaxFailures
    /\ failures' = failures + 1
    /\ sent' = Nothing
    /\ saveBtn' = TRUE
    /\ UNCHANGED <<page, modal, state, offered, autoDelete, steps>>

dismissOrphans ==
    /\ modal = "orphans" /\ sent = Nothing
    /\ reload(saved)
    /\ UNCHANGED <<saved, state, saveBtn, sent, autoDelete, steps, failures>>

\* Save on the Members page: an existing member gets other values.  Leaving
\* the Policies page and returning loads it again.
editMember ==
    /\ modal = "closed" /\ sent = Nothing /\ steps < MaxSteps
    /\ \E n \in DOMAIN saved.member, i \in ToSet(IfaceOrder), m \in 1..MaxTiers, w \in Weights :
         saved' = [saved EXCEPT !.member[n] = [iface |-> i, metric |-> m, weight |-> w]]
    /\ reload(saved')
    /\ steps' = steps + 1
    /\ UNCHANGED <<state, saveBtn, sent, autoDelete, failures>>
-----------------------------------------------------------------------------
Init ==
    /\ saved = FirstConfig
    /\ cache = FirstConfig
    /\ memberInfo = buildMemberInfo(FirstConfig)
    /\ modal = "closed"
    /\ state = newState(<<>>)
    /\ saveBtn = FALSE
    /\ sent = Nothing
    /\ offered = {}
    /\ autoDelete \in BOOLEAN
    /\ steps = 0
    /\ failures = 0

EditRow == \E t \in DOMAIN state.tiers : \E k \in DOMAIN state.tiers[t] :
    \/ changeFamily(t, k) \/ changeIface(t, k)
    \/ typePercent(t, k)  \/ removeEntry(t, k)

EditTier == \E t \in DOMAIN state.tiers : addEntry(t) \/ removeTier(t)

Next ==
    \/ EditRow \/ EditTier \/ addTier
    \/ typeName \/ changeLastResort \/ selectPolicy
    \/ handleAdd \/ handleEdit \/ hideModal \/ toggleAutoDelete
    \/ applyPolicy \/ deleteSelected \/ saveDone \/ saveFailed
    \/ dismissOrphans \/ editMember

Spec == Init /\ [][Next]_vars
-----------------------------------------------------------------------------
(* Properties *)

NonEmpty(tiers) == At(tiers, {t \in DOMAIN tiers : tiers[t] # <<>>})

EntriesByFamily(tiers) ==
    NonEmpty([t \in DOMAIN tiers |-> ofFamily(tiers[t], "ipv4") \o ofFamily(tiers[t], "ipv6")])

\* A policy that was saved is shown again exactly as it was drawn: the shares,
\* turned into reduced weights, reused or new members and their metrics, and
\* read back after the reload, are the shares that were on the screen, tier by
\* tier (an empty tier disappears).
SavedAsDrawn ==
    [][(saveDone /\ sent.kind = "policy") =>
         EntriesByFamily(stateFromPolicy(saved', buildMemberInfo(saved'), sent.name).tiers)
           = EntriesByFamily(sent.tiers)]_vars

\* Whatever was saved, lost, retried or deleted as an orphan, the Configuration
\* page finds no error on the router, such as a policy that names a member that
\* no longer exists or one without members, and the two columns of the grid say
\* what the builder opens with: for every policy and family the tiers and
\* shares, computed exactly, agree, whatever the members are called and in
\* whichever order the policy lists them.
SavedIsReadable ==
    /\ collectIssues(saved).errors = {}
    /\ \A p \in DOMAIN saved.policy, fam \in ToSet(Families) :
         LET info  == buildMemberInfo(saved)
             tiers == stateFromPolicy(saved, info, p).tiers
         IN familyDesc(saved, info, p, fam)
              = NonEmpty([t \in DOMAIN tiers |-> ofFamily(tiers[t], fam)])

\* A successful save that started from a cache without pending changes leaves
\* no dropped member behind: each is deleted, or listed in the orphan dialog, so
\* that the Configuration page has no member more to report as unused.
DroppedMembersHandled ==
    [][(saveDone /\ sent.kind = "policy" /\ sent.clean) =>
         collectIssues(saved').unused \ collectIssues(saved).unused \subseteq offered']_vars

\* Claims of the documents and comments that the code does not keep.  Run policy_weight
\* checks WeightsAcceptable.
\* The README, "Where the code and its documentation disagree", tells the
\* behaviour that refutes each.

\* policy.js: "When auto-delete is off and orphans remain, offer them for
\* selective deletion."  Not so for a save that is retried: the cache already
\* holds the new member list, so the retry finds no orphans.
OrphansOffered ==
    [][(saveDone /\ sent.kind = "policy" /\ ~sent.auto) =>
         (UsedIn(saved) \cap DOMAIN saved.member) \ UsedIn(saved') \subseteq offered']_vars

\* policy.js: the wiring "keeps the Save button in step with validity".
SaveInStep ==
    (modal = "builder" /\ sent = Nothing) => (saveBtn <=> isValid(cache, state))

\* member.js: weights have "Acceptable values: 1-1000".
WeightsAcceptable == \A n \in DOMAIN saved.member : saved.member[n].weight \in 1..1000
=============================================================================
