------------------------ MODULE PolicyBuilderProofs ------------------------
(***************************************************************************)
(* The configurations the policy builder leaves behind, for all            *)
(* interfaces, names, shares, weights and first configurations.            *)
(*                                                                         *)
(* The first part is about sets of names: no policy names a member that    *)
(* does not exist, and no dropped member is lost.  The order in which a    *)
(* policy lists its members does not matter there.                         *)
(*                                                                         *)
(* The second part is about lists and numbers: what sorting and filtering  *)
(* by positions give (Increasing and At), that the grid's description of a *)
(* family and the tiers the builder opens with are the same selections of  *)
(* the same list, and that the weights of shares that make 100 give those  *)
(* shares back.                                                            *)
(*                                                                         *)
(* The third part follows a policy through a save: every state of the      *)
(* editor has rows, a valid one wants members that are found or created,   *)
(* and the table made from them afterwards reads as the tiers drawn.       *)
(***************************************************************************)
EXTENDS PolicyBuilder, FiniteSetTheorems, SequenceTheorems, WellFoundedInduction, TLAPS

\* The members no policy names, as the Configuration page lists them.
Unused(c) == DOMAIN c.member \ UsedIn(c)

\* No policy names a member that does not exist.
NoDangling(c) ==
    \A p \in DOMAIN c.policy : ToSet(c.policy[p].use_member) \subseteq DOMAIN c.member

\* A configuration has members and policies.
IsConfig(c) == c = [member |-> c.member, policy |-> c.policy]

\* The save in flight, about the cache it has changed and the router's
\* configuration: the orphans are members no policy names any more, and what
\* has come to be without a policy is deleted or is one of them.
SaveOK ==
    (sent # Nothing /\ sent.kind = "policy") =>
        /\ sent.orphans \cap UsedIn(cache) = {}
        /\ sent.clean => Unused(cache) \ Unused(saved)
                           \subseteq (IF sent.auto THEN {} ELSE sent.orphans)

\* Everywhere else the members that may be deleted are unused, too.
ConfigOK ==
    /\ IsConfig(saved) /\ IsConfig(cache)
    /\ NoDangling(saved) /\ NoDangling(cache)
    /\ modal = "orphans" => offered \cap UsedIn(cache) = {}

BuilderInv == SaveOK /\ ConfigOK

-----------------------------------------------------------------------------
\* What the save changes: the policy names what it is to name, and exactly the
\* members it names that did not exist are created.
LEMMA GetValue ==
    ASSUME NEW c, NEW s, NEW spec, spec = getValue(c, s)
    PROVE  /\ spec.orphans = Orphans(c, spec.policyName,
                               IF s.mode = "new" THEN <<>>
                               ELSE c.policy[spec.policyName].use_member,
                               spec.useMembers)
           /\ spec.policyName = IF s.mode = "new" THEN s.newPolicyName ELSE s.policyName
           /\ ToSet(spec.useMembers) \subseteq
                DOMAIN c.member \cup {GeneratedName(m) : m \in spec.membersToCreate}
           /\ {GeneratedName(m) : m \in spec.membersToCreate} \subseteq ToSet(spec.useMembers)
<1>1. PICK wanted : wanted = WantedMembers(s)
  OBVIOUS
<1> DEFINE name(m) == LET found == findExistingMember(c, m.iface, m.metric, m.weight)
                      IN IF found # {} THEN CHOOSE n \in found : TRUE
                                       ELSE GeneratedName(m)
           use == [k \in DOMAIN wanted |-> name(wanted[k])]
           create == {m \in ToSet(wanted) :
                        findExistingMember(c, m.iface, m.metric, m.weight) = {}}
<1>2. /\ spec.useMembers = use
      /\ spec.membersToCreate = create
      /\ spec.policyName = IF s.mode = "new" THEN s.newPolicyName ELSE s.policyName
      /\ spec.orphans = Orphans(c, spec.policyName,
                          IF s.mode = "new" THEN <<>>
                          ELSE c.policy[spec.policyName].use_member, use)
  BY <1>1 DEF getValue
<1>3. ASSUME NEW m
      PROVE  /\ findExistingMember(c, m.iface, m.metric, m.weight) \subseteq DOMAIN c.member
             /\ \/ name(m) \in DOMAIN c.member
                \/ /\ findExistingMember(c, m.iface, m.metric, m.weight) = {}
                   /\ name(m) = GeneratedName(m)
  BY DEF findExistingMember
<1>4. ToSet(use) = {name(wanted[k]) : k \in DOMAIN wanted}
  BY DEF ToSet
<1>5. ToSet(wanted) = {wanted[k] : k \in DOMAIN wanted}
  BY DEF ToSet
<1> HIDE DEF name, use
<1>6. \A m \in create : name(m) = GeneratedName(m) /\ \E k \in DOMAIN wanted : m = wanted[k]
  BY <1>5 DEF name
<1>7. {GeneratedName(m) : m \in create} \subseteq ToSet(use)
  BY <1>4, <1>6
<1>8. ToSet(use) \subseteq DOMAIN c.member \cup {GeneratedName(m) : m \in create}
  BY <1>3, <1>4, <1>5
<1> QED
  BY <1>2, <1>7, <1>8

\* What applyPolicy does to the cache, in terms of names.
LEMMA AppliedConfig ==
    ASSUME NEW c, NEW spec, NEW auto, NEW d, d = Applied(c, spec, auto)
    PROVE  /\ IsConfig(d)
           /\ DOMAIN d.member =
                (DOMAIN c.member \cup {GeneratedName(m) : m \in spec.membersToCreate})
                  \ (IF auto THEN spec.orphans ELSE {})
           /\ DOMAIN d.policy = DOMAIN c.policy \cup {spec.policyName}
           /\ d.policy[spec.policyName].use_member = spec.useMembers
           /\ \A q \in DOMAIN c.policy \ {spec.policyName} : d.policy[q] = c.policy[q]
BY DEF Applied, IsConfig

\* A member is in use when some policy names it.
LEMMA InUse ==
    ASSUME NEW c, NEW n
    PROVE  n \in UsedIn(c) <=>
             \E p \in DOMAIN c.policy : n \in ToSet(c.policy[p].use_member)
BY DEF UsedIn

LEMMA IsOrphan ==
    ASSUME NEW c, NEW p, NEW old, NEW new, NEW n
    PROVE  n \in Orphans(c, p, old, new) <=>
             /\ n \in ToSet(old) /\ n \notin ToSet(new)
             /\ \A q \in DOMAIN c.policy \ {p} : n \notin ToSet(c.policy[q].use_member)
BY DEF Orphans

\* A valid state does not give a new policy the name of an existing section.
LEMMA NewNameIsFree ==
    ASSUME NEW c, NEW s, isValid(c, s), s.mode = "new"
    PROVE  s.newPolicyName \notin DOMAIN c.policy
<1>1. "name" \notin getErrors(c, s)
  BY DEF isValid
<1>2. ~sectionNameInUse(c, s.newPolicyName)
  <2>1. (IF s.mode = "new" /\ (s.newPolicyName = <<>> \/ sectionNameInUse(c, s.newPolicyName))
         THEN {"name"} ELSE {}) \subseteq getErrors(c, s)
    BY Zenon DEF getErrors
  <2> QED
    BY <1>1, <2>1
<1> QED
  BY <1>2 DEF sectionNameInUse

\* A save leaves no policy with a member that does not exist, deletes only
\* members no policy names, and knows every member that it leaves unused.
LEMMA ApplyKeeps ==
    ASSUME NEW c, NEW s, NEW auto, NEW spec, NEW d, IsConfig(c), isValid(c, s),
           spec = getValue(c, s), d = Applied(c, spec, auto)
    PROVE  /\ NoDangling(c) => NoDangling(d)
           /\ spec.orphans \cap UsedIn(d) = {}
           /\ Unused(d) \ Unused(c) \subseteq (IF auto THEN {} ELSE spec.orphans)
<1>1. PICK p, use, made, old, orphans :
        /\ p = spec.policyName /\ use = spec.useMembers /\ orphans = spec.orphans
        /\ made = {GeneratedName(m) : m \in spec.membersToCreate}
        /\ old = IF s.mode = "new" THEN <<>> ELSE c.policy[p].use_member
  OBVIOUS
<1>2. /\ orphans = Orphans(c, p, old, use)
      /\ ToSet(use) \subseteq DOMAIN c.member \cup made
      /\ made \subseteq ToSet(use)
      /\ p = IF s.mode = "new" THEN s.newPolicyName ELSE s.policyName
  BY <1>1, GetValue
<1>3. /\ DOMAIN d.member = (DOMAIN c.member \cup made) \ (IF auto THEN orphans ELSE {})
      /\ DOMAIN d.policy = DOMAIN c.policy \cup {p}
      /\ d.policy[p].use_member = use
      /\ \A q \in DOMAIN c.policy \ {p} : d.policy[q] = c.policy[q]
  BY <1>1, AppliedConfig
<1>4. \A n \in orphans : n \notin ToSet(use) /\
        \A q \in DOMAIN c.policy \ {p} : n \notin ToSet(c.policy[q].use_member)
  BY <1>2, IsOrphan
<1>5. \A n : n \in UsedIn(d) <=> \/ n \in ToSet(use)
                                 \/ \E q \in DOMAIN c.policy \ {p} :
                                      n \in ToSet(c.policy[q].use_member)
  BY <1>3, InUse
<1>6. orphans \cap UsedIn(d) = {}
  BY <1>4, <1>5
<1>7. ASSUME NoDangling(c) PROVE NoDangling(d)
  <2>1. ToSet(use) \subseteq DOMAIN d.member
    BY <1>2, <1>3, <1>4
  <2>2. ASSUME NEW q \in DOMAIN c.policy \ {p}
        PROVE  ToSet(d.policy[q].use_member) \subseteq DOMAIN d.member
    BY <1>3, <1>4, <1>7 DEF NoDangling
  <2> QED
    BY <1>3, <2>1, <2>2 DEF NoDangling
<1>8. ASSUME NEW n \in Unused(d), n \notin Unused(c)
      PROVE  n \in IF auto THEN {} ELSE orphans
  <2>1. /\ n \in DOMAIN d.member /\ n \notin ToSet(use)
        /\ \A q \in DOMAIN c.policy \ {p} : n \notin ToSet(c.policy[q].use_member)
    BY <1>5, <1>8 DEF Unused
  <2>2. n \in DOMAIN c.member
    BY <1>2, <1>3, <2>1
  <2>3. n \in UsedIn(c)
    BY <1>8, <2>2 DEF Unused
  <2>4. p \in DOMAIN c.policy /\ n \in ToSet(c.policy[p].use_member)
    BY <2>1, <2>3, InUse
  <2>5. s.mode # "new"
    BY <1>2, <2>4, NewNameIsFree
  <2>6. n \in orphans
    BY <1>1, <1>2, <2>1, <2>4, <2>5, IsOrphan
  <2> QED
    BY <1>3, <2>1, <2>6
<1> QED
  BY <1>1, <1>6, <1>7, <1>8

-----------------------------------------------------------------------------
\* The page is loaded, and nothing is in flight.
LEMMA BuilderInit == Init => BuilderInv
<1> SUFFICES ASSUME Init PROVE BuilderInv
  OBVIOUS
<1>1. saved = FirstConfig /\ cache = FirstConfig /\ sent = Nothing /\ modal = "closed"
  BY DEF Init
<1>2. NoDangling(FirstConfig)
  <2>1. \A p \in DOMAIN FirstConfig.policy : p \notin collectIssues(FirstConfig).errors
    BY ConfigAssumption
  <2> QED
    BY <2>1 DEF collectIssues, NoDangling
<1> QED
  BY <1>1, <1>2, ConfigAssumption DEF BuilderInv, SaveOK, ConfigOK, IsConfig

\* The steps that leave the configurations and the save alone.
LEMMA PageStays ==
    ASSUME BuilderInv, UNCHANGED <<saved, cache, sent>>,
           modal' = "orphans" => modal = "orphans" /\ UNCHANGED offered
    PROVE  BuilderInv'
<1>1. SaveOK'
  BY DEF BuilderInv, SaveOK, Unused, UsedIn, ToSet
<1>2. ConfigOK'
  BY DEF BuilderInv, ConfigOK, IsConfig, NoDangling, UsedIn, ToSet
<1> QED
  BY <1>1, <1>2 DEF BuilderInv

\* Every handler of the open builder is a user action on it.
LEMMA IsEditing ==
    ASSUME EditRow \/ EditTier \/ addTier \/ typeName \/ changeLastResort \/ selectPolicy
    PROVE  Editing
<1>1. CASE EditRow
  <2>1. PICK t \in DOMAIN state.tiers : \E k \in DOMAIN state.tiers[t] :
          \/ changeFamily(t, k) \/ changeIface(t, k)
          \/ typePercent(t, k)  \/ removeEntry(t, k)
    BY <1>1 DEF EditRow
  <2>2. PICK k \in DOMAIN state.tiers[t] :
          \/ changeFamily(t, k) \/ changeIface(t, k)
          \/ typePercent(t, k)  \/ removeEntry(t, k)
    BY <2>1
  <2>3. changeFamily(t, k) => Editing
    BY DEF changeFamily
  <2>4. changeIface(t, k) => Editing
    BY DEF changeIface
  <2>5. typePercent(t, k) => Editing
    BY DEF typePercent
  <2>6. removeEntry(t, k) => Editing
    BY DEF removeEntry
  <2> QED
    BY <2>2, <2>3, <2>4, <2>5, <2>6
<1>2. CASE EditTier
  BY Zenon, <1>2 DEF EditTier, addEntry, removeTier
<1>3. CASE addTier \/ typeName \/ changeLastResort \/ selectPolicy
  BY Zenon, <1>3 DEF addTier, typeName, changeLastResort, selectPolicy
<1> QED
  BY <1>1, <1>2, <1>3

\* The editor and the dialogs.
LEMMA EditKeeps ==
    ASSUME BuilderInv,
           \/ EditRow \/ EditTier \/ addTier \/ typeName \/ changeLastResort
           \/ selectPolicy \/ handleAdd \/ handleEdit \/ hideModal \/ toggleAutoDelete
    PROVE  BuilderInv'
<1>1. CASE \/ EditRow \/ EditTier \/ addTier \/ typeName \/ changeLastResort
           \/ selectPolicy
  <2>1. Editing
    BY <1>1, IsEditing
  <2>2. UNCHANGED <<saved, cache, sent, modal, offered>>
    BY <2>1 DEF Editing, page
  <2> QED
    BY <2>2, PageStays
<1>2. CASE handleAdd \/ handleEdit \/ hideModal \/ toggleAutoDelete
  <2>1. UNCHANGED <<saved, cache, sent>> /\ modal' \in {"builder", "closed"}
    BY <1>2 DEF handleAdd, handleEdit, openBuilder, hideModal, toggleAutoDelete, page
  <2> QED
    BY <2>1, PageStays
<1> QED
  BY <1>1, <1>2

\* Save is clicked in the builder.
LEMMA ApplyPolicyKeeps == BuilderInv /\ applyPolicy => BuilderInv'
<1> SUFFICES ASSUME BuilderInv, applyPolicy PROVE BuilderInv'
  OBVIOUS
<1>1. PICK spec : spec = getValue(cache, state)
  OBVIOUS
<1>2. /\ modal = "builder" /\ isValid(cache, state)
      /\ cache' = Applied(cache, spec, autoDelete)
      /\ sent' = [busy |-> TRUE, kind |-> "policy", name |-> spec.policyName,
                  tiers |-> state.tiers, orphans |-> spec.orphans,
                  auto |-> autoDelete, clean |-> cache = saved]
      /\ UNCHANGED <<saved, modal>>
  BY <1>1 DEF applyPolicy
<1>3. PICK d : d = cache'
  OBVIOUS
<1>4. /\ NoDangling(d) /\ spec.orphans \cap UsedIn(d) = {} /\ IsConfig(d)
      /\ Unused(d) \ Unused(cache) \subseteq (IF autoDelete THEN {} ELSE spec.orphans)
  BY <1>1, <1>2, <1>3, ApplyKeeps, AppliedConfig DEF BuilderInv, ConfigOK
<1>5. ConfigOK'
  BY <1>2, <1>3, <1>4 DEF BuilderInv, ConfigOK, IsConfig, NoDangling, ToSet
<1>6. SaveOK'
  <2>1. /\ sent'.orphans = spec.orphans /\ sent'.auto = autoDelete
        /\ sent'.clean = (cache = saved)
    BY <1>2
  <2>2. sent'.clean => saved' = cache
    BY <1>2, <2>1
  <2>3. UsedIn(cache') = UsedIn(d) /\ Unused(cache') = Unused(d)
    BY <1>3
  <2>4. sent'.orphans \cap UsedIn(cache') = {}
    BY <1>4, <2>1, <2>3
  <2>5. sent'.clean => Unused(cache') \ Unused(saved')
                         \subseteq (IF sent'.auto THEN {} ELSE sent'.orphans)
    BY <1>4, <2>1, <2>2, <2>3
  <2> QED
    BY <2>4, <2>5 DEF SaveOK, Unused, UsedIn, ToSet
<1> QED
  BY <1>5, <1>6 DEF BuilderInv

\* Delete selected is clicked in the orphan dialog: policies name none of them.
LEMMA DeleteSelectedKeeps == BuilderInv /\ deleteSelected => BuilderInv'
<1> SUFFICES ASSUME BuilderInv, deleteSelected PROVE BuilderInv'
  OBVIOUS
<1>1. PICK ticked \in SUBSET offered :
        cache' = [cache EXCEPT !.member = Without(@, ticked)]
  BY DEF deleteSelected
<1>2. /\ modal = "orphans" /\ UNCHANGED <<saved, modal, offered>>
      /\ sent'.kind = "orphans"
  BY DEF deleteSelected
<1>3. offered \cap UsedIn(cache) = {} /\ NoDangling(cache) /\ IsConfig(cache)
  BY <1>2 DEF BuilderInv, ConfigOK
<1>4. PICK d : d = cache'
  OBVIOUS
<1>5. /\ IsConfig(d) /\ d.policy = cache.policy
      /\ DOMAIN d.member = DOMAIN cache.member \ ticked
  BY <1>1, <1>3, <1>4 DEF IsConfig, Without, Restrict
<1>6. UsedIn(d) = UsedIn(cache)
  BY <1>5 DEF UsedIn
<1>7. NoDangling(d)
  <2> SUFFICES ASSUME NEW p \in DOMAIN cache.policy,
                      NEW n \in ToSet(cache.policy[p].use_member)
               PROVE  n \in DOMAIN cache.member \ ticked
    BY <1>5 DEF NoDangling
  <2>1. n \in UsedIn(cache)
    BY InUse
  <2> QED
    BY <1>3, <2>1 DEF NoDangling
<1>8. ConfigOK'
  BY <1>2, <1>3, <1>4, <1>5, <1>6, <1>7
  DEF BuilderInv, ConfigOK, IsConfig, NoDangling, UsedIn, ToSet
<1>9. SaveOK'
  BY <1>2 DEF SaveOK
<1> QED
  BY <1>8, <1>9 DEF BuilderInv

\* The save is answered, or the page is loaded again.
LEMMA AnswerKeeps ==
    ASSUME BuilderInv, saveDone \/ saveFailed \/ dismissOrphans
    PROVE  BuilderInv'
<1>1. SaveOK'
  <2>1. CASE saveDone \/ saveFailed
    BY <2>1 DEF saveDone, saveFailed, SaveOK
  <2>2. CASE dismissOrphans
    BY <2>2 DEF dismissOrphans, SaveOK
  <2> QED
    BY <2>1, <2>2
<1>2. CASE saveFailed
  BY <1>1, <1>2 DEF saveFailed, page, BuilderInv, ConfigOK, IsConfig, NoDangling,
                    UsedIn, ToSet
<1>3. CASE dismissOrphans
  BY <1>1, <1>3 DEF dismissOrphans, reload, BuilderInv, ConfigOK, IsConfig,
                    NoDangling, ToSet
<1>4. CASE saveDone
  <2>1. /\ saved' = cache /\ UNCHANGED cache
        /\ \/ modal' = "closed"
           \/ sent.kind = "policy" /\ sent # Nothing /\ offered' = sent.orphans
    BY <1>4 DEF saveDone, reload
  <2>2. modal' = "orphans" => offered' \cap UsedIn(cache') = {}
    BY <2>1 DEF BuilderInv, SaveOK, UsedIn, ToSet
  <2> QED
    BY <1>1, <2>1, <2>2 DEF BuilderInv, ConfigOK, IsConfig, NoDangling, ToSet
<1> QED
  BY <1>2, <1>3, <1>4

\* A member gets other values on the Members page.
LEMMA EditMemberKeeps == BuilderInv /\ editMember => BuilderInv'
<1> SUFFICES ASSUME BuilderInv, editMember PROVE BuilderInv'
  OBVIOUS
<1>1. PICK n \in DOMAIN saved.member : \E v : saved' = [saved EXCEPT !.member[n] = v]
  BY DEF editMember
<1>2. /\ cache' = saved' /\ modal' = "closed" /\ sent = Nothing /\ sent' = sent
  BY DEF editMember, reload
<1>3. PICK d : d = saved'
  OBVIOUS
<1>4. IsConfig(d) /\ d.policy = saved.policy /\ DOMAIN d.member = DOMAIN saved.member
  BY <1>1, <1>3 DEF BuilderInv, ConfigOK, IsConfig
<1>5. NoDangling(d)
  BY <1>4 DEF BuilderInv, ConfigOK, NoDangling
<1>6. ConfigOK'
  BY <1>2, <1>3, <1>4, <1>5 DEF ConfigOK, IsConfig, NoDangling, ToSet
<1> QED
  BY <1>2, <1>6 DEF BuilderInv, SaveOK, Nothing

\* A step, or none.
LEMMA BuilderNext == BuilderInv /\ [Next]_vars => BuilderInv'
<1>1. BuilderInv /\ UNCHANGED vars => BuilderInv'
  BY PageStays DEF vars
<1> QED
  BY <1>1, EditKeeps, ApplyPolicyKeeps, DeleteSelectedKeeps, AnswerKeeps,
     EditMemberKeeps DEF Next

THEOREM BuilderInvariant == Spec => []BuilderInv
BY BuilderInit, BuilderNext, PTL DEF Spec

\* Whatever is saved, lost, retried or deleted as an orphan, no policy on the
\* router names a member that does not exist, for all interfaces, shares,
\* names and numbers of failures: the orphans that are deleted at once, or
\* ticked in the dialog later, are named by no policy.
THEOREM PoliciesNameMembers == Spec => []NoDangling(saved)
<1>1. BuilderInv => NoDangling(saved)
  BY DEF BuilderInv, ConfigOK
<1> QED
  BY <1>1, BuilderInvariant, PTL

\* A successful save that started from a cache without pending changes leaves
\* no dropped member behind, for all interfaces, shares and configurations.
THEOREM DroppedAlwaysHandled == Spec => DroppedMembersHandled
<1>1. ASSUME BuilderInv, saveDone, sent.kind = "policy", sent.clean
      PROVE  collectIssues(saved').unused \ collectIssues(saved).unused \subseteq offered'
  <2>1. /\ collectIssues(saved').unused = Unused(saved')
        /\ collectIssues(saved).unused = Unused(saved)
    BY DEF collectIssues, Unused
  <2>2. PICK d : d = cache
    OBVIOUS
  <2>3. sent # Nothing /\ saved' = d
    BY <1>1, <2>2 DEF saveDone
  <2>4. Unused(d) \ Unused(saved) \subseteq (IF sent.auto THEN {} ELSE sent.orphans)
    BY <1>1, <2>2, <2>3 DEF BuilderInv, SaveOK
  <2>5. sent.orphans # {} /\ ~sent.auto => offered' = sent.orphans
    BY <1>1 DEF saveDone
  <2> QED
    BY <2>1, <2>3, <2>4, <2>5
<1>2. BuilderInv /\ [Next]_vars =>
        [(saveDone /\ sent.kind = "policy" /\ sent.clean) =>
           collectIssues(saved').unused \ collectIssues(saved).unused \subseteq offered']_vars
  BY <1>1
<1> QED
  BY <1>2, BuilderInvariant, PTL DEF Spec, DroppedMembersHandled

-----------------------------------------------------------------------------
(***************************************************************************)
(* Increasing and At.                                                      *)
(***************************************************************************)
\* e lists the numbers of S, n of them, in increasing order.
Lists(e, n, S) ==
    /\ S \subseteq Int
    /\ n \in Nat /\ e \in [1..n -> S]
    /\ \A i, j \in 1..n : i < j => e[i] < e[j]
    /\ \A x \in S : \E i \in 1..n : e[i] = x

\* There is one such list of a set, and Increasing is it.
LEMMA ListIsIncreasing ==
    ASSUME NEW S, NEW n, NEW e, Lists(e, n, S)
    PROVE  Increasing(S) = e /\ Cardinality(S) = n /\ IsFiniteSet(S)
<1>1. /\ n \in Nat /\ e \in [1..n -> S]
      /\ \A i, j \in 1..n : i < j => e[i] < e[j]
      /\ \A x \in S : \E i \in 1..n : e[i] = x
  BY DEF Lists
<1>s. S \subseteq Int
  BY DEF Lists
<1>a. \A i, j \in 1..n : i < j \/ i = j \/ j < i
  BY <1>1
<1>b. \A i \in 1..n : e[i] \in Int
  BY <1>1, <1>s
<1>2. \A i, j \in 1..n : e[i] = e[j] => i = j
  BY <1>1, <1>a, <1>b
<1>3. \A i, j \in 1..n : e[i] <= e[j] <=> i <= j
  <2> SUFFICES ASSUME NEW i \in 1..n, NEW j \in 1..n
               PROVE  e[i] <= e[j] <=> i <= j
    OBVIOUS
  <2>1. CASE i < j
    BY <1>1, <1>b, <2>1
  <2>2. CASE j < i
    <3>1. e[j] < e[i]
      BY <1>1, <2>2
    <3> QED
      BY <1>1, <1>b, <2>2, <3>1
  <2> QED
    BY <1>a, <1>b, <2>1, <2>2
<1>4. ASSUME NEW k \in 1..n
      PROVE  Cardinality({y \in S : y <= e[k]}) = k
  <2> DEFINE T == {y \in S : y <= e[k]}
             f == [i \in 1..k |-> e[i]]
  <2>1. k \in Nat /\ 1..k \subseteq 1..n
    BY <1>1
  <2>2. \A i \in 1..k : f[i] \in T
    BY <1>1, <1>3, <2>1
  <2>3. \A y \in T : \E i \in 1..k : f[i] = y
    BY <1>1, <1>3, <2>1
  <2>4. f \in Surjection(1..k, T)
    BY <2>2, <2>3 DEF Surjection
  <2>5. f \in Injection(1..k, T)
    BY <1>2, <2>1, <2>2 DEF Injection, IsInjective
  <2>6. IsFiniteSet(1..k) /\ Cardinality(1..k) = k
    BY <2>1, FS_Interval
  <2> HIDE DEF T, f
  <2>7. Cardinality(T) = Cardinality(1..k)
    BY <2>4, <2>5, <2>6, FS_Surjection
  <2> QED
    BY <2>6, <2>7 DEF T
<1>5. Cardinality(S) = n /\ IsFiniteSet(S)
  <2>1. e \in Surjection(1..n, S) /\ e \in Injection(1..n, S)
    BY <1>1, <1>2 DEF Surjection, Injection, IsInjective
  <2>2. IsFiniteSet(1..n) /\ Cardinality(1..n) = n
    BY <1>1, FS_Interval
  <2> QED
    BY <2>1, <2>2, FS_Surjection
<1>6. ASSUME NEW k \in 1..n
      PROVE  (CHOOSE x \in S : Cardinality({y \in S : y <= x}) = k) = e[k]
  <2>1. e[k] \in S /\ Cardinality({y \in S : y <= e[k]}) = k
    BY <1>1, <1>4
  <2>2. ASSUME NEW x \in S, Cardinality({y \in S : y <= x}) = k
        PROVE  x = e[k]
    <3>1. PICK j \in 1..n : e[j] = x
      BY <1>1
    <3>2. Cardinality({y \in S : y <= e[j]}) = j
      BY <1>4
    <3> QED
      BY <2>2, <3>1, <3>2
  <2> QED
    BY <2>1, <2>2
<1>7. Increasing(S) = [k \in 1..n |-> e[k]]
  BY <1>5, <1>6 DEF Increasing
<1> QED
  BY <1>1, <1>5, <1>7

\* Increasing lists every finite set.
LEMMA IncreasingLists ==
    ASSUME NEW S, S \subseteq Int, IsFiniteSet(S)
    PROVE  Lists(Increasing(S), Cardinality(S), S)
<1> DEFINE n == Cardinality(S)
           rank(x) == Cardinality({y \in S : y <= x})
           f == [x \in S |-> rank(x)]
<1>1. n \in Nat
  BY FS_CardinalityType
<1>2. ASSUME NEW x \in S
      PROVE  IsFiniteSet({y \in S : y <= x}) /\ rank(x) \in 1..n
  <2> DEFINE T == {y \in S : y <= x}
  <2>1. T \in SUBSET S /\ x \in T
    OBVIOUS
  <2> HIDE DEF T
  <2>2. IsFiniteSet(T) /\ Cardinality(T) <= n
    BY <2>1, FS_Subset
  <2>3. Cardinality(T) \in Nat /\ Cardinality(T) # 0
    BY <2>1, <2>2, FS_CardinalityType, FS_EmptySet
  <2> QED
    BY <1>1, <2>2, <2>3 DEF T
<1>3. ASSUME NEW x \in S, NEW z \in S, x < z
      PROVE  rank(x) < rank(z)
  <2> DEFINE T == {y \in S : y <= x}
             U == {y \in S : y <= z}
  <2>0. x \in Int /\ z \in Int /\ \A y \in S : y \in Int
    OBVIOUS
  <2>1. T \in SUBSET U /\ z \in U /\ z \notin T
    <3>1. \A y \in S : y <= x => y <= z
      BY <1>3, <2>0
    <3>2. z <= z /\ ~(z <= x)
      BY <1>3, <2>0
    <3> QED
      BY <3>1, <3>2
  <2>2. IsFiniteSet(U) /\ Cardinality(U) \in Int /\ Cardinality(T) \in Int
    <3>1. IsFiniteSet({y \in S : y <= z}) /\ IsFiniteSet({y \in S : y <= x})
      BY <1>2
    <3> QED
      BY <3>1, FS_CardinalityType
  <2> HIDE DEF T, U
  <2>3. Cardinality(T) <= Cardinality(U) /\ Cardinality(T) # Cardinality(U)
    BY <2>1, <2>2, FS_Subset
  <2>4. Cardinality(T) < Cardinality(U)
    BY <2>2, <2>3
  <2> QED
    BY <2>4 DEF T, U
<1>4. f \in [S -> 1..n]
  BY <1>2
<1>r. \A x \in S : rank(x) \in Int /\ rank(x) \in 1..n
  BY <1>1, <1>2
<1> HIDE DEF rank
<1>5. ASSUME NEW x \in S, NEW z \in S, f[x] = f[z] PROVE x = z
  <2>1. x < z \/ z < x \/ x = z
    <3>1. x \in Int /\ z \in Int
      OBVIOUS
    <3> QED
      BY <3>1
  <2>2. rank(x) \in Int /\ rank(z) \in Int
    BY <1>r
  <2>3. rank(x) = rank(z)
    BY <1>5
  <2>4. ~(x < z) /\ ~(z < x)
    BY <1>3, <2>2, <2>3
  <2> QED
    BY <2>1, <2>4
<1>6. f \in Injection(S, 1..n)
  BY <1>4, <1>5 DEF Injection, IsInjective
<1>7. f \in Surjection(S, 1..n)
  <2>1. IsFiniteSet(1..n) /\ Cardinality(1..n) = n
    BY <1>1, FS_Interval
  <2> HIDE DEF f
  <2> QED
    BY <1>6, <2>1, FS_Injection
<1>8. \A k \in 1..n : \E x \in S : rank(x) = k
  BY <1>7 DEF Surjection
<1>9. Increasing(S) = [k \in 1..n |-> CHOOSE x \in S : rank(x) = k]
  BY DEF Increasing, rank
<1>10. \A k \in 1..n : Increasing(S)[k] \in S /\ rank(Increasing(S)[k]) = k
  BY <1>8, <1>9
<1>11. \A x \in S : Increasing(S)[rank(x)] = x
  <2> SUFFICES ASSUME NEW x \in S PROVE Increasing(S)[rank(x)] = x
    OBVIOUS
  <2>1. rank(x) \in 1..n
    BY <1>r
  <2>2. rank(Increasing(S)[rank(x)]) = rank(x) /\ Increasing(S)[rank(x)] \in S
    BY <1>10, <2>1
  <2> QED
    BY <1>5, <2>2
<1>12. ASSUME NEW i \in 1..n, NEW j \in 1..n, i < j
       PROVE  Increasing(S)[i] < Increasing(S)[j]
  <2>1. PICK x \in S, z \in S : x = Increasing(S)[i] /\ z = Increasing(S)[j]
    BY <1>10
  <2>2. rank(x) = i /\ rank(z) = j
    BY <1>10, <2>1
  <2>3. ~(z < x) /\ x # z
    BY <1>3, <1>12, <2>2
  <2> QED
    BY <2>1, <2>3
<1>13. Increasing(S) \in [1..n -> S]
  BY <1>9, <1>10
<1> HIDE DEF n
<1> QED
  BY <1>1, <1>r, <1>11, <1>12, <1>13 DEF Lists, n

\* Numbers that can be listed.
Positions(P) == P \subseteq Int /\ IsFiniteSet(P)

\* T is where a list of n numbers has an element of Q, g reads e at f.
Hits(T, e, n, Q) == T = {k \in 1..n : e[k] \in Q}
Reads(g, e, f, m) == g = [j \in 1..m |-> e[f[j]]]

\* Two lists have the same elements.
Agree(a, b) == DOMAIN a = DOMAIN b /\ \A k \in DOMAIN a : a[k] = b[k]

\* What At gives: the elements of s at the positions ks, in order.
LEMMA AtDomain ==
    ASSUME NEW s, NEW ks, NEW n, NEW e, Lists(e, n, ks)
    PROVE  DOMAIN At(s, ks) = 1..n
<1>1. Increasing(ks) = e
  BY ListIsIncreasing
<1>2. DOMAIN e = 1..n
  BY DEF Lists
<1> QED
  BY <1>1, <1>2 DEF At

\* Element k of it is the element of s at the k-th position.
LEMMA AtElement ==
    ASSUME NEW s, NEW ks, NEW n, NEW e, Lists(e, n, ks), NEW k \in 1..n, NEW x, x = e[k]
    PROVE  At(s, ks)[k] = s[x]
<1>1. Increasing(ks) = e
  BY ListIsIncreasing
<1>2. DOMAIN e = 1..n
  BY DEF Lists
<1> QED
  BY <1>1, <1>2 DEF At

\* It is a function, so equal to what has the same elements.
LEMMA AtIs ==
    ASSUME NEW s, NEW ks, NEW g, g = [k \in DOMAIN g |-> g[k]], Agree(At(s, ks), g)
    PROVE  At(s, ks) = g
<1>1. PICK a : a = At(s, ks)
  OBVIOUS
<1>2. a = [k \in DOMAIN Increasing(ks) |-> s[Increasing(ks)[k]]]
  BY <1>1 DEF At
<1>3. DOMAIN a = DOMAIN g /\ \A k \in DOMAIN a : a[k] = g[k]
  BY <1>1 DEF Agree
<1> QED
  BY <1>1, <1>2, <1>3

\* Two selections with the same elements are the same.
LEMMA AtIsAt ==
    ASSUME NEW s, NEW ks, NEW t, NEW ls, Agree(At(s, ks), At(t, ls))
    PROVE  At(s, ks) = At(t, ls)
<1>1. PICK a, b : a = At(s, ks) /\ b = At(t, ls)
  OBVIOUS
<1>2. a = [k \in DOMAIN Increasing(ks) |-> s[Increasing(ks)[k]]]
  BY <1>1 DEF At
<1>3. b = [k \in DOMAIN Increasing(ls) |-> t[Increasing(ls)[k]]]
  BY <1>1 DEF At
<1>4. DOMAIN a = DOMAIN b /\ \A k \in DOMAIN a : a[k] = b[k]
  BY <1>1 DEF Agree
<1> QED
  BY <1>1, <1>2, <1>3, <1>4

\* The same from the set of positions alone, however it is listed.
LEMMA AtShape ==
    ASSUME NEW s, NEW ks, Positions(ks)
    PROVE  /\ Cardinality(ks) \in Nat
           /\ DOMAIN At(s, ks) = 1..Cardinality(ks)
           /\ \A k \in 1..Cardinality(ks) :
                Increasing(ks)[k] \in ks /\ At(s, ks)[k] = s[Increasing(ks)[k]]
           /\ \A x \in ks : \E k \in 1..Cardinality(ks) : Increasing(ks)[k] = x
           /\ At(s, ks) = <<>> <=> ks = {}
<1>1. Lists(Increasing(ks), Cardinality(ks), ks)
  BY IncreasingLists DEF Positions
<1>2. /\ DOMAIN At(s, ks) = 1..Cardinality(ks)
      /\ \A k \in 1..Cardinality(ks) : At(s, ks)[k] = s[Increasing(ks)[k]]
  BY <1>1, AtDomain, AtElement
<1>3. /\ Cardinality(ks) \in Nat
      /\ Increasing(ks) \in [1..Cardinality(ks) -> ks]
      /\ \A x \in ks : \E i \in 1..Cardinality(ks) : Increasing(ks)[i] = x
  BY <1>1 DEF Lists
<1>4. At(s, ks) = <<>> <=> ks = {}
  <2>1. ASSUME ks = {} PROVE At(s, ks) = <<>>
    <3>1. Cardinality(ks) = 0
      BY <2>1, FS_EmptySet
    <3>2. DOMAIN At(s, ks) = 1..0
      BY <1>2, <3>1
    <3>3. PICK a : a = At(s, ks)
      OBVIOUS
    <3>4. a = [k \in DOMAIN Increasing(ks) |-> s[Increasing(ks)[k]]]
      BY <3>3 DEF At
    <3> QED
      BY <3>2, <3>3, <3>4
  <2>2. ASSUME ks # {} PROVE At(s, ks) # <<>>
    <3>1. PICK i \in 1..Cardinality(ks) : TRUE
      BY <1>3, <2>2
    <3>2. i \in DOMAIN At(s, ks)
      BY <1>2
    <3> QED
      BY <3>2
  <2> QED
    BY <2>1, <2>2
<1> QED
  BY <1>2, <1>3, <1>4

\* A list of the positions at which a list has an element of Q picks out a
\* list of those elements.
LEMMA SubList ==
    ASSUME NEW S, NEW n, NEW e, Lists(e, n, S), NEW Q,
           NEW T, Hits(T, e, n, Q), NEW m, NEW f, Lists(f, m, T),
           NEW g, Reads(g, e, f, m)
    PROVE  Lists(g, m, S \cap Q)
<1>0. T = {k \in 1..n : e[k] \in Q} /\ g = [j \in 1..m |-> e[f[j]]]
  BY DEF Hits, Reads
<1>1. /\ S \subseteq Int
      /\ n \in Nat /\ e \in [1..n -> S]
      /\ \A i, j \in 1..n : i < j => e[i] < e[j]
      /\ \A x \in S : \E i \in 1..n : e[i] = x
  BY DEF Lists
<1>2. /\ m \in Nat /\ f \in [1..m -> T]
      /\ \A i, j \in 1..m : i < j => f[i] < f[j]
      /\ \A x \in T : \E i \in 1..m : f[i] = x
  BY DEF Lists
<1>3. \A j \in 1..m : f[j] \in 1..n /\ e[f[j]] \in Q
  BY <1>0, <1>2
<1>4. g \in [1..m -> S \cap Q]
  BY <1>0, <1>1, <1>3
<1>5. \A i, j \in 1..m : i < j => g[i] < g[j]
  BY <1>0, <1>1, <1>2, <1>3
<1>6. ASSUME NEW x \in S \cap Q PROVE \E j \in 1..m : g[j] = x
  <2>1. PICK i \in 1..n : e[i] = x
    BY <1>1
  <2>2. i \in T
    BY <1>0, <2>1
  <2>3. PICK j \in 1..m : f[j] = i
    BY <1>2, <2>2
  <2> QED
    BY <1>0, <2>1, <2>3
<1>7. S \cap Q \subseteq Int
  BY <1>1
<1> QED
  BY <1>2, <1>4, <1>5, <1>6, <1>7 DEF Lists

\* Filtering what was filtered.
LEMMA AtTwice ==
    ASSUME NEW s, NEW P, Positions(P), NEW Q,
           NEW J, Hits(J, Increasing(P), Cardinality(P), Q)
    PROVE  At(At(s, P), J) = At(s, P \cap Q)
<1>1. PICK e, n : e = Increasing(P) /\ n = Cardinality(P)
  OBVIOUS
<1>2. Lists(e, n, P)
  BY <1>1, IncreasingLists DEF Positions
<1>3. n \in Nat
  BY <1>2 DEF Lists
<1>4. J \subseteq 1..n /\ J \subseteq Int
  BY <1>1, <1>3 DEF Hits
<1>5. IsFiniteSet(J)
  <2>1. IsFiniteSet(1..n) /\ J \in SUBSET (1..n)
    BY <1>3, <1>4, FS_Interval
  <2> QED
    BY <2>1, FS_Subset
<1>6. PICK f, m : f = Increasing(J) /\ m = Cardinality(J)
  OBVIOUS
<1>7. Lists(f, m, J)
  BY <1>4, <1>5, <1>6, IncreasingLists
<1>10. \A j \in 1..m : f[j] \in 1..n
  BY <1>4, <1>7 DEF Lists
<1>11. PICK g : Reads(g, e, f, m)
  BY DEF Reads
<1>12. Lists(g, m, P \cap Q)
  <2>1. Hits(J, e, n, Q)
    BY <1>1
  <2> QED
    BY <1>2, <1>7, <1>11, <2>1, SubList
<1>13. ASSUME NEW j \in 1..m PROVE At(At(s, P), J)[j] = At(s, P \cap Q)[j]
  <2>1. PICK x \in 1..n : x = f[j]
    BY <1>10
  <2>2. PICK y : y = e[x]
    OBVIOUS
  <2>3. At(At(s, P), J)[j] = At(s, P)[x]
    BY <1>7, <2>1, AtElement
  <2>4. At(s, P)[x] = s[y]
    BY <1>2, <2>2, AtElement
  <2>5. g[j] = y
    BY <1>11, <2>1, <2>2 DEF Reads
  <2>6. At(s, P \cap Q)[j] = s[y]
    BY <1>12, <2>5, AtElement
  <2> QED
    BY <2>3, <2>4, <2>6
<1>14. DOMAIN At(At(s, P), J) = 1..m /\ DOMAIN At(s, P \cap Q) = 1..m
  BY <1>7, <1>12, AtDomain
<1>15. Agree(At(At(s, P), J), At(s, P \cap Q))
  BY <1>13, <1>14 DEF Agree
<1> QED
  BY <1>15, AtIsAt

\* Filtering twice, by the fields a list of members is filtered by.
LEMMA OfFamilyAt ==
    ASSUME NEW s, NEW P, Positions(P), NEW fam, NEW Q, Q = {k \in P : s[k].family = fam}
    PROVE  ofFamily(At(s, P), fam) = At(s, Q)
<1>1. PICK J : J = {k \in DOMAIN At(s, P) : At(s, P)[k].family = fam}
  OBVIOUS
<1>2. DOMAIN At(s, P) = 1..Cardinality(P)
  BY AtShape
<1>3. \A k \in 1..Cardinality(P) :
         Increasing(P)[k] \in P /\ At(s, P)[k] = s[Increasing(P)[k]]
  BY AtShape
<1>4. \A k \in 1..Cardinality(P) : At(s, P)[k].family = fam <=> Increasing(P)[k] \in Q
  BY <1>3
<1>5. Hits(J, Increasing(P), Cardinality(P), Q)
  BY <1>1, <1>2, <1>4 DEF Hits
<1>6. At(At(s, P), J) = At(s, P \cap Q)
  BY <1>5, AtTwice
<1>7. P \cap Q = Q
  OBVIOUS
<1> QED
  BY <1>1, <1>6, <1>7 DEF ofFamily

\* The same for the members of one metric.
LEMMA WithMetricAt ==
    ASSUME NEW s, NEW P, Positions(P), NEW m, NEW Q, Q = {k \in P : s[k].metric = m}
    PROVE  withMetric(At(s, P), m) = At(s, Q)
<1>1. PICK J : J = {k \in DOMAIN At(s, P) : At(s, P)[k].metric = m}
  OBVIOUS
<1>2. DOMAIN At(s, P) = 1..Cardinality(P)
  BY AtShape
<1>3. \A k \in 1..Cardinality(P) :
         Increasing(P)[k] \in P /\ At(s, P)[k] = s[Increasing(P)[k]]
  BY AtShape
<1>4. \A k \in 1..Cardinality(P) : At(s, P)[k].metric = m <=> Increasing(P)[k] \in Q
  BY <1>3
<1>5. Hits(J, Increasing(P), Cardinality(P), Q)
  BY <1>1, <1>2, <1>4 DEF Hits
<1>6. At(At(s, P), J) = At(s, P \cap Q)
  BY <1>5, AtTwice
<1>7. P \cap Q = Q
  OBVIOUS
<1> QED
  BY <1>1, <1>6, <1>7 DEF withMetric

\* Mapping what was filtered.
Mapped(h, info, use) == h = [k \in DOMAIN use |-> info[use[k]]]

\* Looking up a selection of names is a selection of what was looked up.
LEMMA MapAt ==
    ASSUME NEW use, NEW info, NEW P, P \in SUBSET DOMAIN use, Positions(P),
           NEW base, Mapped(base, info, use), NEW h, Mapped(h, info, At(use, P))
    PROVE  h = At(base, P)
<1>1. /\ base = [k \in DOMAIN use |-> info[use[k]]]
      /\ h = [k \in DOMAIN At(use, P) |-> info[At(use, P)[k]]]
  BY DEF Mapped
<1>2. DOMAIN At(use, P) = 1..Cardinality(P) /\ DOMAIN At(base, P) = 1..Cardinality(P)
  BY AtShape
<1>3. ASSUME NEW k \in 1..Cardinality(P) PROVE At(base, P)[k] = h[k]
  <2>1. PICK x \in P : x = Increasing(P)[k]
    BY AtShape
  <2>2. At(use, P)[k] = use[x] /\ At(base, P)[k] = base[x]
    BY <2>1, AtShape
  <2>3. base[x] = info[use[x]]
    BY <1>1
  <2>4. h[k] = info[At(use, P)[k]]
    BY <1>1, <1>2
  <2> QED
    BY <2>2, <2>3, <2>4
<1>4. Agree(At(base, P), h) /\ h = [k \in DOMAIN h |-> h[k]]
  BY <1>1, <1>2, <1>3 DEF Agree
<1> QED
  BY <1>4, AtIs

\* The metrics of what was filtered.
MetricsAt(s, P) == {s[k].metric : k \in P}

\* The metrics of a selection are those at its positions.
LEMMA MetricsOfAt ==
    ASSUME NEW s, NEW P, Positions(P), NEW h, h = At(s, P)
    PROVE  MetricsAt(h, DOMAIN h) = MetricsAt(s, P)
<1>1. DOMAIN h = 1..Cardinality(P)
  BY AtShape
<1>2. \A k \in 1..Cardinality(P) : Increasing(P)[k] \in P /\ h[k] = s[Increasing(P)[k]]
  BY AtShape
<1>3. \A x \in P : \E k \in 1..Cardinality(P) : Increasing(P)[k] = x
  BY AtShape
<1> QED
  BY <1>1, <1>2, <1>3 DEF MetricsAt

\* The entries of a family depend on the members of that family only.
LEMMA EntriesFrom ==
    ASSUME NEW a, NEW b, NEW fam, ofFamily(a, fam) = ofFamily(b, fam)
    PROVE  EntriesOf(a, fam) = EntriesOf(b, fam)
  BY DEF EntriesOf

\* An entry has the family it is made for and the interface of its member.
LEMMA EntriesShape ==
    ASSUME NEW h, NEW fam
    PROVE  /\ DOMAIN EntriesOf(h, fam) = DOMAIN ofFamily(h, fam)
           /\ \A k \in DOMAIN ofFamily(h, fam) :
                EntriesOf(h, fam)[k] = [family |-> fam, iface |-> ofFamily(h, fam)[k].iface,
                                        pct |-> EntriesOf(h, fam)[k].pct]
  BY DEF EntriesOf

\* a followed by b.
LEMMA Joined ==
    ASSUME NEW p \in Nat, NEW q \in Nat, NEW a, NEW b,
           a = [k \in 1..p |-> a[k]], b = [k \in 1..q |-> b[k]]
    PROVE  /\ DOMAIN (a \o b) = 1..(p + q)
           /\ \A k \in 1..p : (a \o b)[k] = a[k]
           /\ \A k \in 1..q : (a \o b)[p + k] = b[k]
<1> DEFINE S == {a[k] : k \in 1..p} \cup {b[k] : k \in 1..q}
<1>1. a \in Seq(S) /\ b \in Seq(S) /\ Len(a) = p /\ Len(b) = q
  <2>1. a \in [1..p -> S] /\ b \in [1..q -> S]
    <3>1. \A k \in 1..p : a[k] \in S
      OBVIOUS
    <3>2. \A k \in 1..q : b[k] \in S
      OBVIOUS
    <3> HIDE DEF S
    <3> QED
      BY <3>1, <3>2
  <2> HIDE DEF S
  <2> QED
    BY <2>1
<1> HIDE DEF S
<1>2. /\ a \o b \in Seq(S) /\ Len(a \o b) = p + q
      /\ \A i \in 1..(p + q) : (a \o b)[i] = IF i <= p THEN a[i] ELSE b[i - p]
  BY <1>1, ConcatProperties
<1>3. DOMAIN (a \o b) = 1..(p + q)
  BY <1>2, LenProperties
<1>4. \A k \in 1..p : (a \o b)[k] = a[k]
  BY <1>2
<1>5. ASSUME NEW k \in 1..q PROVE (a \o b)[p + k] = b[k]
  <2>1. PICK i \in 1..(p + q) : i = p + k
    OBVIOUS
  <2>2. ~(i <= p) /\ i - p = k
    BY <2>1
  <2> QED
    BY <1>2, <2>1, <2>2
<1> QED
  BY <1>3, <1>4, <1>5

\* A list of p elements.
IsList(a, p) == p \in Nat /\ a = [k \in 1..p |-> a[k]]

\* One list after another.
LEMMA JoinedList ==
    ASSUME NEW p, NEW q, NEW a, NEW b, IsList(a, p), IsList(b, q)
    PROVE  IsList(a \o b, p + q)
<1>0. /\ p \in Nat /\ a = [k \in 1..p |-> a[k]]
      /\ q \in Nat /\ b = [k \in 1..q |-> b[k]]
  BY DEF IsList
<1>1. PICK S : S = {a[k] : k \in 1..p} \cup {b[k] : k \in 1..q}
  OBVIOUS
<1>2. a \in Seq(S) /\ Len(a) = p
  <2>1. \A k \in 1..p : a[k] \in S
    BY <1>1
  <2>2. a \in [1..p -> S]
    BY <1>0, <2>1
  <2> QED
    BY <1>0, <2>2
<1>3. b \in Seq(S) /\ Len(b) = q
  <2>1. \A k \in 1..q : b[k] \in S
    BY <1>1
  <2>2. b \in [1..q -> S]
    BY <1>0, <2>1
  <2> QED
    BY <1>0, <2>2
<1>4. PICK s \in Seq(S) : s = a \o b /\ Len(s) = p + q
  BY <1>2, <1>3, ConcatProperties
<1>5. s = [k \in 1..(p + q) |-> s[k]]
  <2>1. s = [k \in 1..Len(s) |-> s[k]]
    OBVIOUS
  <2> QED
    BY <1>4, <2>1
<1>6. p + q \in Nat
  BY <1>0
<1> QED
  BY <1>4, <1>5, <1>6 DEF IsList

\* All of a list, a selection of its first part, and its second part.
LEMMA AtAll ==
    ASSUME NEW p, NEW a, IsList(a, p)
    PROVE  At(a, 1..p) = a
<1>0. p \in Nat /\ a = [k \in 1..p |-> a[k]]
  BY DEF IsList
<1>1. PICK e : e = [i \in 1..p |-> i]
  OBVIOUS
<1>2. Lists(e, p, 1..p)
  BY <1>0, <1>1 DEF Lists
<1>3. ASSUME NEW k \in 1..p PROVE At(a, 1..p)[k] = a[k]
  <2>1. e[k] = k
    BY <1>1
  <2> QED
    BY <1>2, <2>1, AtElement
<1>4. DOMAIN At(a, 1..p) = 1..p
  BY <1>2, AtDomain
<1>5. Agree(At(a, 1..p), a) /\ a = [k \in DOMAIN a |-> a[k]]
  BY <1>0, <1>3, <1>4 DEF Agree
<1> QED
  BY <1>5, AtIs

\* A selection from the first of two lists, and the second of them.
LEMMA AtLeft ==
    ASSUME NEW p, NEW q, NEW a, NEW b, IsList(a, p), IsList(b, q), NEW K \in SUBSET (1..p)
    PROVE  At(a \o b, K) = At(a, K)
<1>0. /\ p \in Nat /\ a = [k \in 1..p |-> a[k]]
      /\ q \in Nat /\ b = [k \in 1..q |-> b[k]]
  BY DEF IsList
<1>1. Positions(K)
  <2>1. IsFiniteSet(1..p) /\ K \subseteq Int
    BY <1>0, FS_Interval
  <2>2. IsFiniteSet(K)
    BY <2>1, FS_Subset
  <2> QED
    BY <2>1, <2>2 DEF Positions
<1>2. PICK s : s = a \o b
  OBVIOUS
<1>a. PICK n : n = Cardinality(K)
  OBVIOUS
<1>3. \A k \in 1..p : s[k] = a[k]
  BY <1>0, <1>2, Joined
<1>4. DOMAIN At(s, K) = 1..n /\ DOMAIN At(a, K) = 1..n
  BY <1>1, <1>a, AtShape
<1>5. ASSUME NEW k \in 1..n PROVE At(s, K)[k] = At(a, K)[k]
  <2>1. PICK x \in K : x = Increasing(K)[k]
    BY <1>1, <1>a, AtShape
  <2>2. At(s, K)[k] = s[x]
    BY <1>1, <1>a, <2>1, AtShape
  <2>3. At(a, K)[k] = a[x]
    BY <1>1, <1>a, <2>1, AtShape
  <2>4. s[x] = a[x]
    BY <1>3
  <2> QED
    BY <2>2, <2>3, <2>4
<1>6. Agree(At(s, K), At(a, K))
  BY <1>4, <1>5 DEF Agree
<1> QED
  BY <1>2, <1>6, AtIsAt

\* The positions after the first list give the second.
LEMMA AtRight ==
    ASSUME NEW p, NEW q, NEW a, NEW b, IsList(a, p), IsList(b, q)
    PROVE  At(a \o b, (p + 1)..(p + q)) = b
<1>0. /\ p \in Nat /\ a = [k \in 1..p |-> a[k]]
      /\ q \in Nat /\ b = [k \in 1..q |-> b[k]]
  BY DEF IsList
<1>1. PICK s, e, P : s = a \o b /\ e = [i \in 1..q |-> p + i] /\ P = (p + 1)..(p + q)
  OBVIOUS
<1>2. Lists(e, q, P)
  <2>1. P \subseteq Int /\ e \in [1..q -> P] /\ \A i, j \in 1..q : i < j => e[i] < e[j]
    BY <1>0, <1>1
  <2>2. ASSUME NEW x \in P PROVE \E i \in 1..q : e[i] = x
    <3>1. x - p \in 1..q /\ p + (x - p) = x
      BY <1>0, <1>1
    <3>2. e[x - p] = x
      BY <1>0, <1>1, <3>1
    <3> QED
      BY <3>1, <3>2
  <2> QED
    BY <1>0, <2>1, <2>2 DEF Lists
<1>3. ASSUME NEW k \in 1..q PROVE At(s, P)[k] = b[k]
  <2>1. PICK x : x = p + k
    OBVIOUS
  <2>2. e[k] = x
    BY <1>0, <1>1, <2>1
  <2>3. At(s, P)[k] = s[x]
    BY <1>2, <2>2, AtElement
  <2>4. s[x] = b[k]
    BY <1>0, <1>1, <2>1, Joined
  <2> QED
    BY <2>3, <2>4
<1>4. DOMAIN At(s, P) = 1..q
  BY <1>2, AtDomain
<1>5. Agree(At(s, P), b) /\ b = [k \in DOMAIN b |-> b[k]]
  BY <1>0, <1>3, <1>4 DEF Agree
<1> QED
  BY <1>1, <1>5, AtIs

\* A list of n entries of one family.
OneFamily(a, n, fam) ==
    n \in Nat /\ a = [k \in 1..n |-> a[k]] /\ \A k \in 1..n : a[k].family = fam

\* A tier has the IPv4 entries first: each half is found again.
LEMMA Halves ==
    ASSUME NEW p, NEW q, NEW a, NEW b, OneFamily(a, p, "ipv4"), OneFamily(b, q, "ipv6")
    PROVE  /\ ofFamily(a \o b, "ipv4") = a
           /\ ofFamily(a \o b, "ipv6") = b
<1>1. p \in Nat /\ a = [k \in 1..p |-> a[k]] /\ \A k \in 1..p : a[k].family = "ipv4"
  BY DEF OneFamily
<1>2. q \in Nat /\ b = [k \in 1..q |-> b[k]] /\ \A k \in 1..q : b[k].family = "ipv6"
  BY DEF OneFamily
<1>a. IsList(a, p) /\ IsList(b, q)
  BY <1>1, <1>2 DEF IsList
<1>3. PICK s : s = a \o b
  OBVIOUS
<1>4. /\ DOMAIN s = 1..(p + q)
      /\ \A k \in 1..p : s[k] = a[k]
      /\ \A k \in 1..q : s[p + k] = b[k]
  BY <1>1, <1>2, <1>3, Joined
<1>5. \A i \in 1..(p + q) : i \in 1..p \/ (i - p \in 1..q /\ i = p + (i - p))
  BY <1>1, <1>2
<1>6. \A i \in 1..(p + q) : i \notin 1..p => s[i].family = "ipv6"
  BY <1>2, <1>4, <1>5
<1>7. {k \in DOMAIN s : s[k].family = "ipv4"} = 1..p
  BY <1>1, <1>2, <1>4, <1>5, <1>6
<1>8. {k \in DOMAIN s : s[k].family = "ipv6"} = (p + 1)..(p + q)
  <2>1. \A k \in 1..p : s[k].family # "ipv6"
    BY <1>1, <1>4
  <2>2. \A i : i \in (p + 1)..(p + q) <=> i \in 1..(p + q) /\ i \notin 1..p
    BY <1>1, <1>2
  <2> QED
    BY <1>4, <1>6, <2>1, <2>2
<1>9. ofFamily(s, "ipv4") = a
  <2>0. PICK K : K = 1..p
    OBVIOUS
  <2>c. K \in SUBSET (1..p)
    BY <2>0
  <2>a. At(a \o b, K) = At(a, K)
    BY <1>a, <2>c, AtLeft
  <2>b. At(s, K) = At(a, K)
    BY <1>3, <2>a
  <2>1. At(s, 1..p) = At(a, 1..p)
    BY Zenon, <2>0, <2>b
  <2>2. At(a, 1..p) = a
    BY <1>a, AtAll
  <2> QED
    BY <1>7, <2>1, <2>2 DEF ofFamily
<1>10. ofFamily(s, "ipv6") = b
  <2>1. At(s, (p + 1)..(p + q)) = b
    BY <1>3, <1>a, AtRight
  <2> QED
    BY <1>8, <2>1 DEF ofFamily
<1> QED
  BY <1>3, <1>9, <1>10

\* The builder shows, for each family of a tier, what the grid shows.
LEMMA TierFamily ==
    ASSUME NEW h, NEW n \in Nat, DOMAIN h = 1..n, NEW fam \in {"ipv4", "ipv6"}
    PROVE  ofFamily(EntriesOf(h, "ipv4") \o EntriesOf(h, "ipv6"), fam) = EntriesOf(h, fam)
<1>1. ASSUME NEW f
      PROVE  \E p : OneFamily(EntriesOf(h, f), p, f)
  <2>1. PICK P : P = {k \in DOMAIN h : h[k].family = f}
    OBVIOUS
  <2>2. Positions(P)
    <3>1. IsFiniteSet(1..n) /\ P \in SUBSET (1..n)
      BY <2>1, FS_Interval
    <3>2. P \subseteq Int
      BY <3>1
    <3> QED
      BY <3>1, <3>2, FS_Subset DEF Positions
  <2>3. Cardinality(P) \in Nat /\ DOMAIN At(h, P) = 1..Cardinality(P)
    BY <2>2, AtShape
  <2>4. DOMAIN ofFamily(h, f) = 1..Cardinality(P)
    BY <2>1, <2>3 DEF ofFamily
  <2>5. PICK a, p : a = EntriesOf(h, f) /\ p = Cardinality(P)
    OBVIOUS
  <2>a. PICK mine : mine = ofFamily(h, f)
    OBVIOUS
  <2>b. PICK total : total = Total([k \in DOMAIN mine |-> mine[k].weight])
    OBVIOUS
  <2>c. a = [k \in DOMAIN mine |-> [family |-> f, iface |-> mine[k].iface,
                                  pct |-> RoundShare(mine[k].weight, total)]]
    BY <2>5, <2>a, <2>b DEF EntriesOf
  <2>d. DOMAIN mine = 1..p
    BY <2>4, <2>5, <2>a
  <2>6. a = [k \in 1..p |-> a[k]]
    BY <2>c, <2>d
  <2>7. \A k \in 1..p : a[k].family = f
    BY <2>c, <2>d
  <2>8. OneFamily(a, p, f)
    BY <2>3, <2>5, <2>6, <2>7 DEF OneFamily
  <2> QED
    BY <2>5, <2>8
<1>2. PICK p : OneFamily(EntriesOf(h, "ipv4"), p, "ipv4")
  BY <1>1
<1>3. PICK q : OneFamily(EntriesOf(h, "ipv6"), q, "ipv6")
  BY <1>1
<1> QED
  BY <1>2, <1>3, Halves

\* What the two columns of the grid say of a policy is what the builder opens
\* with.  Both read the policy's member list, base, at some of its positions:
\* the grid at those of the family, KF, the builder at the known ones, K.
LEMMA GridIsBuilder ==
    ASSUME NEW c, NEW info, NEW p, NEW use, use = c.policy[p].use_member,
           NEW l \in Nat, DOMAIN use = 1..l,
           \A k \in 1..l : use[k] \in DOMAIN info => info[use[k]].metric \in Int,
           NEW fam \in {"ipv4", "ipv6"},
           NEW tiers, tiers = stateFromPolicy(c, info, p).tiers
    PROVE  familyDesc(c, info, p, fam)
             = NonEmpty([t \in DOMAIN tiers |-> ofFamily(tiers[t], fam)])
<1>1. PICK K, KF, base :
        /\ K = {k \in DOMAIN use : use[k] \in DOMAIN info}
        /\ KF = {k \in DOMAIN use : use[k] \in DOMAIN info /\ info[use[k]].family = fam}
        /\ base = [k \in DOMAIN use |-> info[use[k]]]
  OBVIOUS
<1>2. Positions(K) /\ Positions(KF) /\ KF \subseteq K /\ K \subseteq 1..l
  <2>1. IsFiniteSet(1..l) /\ K \in SUBSET (1..l) /\ KF \in SUBSET (1..l)
    BY <1>1, FS_Interval
  <2>2. K \subseteq Int /\ KF \subseteq Int
    BY <2>1
  <2> QED
    BY <1>1, <2>1, <2>2, FS_Subset DEF Positions
<1>3. PICK infos, infosF :
        /\ infos = [k \in DOMAIN At(use, K) |-> info[At(use, K)[k]]]
        /\ infosF = [k \in DOMAIN At(use, KF) |-> info[At(use, KF)[k]]]
  OBVIOUS
<1>4. infos = At(base, K) /\ infosF = At(base, KF)
  <2>1. K \in SUBSET DOMAIN use /\ KF \in SUBSET DOMAIN use
    BY <1>1
  <2>2. /\ Mapped(base, info, use)
        /\ Mapped(infos, info, At(use, K)) /\ Mapped(infosF, info, At(use, KF))
    BY <1>1, <1>3 DEF Mapped
  <2>3. infos = At(base, K)
    BY <1>2, <2>1, <2>2, MapAt
  <2>4. infosF = At(base, KF)
    BY <1>2, <2>1, <2>2, MapAt
  <2> QED
    BY <2>3, <2>4
\* The metrics.
<1>5. PICK M, MF : M = MetricsAt(base, K) /\ MF = MetricsAt(base, KF)
  OBVIOUS
<1>e. M = {base[k].metric : k \in K} /\ MF = {base[k].metric : k \in KF}
  BY <1>5 DEF MetricsAt
<1>6. metricsOf(infos) = Increasing(M) /\ metricsOf(infosF) = Increasing(MF)
  <2>1. MetricsAt(infos, DOMAIN infos) = M
    BY <1>2, <1>4, <1>5, MetricsOfAt
  <2>2. MetricsAt(infosF, DOMAIN infosF) = MF
    BY <1>2, <1>4, <1>5, MetricsOfAt
  <2> QED
    BY <2>1, <2>2 DEF metricsOf, MetricsAt
<1>7. Positions(M) /\ MF \subseteq M
  <2>1. M \subseteq Int
    BY <1>1, <1>2, <1>e
  <2>2. IsFiniteSet(M)
    <3>1. PICK f : f = [k \in K |-> base[k].metric]
      OBVIOUS
    <3>2. f \in Surjection(K, M)
      BY <1>e, <3>1 DEF Surjection
    <3> QED
      BY <1>2, <3>2, FS_Surjection DEF Positions
  <2> QED
    BY <1>2, <1>e, <2>1, <2>2 DEF Positions
<1>8. PICK metrics, n : metrics = Increasing(M) /\ n = Cardinality(M)
  OBVIOUS
<1>9. Lists(metrics, n, M)
  BY <1>7, <1>8, IncreasingLists DEF Positions
<1>10. n \in Nat /\ metrics \in [1..n -> M]
  BY <1>9 DEF Lists
\* The entries.
<1>11. ASSUME NEW m
       PROVE  /\ EntriesOf(withMetric(infos, m), fam) = EntriesOf(withMetric(infosF, m), fam)
              /\ EntriesOf(withMetric(infos, m), fam) = <<>> <=> m \notin MF
              /\ \E i \in Nat : DOMAIN withMetric(infos, m) = 1..i
  <2>1. PICK A, B, C : /\ A = {k \in K : base[k].metric = m}
                       /\ B = {k \in KF : base[k].metric = m}
                       /\ C = {k \in A : base[k].family = fam}
    OBVIOUS
  <2>2. Positions(A) /\ Positions(B) /\ Positions(C)
    <3>1. A \in SUBSET K /\ B \in SUBSET K /\ C \in SUBSET K
      BY <1>2, <2>1
    <3>2. A \subseteq Int /\ B \subseteq Int /\ C \subseteq Int
      BY <1>2, <3>1 DEF Positions
    <3> QED
      BY <1>2, <3>1, <3>2, FS_Subset DEF Positions
  <2>3. withMetric(infos, m) = At(base, A)
    BY <1>2, <1>4, <2>1, WithMetricAt
  <2>4. withMetric(infosF, m) = At(base, B)
    BY <1>2, <1>4, <2>1, WithMetricAt
  <2>5. ofFamily(withMetric(infos, m), fam) = At(base, C)
    BY <2>1, <2>2, <2>3, OfFamilyAt
  <2>6. C = {k \in B : base[k].family = fam}
    BY <1>1, <2>1
  <2>7. ofFamily(withMetric(infosF, m), fam) = At(base, C)
    BY <2>2, <2>4, <2>6, OfFamilyAt
  <2>8. EntriesOf(withMetric(infos, m), fam) = EntriesOf(withMetric(infosF, m), fam)
    BY <2>5, <2>7, EntriesFrom
  <2>9. C = {} <=> m \notin MF
    BY <1>1, <1>e, <2>1
  <2>10. EntriesOf(withMetric(infos, m), fam) = <<>> <=> C = {}
    <3>1. DOMAIN EntriesOf(withMetric(infos, m), fam) = DOMAIN At(base, C)
      BY <2>5, EntriesShape
    <3>2. Cardinality(C) \in Nat /\ DOMAIN At(base, C) = 1..Cardinality(C)
      BY <2>2, AtShape
    <3>3. At(base, C) = <<>> <=> C = {}
      BY <2>2, AtShape
    <3>4. CASE C = {}
      <4>1. DOMAIN EntriesOf(withMetric(infos, m), fam) = {}
        BY <3>1, <3>3, <3>4
      <4>2. PICK a, mine : a = EntriesOf(withMetric(infos, m), fam)
                             /\ mine = ofFamily(withMetric(infos, m), fam)
        OBVIOUS
      <4>3. PICK total : total = Total([k \in DOMAIN mine |-> mine[k].weight])
        OBVIOUS
      <4>4. a = [k \in DOMAIN mine |-> [family |-> fam, iface |-> mine[k].iface,
                                      pct |-> RoundShare(mine[k].weight, total)]]
        BY <4>2, <4>3 DEF EntriesOf
      <4> QED
        BY <3>4, <4>1, <4>2, <4>4
    <3>5. CASE C # {}
      <4>1. PICK x \in C : TRUE
        BY <3>5
      <4>2. PICK i \in 1..Cardinality(C) : Increasing(C)[i] = x
        BY <2>2, AtShape
      <4>3. DOMAIN EntriesOf(withMetric(infos, m), fam) # {}
        BY <3>1, <3>2, <4>2
      <4> QED
        BY <3>5, <4>3
    <3> QED
      BY <3>4, <3>5
  <2>11. Cardinality(A) \in Nat /\ DOMAIN withMetric(infos, m) = 1..Cardinality(A)
    BY <2>2, <2>3, AtShape
  <2> QED
    BY <2>8, <2>9, <2>10, <2>11
\* The two sides.
<1>12. /\ DOMAIN familyDesc(c, info, p, fam) = DOMAIN Increasing(MF)
       /\ \A j \in DOMAIN Increasing(MF) :
            familyDesc(c, info, p, fam)[j] = EntriesOf(withMetric(infosF, Increasing(MF)[j]), fam)
       /\ familyDesc(c, info, p, fam)
            = [j \in DOMAIN familyDesc(c, info, p, fam) |-> familyDesc(c, info, p, fam)[j]]
  <2>1. PICK fd : fd = familyDesc(c, info, p, fam)
    OBVIOUS
  <2>3. fd = [j \in DOMAIN Increasing(MF) |->
                EntriesOf(withMetric(infosF, Increasing(MF)[j]), fam)]
    <3>1. At(use, {k \in DOMAIN use : use[k] \in DOMAIN info /\ info[use[k]].family = fam})
            = At(use, KF)
      BY <1>1
    <3> QED
      BY <1>3, <1>6, <2>1, <3>1 DEF familyDesc
  <2> QED
    BY <2>1, <2>3
<1>13. PICK tf : tf = [t \in DOMAIN tiers |-> ofFamily(tiers[t], fam)]
  OBVIOUS
<1>14. tiers = IF metrics = <<>> THEN << <<>> >>
               ELSE [k \in DOMAIN metrics |->
                       EntriesOf(withMetric(infos, metrics[k]), "ipv4")
                         \o EntriesOf(withMetric(infos, metrics[k]), "ipv6")]
  <2>1. metricsOf(infos) = metrics
    BY <1>6, <1>8
  <2>2. At(use, {k \in DOMAIN use : use[k] \in DOMAIN info}) = At(use, K)
    BY <1>1
  <2> QED
    BY <1>3, <2>1, <2>2 DEF stateFromPolicy
<1>15. PICK T : T = {t \in DOMAIN tf : tf[t] # <<>>}
  OBVIOUS
<1>16. NonEmpty(tf) = At(tf, T)
  BY <1>15 DEF NonEmpty
<1>17. CASE n = 0
  <2>1. M = {} /\ metrics = <<>>
    <3>1. M = {}
      BY <1>9, <1>17 DEF Lists
    <3> QED
      BY <1>10, <1>17, <3>1
  <2>2. MF = {} /\ Positions({})
    BY <1>7, <2>1
  <2>3. tiers = << <<>> >>
    BY <1>14, <2>1
  <2>4. ofFamily(<<>>, fam) = <<>>
    <3>1. ofFamily(<<>>, fam) = At(<<>>, {})
      BY DEF ofFamily
    <3> QED
      BY <2>2, <3>1, AtShape
  <2>5. tf = << <<>> >>
    BY <1>13, <2>3, <2>4
  <2>6. T = {}
    BY <1>15, <2>5
  <2>7. NonEmpty(tf) = <<>>
    BY <1>16, <2>2, <2>6, AtShape
  <2>8. familyDesc(c, info, p, fam) = <<>>
    <3>1. DOMAIN Increasing(MF) = {}
      <4>1. Lists(Increasing(MF), Cardinality(MF), MF)
        BY <2>2, IncreasingLists DEF Positions
      <4>2. Cardinality(MF) = 0
        BY <2>2, FS_EmptySet
      <4> QED
        BY <4>1, <4>2 DEF Lists
    <3>2. PICK fd : fd = familyDesc(c, info, p, fam)
      OBVIOUS
    <3>3. DOMAIN fd = {} /\ fd = [j \in DOMAIN fd |-> fd[j]]
      BY <1>12, <3>1, <3>2
    <3> QED
      BY <3>2, <3>3
  <2> QED
    BY <1>13, <2>7, <2>8
<1>18. CASE n # 0
  <2>1. metrics # <<>> /\ DOMAIN metrics = 1..n
    BY <1>10, <1>18
  <2>2. DOMAIN tiers = 1..n
    BY <1>14, <2>1
  <2>3. ASSUME NEW t \in 1..n
        PROVE  tf[t] = EntriesOf(withMetric(infos, metrics[t]), fam)
    <3>1. PICK m, h : m = metrics[t] /\ h = withMetric(infos, m)
      OBVIOUS
    <3>2. tiers[t] = EntriesOf(h, "ipv4") \o EntriesOf(h, "ipv6")
      BY <1>14, <2>1, <3>1
    <3>3. PICK i \in Nat : DOMAIN h = 1..i
      BY <1>11, <3>1
    <3>4. ofFamily(EntriesOf(h, "ipv4") \o EntriesOf(h, "ipv6"), fam) = EntriesOf(h, fam)
      BY <3>3, TierFamily
    <3> QED
      BY <1>13, <2>2, <3>1, <3>2, <3>4
  <2>4. Hits(T, metrics, n, MF)
    <3>1. DOMAIN tf = 1..n
      BY <1>13, <2>2
    <3>2. \A t \in 1..n : tf[t] # <<>> <=> metrics[t] \in MF
      BY <1>11, <2>3
    <3> QED
      BY <1>15, <3>1, <3>2 DEF Hits
  <2>5. PICK f, q : f = Increasing(T) /\ q = Cardinality(T)
    OBVIOUS
  <2>6. T \subseteq 1..n
    BY <2>4 DEF Hits
  <2>7. Lists(f, q, T)
    <3>1. IsFiniteSet(1..n) /\ T \in SUBSET (1..n) /\ T \subseteq Int
      BY <1>10, <2>6, FS_Interval
    <3>2. IsFiniteSet(T)
      BY <3>1, FS_Subset
    <3> QED
      BY <2>5, <3>1, <3>2, IncreasingLists
  <2>8. PICK g : Reads(g, metrics, f, q)
    BY DEF Reads
  <2>9. Lists(g, q, MF)
    <3>1. Lists(g, q, M \cap MF)
      BY <1>9, <2>4, <2>7, <2>8, SubList
    <3>2. M \cap MF = MF
      BY <1>7
    <3> QED
      BY <3>1, <3>2
  <2>10. Increasing(MF) = g /\ DOMAIN g = 1..q
    <3>1. Increasing(MF) = g
      BY <2>9, ListIsIncreasing
    <3>2. DOMAIN g = 1..q
      BY <2>9 DEF Lists
    <3> QED
      BY <3>1, <3>2
  <2>11. PICK fd : fd = familyDesc(c, info, p, fam)
    OBVIOUS
  <2>12. DOMAIN fd = 1..q /\ fd = [j \in DOMAIN fd |-> fd[j]]
    BY <1>12, <2>10, <2>11
  <2>13. ASSUME NEW j \in 1..q PROVE At(tf, T)[j] = fd[j]
    <3>1. PICK x \in 1..n : x = f[j]
      BY <2>6, <2>7 DEF Lists
    <3>2. At(tf, T)[j] = tf[x]
      BY <2>7, <3>1, AtElement
    <3>3. g[j] = metrics[x]
      BY <2>8, <3>1 DEF Reads
    <3>4. fd[j] = EntriesOf(withMetric(infosF, metrics[x]), fam)
      BY <1>12, <2>10, <2>11, <3>3
    <3>5. tf[x] = EntriesOf(withMetric(infosF, metrics[x]), fam)
      BY <1>11, <2>3
    <3> QED
      BY <3>2, <3>4, <3>5
  <2>14. Agree(At(tf, T), fd)
    <3>1. DOMAIN At(tf, T) = 1..q
      BY <2>7, AtDomain
    <3> QED
      BY <2>12, <2>13, <3>1 DEF Agree
  <2>15. At(tf, T) = fd
    BY <2>12, <2>14, AtIs
  <2> QED
    BY <1>13, <1>16, <2>11, <2>15
<1> QED
  BY <1>17, <1>18

\* f is the list of the first parts of seqs joined, up to n.
Joins(f, seqs, n) ==
    f = [i \in 1..n |-> IF i = 1 THEN seqs[i] ELSE f[i - 1] \o seqs[i]]

\* FlattenSeq is such a list of partial results, at its end.
LEMMA FlattenIsJoined ==
    ASSUME NEW seqs, Len(seqs) # 0, \E f : Joins(f, seqs, Len(seqs))
    PROVE  \E f : Joins(f, seqs, Len(seqs)) /\ FlattenSeq(seqs) = f[Len(seqs)]
<1> DEFINE F == CHOOSE f : f = [i \in 1..Len(seqs) |-> IF i = 1 THEN seqs[i] ELSE f[i - 1] \o seqs[i]]
<1>1. FlattenSeq(seqs) = F[Len(seqs)]
  BY DEF FlattenSeq
<1>2. F = CHOOSE f : Joins(f, seqs, Len(seqs))
  BY DEF Joins
<1>3. Joins(F, seqs, Len(seqs))
  <2> HIDE DEF F
  <2> QED
   BY <1>2, Zenon
<1> QED
  BY <1>1, <1>3

\* A set of naturals that has an element has a least one.
LEMMA LeastNatural ==
    ASSUME NEW T, T \subseteq Nat, T # {}
    PROVE  \E x \in T : \A y \in T : x <= y
<1>1. PICK R : R = OpToRel(<, Nat)
  OBVIOUS
<1>2. IsWellFoundedOn(R, Nat)
  BY <1>1, NatLessThanWellFounded
<1>3. PICK x \in T : \A y \in T : ~(<<y, x>> \in R)
  BY <1>2, WFMin
<1>4. ASSUME NEW y \in T PROVE x <= y
  <2>1. x \in Nat /\ y \in Nat
    OBVIOUS
  <2>2. <<y, x>> \in R <=> y < x
    BY <1>1, <2>1 DEF OpToRel
  <2> QED
    BY <1>3, <2>1, <2>2
<1> QED
  BY <1>4

\* The partial results exist for any number of sequences.
LEMMA JoinsExist ==
    ASSUME NEW seqs, NEW n \in Nat
    PROVE  \E f : Joins(f, seqs, n)
<1> DEFINE T == {i \in Nat : ~ \E f : Joins(f, seqs, i)}
<1> SUFFICES ASSUME T # {} PROVE FALSE
  OBVIOUS
<1>1. PICK m \in T : \A y \in T : m <= y
  <2>1. T \subseteq Nat
    OBVIOUS
  <2> HIDE DEF T
  <2> QED
    BY <2>1, LeastNatural
<1>2. m # 0
  <2>1. PICK f : f = [i \in 1..0 |-> seqs[i]]
    OBVIOUS
  <2>2. Joins(f, seqs, 0)
    BY <2>1 DEF Joins
  <2> QED
    BY <2>2
<1>3. m \in Nat /\ m - 1 \in Nat /\ m - 1 \notin T
  BY <1>1, <1>2
<1>4. PICK f : Joins(f, seqs, m - 1)
  BY <1>3
<1>5. PICK g : g = [i \in 1..m |-> IF i < m THEN f[i]
                                  ELSE IF i = 1 THEN seqs[i] ELSE f[i - 1] \o seqs[i]]
  OBVIOUS
<1>6. f = [i \in 1..(m - 1) |-> IF i = 1 THEN seqs[i] ELSE f[i - 1] \o seqs[i]]
  BY <1>4 DEF Joins
<1>7. ASSUME NEW i \in 1..m
      PROVE  g[i] = IF i = 1 THEN seqs[i] ELSE g[i - 1] \o seqs[i]
  <2>1. CASE i < m
    <3>1. i \in 1..(m - 1)
      BY <1>3, <2>1
    <3>2. f[i] = IF i = 1 THEN seqs[i] ELSE f[i - 1] \o seqs[i]
      BY <1>6, <3>1
    <3>3. g[i] = f[i]
      BY <1>5, <2>1
    <3>4. i # 1 => i - 1 \in 1..m /\ i - 1 < m
      BY <1>3, <2>1
    <3>5. i # 1 => g[i - 1] = f[i - 1]
      BY <1>5, <3>4
    <3> QED
      BY <3>2, <3>3, <3>5
  <2>2. CASE i = m
    <3>1. g[i] = IF i = 1 THEN seqs[i] ELSE f[i - 1] \o seqs[i]
      BY <1>3, <1>5, <2>2
    <3>2. i # 1 => i - 1 \in 1..m /\ i - 1 < m
      BY <1>3, <2>2
    <3>3. i # 1 => g[i - 1] = f[i - 1]
      BY <1>5, <3>2
    <3> QED
      BY <3>1, <3>3
  <2> QED
    BY <1>3, <2>1, <2>2
<1>8. Joins(g, seqs, m)
  BY <1>5, <1>7 DEF Joins
<1> QED
  BY <1>8

-----------------------------------------------------------------------------
(***************************************************************************)
(* Sums, weights and shares.                                               *)
(***************************************************************************)
\* A function on 1..n is a sequence.
LEMMA FunctionSeq ==
    ASSUME NEW n \in Nat, NEW S, NEW f \in [1..n -> S]
    PROVE  f \in Seq(S) /\ Len(f) = n
  OBVIOUS

-----------------------------------------------------------------------------
\* g has the sums of the first numbers of f, up to n.
Sums(g, f, n) == g = [i \in 0..n |-> IF i = 0 THEN 0 ELSE g[i - 1] + f[i]]

\* The sums exist for any number of numbers.
LEMMA SumsExist ==
    ASSUME NEW f, NEW n \in Nat
    PROVE  \E g : Sums(g, f, n)
<1> DEFINE T == {i \in Nat : ~ \E g : Sums(g, f, i)}
<1> SUFFICES ASSUME T # {} PROVE FALSE
  OBVIOUS
<1>1. PICK m \in T : \A y \in T : m <= y
  <2>1. T \subseteq Nat
    OBVIOUS
  <2> HIDE DEF T
  <2> QED
    BY <2>1, LeastNatural
<1>2. m # 0
  <2>1. PICK g : g = [i \in 0..0 |-> 0]
    OBVIOUS
  <2>2. Sums(g, f, 0)
    BY <2>1 DEF Sums
  <2> QED
    BY <2>2
<1>3. m \in Nat /\ m - 1 \in Nat /\ m - 1 \notin T
  BY <1>1, <1>2
<1>4. PICK g : Sums(g, f, m - 1)
  BY <1>3
<1>5. PICK h : h = [i \in 0..m |-> IF i < m THEN g[i] ELSE g[i - 1] + f[i]]
  OBVIOUS
<1>6. g = [i \in 0..(m - 1) |-> IF i = 0 THEN 0 ELSE g[i - 1] + f[i]]
  BY <1>4 DEF Sums
<1>7. ASSUME NEW i \in 0..m
      PROVE  h[i] = IF i = 0 THEN 0 ELSE h[i - 1] + f[i]
  <2>1. CASE i < m
    <3>1. i \in 0..(m - 1)
      BY <1>3, <2>1
    <3>2. g[i] = IF i = 0 THEN 0 ELSE g[i - 1] + f[i]
      BY <1>6, <3>1
    <3>3. h[i] = g[i]
      BY <1>5, <2>1
    <3>4. i # 0 => i - 1 \in 0..m /\ i - 1 < m
      BY <1>3, <2>1
    <3>5. i # 0 => h[i - 1] = g[i - 1]
      BY <1>5, <3>4
    <3> QED
      BY <3>2, <3>3, <3>5
  <2>2. CASE i = m
    <3>1. h[i] = g[i - 1] + f[i] /\ i # 0
      BY <1>2, <1>3, <1>5, <2>2
    <3>2. i - 1 \in 0..m /\ i - 1 < m
      BY <1>2, <1>3, <2>2
    <3>3. h[i - 1] = g[i - 1]
      BY <1>5, <3>2
    <3> QED
      BY <3>1, <3>3
  <2> QED
    BY <1>3, <2>1, <2>2
<1>8. Sums(h, f, m)
  BY <1>5, <1>7 DEF Sums
<1> QED
  BY <1>8

\* Total is the last of them, unless a number is missing.
LEMMA TotalIsSum ==
    ASSUME NEW f, NEW n \in Nat, Len(f) = n
    PROVE  \E g : Sums(g, f, n) /\ Total(f) = IF NaN \in ToSet(f) THEN NaN ELSE g[n]
<1> DEFINE G == CHOOSE g : g = [i \in 0..Len(f) |-> IF i = 0 THEN 0 ELSE g[i - 1] + f[i]]
<1>1. Total(f) = IF NaN \in ToSet(f) THEN NaN ELSE G[Len(f)]
  BY DEF Total
<1>2. G = CHOOSE g : Sums(g, f, Len(f))
  BY DEF Sums
<1>3. \E g : Sums(g, f, Len(f))
  BY SumsExist
<1>4. Sums(G, f, Len(f))
  <2> HIDE DEF G
  <2> QED
    BY <1>2, <1>3, Zenon
<1> HIDE DEF G
<1> QED
  BY <1>1, <1>4

\* A list of n naturals.
Numbers(f, n) == n \in Nat /\ f \in [1..n -> Nat]

\* Numbers are not NaN.
LEMMA NumbersLen ==
    ASSUME NEW f, NEW n, Numbers(f, n) PROVE Len(f) = n /\ n \in Nat /\ NaN \notin ToSet(f)
<1>1. n \in Nat /\ f \in [1..n -> Nat]
  BY DEF Numbers
<1>2. Len(f) = n
  BY <1>1, FunctionSeq
<1>3. ToSet(f) \subseteq Nat
  BY <1>1 DEF ToSet
<1> QED
  BY <1>1, <1>2, <1>3 DEF NaN

\* The total of naturals is one.
LEMMA TotalNat ==
    ASSUME NEW f, NEW n, Numbers(f, n) PROVE Total(f) \in Nat
<1>1. PICK g : Sums(g, f, n) /\ Total(f) = g[n]
  BY NumbersLen, TotalIsSum
<1>2. g = [i \in 0..n |-> IF i = 0 THEN 0 ELSE g[i - 1] + f[i]]
  BY <1>1 DEF Sums
<1>3. n \in Nat /\ \A k \in 1..n : f[k] \in Nat
  BY DEF Numbers
<1> DEFINE T == {i \in 0..n : g[i] \notin Nat}
<1>4. T = {}
  <2> SUFFICES ASSUME T # {} PROVE FALSE
    OBVIOUS
  <2>1. PICK m \in T : \A y \in T : m <= y
    <3>1. T \subseteq Nat
      OBVIOUS
    <3> HIDE DEF T
    <3> QED
      BY <3>1, LeastNatural
  <2>2. m \in 0..n /\ g[m] \notin Nat
    OBVIOUS
  <2>3. m # 0
    BY <1>2, <2>2
  <2>4. m - 1 \in 0..n /\ m - 1 \notin T
    BY <1>3, <2>1, <2>2, <2>3
  <2>5. g[m - 1] \in Nat /\ f[m] \in Nat
    BY <1>3, <2>2, <2>3, <2>4
  <2>6. g[m] = g[m - 1] + f[m]
    BY <1>2, <2>2, <2>3
  <2> QED
    BY <2>2, <2>5, <2>6
<1>5. n \in 0..n
  BY <1>3
<1> QED
  BY <1>1, <1>4, <1>5

\* The total of multiples is the multiple of the total.
Multiples(f, g, d, n) == \A k \in 1..n : f[k] = d * g[k]

\* The sum of multiples is the multiple of the sum.
LEMMA TotalScales ==
    ASSUME NEW f, NEW g, NEW n, Numbers(f, n), Numbers(g, n), NEW d \in Nat,
           Multiples(f, g, d, n)
    PROVE  Total(f) = d * Total(g)
<1>1. PICK a : Sums(a, f, n) /\ Total(f) = a[n]
  BY NumbersLen, TotalIsSum
<1>2. PICK b : Sums(b, g, n) /\ Total(g) = b[n]
  BY NumbersLen, TotalIsSum
<1>3. a = [i \in 0..n |-> IF i = 0 THEN 0 ELSE a[i - 1] + f[i]]
  BY <1>1 DEF Sums
<1>4. b = [i \in 0..n |-> IF i = 0 THEN 0 ELSE b[i - 1] + g[i]]
  BY <1>2 DEF Sums
<1>5. n \in Nat /\ \A k \in 1..n : f[k] \in Nat /\ g[k] \in Nat /\ f[k] = d * g[k]
  BY DEF Numbers, Multiples
<1> DEFINE T == {i \in 0..n : ~(b[i] \in Nat /\ a[i] = d * b[i])}
<1>6. T = {}
  <2> SUFFICES ASSUME T # {} PROVE FALSE
    OBVIOUS
  <2>1. PICK m \in T : \A y \in T : m <= y
    <3>1. T \subseteq Nat
      OBVIOUS
    <3> HIDE DEF T
    <3> QED
      BY <3>1, LeastNatural
  <2>2. m \in 0..n /\ ~(b[m] \in Nat /\ a[m] = d * b[m])
    OBVIOUS
  <2>3. CASE m = 0
    <3>1. a[m] = 0 /\ b[m] = 0
      BY <1>3, <1>4, <2>2, <2>3
    <3> QED
      BY <2>2, <3>1
  <2>4. CASE m # 0
    <3>1. m - 1 \in 0..n /\ m - 1 \notin T
      BY <1>5, <2>1, <2>2, <2>4
    <3>2. PICK x, y, u, v : /\ x \in Nat /\ y \in Nat
                            /\ x = b[m - 1] /\ y = g[m] /\ u = a[m - 1] /\ v = f[m]
      BY <1>5, <2>2, <2>4, <3>1
    <3>3. u = d * x /\ v = d * y
      BY <1>5, <2>2, <2>4, <3>1, <3>2
    <3>4. a[m] = u + v /\ b[m] = x + y
      BY <1>3, <1>4, <2>2, <2>4, <3>2
    <3>5. x + y \in Nat /\ d * x + d * y = d * (x + y)
      BY <3>2
    <3> QED
      BY <2>2, <3>3, <3>4, <3>5
  <2> QED
    BY <2>3, <2>4
<1>7. n \in 0..n
  BY <1>5
<1>8. a[n] = d * b[n]
  BY <1>6, <1>7
<1> QED
  BY <1>1, <1>2, <1>8

\* The total of one number.
LEMMA TotalOne ==
    ASSUME NEW f, Numbers(f, 1) PROVE Total(f) = f[1]
<1>1. PICK g : Sums(g, f, 1) /\ Total(f) = g[1]
  BY NumbersLen, TotalIsSum
<1>2. g = [i \in 0..1 |-> IF i = 0 THEN 0 ELSE g[i - 1] + f[i]]
  BY <1>1 DEF Sums
<1>3. g[0] = 0
  BY <1>2
<1>4. g[1] = g[1 - 1] + f[1]
  BY <1>2
<1>5. f[1] \in Nat
  BY DEF Numbers
<1> QED
  BY <1>1, <1>3, <1>4, <1>5

\* q is the exact quotient of x by g, and x the product of the two.
ExactQuotient(q, x, g) == x % g = 0 /\ q = x \div g
IsProduct(x, g, q) == q \in Nat /\ x = g * q

\* Division of a multiple, and of a multiple with a remainder.
LEMMA ExactDivision ==
    ASSUME NEW x \in Nat, NEW g \in Nat \ {0}, NEW q, ExactQuotient(q, x, g)
    PROVE  IsProduct(x, g, q)
BY DEF ExactQuotient, IsProduct

\* A quotient whose remainder is less than the divisor.
LEMMA RoundedDivision ==
    ASSUME NEW a \in Nat, NEW b \in Nat \ {0}, NEW r \in Nat, r < b,
           NEW y, y = b * a + r
    PROVE  y \div b = a
<1>1. PICK q : q = y \div b
  OBVIOUS
<1>2. y \in Nat /\ b * a \in Nat
  OBVIOUS
<1>3. q \in Int /\ b * q <= y /\ y < b * q + b
  BY <1>1, <1>2
<1>4. b * (a - q) < b /\ b * (q - a) <= r
  BY <1>3
<1>5. a - q < 1 /\ q - a < 1
  BY <1>3, <1>4
<1> QED
  BY <1>1, <1>3, <1>5

\* A weight that is a share divided by g, of a total of weights that is 100
\* divided by g, is rounded to the share again.
LEMMA ShareBack ==
    ASSUME NEW T \in Nat, NEW g \in Nat, g * T = 100, NEW w \in Nat, NEW p, p = g * w
    PROVE  RoundShare(w, T) = p
<1>1. T # 0 /\ g # 0
  OBVIOUS
<1>2. p \in Nat
  OBVIOUS
<1>3. PICK b : b = 2 * T
  OBVIOUS
<1>4. b \in Nat \ {0} /\ T < b
  BY <1>1, <1>3
<1>5. T * p = 100 * w
  <2>1. T * (g * w) = (g * T) * w
    OBVIOUS
  <2> QED
    BY <2>1
<1>6. b * p = 200 * w
  <2>1. b * p = 2 * (T * p)
    BY <1>2, <1>3
  <2> QED
    BY <1>5, <2>1
<1>7. (b * p + T) \div b = p
  BY <1>2, <1>4, RoundedDivision
<1> QED
  BY <1>1, <1>3, <1>6, <1>7 DEF RoundShare

\* The divisor of all shares.
LEMMA GcdDivides ==
    ASSUME NEW f, NEW n, Numbers(f, n), NEW g, g = gcdList(f)
    PROVE  g \in Nat \ {0} /\ \A k \in 1..n : f[k] % g = 0
<1>1. n \in Nat /\ DOMAIN f = 1..n /\ \A k \in 1..n : f[k] \in Nat
  BY DEF Numbers
<1>2. PICK D : D = {d \in 1..100 : \A k \in DOMAIN f : f[k] % d = 0}
  OBVIOUS
<1>3. 1 \in D
  BY <1>1, <1>2
<1>4. PICK T : T = {100 - d : d \in D}
  OBVIOUS
<1>5. PICK x \in T : \A y \in T : x <= y
  <2>1. T \subseteq Nat /\ T # {}
    BY <1>2, <1>3, <1>4
  <2> QED
    BY <2>1, LeastNatural
<1>6. PICK m \in D : x = 100 - m
  BY <1>4
<1>7. \A d \in D : m >= d
  <2> SUFFICES ASSUME NEW d \in D PROVE m >= d
    OBVIOUS
  <2>1. 100 - d \in T /\ d \in 1..100 /\ m \in 1..100
    BY <1>2, <1>4
  <2>2. x <= 100 - d
    BY <1>5, <2>1
  <2> QED
    BY <1>6, <2>1, <2>2
<1>8. g = CHOOSE d \in D : \A y \in D : d >= y
  <2>1. g = Max(D)
    BY <1>2 DEF gcdList
  <2>2. Max(D) = CHOOSE d \in D : \A y \in D : d >= y
    BY Zenon DEF Max
  <2> QED
    BY <2>1, <2>2
<1>9. g \in D
  <2>1. \E d \in D : \A y \in D : d >= y
    BY <1>7
  <2> QED
    BY Zenon, <1>8, <2>1
<1>10. g \in 1..100 /\ \A k \in DOMAIN f : f[k] % g = 0
  BY <1>2, <1>9
<1>11. g \in Nat \ {0}
  BY <1>10
<1>12. \A k \in 1..n : f[k] % g = 0
  BY Zenon, <1>1, <1>10
<1> QED
  BY <1>11, <1>12

\* The shares of the rows of one family.
Pcts(fe, f) == f = [k \in DOMAIN fe |-> fe[k].pct]

\* The weights of shares that make 100 are naturals, and give the shares back.
LEMMA WeightsBack ==
    ASSUME NEW S, NEW fe \in Seq(S), NEW n, n = Len(fe), n # 0, NEW f, Pcts(fe, f),
           Numbers(f, n), Total(f) = 100, NEW w, w = computeWeights(fe)
    PROVE  /\ Numbers(w, n)
           /\ \A k \in 1..n : RoundShare(w[k], Total(w)) = f[k]
<1>1. n \in Nat /\ DOMAIN fe = 1..n /\ DOMAIN f = 1..n /\ \A k \in 1..n : f[k] \in Nat
  BY DEF Numbers
<1>2. CASE n = 1
  <2>1. w = <<1>>
    BY <1>2 DEF computeWeights
  <2>2. w \in [1..1 -> Nat] /\ w[1] = 1
    BY <2>1
  <2>3. Numbers(w, 1)
    BY <2>2 DEF Numbers
  <2>4. Total(w) = 1
    BY <2>2, <2>3, TotalOne
  <2>5. f[1] = 100
    BY <1>2, TotalOne
  <2>6. RoundShare(1, 1) = 100
    BY DEF RoundShare
  <2> QED
    BY <1>2, <2>2, <2>3, <2>4, <2>5, <2>6
<1>3. CASE n # 1
  <2>1. PICK g : g = gcdList(f)
    OBVIOUS
  <2>2. g \in Nat \ {0} /\ \A k \in 1..n : f[k] % g = 0
    BY <2>1, GcdDivides
  <2>3. f = [j \in DOMAIN fe |-> fe[j].pct]
    BY DEF Pcts
  <2>4. w = [k \in DOMAIN fe |-> fe[k].pct \div g]
    <3>1. w = [k \in DOMAIN fe |-> fe[k].pct \div gcdList([j \in DOMAIN fe |-> fe[j].pct])]
      BY <1>3 DEF computeWeights
    <3>2. gcdList([j \in DOMAIN fe |-> fe[j].pct]) = g
      BY <2>1, <2>3
    <3> QED
      BY <3>1, <3>2
  <2>5. ASSUME NEW k \in 1..n PROVE w[k] \in Nat /\ f[k] = g * w[k]
    <3>1. PICK x : x = f[k]
      OBVIOUS
    <3>2. x = fe[k].pct /\ x \in Nat /\ x % g = 0
      BY <1>1, <2>2, <2>3, <3>1
    <3>3. w[k] = fe[k].pct \div g
      BY <1>1, <2>4
    <3>4. w[k] = x \div g
      BY <3>2, <3>3
    <3>5. PICK q : q = w[k]
      OBVIOUS
    <3>6. q \in Nat /\ x = g * q
      <4>1. ExactQuotient(q, x, g)
        BY <3>2, <3>4, <3>5 DEF ExactQuotient
      <4>2. x \in Nat /\ g \in Nat \ {0}
        BY <2>2, <3>2
      <4>3. IsProduct(x, g, q)
        BY <4>1, <4>2, ExactDivision
      <4> QED
        BY <4>3 DEF IsProduct
    <3> QED
      BY <3>1, <3>5, <3>6
  <2>6. Numbers(w, n)
    <3>1. w = [k \in 1..n |-> w[k]]
      BY <1>1, <2>4
    <3>2. w \in [1..n -> Nat]
      BY <2>5, <3>1
    <3> QED
      BY <1>1, <3>2 DEF Numbers
  <2>7. PICK T : T = Total(w)
    OBVIOUS
  <2>8. T \in Nat
    BY <2>6, <2>7, TotalNat
  <2>9. g * T = 100
    <3>1. Multiples(f, w, g, n)
      BY <2>5 DEF Multiples
    <3> QED
      BY <2>2, <2>6, <2>7, <3>1, TotalScales
  <2>10. ASSUME NEW k \in 1..n PROVE RoundShare(w[k], T) = f[k]
    <3>1. PICK u, p : u = w[k] /\ p = f[k]
      OBVIOUS
    <3>2. u \in Nat /\ p = g * u
      BY <2>5, <3>1
    <3>3. RoundShare(u, T) = p
      BY <2>2, <2>8, <2>9, <3>2, ShareBack
    <3> QED
      BY <3>1, <3>3
  <2> QED
    BY <2>6, <2>7, <2>10
<1> QED
  BY <1>2, <1>3

\* A share is a number, or missing; shares that make 100 are numbers.
Share == Nat \cup {NaN}

\* Shares that make 100 are numbers.
LEMMA SharesMake100 ==
    ASSUME NEW n \in Nat, NEW f \in [1..n -> Share], Total(f) = 100
    PROVE  Numbers(f, n)
<1>1. Len(f) = n
  BY FunctionSeq
<1>2. NaN \notin ToSet(f)
  <2>1. PICK g : Total(f) = IF NaN \in ToSet(f) THEN NaN ELSE g[n]
    BY <1>1, TotalIsSum
  <2> QED
    BY <2>1 DEF NaN
<1>3. \A k \in 1..n : f[k] \in ToSet(f)
  BY DEF ToSet
<1>4. \A k \in 1..n : f[k] \in Nat
  BY <1>2, <1>3 DEF Share
<1> QED
  BY <1>4 DEF Numbers

\* A share that is read back is one.
LEMMA RoundShareType ==
    ASSUME NEW w \in Nat, NEW T \in Nat PROVE RoundShare(w, T) \in Share
<1>1. CASE T = 0
  BY <1>1 DEF RoundShare, Share
<1>2. CASE T # 0
  <2>1. PICK x, b : x = 200 * w + T /\ b = 2 * T
    OBVIOUS
  <2>2. x \in Nat /\ b \in Nat \ {0}
    BY <1>2, <2>1
  <2>3. x \div b \in Nat
    BY <2>2
  <2> QED
    BY <1>2, <2>1, <2>3 DEF RoundShare, Share
<1> QED
  BY <1>1, <1>2

\* Even shares: what is left for the first row is no less than nothing.
LEMMA EvenShares ==
    ASSUME NEW n \in Nat \ {0}, NEW s, s = 100 \div n
    PROVE  s \in Nat /\ 100 - s * (n - 1) \in Nat
<1>1. s \in Nat /\ n * s <= 100
  OBVIOUS
<1>2. s * (n - 1) = n * s - s
  BY <1>1
<1> QED
  BY <1>1, <1>2

Within(s, P, S) == \A x \in P : s[x] \in S

\* A selection of elements of S is a sequence over S.
LEMMA AtSeq ==
    ASSUME NEW s, NEW P, Positions(P), NEW S, Within(s, P, S)
    PROVE  At(s, P) \in Seq(S)
<1>1. PICK a, n : a = At(s, P) /\ n = Cardinality(P)
  OBVIOUS
<1>2. n \in Nat /\ DOMAIN a = 1..n
  BY <1>1, AtShape
<1>3. ASSUME NEW k \in 1..n PROVE a[k] \in S
  <2>1. PICK x \in P : x = Increasing(P)[k]
    BY <1>1, AtShape
  <2>2. a[k] = s[x]
    BY <1>1, <2>1, AtShape
  <2> QED
    BY <2>2 DEF Within
<1>4. a = [k \in DOMAIN Increasing(P) |-> s[Increasing(P)[k]]]
  BY <1>1 DEF At
<1>5. a \in [1..n -> S]
  BY <1>2, <1>3, <1>4
<1> QED
  BY <1>1, <1>2, <1>5

\* The positions of a sequence that some are chosen of.
LEMMA SomePositions ==
    ASSUME NEW S, NEW s \in Seq(S), NEW P \in SUBSET DOMAIN s
    PROVE  Positions(P) /\ Within(s, P, S)
<1>1. Len(s) \in Nat /\ DOMAIN s = 1..Len(s)
  OBVIOUS
<1>2. IsFiniteSet(1..Len(s)) /\ P \in SUBSET (1..Len(s))
  BY <1>1, FS_Interval
<1>3. P \subseteq Int
  BY <1>2
<1>4. IsFiniteSet(P)
  BY <1>2, FS_Subset
<1>5. \A x \in P : s[x] \in S
  BY <1>1, <1>2
<1> QED
  BY <1>3, <1>4, <1>5 DEF Positions, Within

\* The rows of one family are rows.
LEMMA OfFamilySeq ==
    ASSUME NEW S, NEW s \in Seq(S), NEW fam
    PROVE  ofFamily(s, fam) \in Seq(S)
<1>1. PICK P : P = {k \in DOMAIN s : s[k].family = fam}
  OBVIOUS
<1>2. Positions(P) /\ Within(s, P, S)
  BY <1>1, SomePositions
<1> QED
  BY <1>1, <1>2, AtSeq DEF ofFamily

-----------------------------------------------------------------------------
\* A row of the builder: its interface is one of the configuration's and of the
\* row's family, or none where the family has none.
Row == {r \in [family : {"ipv4", "ipv6"}, iface : ToSet(IfaceOrder) \cup {""}, pct : Share] :
          r.iface = "" \/ FamilyOf[r.iface] = r.family}
TiersOK(tiers) == tiers \in Seq(Seq(Row))

\* The interfaces a row of a family may have.
FamilyIfaces(fam) == {i \in ToSet(IfaceOrder) : FamilyOf[i] = fam}

\* A row is made of its parts.
LEMMA MakeRow ==
    ASSUME NEW fam \in {"ipv4", "ipv6"}, NEW i \in FamilyIfaces(fam) \cup {""}, NEW v \in Share
    PROVE  [family |-> fam, iface |-> i, pct |-> v] \in Row
BY DEF Row, FamilyIfaces

\* And has them.
LEMMA RowParts ==
    ASSUME NEW e \in Row
    PROVE  /\ e = [family |-> e.family, iface |-> e.iface, pct |-> e.pct]
           /\ e.family \in {"ipv4", "ipv6"}
           /\ e.iface \in FamilyIfaces(e.family) \cup {""}
           /\ e.pct \in Share
BY DEF Row, FamilyIfaces

\* The interfaces of a family are configured ones of the family.
LEMMA IfacesOfFamily ==
    ASSUME NEW fam PROVE ifacesByFamily(fam) \in Seq(FamilyIfaces(fam))
<1>1. PICK P : P = {k \in DOMAIN IfaceOrder : FamilyOf[IfaceOrder[k]] = fam}
  OBVIOUS
<1>2. IfaceOrder \in Seq(STRING)
  BY BoundsAssumption
<1>3. Positions(P)
  <2>1. P \in SUBSET DOMAIN IfaceOrder
    BY <1>1
  <2> QED
    BY <1>2, <2>1, SomePositions
<1>4. Within(IfaceOrder, P, FamilyIfaces(fam))
  BY <1>1 DEF Within, FamilyIfaces, ToSet
<1> QED
  BY <1>1, <1>3, <1>4, AtSeq DEF ifacesByFamily

\* The default choice is one of them, or none.
LEMMA FirstIface ==
    ASSUME NEW fam PROVE firstIface(fam) \in FamilyIfaces(fam) \cup {""}
<1>1. PICK s \in Seq(FamilyIfaces(fam)) : s = ifacesByFamily(fam)
  BY IfacesOfFamily
<1>2. s # <<>> => Head(s) \in FamilyIfaces(fam)
  OBVIOUS
<1> QED
  BY <1>1, <1>2 DEF firstIface

\* So is every entry of the interface selector.
LEMMA IfaceChoice ==
    ASSUME NEW fam, NEW i \in ToSet(ifacesByFamily(fam)) PROVE i \in FamilyIfaces(fam)
<1>1. PICK s \in Seq(FamilyIfaces(fam)) : s = ifacesByFamily(fam)
  BY IfacesOfFamily
<1>2. PICK k \in DOMAIN s : i = s[k]
  BY <1>1 DEF ToSet
<1> QED
  BY <1>2

\* One part of a row is replaced.
IsRow(r) == r = [family |-> r.family, iface |-> r.iface, pct |-> r.pct]

\* A record with the fields of a row is one.
LEMMA RowFrom ==
    ASSUME NEW d, IsRow(d), d.family \in {"ipv4", "ipv6"},
           d.iface \in FamilyIfaces(d.family) \cup {""}, d.pct \in Share
    PROVE  d \in Row
<1>1. PICK f, i, v : f = d.family /\ i = d.iface /\ v = d.pct
  OBVIOUS
<1>2. [family |-> f, iface |-> i, pct |-> v] \in Row
  BY <1>1, MakeRow
<1>3. d = [family |-> f, iface |-> i, pct |-> v]
  BY <1>1 DEF IsRow
<1> QED
  BY <1>2, <1>3

\* Its interface, its share or its family is changed.
LEMMA RowIface ==
    ASSUME NEW e \in Row, NEW i \in FamilyIfaces(e.family) \cup {""}
    PROVE  [e EXCEPT !.iface = i] \in Row
<1>1. PICK d : d = [e EXCEPT !.iface = i]
  OBVIOUS
<1>2. IsRow(e)
  BY RowParts DEF IsRow
<1>3. IsRow(d) /\ d.iface = i /\ d.family = e.family /\ d.pct = e.pct
  BY <1>1, <1>2 DEF IsRow
<1>4. d \in Row
  BY <1>3, RowParts, RowFrom
<1> QED
  BY <1>1, <1>4

\* Another share.
LEMMA RowPct ==
    ASSUME NEW e \in Row, NEW v \in Share
    PROVE  [e EXCEPT !.pct = v] \in Row
<1>1. PICK d : d = [e EXCEPT !.pct = v]
  OBVIOUS
<1>2. IsRow(e)
  BY RowParts DEF IsRow
<1>3. IsRow(d) /\ d.iface = e.iface /\ d.family = e.family /\ d.pct = v
  BY <1>1, <1>2 DEF IsRow
<1>4. d \in Row
  BY <1>3, RowParts, RowFrom
<1> QED
  BY <1>1, <1>4

\* Another family, with an interface of it.
LEMMA RowMoved ==
    ASSUME NEW e \in Row, NEW fam \in {"ipv4", "ipv6"}, NEW i \in FamilyIfaces(fam) \cup {""}
    PROVE  [e EXCEPT !.family = fam, !.iface = i] \in Row
<1>1. PICK d : d = [e EXCEPT !.family = fam, !.iface = i]
  OBVIOUS
<1>2. IsRow(e)
  BY RowParts DEF IsRow
<1>3. IsRow(d) /\ d.iface = i /\ d.family = fam /\ d.pct = e.pct
  BY <1>1, <1>2 DEF IsRow
<1>4. d \in Row
  BY <1>3, RowParts, RowFrom
<1> QED
  BY <1>1, <1>4

\* The rendering of a row keeps it a row.
LEMMA FixRow ==
    ASSUME NEW e \in Row PROVE fixRow(e) \in Row
<1>1. firstIface(e.family) \in FamilyIfaces(e.family) \cup {""}
  BY FirstIface
<1>2. [e EXCEPT !.iface = firstIface(e.family)] \in Row
  BY <1>1, RowIface
<1> QED
  BY <1>2 DEF fixRow

\* And so does the rendering of all tiers.
LEMMA FixTiers ==
    ASSUME NEW tiers \in Seq(Seq(Row))
    PROVE  [t \in DOMAIN tiers |-> [k \in DOMAIN tiers[t] |-> fixRow(tiers[t][k])]]
             \in Seq(Seq(Row))
<1>1. PICK n \in Nat : n = Len(tiers)
  OBVIOUS
<1>2. DOMAIN tiers = 1..n /\ \A t \in 1..n : tiers[t] \in Seq(Row)
  BY <1>1
<1>3. ASSUME NEW t \in 1..n
      PROVE  [k \in DOMAIN tiers[t] |-> fixRow(tiers[t][k])] \in Seq(Row)
  <2>1. PICK s \in Seq(Row) : s = tiers[t]
    BY <1>2
  <2>2. Len(s) \in Nat /\ DOMAIN s = 1..Len(s) /\ \A k \in 1..Len(s) : s[k] \in Row
    OBVIOUS
  <2>3. \A k \in 1..Len(s) : fixRow(s[k]) \in Row
    BY <2>2, FixRow
  <2>4. [k \in 1..Len(s) |-> fixRow(s[k])] \in [1..Len(s) -> Row]
    BY <2>3
  <2>5. [k \in 1..Len(s) |-> fixRow(s[k])] \in Seq(Row)
    BY <2>2, <2>4
  <2> QED
    BY <2>1, <2>2, <2>5
<1>4. [t \in 1..n |-> [k \in DOMAIN tiers[t] |-> fixRow(tiers[t][k])]] \in [1..n -> Seq(Row)]
  BY <1>3
<1> QED
  BY <1>2, <1>4


\* Sharing evenly only changes shares.
LEMMA Distribute ==
    ASSUME NEW s \in Seq(Row), NEW fam
    PROVE  distributeEqual(s, fam) \in Seq(Row)
<1>1. PICK pos : pos = {k \in DOMAIN s : s[k].family = fam}
  OBVIOUS
<1>2. PICK n, share, rest : /\ n = Cardinality(pos) /\ share = 100 \div n
                            /\ rest = 100 - share * (n - 1)
  OBVIOUS
<1>3. distributeEqual(s, fam) =
        [k \in DOMAIN s |->
          IF k \notin pos THEN s[k]
          ELSE [s[k] EXCEPT !.pct = IF k = Min(pos) THEN rest ELSE share]]
  BY <1>1, <1>2 DEF distributeEqual
<1>4. PICK l : l \in Nat /\ DOMAIN s = 1..l /\ l = Len(s) /\ \A k \in 1..l : s[k] \in Row
  OBVIOUS
<1>5. ASSUME NEW k \in pos PROVE share \in Share /\ rest \in Share
  <2>1. Positions(pos)
    BY <1>1, SomePositions
  <2>2. n \in Nat /\ n # 0
    BY <1>2, <1>5, <2>1, FS_CardinalityType, FS_EmptySet DEF Positions
  <2> QED
    BY <1>2, <2>2, EvenShares DEF Share
<1>6. ASSUME NEW k \in 1..l
      PROVE  (IF k \notin pos THEN s[k]
              ELSE [s[k] EXCEPT !.pct = IF k = Min(pos) THEN rest ELSE share]) \in Row
  <2>1. PICK e \in Row : e = s[k]
    BY <1>4
  <2>2. k \in pos => [e EXCEPT !.pct = rest] \in Row /\ [e EXCEPT !.pct = share] \in Row
    BY <1>5, RowPct
  <2> QED
    BY <2>1, <2>2
<1>7. PICK d : d = distributeEqual(s, fam)
  OBVIOUS
<1>8. d \in [1..l -> Row]
  BY <1>3, <1>4, <1>6, <1>7
<1> QED
  BY <1>4, <1>7, <1>8, FunctionSeq

\* Removing a row leaves rows.
LEMMA RemoveSeq ==
    ASSUME NEW S, NEW s \in Seq(S), NEW k \in DOMAIN s
    PROVE  RemoveAt(s, k) \in Seq(S)
<1>1. Len(s) \in Nat /\ DOMAIN s = 1..Len(s) /\ k \in Int /\ \A i \in 1..Len(s) : s[i] \in S
  OBVIOUS
<1>2. \A i \in 1..(k - 1) : s[i] \in S
  BY <1>1
<1>3. \A i \in (k + 1)..Len(s) : s[i] \in S
  BY <1>1
<1>4. SubSeq(s, 1, k - 1) \in Seq(S)
  BY <1>1, <1>2, SubSeqProperties
<1>5. SubSeq(s, k + 1, Len(s)) \in Seq(S)
  BY <1>1, <1>3, SubSeqProperties
<1> QED
  BY <1>4, <1>5, ConcatProperties DEF RemoveAt

-----------------------------------------------------------------------------
\* The members of one family of a tier.
Part(s, t, fam) ==
    LET fe == ofFamily(s, fam)
        w  == computeWeights(fe)
    IN [k \in DOMAIN fe |-> [iface |-> fe[k].iface, metric |-> t, weight |-> w[k]]]

\* A tier gives the members of IPv4, then those of IPv6.
LEMMA TwoParts ==
    ASSUME NEW s, NEW t PROVE MembersOfTier(s, t) = Part(s, t, "ipv4") \o Part(s, t, "ipv6")
BY DEF MembersOfTier, Part

\* The rows of one family are rows of the tier, and they are there if one is.
LEMMA OfFamilyElement ==
    ASSUME NEW S, NEW s \in Seq(S), NEW fam, NEW fe, fe = ofFamily(s, fam)
    PROVE  /\ fe \in Seq(S)
           /\ \A k \in DOMAIN fe : \E x \in DOMAIN s : fe[k] = s[x] /\ s[x].family = fam
           /\ \A x \in DOMAIN s : s[x].family = fam => fe # <<>>
<1>1. PICK K : K = {k \in DOMAIN s : s[k].family = fam}
  OBVIOUS
<1>2. Positions(K)
  BY <1>1, SomePositions
<1>3. fe = At(s, K)
  BY <1>1 DEF ofFamily
<1>4. DOMAIN fe = 1..Cardinality(K)
  BY <1>2, <1>3, AtShape
<1>5. ASSUME NEW k \in DOMAIN fe
      PROVE  \E x \in DOMAIN s : fe[k] = s[x] /\ s[x].family = fam
  <2>1. PICK x \in K : x = Increasing(K)[k]
    BY <1>2, <1>4, <1>5, AtShape
  <2>2. fe[k] = s[x]
    BY <1>2, <1>3, <1>4, <1>5, <2>1, AtShape
  <2> QED
    BY <1>1, <2>1, <2>2
<1>6. ASSUME NEW x \in DOMAIN s, s[x].family = fam PROVE fe # <<>>
  <2>1. x \in K
    BY <1>1, <1>6
  <2> QED
    BY <1>2, <1>3, <2>1, AtShape
<1> QED
  BY <1>5, <1>6, OfFamilySeq

\* What the validation asks of a tier: every row has an interface, and the
\* shares of each family make 100.
Chosen(s) == \A k \in DOMAIN s : s[k].iface # ""
Makes100(s, fam) ==
    ofFamily(s, fam) # <<>> =>
        Total([k \in DOMAIN ofFamily(s, fam) |-> ofFamily(s, fam)[k].pct]) = 100
ValidTier(s) ==
    s \in Seq(Row) /\ Chosen(s) /\ Makes100(s, "ipv4") /\ Makes100(s, "ipv6")

\* Its members, and the row a member is read back as.
TierMember(t) == [iface : ToSet(IfaceOrder), metric : {t}, weight : Nat]
WeightOf(a) == Total([k \in DOMAIN a |-> a[k].weight])
RowOf(m, fam, total) == [family |-> fam, iface |-> m.iface, pct |-> RoundShare(m.weight, total)]

\* The members of one family of a valid tier are read back as its rows.
LEMMA PartBack ==
    ASSUME NEW s, ValidTier(s), NEW t, NEW fam \in {"ipv4", "ipv6"},
           NEW a, a = Part(s, t, fam), NEW fe, fe = ofFamily(s, fam), NEW n, n = Len(fe)
    PROVE  /\ n \in Nat /\ DOMAIN fe = 1..n /\ DOMAIN a = 1..n
           /\ a = [k \in 1..n |-> a[k]]
           /\ \A k \in 1..n : /\ a[k] \in TierMember(t)
                             /\ FamilyOf[a[k].iface] = fam
                             /\ fe[k] = RowOf(a[k], fam, WeightOf(a))
<1>1. s \in Seq(Row) /\ Chosen(s) /\ Makes100(s, fam)
  BY DEF ValidTier
<1>2. fe \in Seq(Row)
  BY <1>1, OfFamilyElement
<1>3. n \in Nat /\ DOMAIN fe = 1..n /\ \A k \in 1..n : fe[k] \in Row
  BY <1>2
<1>4. PICK w : w = computeWeights(fe)
  OBVIOUS
<1>5. a = [k \in DOMAIN fe |-> [iface |-> fe[k].iface, metric |-> t, weight |-> w[k]]]
  BY <1>4 DEF Part
<1>6. DOMAIN a = 1..n /\ a = [k \in 1..n |-> a[k]]
  BY <1>3, <1>5
<1>7. ASSUME NEW k \in 1..n
      PROVE  /\ fe[k].family = fam /\ fe[k].iface \in ToSet(IfaceOrder)
             /\ FamilyOf[fe[k].iface] = fam
  <2>1. PICK x \in DOMAIN s : fe[k] = s[x] /\ s[x].family = fam
    BY <1>1, <1>3, OfFamilyElement
  <2>2. fe[k].iface # "" /\ fe[k].family = fam
    BY <1>1, <2>1 DEF Chosen
  <2>3. fe[k].iface \in FamilyIfaces(fam) \cup {""}
    BY <1>3, <2>2, RowParts
  <2> QED
    BY <2>2, <2>3 DEF FamilyIfaces
<1>8. ASSUME n # 0
      PROVE  Numbers(w, n) /\ \A k \in 1..n : RoundShare(w[k], Total(w)) = fe[k].pct
  <2>1. PICK f : f = [k \in DOMAIN fe |-> fe[k].pct]
    OBVIOUS
  <2>2. fe # <<>>
    BY <1>2, <1>8
  <2>3. Total(f) = 100
    BY <1>1, <2>1, <2>2 DEF Makes100
  <2>4. f \in [1..n -> Share]
    <3>1. \A k \in 1..n : fe[k].pct \in Share
      BY <1>3, RowParts
    <3> QED
      BY <1>3, <2>1, <3>1
  <2>5. Numbers(f, n)
    BY <1>3, <2>3, <2>4, SharesMake100
  <2>6. Pcts(fe, f)
    BY <2>1 DEF Pcts
  <2>7. Numbers(w, n) /\ \A k \in 1..n : RoundShare(w[k], Total(w)) = f[k]
    BY <1>2, <1>4, <1>8, <2>3, <2>5, <2>6, WeightsBack
  <2>8. \A k \in 1..n : f[k] = fe[k].pct
    BY <1>3, <2>1
  <2> QED
    BY <2>7, <2>8
<1>9. ASSUME NEW k \in 1..n
      PROVE  /\ a[k] \in TierMember(t)
             /\ FamilyOf[a[k].iface] = fam
             /\ fe[k] = RowOf(a[k], fam, WeightOf(a))
  <2>1. n # 0
    BY <1>3, <1>9
  <2>2. Numbers(w, n) /\ RoundShare(w[k], Total(w)) = fe[k].pct
    BY <1>8, <1>9, <2>1
  <2>3. PICK i, u, f : i = fe[k].iface /\ u = w[k] /\ f = fe[k]
    OBVIOUS
  <2>4. a[k] = [iface |-> i, metric |-> t, weight |-> u]
    BY <1>3, <1>5, <2>3
  <2>5. i \in ToSet(IfaceOrder) /\ FamilyOf[i] = fam /\ f.family = fam /\ f \in Row
    BY <1>3, <1>7, <2>3
  <2>6. u \in Nat
    BY <2>2, <2>3 DEF Numbers
  <2>7. a[k] \in TierMember(t) /\ a[k].iface = i /\ a[k].weight = u
    BY <2>4, <2>5, <2>6 DEF TierMember
  <2>8. WeightOf(a) = Total(w)
    <3>1. \A j \in 1..n : a[j].weight = w[j]
      BY <1>3, <1>5
    <3>2. [j \in DOMAIN a |-> a[j].weight] = [j \in 1..n |-> w[j]]
      BY <1>6, <3>1
    <3>3. w = [j \in 1..n |-> w[j]]
      BY <2>2 DEF Numbers
    <3> QED
      BY <3>2, <3>3 DEF WeightOf
  <2>9. PICK v : v = RoundShare(u, Total(w))
    OBVIOUS
  <2>10. f.pct = v /\ f.iface = i
    BY <2>2, <2>3, <2>9
  <2>11. f = [family |-> fam, iface |-> i, pct |-> v]
    BY <2>5, <2>10, RowParts
  <2>12. RowOf(a[k], fam, WeightOf(a)) = [family |-> fam, iface |-> i, pct |-> v]
    BY <2>7, <2>8, <2>9 DEF RowOf
  <2> QED
    BY <2>3, <2>5, <2>7, <2>11, <2>12
<1> QED
  BY <1>3, <1>6, <1>9

\* The members of a tier take their interfaces from its rows and the tier as
\* their metric; a tier with rows has members.
LEMMA TierMembers ==
    ASSUME NEW s, ValidTier(s), NEW t, NEW ms, ms = MembersOfTier(s, t)
    PROVE  /\ ms \in Seq(TierMember(t))
           /\ s # <<>> => Len(ms) # 0
           /\ s = <<>> => Len(ms) = 0
<1>1. PICK a, b, f, g, p, q :
        /\ a = Part(s, t, "ipv4") /\ b = Part(s, t, "ipv6")
        /\ f = ofFamily(s, "ipv4") /\ g = ofFamily(s, "ipv6")
        /\ p = Len(f) /\ q = Len(g)
  OBVIOUS
<1>2. /\ p \in Nat /\ DOMAIN f = 1..p /\ DOMAIN a = 1..p /\ a = [k \in 1..p |-> a[k]]
      /\ \A k \in 1..p : a[k] \in TierMember(t)
  BY <1>1, PartBack
<1>3. /\ q \in Nat /\ DOMAIN g = 1..q /\ DOMAIN b = 1..q /\ b = [k \in 1..q |-> b[k]]
      /\ \A k \in 1..q : b[k] \in TierMember(t)
  BY <1>1, PartBack
<1>4. PICK S : S = TierMember(t)
  OBVIOUS
<1>5. a \in Seq(S) /\ Len(a) = p
  BY <1>2, <1>4, FunctionSeq
<1>6. b \in Seq(S) /\ Len(b) = q
  BY <1>3, <1>4, FunctionSeq
<1>7. ms = a \o b
  BY <1>1, TwoParts
<1>8. ms \in Seq(S) /\ Len(ms) = p + q
  BY <1>5, <1>6, <1>7, ConcatProperties
<1>9. s \in Seq(Row)
  BY DEF ValidTier
<1>10. ASSUME s # <<>> PROVE Len(ms) # 0
  <2>0. Len(s) \in Nat /\ DOMAIN s = 1..Len(s) /\ Len(s) # 0
    BY <1>9, <1>10, EmptySeq
  <2>1. PICK k \in DOMAIN s : TRUE
    BY <2>0
  <2>2. PICK e \in Row : e = s[k]
    BY <1>9
  <2>3. s[k].family \in {"ipv4", "ipv6"}
    BY <2>2, RowParts
  <2>4. f # <<>> \/ g # <<>>
    BY <1>1, <1>9, <2>3, OfFamilyElement
  <2>5. f \in Seq(Row) /\ g \in Seq(Row)
    BY <1>1, <1>9, OfFamilySeq
  <2>6. p # 0 \/ q # 0
    BY <1>1, <2>4, <2>5, EmptySeq
  <2> QED
    BY <1>2, <1>3, <1>8, <2>6
<1>11. ASSUME s = <<>> PROVE Len(ms) = 0
  <2>1. DOMAIN s = {}
    BY <1>11
  <2>2. DOMAIN f = {} /\ DOMAIN g = {}
    BY <1>1, <1>9, <2>1, OfFamilyElement
  <2>3. p = 0 /\ q = 0
    BY <1>2, <1>3, <2>2
  <2> QED
    BY <1>8, <2>3
<1> QED
  BY <1>4, <1>8, <1>10, <1>11

\* What the page's table says of a member.
InfoOf(m) == [iface |-> m.iface, metric |-> m.metric, weight |-> m.weight,
              family |-> FamilyOf[m.iface]]
Infos(h, ms) == h = [k \in DOMAIN ms |-> InfoOf(ms[k])]

\* The members of one family of a tier, looked up, are read as its rows.
LEMMA HalfBack ==
    ASSUME NEW s, ValidTier(s), NEW t, NEW fam \in {"ipv4", "ipv6"},
           NEW a, a = Part(s, t, fam), NEW A, Infos(A, a), NEW h, ofFamily(h, fam) = A
    PROVE  EntriesOf(h, fam) = ofFamily(s, fam)
<1>1. PICK fe, n : fe = ofFamily(s, fam) /\ n = Len(fe)
  OBVIOUS
<1>2. /\ n \in Nat /\ DOMAIN fe = 1..n /\ DOMAIN a = 1..n
      /\ \A k \in 1..n : fe[k] = RowOf(a[k], fam, WeightOf(a))
  BY <1>1, PartBack
<1>3. A = [k \in 1..n |-> InfoOf(a[k])]
  BY <1>2 DEF Infos
<1>4. DOMAIN A = 1..n /\ \A k \in 1..n : A[k].iface = a[k].iface /\ A[k].weight = a[k].weight
  BY <1>3 DEF InfoOf
<1>5. PICK total : total = Total([k \in DOMAIN A |-> A[k].weight])
  OBVIOUS
<1>6. total = WeightOf(a)
  <2>1. [k \in DOMAIN A |-> A[k].weight] = [k \in DOMAIN a |-> a[k].weight]
    BY <1>2, <1>4
  <2> QED
    BY <1>5, <2>1 DEF WeightOf
<1>7. EntriesOf(h, fam) = [k \in DOMAIN A |-> [family |-> fam, iface |-> A[k].iface,
                                             pct |-> RoundShare(A[k].weight, total)]]
  BY <1>5 DEF EntriesOf
<1>8. PICK x : x = EntriesOf(h, fam)
  OBVIOUS
<1>9. x = [k \in 1..n |-> RowOf(a[k], fam, total)]
  BY <1>4, <1>7, <1>8 DEF RowOf
<1>10. fe \in Seq(Row)
  BY <1>1, OfFamilySeq DEF ValidTier
<1>11. fe = [k \in 1..n |-> fe[k]]
  BY <1>2, <1>10
<1>12. x = fe
  BY <1>2, <1>6, <1>9, <1>11
<1> QED
  BY <1>1, <1>8, <1>12

\* The members of a valid tier are read back as its rows, family by family.
LEMMA TierBack ==
    ASSUME NEW s, ValidTier(s), NEW t, NEW ms, ms = MembersOfTier(s, t),
           NEW h, Infos(h, ms), NEW fam \in {"ipv4", "ipv6"}
    PROVE  EntriesOf(h, fam) = ofFamily(s, fam)
<1>1. PICK a, b, f, g, p, q :
        /\ a = Part(s, t, "ipv4") /\ b = Part(s, t, "ipv6")
        /\ f = ofFamily(s, "ipv4") /\ g = ofFamily(s, "ipv6")
        /\ p = Len(f) /\ q = Len(g)
  OBVIOUS
<1>2. /\ p \in Nat /\ DOMAIN a = 1..p /\ a = [k \in 1..p |-> a[k]]
      /\ \A k \in 1..p : FamilyOf[a[k].iface] = "ipv4"
  BY <1>1, PartBack
<1>3. /\ q \in Nat /\ DOMAIN b = 1..q /\ b = [k \in 1..q |-> b[k]]
      /\ \A k \in 1..q : FamilyOf[b[k].iface] = "ipv6"
  BY <1>1, PartBack
<1>4. ms = a \o b
  BY <1>1, TwoParts
<1>5. /\ DOMAIN ms = 1..(p + q)
      /\ \A k \in 1..p : ms[k] = a[k]
      /\ \A k \in 1..q : ms[p + k] = b[k]
  BY <1>2, <1>3, <1>4, Joined
<1>6. PICK A, B : /\ A = [k \in 1..p |-> InfoOf(a[k])]
                  /\ B = [k \in 1..q |-> InfoOf(b[k])]
  OBVIOUS
<1>7. Infos(A, a) /\ Infos(B, b)
  BY <1>2, <1>3, <1>6 DEF Infos
<1>8. OneFamily(A, p, "ipv4")
  <2>1. A = [k \in 1..p |-> A[k]]
    BY <1>6
  <2>2. \A k \in 1..p : A[k].family = "ipv4"
    BY <1>2, <1>6 DEF InfoOf
  <2> QED
    BY <1>2, <2>1, <2>2 DEF OneFamily
<1>9. OneFamily(B, q, "ipv6")
  <2>1. B = [k \in 1..q |-> B[k]]
    BY <1>6
  <2>2. \A k \in 1..q : B[k].family = "ipv6"
    BY <1>3, <1>6 DEF InfoOf
  <2> QED
    BY <1>3, <2>1, <2>2 DEF OneFamily
<1>10. h = A \o B
  <2>1. PICK j : j = A \o B
    OBVIOUS
  <2>2. /\ DOMAIN j = 1..(p + q)
        /\ \A k \in 1..p : j[k] = A[k]
        /\ \A k \in 1..q : j[p + k] = B[k]
    BY <1>2, <1>3, <1>8, <1>9, <2>1, Joined DEF OneFamily
  <2>3. h = [k \in 1..(p + q) |-> InfoOf(ms[k])]
    BY <1>5 DEF Infos
  <2>4. ASSUME NEW k \in 1..(p + q) PROVE h[k] = j[k]
    <3>1. CASE k \in 1..p
      BY <1>5, <1>6, <2>2, <2>3, <3>1
    <3>2. CASE k \notin 1..p
      <4>1. PICK i \in 1..q : k = p + i
        <5>1. k - p \in 1..q /\ k = p + (k - p)
          BY <1>2, <1>3, <3>2
        <5> QED
          BY <5>1
      <4> QED
        BY <1>5, <1>6, <2>2, <2>3, <4>1
    <3> QED
      BY <3>1, <3>2
  <2>5. j = [k \in 1..(p + q) |-> j[k]]
    <3>1. IsList(A, p) /\ IsList(B, q)
      BY <1>8, <1>9 DEF OneFamily, IsList
    <3>2. IsList(j, p + q)
      BY <2>1, <3>1, JoinedList
    <3> QED
      BY <3>2 DEF IsList
  <2> QED
    BY <2>1, <2>3, <2>4, <2>5
<1>11. ofFamily(h, "ipv4") = A /\ ofFamily(h, "ipv6") = B
  BY <1>8, <1>9, <1>10, Halves
<1>12. CASE fam = "ipv4"
  BY <1>1, <1>7, <1>11, <1>12, HalfBack
<1>13. CASE fam = "ipv6"
  BY <1>1, <1>7, <1>11, <1>13, HalfBack
<1> QED
  BY <1>12, <1>13

\* A sequence is the list of its elements.
LEMMA SeqIsList ==
    ASSUME NEW S, NEW s \in Seq(S) PROVE IsList(s, Len(s)) /\ DOMAIN s = 1..Len(s)
<1>1. Len(s) \in Nat /\ s = [k \in 1..Len(s) |-> s[k]] /\ DOMAIN s = 1..Len(s)
  OBVIOUS
<1> QED
  BY <1>1 DEF IsList

NoMetric(a, p, t) == \A k \in 1..p : a[k].metric # t
OnlyMetric(a, p, t) == \A k \in 1..p : a[k].metric = t

\* A list of one metric, and lists one after the other of which one has the
\* metric.
LEMMA AllOfMetric ==
    ASSUME NEW a, NEW p, IsList(a, p), NEW t, OnlyMetric(a, p, t)
    PROVE  withMetric(a, t) = a
<1>1. DOMAIN a = 1..p
  BY DEF IsList
<1>2. {k \in DOMAIN a : a[k].metric = t} = 1..p
  BY <1>1 DEF OnlyMetric
<1> QED
  BY <1>2, AtAll DEF withMetric

\* Only the first has it.
LEMMA LeftOfMetric ==
    ASSUME NEW a, NEW p, IsList(a, p), NEW b, NEW q, IsList(b, q), NEW t, NoMetric(b, q, t)
    PROVE  withMetric(a \o b, t) = withMetric(a, t)
<1>0. /\ p \in Nat /\ a = [k \in 1..p |-> a[k]] /\ q \in Nat /\ b = [k \in 1..q |-> b[k]]
      /\ DOMAIN a = 1..p
  BY DEF IsList
<1>1. PICK s : s = a \o b
  OBVIOUS
<1>2. /\ DOMAIN s = 1..(p + q)
      /\ \A k \in 1..p : s[k] = a[k]
      /\ \A k \in 1..q : s[p + k] = b[k]
  BY <1>0, <1>1, Joined
<1>3. \A i \in 1..(p + q) : i \in 1..p \/ (i - p \in 1..q /\ i = p + (i - p))
  BY <1>0
<1>4. \A i \in 1..(p + q) : i \notin 1..p => s[i].metric # t
  BY <1>0, <1>2, <1>3 DEF NoMetric
<1>5. PICK K \in SUBSET (1..p) : K = {k \in DOMAIN a : a[k].metric = t}
  BY <1>0
<1>6. {k \in DOMAIN s : s[k].metric = t} = K
  BY <1>0, <1>2, <1>4, <1>5
<1>7. At(a \o b, K) = At(a, K)
  BY AtLeft
<1>8. At(s, K) = At(a, K)
  BY <1>1, <1>7
<1>9. withMetric(s, t) = At(s, K) /\ withMetric(a, t) = At(a, K)
  BY <1>5, <1>6 DEF withMetric
<1> QED
  BY <1>1, <1>8, <1>9

\* Only the second has it.
LEMMA RightOfMetric ==
    ASSUME NEW a, NEW p, IsList(a, p), NEW b, NEW q, IsList(b, q), NEW t,
           NoMetric(a, p, t), OnlyMetric(b, q, t)
    PROVE  withMetric(a \o b, t) = b
<1>0. p \in Nat /\ a = [k \in 1..p |-> a[k]] /\ q \in Nat /\ b = [k \in 1..q |-> b[k]]
  BY DEF IsList
<1>1. PICK s, K : s = a \o b /\ K = (p + 1)..(p + q)
  OBVIOUS
<1>2. /\ DOMAIN s = 1..(p + q)
      /\ \A k \in 1..p : s[k] = a[k]
      /\ \A k \in 1..q : s[p + k] = b[k]
  BY <1>0, <1>1, Joined
<1>3. \A i \in 1..(p + q) : i \in 1..p \/ (i - p \in 1..q /\ i = p + (i - p))
  BY <1>0
<1>4. \A i \in 1..(p + q) : i \notin 1..p => s[i].metric = t
  BY <1>0, <1>2, <1>3 DEF OnlyMetric
<1>5. \A i \in 1..p : s[i].metric # t
  BY <1>2 DEF NoMetric
<1>6. \A i : i \in K <=> i \in 1..(p + q) /\ i \notin 1..p
  BY <1>0, <1>1
<1>7. {k \in DOMAIN s : s[k].metric = t} = K
  BY <1>2, <1>4, <1>5, <1>6
<1>8. At(s, K) = b
  BY <1>1, AtRight
<1> QED
  BY <1>1, <1>7, <1>8 DEF withMetric

\* Tier after tier of members, each of its own metric.
AnyMember == [iface : ToSet(IfaceOrder), metric : Nat, weight : Nat]
TierLists(M, n) == n \in Nat /\ Len(M) = n /\ \A t \in 1..n : M[t] \in Seq(TierMember(t))

\* The members of a tier all have its metric.
LEMMA TierIsList ==
    ASSUME NEW t \in Nat, NEW b \in Seq(TierMember(t)), NEW q, q = Len(b)
    PROVE  b \in Seq(AnyMember) /\ IsList(b, q) /\ OnlyMetric(b, q, t)
<1>1. PICK S : S = TierMember(t)
  OBVIOUS
<1>2. q \in Nat /\ b \in [1..q -> S]
  BY <1>1
<1>3. S \subseteq AnyMember /\ \A m \in S : m.metric = t
  BY <1>1 DEF TierMember, AnyMember
<1>4. b \in [1..q -> AnyMember]
  BY <1>2, <1>3
<1>5. b \in Seq(AnyMember)
  BY <1>2, <1>4, FunctionSeq
<1>6. IsList(b, q)
  BY SeqIsList
<1>7. OnlyMetric(b, q, t)
  BY <1>2, <1>3 DEF OnlyMetric
<1> QED
  BY <1>5, <1>6, <1>7

\* Of a flattened list of tiers each is found again by its metric.
Upto(s, i) == \A k \in DOMAIN s : s[k].metric \in 1..i
Sorted(s, M, i) == \A t \in 1..i : withMetric(s, t) = M[t]

\* The flattened members of one tier, and of one tier more.
LEMMA FirstTier ==
    ASSUME NEW M, NEW b, b \in Seq(TierMember(1)), M[1] = b
    PROVE  b \in Seq(AnyMember) /\ Upto(b, 1) /\ Sorted(b, M, 1)
<1>1. PICK q : q = Len(b)
  OBVIOUS
<1>2. b \in Seq(AnyMember) /\ IsList(b, q) /\ OnlyMetric(b, q, 1)
  BY <1>1, TierIsList
<1>3. DOMAIN b = 1..q
  BY <1>1, <1>2, SeqIsList
<1>4. withMetric(b, 1) = b
  BY <1>2, AllOfMetric
<1>5. Upto(b, 1)
  BY <1>2, <1>3 DEF Upto, OnlyMetric
<1>6. Sorted(b, M, 1)
  BY <1>4 DEF Sorted
<1> QED
  BY <1>2, <1>5, <1>6

\* Tier m comes after the tiers before it and leaves their slices alone.
LEMMA NextTier ==
    ASSUME NEW M, NEW i \in Nat, NEW m \in Nat, i = m - 1,
           NEW a \in Seq(AnyMember), Upto(a, i), Sorted(a, M, i),
           NEW b, b \in Seq(TierMember(m)), M[m] = b
    PROVE  a \o b \in Seq(AnyMember) /\ Upto(a \o b, m) /\ Sorted(a \o b, M, m)
<1>1. PICK p, q : p = Len(a) /\ q = Len(b)
  OBVIOUS
<1>2. b \in Seq(AnyMember) /\ IsList(b, q) /\ OnlyMetric(b, q, m)
  BY <1>1, TierIsList
<1>3. IsList(a, p) /\ DOMAIN a = 1..p /\ DOMAIN b = 1..q
  BY <1>1, <1>2, SeqIsList
<1>4. NoMetric(a, p, m)
  BY <1>3 DEF NoMetric, Upto
<1>5. a \o b \in Seq(AnyMember)
  BY <1>2, ConcatProperties
<1>6. withMetric(a \o b, m) = b
  BY <1>2, <1>3, <1>4, RightOfMetric
<1>7. ASSUME NEW t \in 1..i PROVE withMetric(a \o b, t) = M[t]
  <2>1. NoMetric(b, q, t)
    BY <1>2 DEF NoMetric, OnlyMetric
  <2>2. withMetric(a \o b, t) = withMetric(a, t)
    BY <1>2, <1>3, <2>1, LeftOfMetric
  <2>3. withMetric(a, t) = M[t]
    BY DEF Sorted
  <2> QED
    BY <2>2, <2>3
<1>8. Sorted(a \o b, M, m)
  <2>1. \A t \in 1..m : t = m \/ t \in 1..i
    OBVIOUS
  <2> QED
    BY <1>6, <1>7, <2>1 DEF Sorted
<1>9. Upto(a \o b, m)
  <2>0. p \in Nat /\ a = [k \in 1..p |-> a[k]] /\ q \in Nat /\ b = [k \in 1..q |-> b[k]]
    BY <1>2, <1>3 DEF IsList
  <2>1. PICK s : s = a \o b
    OBVIOUS
  <2>2. /\ DOMAIN s = 1..(p + q)
        /\ \A k \in 1..p : s[k] = a[k]
        /\ \A k \in 1..q : s[p + k] = b[k]
    BY <2>0, <2>1, Joined
  <2>3. ASSUME NEW k \in 1..(p + q) PROVE s[k].metric \in 1..m
    <3>1. CASE k \in 1..p
      <4>1. a[k].metric \in 1..i
        BY <1>3, <3>1 DEF Upto
      <4> QED
        BY <2>2, <3>1, <4>1
    <3>2. CASE k \notin 1..p
      <4>1. k - p \in 1..q /\ k = p + (k - p)
        BY <2>0, <3>2
      <4>2. PICK j \in 1..q : k = p + j
        BY <4>1
      <4>3. b[j].metric = m
        BY <1>2 DEF OnlyMetric
      <4>4. s[k] = b[j]
        BY <2>2, <4>2
      <4> QED
        BY <4>3, <4>4
    <3> QED
      BY <3>1, <3>2
  <2> QED
    BY <2>1, <2>2, <2>3 DEF Upto
<1> QED
  BY <1>5, <1>8, <1>9

\* The members of tier t are those of metric t in the flattened list.
LEMMA FlattenedTiers ==
    ASSUME NEW M, NEW n, TierLists(M, n), n # 0, NEW w, w = FlattenSeq(M)
    PROVE  w \in Seq(AnyMember) /\ Upto(w, n) /\ Sorted(w, M, n)
<1>1. n \in Nat /\ Len(M) = n /\ \A t \in 1..n : M[t] \in Seq(TierMember(t))
  BY DEF TierLists
<1>2. PICK f : Joins(f, M, n) /\ w = f[n]
  BY <1>1, JoinsExist, FlattenIsJoined
<1>3. f = [i \in 1..n |-> IF i = 1 THEN M[i] ELSE f[i - 1] \o M[i]]
  BY <1>2 DEF Joins
<1> DEFINE Good(i) == f[i] \in Seq(AnyMember) /\ Upto(f[i], i) /\ Sorted(f[i], M, i)
           T == {i \in 1..n : ~Good(i)}
<1>4. T = {}
  <2> SUFFICES ASSUME T # {} PROVE FALSE
    OBVIOUS
  <2>1. PICK m \in T : \A y \in T : m <= y
    <3>1. T \subseteq Nat
      OBVIOUS
    <3> HIDE DEF T
    <3> QED
      BY <3>1, LeastNatural
  <2>2. m \in 1..n /\ m \in Nat /\ M[m] \in Seq(TierMember(m))
    BY <1>1
  <2>3. CASE m = 1
    <3>1. f[m] = M[m]
      BY <1>3, <2>2, <2>3
    <3>2. PICK b : b = M[m]
      OBVIOUS
    <3>3. b \in Seq(TierMember(1)) /\ M[1] = b
      BY <2>2, <2>3, <3>2
    <3>4. b \in Seq(AnyMember) /\ Upto(b, 1) /\ Sorted(b, M, 1)
      BY <3>3, FirstTier
    <3>5. Good(m)
      BY <2>3, <3>1, <3>2, <3>4
    <3> QED
      BY <3>5
  <2>4. CASE m # 1
    <3>1. PICK i \in Nat : i = m - 1
      BY <2>2
    <3>2. i \in 1..n /\ i \notin T
      BY <1>1, <2>1, <2>2, <2>4, <3>1
    <3>3. Good(i)
      BY <3>2
    <3>4. PICK a, b : a = f[i] /\ b = M[m]
      OBVIOUS
    <3>5. f[m] = a \o b
      BY <1>3, <2>2, <2>4, <3>1, <3>4
    <3>6. a \in Seq(AnyMember) /\ Upto(a, i) /\ Sorted(a, M, i) /\ b \in Seq(TierMember(m))
      BY <2>2, <3>3, <3>4
    <3>7. a \o b \in Seq(AnyMember) /\ Upto(a \o b, m) /\ Sorted(a \o b, M, m)
      BY <2>2, <3>1, <3>4, <3>6, NextTier
    <3>8. Good(m)
      BY <3>5, <3>7
    <3> QED
      BY <3>8
  <2> QED
    BY <2>3, <2>4
<1>5. Good(n)
  <2>1. n \in 1..n
    BY <1>1
  <2> QED
    BY <1>4, <2>1
<1> QED
  BY <1>2, <1>5

\* A tier with the IPv4 rows first.
GroupOf(s) == ofFamily(s, "ipv4") \o ofFamily(s, "ipv6")

\* The rows of one family of a tier.
LEMMA OneFamilyRows ==
    ASSUME NEW s \in Seq(Row), NEW fam, NEW f, f = ofFamily(s, fam), NEW p, p = Len(f)
    PROVE  OneFamily(f, p, fam) /\ f \in Seq(Row)
<1>1. f \in Seq(Row) /\ \A k \in DOMAIN f : \E x \in DOMAIN s : f[k] = s[x] /\ s[x].family = fam
  BY OfFamilyElement
<1>2. p \in Nat /\ f = [k \in 1..p |-> f[k]] /\ DOMAIN f = 1..p
  BY <1>1, SeqIsList DEF IsList
<1> QED
  BY <1>1, <1>2 DEF OneFamily

\* Grouping rows by family loses none, and a second time changes nothing.
LEMMA Grouped ==
    ASSUME NEW s \in Seq(Row), NEW g, g = GroupOf(s)
    PROVE  /\ g \in Seq(Row)
           /\ g # <<>> <=> s # <<>>
           /\ GroupOf(g) = g
<1>1. PICK a, b : a = ofFamily(s, "ipv4") /\ b = ofFamily(s, "ipv6")
  OBVIOUS
<1>2. PICK p, q : p = Len(a) /\ q = Len(b)
  OBVIOUS
<1>3. OneFamily(a, p, "ipv4") /\ a \in Seq(Row)
  BY <1>1, <1>2, OneFamilyRows
<1>4. OneFamily(b, q, "ipv6") /\ b \in Seq(Row)
  BY <1>1, <1>2, OneFamilyRows
<1>5. g = a \o b
  BY <1>1 DEF GroupOf
<1>6. ofFamily(g, "ipv4") = a /\ ofFamily(g, "ipv6") = b
  BY <1>3, <1>4, <1>5, Halves
<1>7. GroupOf(g) = g
  BY <1>5, <1>6 DEF GroupOf
<1>8. g \in Seq(Row) /\ Len(g) = p + q
  BY <1>2, <1>3, <1>4, <1>5, ConcatProperties
<1>9. p \in Nat /\ q \in Nat
  BY <1>3, <1>4 DEF OneFamily
<1>10. ASSUME s # <<>> PROVE g # <<>>
  <2>a. s \in Seq(Row)
    OBVIOUS
  <2>b. Len(s) \in Nat \ {0}
    BY Zenon, <1>10, <2>a, EmptySeq
  <2>c. DOMAIN s = 1..Len(s)
    BY <2>a, SeqIsList
  <2>0. Len(s) \in Nat /\ DOMAIN s = 1..Len(s) /\ Len(s) # 0
    BY <2>b, <2>c
  <2>d. 1 \in DOMAIN s
    BY <2>0
  <2>1. PICK k \in DOMAIN s : TRUE
    BY <2>d
  <2>2. PICK e \in Row : e = s[k]
    OBVIOUS
  <2>3. s[k].family \in {"ipv4", "ipv6"}
    BY <2>2, RowParts
  <2>4. a # <<>> \/ b # <<>>
    BY <1>1, <2>3, OfFamilyElement
  <2>6. p # 0 \/ q # 0
    BY <1>2, <1>3, <1>4, <2>4, EmptySeq
  <2>7. Len(g) # 0
    BY <1>8, <1>9, <2>6
  <2> QED
    BY <1>8, <2>7, EmptySeq
<1>11. ASSUME s = <<>> PROVE g = <<>>
  <2>1. DOMAIN s = {}
    BY <1>11
  <2>2. DOMAIN a = {} /\ DOMAIN b = {}
    BY <1>1, <2>1, OfFamilyElement
  <2>3. DOMAIN a = 1..p /\ DOMAIN b = 1..q
    BY <1>2, <1>3, <1>4, SeqIsList
  <2>4. p = 0 /\ q = 0
    BY <1>9, <2>2, <2>3
  <2>5. Len(g) = 0
    BY <1>8, <2>4
  <2> QED
    BY <1>8, <2>5, EmptySeq
<1> QED
  BY <1>7, <1>8, <1>10, <1>11

Groups(G, tiers) == G = [t \in DOMAIN tiers |-> GroupOf(tiers[t])]
Filled(T, tiers) == T = {t \in DOMAIN tiers : tiers[t] # <<>>}

\* What a property compares of the drawn tiers: the grouped ones with rows.
LEMMA DrawnGroups ==
    ASSUME NEW tiers \in Seq(Seq(Row)), NEW G, Groups(G, tiers), NEW T, Filled(T, tiers)
    PROVE  EntriesByFamily(tiers) = At(G, T)
<1>1. PICK n \in Nat : n = Len(tiers)
  OBVIOUS
<1>2. DOMAIN tiers = 1..n /\ \A t \in 1..n : tiers[t] \in Seq(Row)
  BY <1>1
<1>3. G = [t \in 1..n |-> GroupOf(tiers[t])]
  BY <1>2 DEF Groups
<1>4. ASSUME NEW t \in 1..n PROVE G[t] # <<>> <=> tiers[t] # <<>>
  <2>1. PICK s \in Seq(Row) : s = tiers[t]
    BY <1>2
  <2>2. G[t] = GroupOf(s)
    BY <1>3, <2>1
  <2> QED
    BY <2>1, <2>2, Grouped
<1>5. {t \in DOMAIN G : G[t] # <<>>} = T
  BY <1>2, <1>3, <1>4 DEF Filled
<1>6. EntriesByFamily(tiers) = NonEmpty(G)
  BY DEF EntriesByFamily, Groups, GroupOf
<1>7. NonEmpty(G) = At(G, T)
  BY <1>5 DEF NonEmpty
<1> QED
  BY <1>6, <1>7

\* Drawn again, what was drawn stays.
LEMMA GroupsAgain ==
    ASSUME NEW tiers \in Seq(Seq(Row)), NEW G, Groups(G, tiers), NEW T, Filled(T, tiers),
           NEW X, X = At(G, T)
    PROVE  EntriesByFamily(X) = X
<1>1. PICK n \in Nat : n = Len(tiers)
  OBVIOUS
<1>2. DOMAIN tiers = 1..n /\ \A t \in 1..n : tiers[t] \in Seq(Row)
  BY <1>1
<1>3. G = [t \in 1..n |-> GroupOf(tiers[t])]
  BY <1>2 DEF Groups
<1>4. Positions(T)
  <2>1. T \in SUBSET (1..n) /\ IsFiniteSet(1..n)
    BY <1>2, FS_Interval DEF Filled
  <2>2. IsFiniteSet(T)
    BY <2>1, FS_Subset
  <2> QED
    BY <2>1, <2>2 DEF Positions
<1>5. PICK c : c = Cardinality(T)
  OBVIOUS
<1>6. c \in Nat /\ DOMAIN X = 1..c
  BY <1>4, <1>5, AtShape
<1>7. ASSUME NEW k \in 1..c PROVE X[k] # <<>> /\ GroupOf(X[k]) = X[k]
  <2>1. PICK x \in T : x = Increasing(T)[k]
    BY <1>4, <1>5, AtShape
  <2>2. X[k] = G[x]
    BY <1>4, <1>5, <2>1, AtShape
  <2>3. x \in 1..n /\ tiers[x] # <<>>
    BY <1>2, <2>1 DEF Filled
  <2>4. PICK s \in Seq(Row) : s = tiers[x]
    BY <1>2, <2>3
  <2>5. G[x] = GroupOf(s)
    BY <1>3, <2>3, <2>4
  <2>6. PICK g : g = GroupOf(s)
    OBVIOUS
  <2>7. g # <<>> /\ GroupOf(g) = g
    BY <2>3, <2>4, <2>6, Grouped
  <2> QED
    BY <2>2, <2>5, <2>6, <2>7
<1>8. X = [k \in DOMAIN X |-> X[k]]
  BY DEF At
<1>9. IsList(X, c)
  BY <1>6, <1>8 DEF IsList
<1>10. [k \in DOMAIN X |-> GroupOf(X[k])] = X
  <2>1. [k \in 1..c |-> GroupOf(X[k])] = [k \in 1..c |-> X[k]]
    BY <1>7
  <2> QED
    BY <1>6, <1>8, <2>1
<1>11. EntriesByFamily(X) = NonEmpty(X)
  <2>1. EntriesByFamily(X) = NonEmpty([k \in DOMAIN X |-> GroupOf(X[k])])
    BY DEF EntriesByFamily, GroupOf
  <2> QED
    BY <1>10, <2>1
<1>12. {k \in DOMAIN X : X[k] # <<>>} = 1..c
  BY <1>6, <1>7
<1>13. At(X, 1..c) = X
  BY <1>9, AtAll
<1> QED
  BY <1>11, <1>12, <1>13 DEF NonEmpty

\* The tiers of a state without errors, and the members of each.
ValidTiers(tiers) == tiers \in Seq(Seq(Row)) /\ \A t \in DOMAIN tiers : ValidTier(tiers[t])
HasRow(tiers) == \E t \in DOMAIN tiers : tiers[t] # <<>>
TierMs(M, tiers) == M = [t \in DOMAIN tiers |-> MembersOfTier(tiers[t], t)]

\* Every tier with rows gives members with its metric, and no other does.
LEMMA TiersMembers ==
    ASSUME NEW tiers, ValidTiers(tiers), NEW n, n = Len(tiers), NEW M, TierMs(M, tiers)
    PROVE  /\ TierLists(M, n) /\ DOMAIN tiers = 1..n
           /\ \A t \in 1..n : M[t] # <<>> <=> tiers[t] # <<>>
<1>1. tiers \in Seq(Seq(Row)) /\ \A t \in DOMAIN tiers : ValidTier(tiers[t])
  BY DEF ValidTiers
<1>2. n \in Nat /\ DOMAIN tiers = 1..n
  BY <1>1
<1>3. M = [t \in 1..n |-> MembersOfTier(tiers[t], t)]
  BY <1>2 DEF TierMs
<1>4. ASSUME NEW t \in 1..n
      PROVE  M[t] \in Seq(TierMember(t)) /\ (M[t] # <<>> <=> tiers[t] # <<>>)
  <2>1. PICK s, ms : s = tiers[t] /\ ms = M[t]
    OBVIOUS
  <2>2. ValidTier(s) /\ ms = MembersOfTier(s, t)
    BY <1>1, <1>2, <1>3, <2>1
  <2>3. /\ ms \in Seq(TierMember(t))
        /\ s # <<>> => Len(ms) # 0
        /\ s = <<>> => Len(ms) = 0
    BY <2>2, TierMembers
  <2>4. Len(ms) = 0 <=> ms = <<>>
    BY <2>3, EmptySeq
  <2>5. ms # <<>> <=> s # <<>>
    BY <2>3, <2>4
  <2> QED
    BY <2>1, <2>3, <2>5
<1>5. Len(M) = n
  <2>1. PICK S : S = {M[t] : t \in 1..n}
    OBVIOUS
  <2>2. \A t \in 1..n : M[t] \in S
    BY <2>1
  <2>3. M = [t \in 1..n |-> M[t]]
    BY <1>3
  <2>4. M \in [1..n -> S]
    BY <2>2, <2>3
  <2> QED
    BY <1>2, <2>4, FunctionSeq
<1>6. TierLists(M, n)
  BY <1>2, <1>4, <1>5 DEF TierLists
<1> QED
  BY <1>2, <1>4, <1>6

\* The positions of the members of one metric.
LEMMA MetricPositions ==
    ASSUME NEW w \in Seq(AnyMember), NEW t, NEW K, K = {k \in DOMAIN w : w[k].metric = t}
    PROVE  Positions(K) /\ K \in SUBSET DOMAIN w /\ (withMetric(w, t) # <<>> <=> K # {})
<1>1. K \in SUBSET DOMAIN w
  OBVIOUS
<1>2. Positions(K)
  BY <1>1, SomePositions
<1>3. withMetric(w, t) = At(w, K)
  BY DEF withMetric
<1> QED
  BY <1>1, <1>2, <1>3, AtShape

MetricsAre(w, T) == T = {w[k].metric : k \in DOMAIN w}

\* A valid state wants members on configured interfaces; those of a metric are
\* the ones of that tier, and the metrics are the tiers with rows.
LEMMA Wanted ==
    ASSUME NEW s, NEW tiers, tiers = s.tiers, ValidTiers(tiers), HasRow(tiers),
           NEW w, w = WantedMembers(s), NEW n, n = Len(tiers), NEW M, TierMs(M, tiers),
           NEW T, Filled(T, tiers)
    PROVE  /\ w \in Seq(AnyMember) /\ Len(w) # 0
           /\ Sorted(w, M, n)
           /\ MetricsAre(w, T)
<1>1. /\ TierLists(M, n) /\ DOMAIN tiers = 1..n
      /\ \A t \in 1..n : M[t] # <<>> <=> tiers[t] # <<>>
  BY TiersMembers
<1>2. n \in Nat
  BY <1>1 DEF TierLists
<1>3. PICK u \in 1..n : tiers[u] # <<>>
  BY <1>1 DEF HasRow
<1>4. n # 0
  BY <1>2, <1>3
<1>5. w = FlattenSeq(M)
  BY DEF WantedMembers, TierMs
<1>6. w \in Seq(AnyMember) /\ Upto(w, n) /\ Sorted(w, M, n)
  BY <1>1, <1>4, <1>5, FlattenedTiers
<1>7. ASSUME NEW t \in 1..n
      PROVE  tiers[t] # <<>> <=> \E k \in DOMAIN w : w[k].metric = t
  <2>1. PICK K : K = {k \in DOMAIN w : w[k].metric = t}
    OBVIOUS
  <2>2. withMetric(w, t) # <<>> <=> K # {}
    BY <1>6, <2>1, MetricPositions
  <2>3. withMetric(w, t) = M[t]
    BY <1>6 DEF Sorted
  <2>4. tiers[t] # <<>> <=> K # {}
    BY <1>1, <2>2, <2>3
  <2> QED
    BY <2>1, <2>4
<1>8. T = {t \in 1..n : tiers[t] # <<>>}
  BY <1>1 DEF Filled
<1>9. \A k \in DOMAIN w : w[k].metric \in 1..n
  BY <1>6 DEF Upto
<1>10. MetricsAre(w, T)
  BY <1>7, <1>8, <1>9 DEF MetricsAre
<1>11. Len(w) # 0
  <2>1. PICK k \in DOMAIN w : w[k].metric = u
    BY <1>3, <1>7
  <2>2. DOMAIN w = 1..Len(w) /\ Len(w) \in Nat
    BY <1>6, LenProperties
  <2> QED
    BY <2>1, <2>2
<1> QED
  BY <1>6, <1>10, <1>11

\* Looking members up and choosing among them can be done in either order.
LEMMA InfosAt ==
    ASSUME NEW w \in Seq(AnyMember), NEW h, Infos(h, w), NEW P \in SUBSET DOMAIN w
    PROVE  Infos(At(h, P), At(w, P))
<1>1. Positions(P)
  BY SomePositions
<1>2. PICK c, a, b : c = Cardinality(P) /\ a = At(h, P) /\ b = At(w, P)
  OBVIOUS
<1>3. DOMAIN a = 1..c /\ DOMAIN b = 1..c
  BY <1>1, <1>2, AtShape
<1>4. h = [k \in DOMAIN w |-> InfoOf(w[k])]
  BY DEF Infos
<1>5. ASSUME NEW k \in 1..c PROVE a[k] = InfoOf(b[k])
  <2>1. PICK x \in P : x = Increasing(P)[k]
    BY <1>1, <1>2, AtShape
  <2>2. a[k] = h[x]
    BY <1>1, <1>2, <2>1, AtShape
  <2>3. b[k] = w[x]
    BY <1>1, <1>2, <2>1, AtShape
  <2>4. h[x] = InfoOf(w[x])
    BY <1>4
  <2> QED
    BY <2>2, <2>3, <2>4
<1>6. a = [k \in DOMAIN a |-> a[k]]
  BY <1>2 DEF At
<1>7. a = [k \in 1..c |-> InfoOf(b[k])]
  BY <1>3, <1>5, <1>6
<1> QED
  BY <1>2, <1>3, <1>7 DEF Infos

\* The same for the members of one metric.
LEMMA InfosOfMetric ==
    ASSUME NEW w \in Seq(AnyMember), NEW h, Infos(h, w), NEW t
    PROVE  Infos(withMetric(h, t), withMetric(w, t))
<1>1. h = [k \in DOMAIN w |-> InfoOf(w[k])]
  BY DEF Infos
<1>2. DOMAIN h = DOMAIN w /\ \A k \in DOMAIN w : h[k].metric = w[k].metric
  BY <1>1 DEF InfoOf
<1>3. PICK K \in SUBSET DOMAIN w : K = {k \in DOMAIN w : w[k].metric = t}
  OBVIOUS
<1>4. {k \in DOMAIN h : h[k].metric = t} = K
  BY <1>2, <1>3
<1>5. withMetric(w, t) = At(w, K) /\ withMetric(h, t) = At(h, K)
  BY <1>3, <1>4 DEF withMetric
<1> QED
  BY <1>5, InfosAt

\* The members of a valid state are read back as its tiers.
TierOf(h, m) == EntriesOf(withMetric(h, m), "ipv4") \o EntriesOf(withMetric(h, m), "ipv6")

\* The tiers read from the wanted members are the drawn ones that have rows.
LEMMA ReadBack ==
    ASSUME NEW s, NEW tiers, tiers = s.tiers, ValidTiers(tiers), HasRow(tiers),
           NEW w, w = WantedMembers(s), NEW h, Infos(h, w), NEW metrics, metrics = metricsOf(h),
           NEW X, X = [k \in DOMAIN metrics |-> TierOf(h, metrics[k])],
           NEW G, Groups(G, tiers), NEW T, Filled(T, tiers)
    PROVE  metrics # <<>> /\ X = At(G, T)
<1>1. PICK n : n = Len(tiers)
  OBVIOUS
<1>2. PICK M : TierMs(M, tiers)
  BY DEF TierMs
<1>3. /\ w \in Seq(AnyMember) /\ Len(w) # 0
      /\ Sorted(w, M, n)
      /\ MetricsAre(w, T)
  BY <1>1, <1>2, Wanted
<1>4. h = [k \in DOMAIN w |-> InfoOf(w[k])]
  BY DEF Infos
<1>5. DOMAIN h = DOMAIN w /\ \A k \in DOMAIN w : h[k].metric = w[k].metric
  BY <1>4 DEF InfoOf
<1>6. {h[k].metric : k \in DOMAIN h} = T
  <2>1. {h[k].metric : k \in DOMAIN h} = {w[k].metric : k \in DOMAIN w}
    BY <1>5
  <2> QED
    BY <1>3, <2>1 DEF MetricsAre
<1>7. metrics = Increasing(T)
  BY <1>6 DEF metricsOf
<1>8. TierLists(M, n) /\ DOMAIN tiers = 1..n
  BY <1>1, <1>2, TiersMembers
<1>a. n \in Nat
  BY <1>8 DEF TierLists
<1>9. Positions(T)
  <2>1. T \in SUBSET (1..n) /\ IsFiniteSet(1..n)
    BY <1>8, <1>a, FS_Interval DEF Filled
  <2>2. IsFiniteSet(T)
    BY <2>1, FS_Subset
  <2> QED
    BY <2>1, <2>2 DEF Positions
<1>10. PICK c : c = Cardinality(T)
  OBVIOUS
<1>11. Lists(metrics, c, T)
  BY <1>7, <1>9, <1>10, IncreasingLists DEF Positions
<1>12. c \in Nat /\ DOMAIN metrics = 1..c /\ \A k \in 1..c : metrics[k] \in T
  BY <1>11 DEF Lists
<1>13. T # {}
  BY DEF Filled, HasRow
<1>14. metrics # <<>>
  <2>1. PICK x \in T : TRUE
    BY <1>13
  <2>2. PICK k \in 1..c : metrics[k] = x
    BY <1>11 DEF Lists
  <2>3. DOMAIN metrics # {}
    BY <1>12, <2>2
  <2> QED
    BY <2>3
<1>15. ASSUME NEW t \in T PROVE TierOf(h, t) = G[t]
  <2>1. t \in 1..n /\ t \in DOMAIN tiers
    BY <1>8 DEF Filled
  <2>2. PICK e, ms, j : e = tiers[t] /\ ms = M[t] /\ j = withMetric(h, t)
    OBVIOUS
  <2>3. ValidTier(e)
    BY <2>1, <2>2 DEF ValidTiers
  <2>4. ms = MembersOfTier(e, t)
    BY <1>2, <2>1, <2>2 DEF TierMs
  <2>5. withMetric(w, t) = ms
    BY <1>3, <2>1, <2>2 DEF Sorted
  <2>6. Infos(withMetric(h, t), withMetric(w, t))
    BY <1>3, InfosOfMetric
  <2>7. Infos(j, ms)
    BY <2>2, <2>5, <2>6
  <2>8. EntriesOf(j, "ipv4") = ofFamily(e, "ipv4")
    BY <2>3, <2>4, <2>7, TierBack
  <2>9. EntriesOf(j, "ipv6") = ofFamily(e, "ipv6")
    BY <2>3, <2>4, <2>7, TierBack
  <2>10. TierOf(h, t) = GroupOf(e)
    BY <2>2, <2>8, <2>9 DEF TierOf, GroupOf
  <2>11. G[t] = GroupOf(e)
    BY <2>1, <2>2 DEF Groups
  <2> QED
    BY <2>10, <2>11
<1>16. PICK Y : Y = At(G, T)
  OBVIOUS
<1>17. DOMAIN Y = 1..c
  BY <1>11, <1>16, AtDomain
<1>18. ASSUME NEW k \in 1..c PROVE X[k] = Y[k]
  <2>1. PICK x \in T : x = metrics[k]
    BY <1>12
  <2>2. X[k] = TierOf(h, x)
    BY <1>12, <2>1
  <2>3. Y[k] = G[x]
    BY <1>11, <1>16, <2>1, AtElement
  <2> QED
    BY <1>15, <2>2, <2>3
<1>19. Y = [k \in DOMAIN Y |-> Y[k]]
  BY <1>16 DEF At
<1>20. X = [k \in 1..c |-> X[k]]
  BY <1>12
<1>21. X = Y
  BY <1>17, <1>18, <1>19, <1>20
<1> QED
  BY <1>14, <1>16, <1>21

\* The members of one metric are members.
LEMMA WithMetricSeq ==
    ASSUME NEW S, NEW s \in Seq(S), NEW m
    PROVE  withMetric(s, m) \in Seq(S)
<1>1. PICK P : P = {k \in DOMAIN s : s[k].metric = m}
  OBVIOUS
<1>2. Positions(P) /\ Within(s, P, S)
  BY <1>1, SomePositions
<1> QED
  BY <1>1, <1>2, AtSeq DEF withMetric

\* A member that is all right, and what is known of it.
MemberOK(m) == m.iface \in ToSet(IfaceOrder) /\ m.metric \in Int /\ m.weight \in Nat
KnownOK(m) == MemberOK(m) /\ m.family = FamilyOf[m.iface]
AllOK(S) == \A m \in S : KnownOK(m)

\* Entries are rows, on the interfaces of the members they are read from.
LEMMA EntriesAreRows ==
    ASSUME NEW S, AllOK(S), NEW h \in Seq(S), NEW fam \in {"ipv4", "ipv6"}
    PROVE  EntriesOf(h, fam) \in Seq(Row)
<1>1. PICK mine : mine = ofFamily(h, fam)
  OBVIOUS
<1>2. /\ mine \in Seq(S)
      /\ \A k \in DOMAIN mine : \E x \in DOMAIN h : mine[k] = h[x] /\ h[x].family = fam
  BY <1>1, OfFamilyElement
<1>3. PICK n : n = Len(mine)
  OBVIOUS
<1>4. n \in Nat /\ DOMAIN mine = 1..n /\ \A k \in 1..n : mine[k] \in S
  BY <1>2, <1>3
<1>5. PICK w : w = [k \in DOMAIN mine |-> mine[k].weight]
  OBVIOUS
<1>6. Numbers(w, n)
  <2>1. \A k \in 1..n : mine[k].weight \in Nat
    BY <1>4 DEF AllOK, KnownOK, MemberOK
  <2>2. w \in [1..n -> Nat]
    BY <1>4, <1>5, <2>1
  <2> QED
    BY <1>4, <2>2 DEF Numbers
<1>7. PICK total, a : total = Total(w) /\ a = EntriesOf(h, fam)
  OBVIOUS
<1>8. total \in Nat
  BY <1>6, <1>7, TotalNat
<1>9. a = [k \in DOMAIN mine |-> [family |-> fam, iface |-> mine[k].iface,
                                pct |-> RoundShare(mine[k].weight, total)]]
  BY <1>1, <1>5, <1>7 DEF EntriesOf
<1>10. ASSUME NEW k \in 1..n PROVE a[k] \in Row
  <2>1. PICK v, i : v = RoundShare(mine[k].weight, total) /\ i = mine[k].iface
    OBVIOUS
  <2>2. a[k] = [family |-> fam, iface |-> i, pct |-> v]
    BY <1>4, <1>9, <2>1
  <2>3. KnownOK(mine[k])
    BY <1>4 DEF AllOK
  <2>4. mine[k].family = fam
    BY <1>2, <1>4
  <2>5. i \in FamilyIfaces(fam)
    BY <2>1, <2>3, <2>4 DEF KnownOK, MemberOK, FamilyIfaces
  <2>6. v \in Share
    BY <1>8, <2>1, <2>3, RoundShareType DEF KnownOK, MemberOK
  <2>7. [family |-> fam, iface |-> i, pct |-> v] \in Row
    BY <2>5, <2>6, MakeRow
  <2> QED
    BY <2>2, <2>7
<1>11. a \in [1..n -> Row]
  BY <1>4, <1>9, <1>10
<1>12. a \in Seq(Row)
  BY <1>4, <1>11, FunctionSeq
<1> QED
  BY <1>7, <1>12

\* The configured members and the table made from them are all right.
MembersOK(f) == \A n \in DOMAIN f : MemberOK(f[n])
InfoOK(info) == \A n \in DOMAIN info : KnownOK(info[n])
ListOK(use) == \E l \in Nat \ {0} : DOMAIN use = 1..l

\* An empty tier.
LEMMA EmptyTier == TiersOK(<< <<>> >>)
<1>1. PICK A : A = Seq(Row)
  OBVIOUS
<1>2. <<>> \in A
  BY <1>1
<1>3. << <<>> >> \in Seq(A)
  BY <1>2
<1> QED
  BY <1>1, <1>3 DEF TiersOK

\* The builder opens a policy with tiers of rows.
LEMMA TiersFromPolicy ==
    ASSUME NEW c, NEW info, InfoOK(info), NEW p, ListOK(c.policy[p].use_member),
           NEW tiers, tiers = stateFromPolicy(c, info, p).tiers
    PROVE  TiersOK(tiers)
<1>a. PICK l \in Nat : DOMAIN c.policy[p].use_member = 1..l
  BY DEF ListOK
<1>1. PICK use : use = c.policy[p].use_member /\ DOMAIN use = 1..l
  BY <1>a
<1>2. PICK K : K = {k \in DOMAIN use : use[k] \in DOMAIN info}
  OBVIOUS
<1>3. Positions(K)
  <2>1. IsFiniteSet(1..l) /\ K \in SUBSET (1..l)
    BY <1>1, <1>2, FS_Interval
  <2>2. K \subseteq Int
    BY <2>1
  <2> QED
    BY <2>1, <2>2, FS_Subset DEF Positions
<1>4. PICK infos, i : infos = [k \in DOMAIN At(use, K) |-> info[At(use, K)[k]]]
                      /\ i = Cardinality(K)
  OBVIOUS
<1>5. i \in Nat /\ DOMAIN infos = 1..i
  BY <1>3, <1>4, AtShape
<1>6. ASSUME NEW k \in 1..i PROVE KnownOK(infos[k])
  <2>1. PICK x \in K : x = Increasing(K)[k]
    BY <1>3, <1>4, AtShape
  <2>2. At(use, K)[k] = use[x]
    BY <1>3, <1>4, <2>1, AtShape
  <2>3. infos[k] = info[use[x]] /\ use[x] \in DOMAIN info
    BY <1>2, <1>4, <1>5, <2>2
  <2> QED
    BY <2>3 DEF InfoOK
<1>7. PICK S : S = {infos[k] : k \in 1..i}
  OBVIOUS
<1>8. infos \in Seq(S) /\ AllOK(S)
  <2>1. infos = [k \in 1..i |-> infos[k]]
    BY <1>4, <1>5
  <2>2. infos \in [1..i -> S]
    BY <1>7, <2>1
  <2>3. infos \in Seq(S)
    BY <1>5, <2>2
  <2> QED
    BY <1>6, <1>7, <2>3 DEF AllOK
<1>9. PICK M, metrics, n : /\ M = {infos[k].metric : k \in DOMAIN infos}
                           /\ metrics = Increasing(M) /\ n = Cardinality(M)
  OBVIOUS
<1>10. n \in Nat /\ DOMAIN metrics = 1..n
  <2>1. M \subseteq Int
    BY <1>5, <1>6, <1>9 DEF KnownOK, MemberOK
  <2>2. IsFiniteSet(M)
    <3>1. PICK f : f = [k \in 1..i |-> infos[k].metric]
      OBVIOUS
    <3>2. f \in Surjection(1..i, M)
      BY <1>5, <1>9, <3>1 DEF Surjection
    <3>3. IsFiniteSet(1..i)
      BY <1>5, FS_Interval
    <3> QED
      BY <3>2, <3>3, FS_Surjection
  <2>3. Lists(metrics, n, M)
    BY <1>9, <2>1, <2>2, IncreasingLists
  <2> QED
    BY <2>3 DEF Lists
<1>11. tiers = IF metrics = <<>> THEN << <<>> >>
               ELSE [k \in DOMAIN metrics |-> TierOf(infos, metrics[k])]
  <2>1. metricsOf(infos) = metrics
    BY <1>9 DEF metricsOf
  <2>2. At(use, {k \in DOMAIN use : use[k] \in DOMAIN info}) = At(use, K)
    BY <1>2
  <2> QED
    BY <1>1, <1>4, <2>1, <2>2 DEF stateFromPolicy, TierOf
<1>12. CASE metrics = <<>>
  BY <1>11, <1>12, EmptyTier
<1>13. CASE metrics # <<>>
  <2>2. ASSUME NEW t \in 1..n PROVE TierOf(infos, metrics[t]) \in Seq(Row)
    <3>1. PICK g : g = withMetric(infos, metrics[t])
      OBVIOUS
    <3>2. g \in Seq(S)
      BY <1>8, <3>1, WithMetricSeq
    <3>3. EntriesOf(g, "ipv4") \in Seq(Row) /\ EntriesOf(g, "ipv6") \in Seq(Row)
      BY <1>8, <3>2, EntriesAreRows
    <3>4. EntriesOf(g, "ipv4") \o EntriesOf(g, "ipv6") \in Seq(Row)
      BY <3>3, ConcatProperties
    <3> QED
      BY <3>1, <3>4 DEF TierOf
  <2>3. tiers = [t \in 1..n |-> TierOf(infos, metrics[t])]
    BY <1>10, <1>11, <1>13
  <2>4. PICK R : R = Seq(Row)
    OBVIOUS
  <2>5. tiers \in [1..n -> R]
    BY <2>2, <2>3, <2>4
  <2>6. tiers \in Seq(R)
    BY <1>10, <2>5
  <2> QED
    BY <2>4, <2>6 DEF TiersOK
<1> QED
  BY <1>12, <1>13

\* The policy lists members that are looked up as the wanted ones: it is read
\* back as it was drawn.
LooksUp(use, info, w) ==
    /\ use = [k \in DOMAIN w |-> use[k]]
    /\ \A k \in DOMAIN w : use[k] \in DOMAIN info /\ info[use[k]] = InfoOf(w[k])

\* So the builder opens the policy as it was drawn.
LEMMA PolicyBack ==
    ASSUME NEW s, NEW tiers, tiers = s.tiers, ValidTiers(tiers), HasRow(tiers),
           NEW w, w = WantedMembers(s), NEW c, NEW info, NEW p,
           LooksUp(c.policy[p].use_member, info, w),
           NEW again, again = stateFromPolicy(c, info, p).tiers
    PROVE  EntriesByFamily(again) = EntriesByFamily(tiers)
<1>1. PICK G, T, M, n : /\ Groups(G, tiers) /\ Filled(T, tiers) /\ TierMs(M, tiers)
                        /\ n = Len(tiers)
  BY DEF Groups, Filled, TierMs
<1>2. w \in Seq(AnyMember)
  BY <1>1, Wanted
<1>3. PICK use, l : use = c.policy[p].use_member /\ l = Len(w)
  OBVIOUS
<1>4. l \in Nat /\ DOMAIN w = 1..l
  BY <1>2, <1>3
<1>5. /\ use = [k \in 1..l |-> use[k]]
      /\ \A k \in 1..l : use[k] \in DOMAIN info /\ info[use[k]] = InfoOf(w[k])
  BY <1>3, <1>4 DEF LooksUp
<1>6. DOMAIN use = 1..l
  BY <1>5
<1>7. At(use, {k \in DOMAIN use : use[k] \in DOMAIN info}) = use
  <2>1. {k \in DOMAIN use : use[k] \in DOMAIN info} = 1..l
    BY <1>5, <1>6
  <2>2. At(use, 1..l) = use
    BY <1>4, <1>5, AtAll DEF IsList
  <2> QED
    BY <2>1, <2>2
<1>8. PICK h : h = [k \in DOMAIN use |-> info[use[k]]]
  OBVIOUS
<1>9. Infos(h, w)
  BY <1>4, <1>5, <1>6, <1>8 DEF Infos
<1>10. PICK metrics : metrics = metricsOf(h)
  OBVIOUS
<1>11. PICK X : X = [k \in DOMAIN metrics |-> TierOf(h, metrics[k])]
  OBVIOUS
<1>12. metrics # <<>> /\ X = At(G, T)
  BY <1>1, <1>9, <1>10, <1>11, ReadBack
<1>13. again = IF metrics = <<>> THEN << <<>> >>
               ELSE [k \in DOMAIN metrics |-> TierOf(h, metrics[k])]
  BY <1>3, <1>7, <1>8, <1>10 DEF stateFromPolicy, TierOf
<1>14. again = X
  BY <1>11, <1>12, <1>13
<1>15. tiers \in Seq(Seq(Row))
  BY DEF ValidTiers
<1>16. EntriesByFamily(X) = X
  BY <1>1, <1>12, <1>15, GroupsAgain
<1>17. EntriesByFamily(tiers) = At(G, T)
  BY <1>1, <1>15, DrawnGroups
<1> QED
  BY <1>12, <1>14, <1>16, <1>17

-----------------------------------------------------------------------------
(***************************************************************************)
(* The editor.                                                             *)
(***************************************************************************)
\* The editor's state.
IsState(s) == s = [mode |-> s.mode, policyName |-> s.policyName,
                   newPolicyName |-> s.newPolicyName, lastResort |-> s.lastResort,
                   tiers |-> s.tiers]
GoodState(s) == IsState(s) /\ TiersOK(s.tiers)

\* A handler that changes the rows and nothing else.
LEMMA NewTiers ==
    ASSUME NEW s, GoodState(s), NEW r, TiersOK(r), NEW d, d = [s EXCEPT !.tiers = r]
    PROVE  GoodState(d)
<1>1. IsState(s)
  BY DEF GoodState
<1>2. IsState(d) /\ d.tiers = r
  BY <1>1 DEF IsState
<1> QED
  BY <1>2 DEF GoodState

\* Rendering keeps rows rows.
LEMMA RenderedTiers ==
    ASSUME NEW tiers, TiersOK(tiers) PROVE TiersOK(Rendered(tiers))
BY FixTiers DEF Rendered, TiersOK

\* And states good.
LEMMA RenderedState ==
    ASSUME NEW s, GoodState(s), NEW d, d = [s EXCEPT !.tiers = Rendered(s.tiers)]
    PROVE  GoodState(d)
<1>1. PICK r : r = Rendered(s.tiers)
  OBVIOUS
<1>2. TiersOK(r)
  BY <1>1, RenderedTiers DEF GoodState
<1> QED
  BY <1>1, <1>2, NewTiers

\* A handler that ends in refreshTiers leaves a good state if its tiers are.
LEMMA RefreshKeeps ==
    ASSUME GoodState(state), NEW tiers, TiersOK(tiers), refreshTiers(tiers)
    PROVE  GoodState(state')
<1>1. PICK r, s, d : r = Rendered(tiers) /\ s = state /\ d = state'
  OBVIOUS
<1>2. d = [s EXCEPT !.tiers = r]
  BY <1>1 DEF refreshTiers
<1>3. TiersOK(r)
  BY <1>1, RenderedTiers
<1> QED
  BY <1>1, <1>2, <1>3, NewTiers

\* One tier is replaced.
LEMMA PutTier ==
    ASSUME NEW tiers, TiersOK(tiers), NEW t \in DOMAIN tiers, NEW e \in Seq(Row)
    PROVE  TiersOK([tiers EXCEPT ![t] = e])
<1>1. PICK A : A = Seq(Row)
  OBVIOUS
<1>3. tiers \in Seq(A) /\ e \in A
  BY <1>1 DEF TiersOK
<1>4. Len(tiers) \in Nat /\ tiers \in [1..Len(tiers) -> A]
  BY <1>3
<1>5. PICK n \in Nat : n = Len(tiers)
  BY <1>4
<1>a. PICK new : new = [tiers EXCEPT ![t] = e]
  OBVIOUS
<1>6. new \in [1..n -> A]
  BY <1>3, <1>4, <1>5, <1>a
<1>7. new \in Seq(A)
  BY <1>6
<1> QED
  BY <1>1, <1>a, <1>7 DEF TiersOK

\* One row is replaced.
LEMMA PutRow ==
    ASSUME NEW tiers, TiersOK(tiers), NEW t \in DOMAIN tiers,
           NEW k \in DOMAIN tiers[t], NEW r \in Row
    PROVE  TiersOK([tiers EXCEPT ![t] = [tiers[t] EXCEPT ![k] = r]])
<1>1. PICK s : s = tiers[t]
  OBVIOUS
<1>2. s \in Seq(Row)
  BY <1>1 DEF TiersOK
<1>3. PICK e : e = [s EXCEPT ![k] = r]
  OBVIOUS
<1>4. e \in Seq(Row)
  <2>1. PICK n : n = Len(s)
    OBVIOUS
  <2>2. n \in Nat /\ s \in [1..n -> Row]
    BY <1>2, <2>1
  <2>3. e \in [1..n -> Row]
    BY <1>3, <2>2
  <2> QED
    BY <2>2, <2>3, FunctionSeq
<1>5. TiersOK([tiers EXCEPT ![t] = e])
  BY <1>4, PutTier
<1> QED
  BY <1>1, <1>3, <1>5

\* The rows of one family get even shares, if there are any.
Evened(s, fam) == IF ofFamily(s, fam) = <<>> THEN s ELSE distributeEqual(s, fam)

\* They stay rows.
LEMMA EvenedRows ==
    ASSUME NEW s \in Seq(Row), NEW fam
    PROVE  Evened(s, fam) \in Seq(Row)
BY Distribute DEF Evened

\* A row gets another family, and an interface of it.
LEMMA MovedRow ==
    ASSUME NEW s \in Seq(Row), NEW k \in DOMAIN s, NEW fam \in {"ipv4", "ipv6"},
           NEW i \in FamilyIfaces(fam) \cup {""}
    PROVE  [s EXCEPT ![k].family = fam, ![k].iface = i] \in Seq(Row)
<1>1. PICK n : n = Len(s)
  OBVIOUS
<1>2. n \in Nat /\ s \in [1..n -> Row] /\ k \in 1..n
  BY <1>1, LenProperties
<1>3. PICK e \in Row : e = s[k]
  BY <1>2
<1>4. PICK r : r = [e EXCEPT !.family = fam, !.iface = i]
  OBVIOUS
<1>5. r \in Row
  BY <1>4, RowMoved
<1>6. [s EXCEPT ![k].family = fam, ![k].iface = i] = [s EXCEPT ![k] = r]
  BY <1>2, <1>3, <1>4
<1>7. PICK m : m = [s EXCEPT ![k] = r]
  OBVIOUS
<1>8. m \in [1..n -> Row]
  BY <1>2, <1>5, <1>7
<1>9. m \in Seq(Row)
  BY <1>2, <1>8, FunctionSeq
<1> QED
  BY <1>6, <1>7, <1>9

\* The family of a row is changed.
LEMMA ChangeFamilyKeeps ==
    ASSUME GoodState(state), NEW t \in DOMAIN state.tiers, NEW k \in DOMAIN state.tiers[t],
           changeFamily(t, k)
    PROVE  GoodState(state')
<1>2. PICK fam \in ToSet(Families) :
        refreshTiers([state.tiers EXCEPT ![t] =
          Evened(Evened([state.tiers[t] EXCEPT ![k].family = fam,
                                               ![k].iface = firstIface(fam)],
                        "ipv4"), "ipv6")])
  BY DEF changeFamily, Evened
<1>3. fam \in {"ipv4", "ipv6"}
  BY DEF Families, ToSet
<1>4. PICK tiers, s, m : /\ tiers = state.tiers /\ s = tiers[t]
                         /\ m = [s EXCEPT ![k].family = fam, ![k].iface = firstIface(fam)]
  OBVIOUS
<1>5. TiersOK(tiers) /\ t \in DOMAIN tiers /\ k \in DOMAIN s
  BY <1>4 DEF GoodState
<1>6. s \in Seq(Row)
  BY <1>4, <1>5 DEF TiersOK
<1>7. m \in Seq(Row)
  BY <1>3, <1>4, <1>5, <1>6, FirstIface, MovedRow
<1>8. PICK e : e = Evened(Evened(m, "ipv4"), "ipv6")
  OBVIOUS
<1>9. e \in Seq(Row)
  BY <1>7, <1>8, EvenedRows
<1>10. PICK new : new = [tiers EXCEPT ![t] = e]
  OBVIOUS
<1>11. TiersOK(new)
  BY <1>5, <1>9, <1>10, PutTier
<1>12. refreshTiers(new)
  BY <1>2, <1>4, <1>8, <1>10
<1> QED
  BY <1>11, <1>12, RefreshKeeps

\* Another interface is chosen for a row.
LEMMA ChangeIfaceKeeps ==
    ASSUME GoodState(state), NEW t \in DOMAIN state.tiers, NEW k \in DOMAIN state.tiers[t],
           changeIface(t, k)
    PROVE  GoodState(state')
<1>1. PICK i \in ToSet(ifacesByFamily(state.tiers[t][k].family)) :
        state' = [state EXCEPT !.tiers[t][k].iface = i]
  BY DEF changeIface
<1>4. PICK s, d, tiers : s = state /\ d = state' /\ tiers = state.tiers
  OBVIOUS
<1>5. TiersOK(tiers) /\ t \in DOMAIN tiers /\ k \in DOMAIN tiers[t]
  BY <1>4 DEF GoodState
<1>6. PICK e : e = tiers[t]
  OBVIOUS
<1>7. e \in Seq(Row) /\ k \in DOMAIN e
  BY <1>5, <1>6 DEF TiersOK
<1>8. PICK x : x = e[k]
  OBVIOUS
<1>9. x \in Row
  BY <1>7, <1>8
<1>10. PICK r : r = [x EXCEPT !.iface = i]
  OBVIOUS
<1>2. i \in FamilyIfaces(x.family)
  BY <1>4, <1>6, <1>8, IfaceChoice
<1>11. r \in Row
  BY <1>2, <1>9, <1>10, RowIface
<1>12. TiersOK([tiers EXCEPT ![t] = [tiers[t] EXCEPT ![k] = r]])
  BY <1>5, <1>11, PutRow
<1>13. PICK new : new = [tiers EXCEPT ![t] = [tiers[t] EXCEPT ![k] = r]]
  OBVIOUS
<1>14. d = [s EXCEPT !.tiers = new]
  BY <1>1, <1>4, <1>6, <1>8, <1>10, <1>13
<1>15. GoodState(s) /\ TiersOK(new)
  BY <1>4, <1>12, <1>13
<1> QED
  BY <1>4, <1>14, <1>15, NewTiers

\* A share the user types.
LEMMA TypedShare ==
    ASSUME NEW v \in Percents PROVE v \in Share
<1>1. Percents \subseteq 1..100
  BY Zenon, BoundsAssumption
<1>2. v \in 1..100
  BY <1>1
<1> QED
  BY <1>2 DEF Share

\* Another share is typed.
LEMMA TypePercentKeeps ==
    ASSUME GoodState(state), NEW t \in DOMAIN state.tiers, NEW k \in DOMAIN state.tiers[t],
           typePercent(t, k)
    PROVE  GoodState(state')
<1>1. PICK v \in Percents : state' = [state EXCEPT !.tiers[t][k].pct = v]
  BY DEF typePercent
<1>4. PICK s, d, tiers : s = state /\ d = state' /\ tiers = state.tiers
  OBVIOUS
<1>5. TiersOK(tiers) /\ t \in DOMAIN tiers /\ k \in DOMAIN tiers[t]
  BY <1>4 DEF GoodState
<1>6. PICK e : e = tiers[t]
  OBVIOUS
<1>7. e \in Seq(Row) /\ k \in DOMAIN e
  BY <1>5, <1>6 DEF TiersOK
<1>8. PICK x : x = e[k]
  OBVIOUS
<1>9. x \in Row
  BY <1>7, <1>8
<1>10. PICK r : r = [x EXCEPT !.pct = v]
  OBVIOUS
<1>11. r \in Row
  BY <1>9, <1>10, RowPct, TypedShare
<1>12. TiersOK([tiers EXCEPT ![t] = [tiers[t] EXCEPT ![k] = r]])
  BY <1>5, <1>11, PutRow
<1>13. PICK new : new = [tiers EXCEPT ![t] = [tiers[t] EXCEPT ![k] = r]]
  OBVIOUS
<1>14. d = [s EXCEPT !.tiers = new]
  BY <1>1, <1>4, <1>6, <1>8, <1>10, <1>13
<1>15. GoodState(s) /\ TiersOK(new)
  BY <1>4, <1>12, <1>13
<1> QED
  BY <1>4, <1>14, <1>15, NewTiers

\* A row is removed, and the shares of its family are made even.
LEMMA RemoveEntryKeeps ==
    ASSUME GoodState(state), NEW t \in DOMAIN state.tiers, NEW k \in DOMAIN state.tiers[t],
           removeEntry(t, k)
    PROVE  GoodState(state')
<1>2. PICK tiers, e, fam, rest :
        /\ tiers = state.tiers /\ e = tiers[t] /\ fam = e[k].family
        /\ rest = RemoveAt(e, k)
  OBVIOUS
<1>3. TiersOK(tiers) /\ t \in DOMAIN tiers /\ k \in DOMAIN e
  BY <1>2 DEF GoodState
<1>4. e \in Seq(Row)
  BY <1>2, <1>3 DEF TiersOK
<1>5. rest \in Seq(Row)
  BY <1>2, <1>3, <1>4, RemoveSeq
<1>6. PICK x, new : x = Evened(rest, fam) /\ new = [tiers EXCEPT ![t] = x]
  OBVIOUS
<1>7. x \in Seq(Row)
  BY <1>5, <1>6, EvenedRows
<1>8. TiersOK(new)
  BY <1>3, <1>6, <1>7, PutTier
<1>9. refreshTiers(new)
  BY <1>2, <1>6 DEF removeEntry, Evened
<1> QED
  BY <1>8, <1>9, RefreshKeeps

\* The family of a row.
LEMMA FamiliesIn ==
    ASSUME NEW s \in Seq(Row), NEW f, NEW k \in DOMAIN s, f = s[k].family
    PROVE  f \in {"ipv4", "ipv6"}
<1>1. PICK x \in Row : x = s[k]
  OBVIOUS
<1> QED
  BY <1>1, RowParts

\* The family of a row that is added to a tier.
NewFamily(e) ==
    LET present == {e[k].family : k \in DOMAIN e}
    IN IF Cardinality(present) = 1 THEN CHOOSE f \in present : TRUE
       ELSE IF ifacesByFamily("ipv4") # <<>> THEN "ipv4" ELSE "ipv6"

\* A row is added.
LEMMA AddEntryKeeps ==
    ASSUME GoodState(state), NEW t \in DOMAIN state.tiers, addEntry(t)
    PROVE  GoodState(state')
<1>2. PICK tiers, e : tiers = state.tiers /\ e = tiers[t]
  OBVIOUS
<1>3. TiersOK(tiers) /\ t \in DOMAIN tiers
  BY <1>2 DEF GoodState
<1>4. e \in Seq(Row)
  BY <1>2, <1>3 DEF TiersOK
<1>5. PICK present : present = {e[k].family : k \in DOMAIN e}
  OBVIOUS
<1>6. present \subseteq {"ipv4", "ipv6"}
  BY <1>4, <1>5, FamiliesIn
<1>7. PICK fam : fam = NewFamily(e)
  OBVIOUS
<1>8. fam \in {"ipv4", "ipv6"}
  <2>1. CASE Cardinality(present) = 1
    <3>1. present # {}
      BY <2>1, FS_EmptySet
    <3>2. (CHOOSE f \in present : TRUE) \in present
      BY <3>1
    <3> QED
      BY <1>5, <1>6, <1>7, <2>1, <3>2 DEF NewFamily
  <2>2. CASE Cardinality(present) # 1
    BY <1>5, <1>7, <2>2 DEF NewFamily
  <2> QED
    BY <2>1, <2>2
<1>9. PICK entry : entry = [family |-> fam, iface |-> firstIface(fam), pct |-> 0]
  OBVIOUS
<1>10. entry \in Row
  <2>1. 0 \in Share
    BY DEF Share
  <2> QED
    BY <1>8, <1>9, <2>1, FirstIface, MakeRow
<1>12. PICK a : a = Append(e, entry)
  OBVIOUS
<1>13. a \in Seq(Row)
  BY <1>4, <1>10, <1>12, AppendProperties
<1>14. PICK x : x = distributeEqual(a, fam)
  OBVIOUS
<1>15. PICK new : new = [tiers EXCEPT ![t] = x]
  OBVIOUS
<1>16. x \in Seq(Row)
  BY <1>13, <1>14, Distribute
<1>17. TiersOK(new)
  BY <1>3, <1>15, <1>16, PutTier
<1>18. refreshTiers(new)
  <2>1. refreshTiers([state.tiers EXCEPT ![t] = distributeEqual(Append(state.tiers[t],
            [family |-> NewFamily(state.tiers[t]),
             iface |-> firstIface(NewFamily(state.tiers[t])), pct |-> 0]),
            NewFamily(state.tiers[t]))])
    BY Zenon DEF addEntry, NewFamily
  <2> QED
    BY Zenon, <1>2, <1>7, <1>9, <1>12, <1>14, <1>15, <2>1
<1> QED
  BY <1>17, <1>18, RefreshKeeps

\* A tier is added or removed.
LEMMA TierKeeps ==
    ASSUME GoodState(state),
           addTier \/ \E t \in DOMAIN state.tiers : removeTier(t)
    PROVE  GoodState(state')
<1>2. PICK tiers, A : tiers = state.tiers /\ A = Seq(Row)
  OBVIOUS
<1>3. tiers \in Seq(A) /\ <<>> \in A
  BY <1>2 DEF GoodState, TiersOK
<1>4. CASE addTier
  <2>1. PICK new : new = Append(tiers, <<>>)
    OBVIOUS
  <2>2. new \in Seq(A)
    BY <1>3, <2>1, AppendProperties
  <2>3. TiersOK(new)
    BY <1>2, <2>2 DEF TiersOK
  <2>4. refreshTiers(new)
    BY <1>2, <1>4, <2>1 DEF addTier
  <2> QED
    BY <2>3, <2>4, RefreshKeeps
<1>5. ASSUME NEW t \in DOMAIN state.tiers, removeTier(t)
      PROVE  GoodState(state')
  <2>1. PICK new : new = RemoveAt(tiers, t)
    OBVIOUS
  <2>2. new \in Seq(A)
    BY <1>2, <1>3, <2>1, RemoveSeq
  <2>3. TiersOK(new)
    BY <1>2, <2>2 DEF TiersOK
  <2>4. refreshTiers(new)
    BY <1>2, <1>5, <2>1 DEF removeTier
  <2> QED
    BY <2>3, <2>4, RefreshKeeps
<1> QED
  BY <1>4, <1>5

\* The controls above the tiers.
LEMMA ControlsKeep ==
    ASSUME GoodState(state), typeName \/ changeLastResort
    PROVE  GoodState(state')
<1>1. PICK s, d : s = state /\ d = state'
  OBVIOUS
<1>2. IsState(s) /\ TiersOK(s.tiers)
  BY <1>1 DEF GoodState
<1>3. CASE typeName
  <2>1. PICK n : d = [s EXCEPT !.newPolicyName = n]
    BY <1>1, <1>3 DEF typeName
  <2>2. IsState(d) /\ d.tiers = s.tiers
    BY <1>2, <2>1 DEF IsState
  <2> QED
    BY <1>1, <1>2, <2>2 DEF GoodState
<1>4. CASE changeLastResort
  <2>1. PICK n : d = [s EXCEPT !.lastResort = n]
    BY <1>1, <1>4 DEF changeLastResort
  <2>2. IsState(d) /\ d.tiers = s.tiers
    BY <1>2, <2>1 DEF IsState
  <2> QED
    BY <1>1, <1>2, <2>2 DEF GoodState
<1> QED
  BY <1>3, <1>4

\* The states the builder opens with.
LEMMA NewIsGood ==
    ASSUME NEW n, NEW s, s = newState(n) PROVE GoodState(s)
<1>1. s.tiers = << <<>> >> /\ IsState(s)
  BY DEF newState, IsState
<1> QED
  BY <1>1, EmptyTier DEF GoodState

\* The builder opens an existing policy.
LEMMA OpenedIsGood ==
    ASSUME NEW c, NEW info, InfoOK(info), NEW p, ListOK(c.policy[p].use_member),
           NEW s, s = stateFromPolicy(c, info, p)
    PROVE  GoodState(s)
<1>1. IsState(s)
  BY DEF stateFromPolicy, IsState
<1>2. PICK tiers : tiers = s.tiers
  OBVIOUS
<1>3. TiersOK(tiers)
  BY <1>2, TiersFromPolicy
<1> QED
  BY <1>1, <1>2, <1>3 DEF GoodState

\* What a configuration has to be for the grid and the builder to read it:
\* members on configured interfaces, with a metric and a weight, and policies
\* that list one at least.
PoliciesOK(policy) == \A p \in DOMAIN policy : ListOK(policy[p].use_member)
Readable(c) == MembersOK(c.member) /\ PoliciesOK(c.policy)

\* Every configured interface has a family.
LEMMA Configured == DOMAIN FamilyOf = ToSet(IfaceOrder)
<1>1. FamilyOf \in [ToSet(IfaceOrder) -> {"ipv4", "ipv6"}]
  BY Zenon, BoundsAssumption
<1> QED
  BY <1>1

\* The table built from a readable configuration.
LEMMA InfoBuilt ==
    ASSUME NEW c, MembersOK(c.member), NEW info, info = buildMemberInfo(c)
    PROVE  InfoOK(info)
<1>1. DOMAIN info = DOMAIN c.member
  BY DEF buildMemberInfo
<1>2. ASSUME NEW n \in DOMAIN info PROVE KnownOK(info[n])
  <2>1. PICK x : x = c.member[n]
    OBVIOUS
  <2>2. MemberOK(x)
    BY <1>1, <1>2, <2>1 DEF MembersOK
  <2>3. x.iface \in DOMAIN FamilyOf
    BY <2>2, Configured DEF MemberOK
  <2>4. /\ info[n].iface = x.iface /\ info[n].metric = x.metric
        /\ info[n].weight = x.weight /\ info[n].family = FamilyOf[x.iface]
    BY <1>1, <1>2, <2>1, <2>3 DEF buildMemberInfo
  <2> QED
    BY <2>2, <2>4 DEF MemberOK, KnownOK
<1> QED
  BY <1>2 DEF InfoOK

\* The table has a member on a configured interface as the builder looks it up.
LEMMA InfoOfMember ==
    ASSUME NEW c, NEW info, info = buildMemberInfo(c), NEW n \in DOMAIN c.member,
           NEW m, m.iface \in ToSet(IfaceOrder),
           c.member[n] = [iface |-> m.iface, metric |-> m.metric, weight |-> m.weight]
    PROVE  n \in DOMAIN info /\ info[n] = InfoOf(m)
<1>1. m.iface \in DOMAIN FamilyOf
  BY Configured
<1>2. PICK i, j, u : i = m.iface /\ j = m.metric /\ u = m.weight
  OBVIOUS
<1>3. c.member[n].iface = i /\ c.member[n].metric = j /\ c.member[n].weight = u
  BY <1>2
<1> QED
  BY <1>1, <1>2, <1>3 DEF buildMemberInfo, InfoOf

\* A state without errors: a row at least, an interface in each, shares that
\* make 100, and no name that another member already has.
NoCollision(c, w) ==
    \A m \in ToSet(w) :
        findExistingMember(c, m.iface, m.metric, m.weight) = {} /\ m.iface # ""
            => GeneratedName(m) \notin DOMAIN c.member

\* The validation finds a row at least, and an interface in each.
LEMMA ValidRows ==
    ASSUME NEW c, NEW s, isValid(c, s)
    PROVE  /\ HasRow(s.tiers)
           /\ \A t \in DOMAIN s.tiers : Chosen(s.tiers[t])
<1>1. "no entries" \notin getErrors(c, s) /\ "no interface" \notin getErrors(c, s)
  BY DEF isValid
<1>2. (IF \A t \in DOMAIN s.tiers : s.tiers[t] = <<>> THEN {"no entries"} ELSE {})
        \subseteq getErrors(c, s)
  BY Zenon DEF getErrors
<1>3. (IF \E t \in DOMAIN s.tiers : \E k \in DOMAIN s.tiers[t] : s.tiers[t][k].iface = ""
       THEN {"no interface"} ELSE {}) \subseteq getErrors(c, s)
  BY Zenon DEF getErrors
<1>4. HasRow(s.tiers)
  BY <1>1, <1>2 DEF HasRow
<1>5. \A t \in DOMAIN s.tiers : Chosen(s.tiers[t])
  BY <1>1, <1>3 DEF Chosen
<1> QED
  BY <1>4, <1>5

\* It finds shares that make 100 in every family of every tier.
LEMMA ValidShares ==
    ASSUME NEW c, NEW s, isValid(c, s), NEW t \in DOMAIN s.tiers, NEW fam \in {"ipv4", "ipv6"}
    PROVE  Makes100(s.tiers[t], fam)
<1>1. "total" \notin getErrors(c, s)
  BY DEF isValid
<1>2. (IF \E u \in DOMAIN s.tiers : \E f \in ToSet(Families) :
               LET fe == ofFamily(s.tiers[u], f)
               IN /\ fe # <<>>
                  /\ Total([k \in DOMAIN fe |-> fe[k].pct]) # 100
       THEN {"total"} ELSE {}) \subseteq getErrors(c, s)
  BY Zenon DEF getErrors
<1>3. fam \in ToSet(Families)
  <2>1. DOMAIN Families = 1..2 /\ Families[1] = "ipv4" /\ Families[2] = "ipv6"
    BY DEF Families
  <2> QED
    BY <2>1 DEF ToSet
<1> QED
  BY Zenon, <1>1, <1>2, <1>3 DEF Makes100

\* It finds that every name to be generated is free.
LEMMA ValidNames ==
    ASSUME NEW c, NEW s, isValid(c, s), NEW w, w = WantedMembers(s)
    PROVE  NoCollision(c, w)
<1>1. "collision" \notin getErrors(c, s)
  BY DEF isValid
<1>2. (IF \E m \in ToSet(WantedMembers(s)) :
               /\ m.iface # ""
               /\ findExistingMember(c, m.iface, m.metric, m.weight) = {}
               /\ GeneratedName(m) \in DOMAIN c.member
            THEN {"collision"} ELSE {}) \subseteq getErrors(c, s)
  BY Zenon DEF getErrors
<1> QED
  BY Zenon, <1>1, <1>2 DEF NoCollision

\* So the tiers of a state without errors are valid.
LEMMA ValidState ==
    ASSUME NEW c, NEW s, isValid(c, s), GoodState(s), NEW tiers, tiers = s.tiers
    PROVE  HasRow(tiers) /\ ValidTiers(tiers)
<1>1. tiers \in Seq(Seq(Row))
  BY DEF GoodState, TiersOK
<1>2. HasRow(tiers) /\ \A t \in DOMAIN tiers : Chosen(tiers[t])
  BY ValidRows
<1>3. ASSUME NEW t \in DOMAIN tiers PROVE ValidTier(tiers[t])
  <2>1. PICK e : e = tiers[t]
    OBVIOUS
  <2>2. e \in Seq(Row) /\ Chosen(e)
    BY <1>1, <1>2, <2>1
  <2>3. Makes100(e, "ipv4") /\ Makes100(e, "ipv6")
    BY <2>1, ValidShares
  <2> QED
    BY <2>1, <2>2, <2>3 DEF ValidTier
<1> QED
  BY <1>1, <1>2, <1>3 DEF ValidTiers

\* The members of such a state.
LEMMA WantedOK ==
    ASSUME NEW c, NEW s, isValid(c, s), GoodState(s), NEW w, w = WantedMembers(s)
    PROVE  /\ \E l \in Nat \ {0} : DOMAIN w = 1..l
           /\ w \in Seq(AnyMember)
           /\ \A m \in ToSet(w) : MemberOK(m)
<1>1. PICK tiers, n : tiers = s.tiers /\ n = Len(tiers)
  OBVIOUS
<1>2. PICK M : TierMs(M, tiers)
  BY DEF TierMs
<1>3. PICK T : Filled(T, tiers)
  BY DEF Filled
<1>4. HasRow(tiers) /\ ValidTiers(tiers)
  BY <1>1, ValidState
<1>5. w \in Seq(AnyMember) /\ Len(w) # 0
  BY <1>1, <1>2, <1>3, <1>4, Wanted
<1>6. DOMAIN w = 1..Len(w) /\ Len(w) \in Nat
  BY <1>5, LenProperties
<1>7. ASSUME NEW m \in ToSet(w) PROVE MemberOK(m)
  <2>1. PICK k \in DOMAIN w : m = w[k]
    BY DEF ToSet
  <2>2. m \in AnyMember
    BY <1>5, <2>1
  <2> QED
    BY <2>2 DEF AnyMember, MemberOK
<1> QED
  BY <1>5, <1>6, <1>7

\* The members of a save are the wanted ones.
LEMMA SavedMembers ==
    ASSUME NEW c, NEW s, NEW spec, spec = getValue(c, s), NEW w, w = WantedMembers(s)
    PROVE  DOMAIN spec.useMembers = DOMAIN w /\ spec.membersToCreate \subseteq ToSet(w)
BY DEF getValue

\* A member is created as its name says.
CreatedAs(f, n, m) ==
    n = GeneratedName(m) /\ f[n] = [iface |-> n[1], metric |-> n[2], weight |-> n[3]]

\* A member after the save is one from before or a created one, whose values
\* are the ones in its name.
LEMMA AppliedMembers ==
    ASSUME NEW c, NEW spec, NEW auto, NEW d, d = Applied(c, spec, auto),
           NEW n \in DOMAIN d.member
    PROVE  \/ n \in DOMAIN c.member /\ d.member[n] = c.member[n]
           \/ \E m \in spec.membersToCreate : CreatedAs(d.member, n, m)
<1>1. PICK made, gone : made = {GeneratedName(m) : m \in spec.membersToCreate}
                        /\ gone = IF auto THEN spec.orphans ELSE {}
  OBVIOUS
<1>2. d.member = [x \in (DOMAIN c.member \cup made) \ gone |->
                    IF x \in made THEN [iface |-> x[1], metric |-> x[2], weight |-> x[3]]
                    ELSE c.member[x]]
  BY <1>1 DEF Applied
<1>3. n \in DOMAIN c.member \cup made
  BY <1>2
<1>4. d.member[n] = IF n \in made THEN [iface |-> n[1], metric |-> n[2], weight |-> n[3]]
                    ELSE c.member[n]
  BY <1>2
<1> QED
  BY <1>1, <1>3, <1>4 DEF CreatedAs

\* A save from a valid state leaves a readable configuration.
LEMMA AppliedReadable ==
    ASSUME NEW c, NEW s, NEW auto, NEW spec, NEW d, Readable(c), GoodState(s), isValid(c, s),
           spec = getValue(c, s), d = Applied(c, spec, auto)
    PROVE  Readable(d)
<1>1. PICK w : w = WantedMembers(s)
  OBVIOUS
<1>4. (\E l \in Nat \ {0} : DOMAIN w = 1..l) /\ \A m \in ToSet(w) : MemberOK(m)
  BY <1>1, WantedOK
<1>5. DOMAIN spec.useMembers = DOMAIN w /\ spec.membersToCreate \subseteq ToSet(w)
  BY <1>1, SavedMembers
<1>6. ASSUME NEW n \in DOMAIN d.member PROVE MemberOK(d.member[n])
  <2>1. CASE n \in DOMAIN c.member /\ d.member[n] = c.member[n]
    BY <2>1 DEF Readable, MembersOK
  <2>2. ASSUME NEW m \in spec.membersToCreate, CreatedAs(d.member, n, m)
        PROVE  MemberOK(d.member[n])
    <3>1. MemberOK(m)
      BY <1>4, <1>5
    <3>2. n[1] = m.iface /\ n[2] = m.metric /\ n[3] = m.weight
      BY <2>2 DEF CreatedAs, GeneratedName
    <3>3. PICK x : x = d.member[n]
      OBVIOUS
    <3>4. x.iface = m.iface /\ x.metric = m.metric /\ x.weight = m.weight
      BY <2>2, <3>2, <3>3 DEF CreatedAs
    <3> QED
      BY <3>1, <3>3, <3>4 DEF MemberOK
  <2>3. \/ n \in DOMAIN c.member /\ d.member[n] = c.member[n]
        \/ \E m \in spec.membersToCreate : CreatedAs(d.member, n, m)
    BY <1>6, AppliedMembers
  <2> QED
    BY <2>1, <2>2, <2>3
<1>7. ASSUME NEW q \in DOMAIN d.policy PROVE ListOK(d.policy[q].use_member)
  <2>1. /\ DOMAIN d.policy = DOMAIN c.policy \cup {spec.policyName}
        /\ d.policy[spec.policyName].use_member = spec.useMembers
        /\ \A x \in DOMAIN c.policy \ {spec.policyName} : d.policy[x] = c.policy[x]
    BY AppliedConfig
  <2>2. ListOK(spec.useMembers)
    BY <1>4, <1>5 DEF ListOK
  <2>3. CASE q = spec.policyName
    BY <2>1, <2>2, <2>3
  <2>4. CASE q # spec.policyName
    BY <1>7, <2>1, <2>4 DEF Readable, PoliciesOK
  <2> QED
    BY <2>3, <2>4
<1> QED
  BY <1>6, <1>7 DEF Readable, MembersOK, PoliciesOK

-----------------------------------------------------------------------------
\* The inductive invariant: both configurations can be read, and so can the
\* table and the state made from one of them.
ReadInv ==
    /\ Readable(saved) /\ Readable(cache)
    /\ InfoOK(memberInfo)
    /\ GoodState(state)

\* The page is loaded from a configuration without errors.
LEMMA ReadInit == Init => ReadInv
<1> SUFFICES ASSUME Init PROVE ReadInv
  OBVIOUS
<1>1. PICK c : c = FirstConfig
  OBVIOUS
<1>2. saved = c /\ cache = c /\ memberInfo = buildMemberInfo(c) /\ state = newState(<<>>)
  BY <1>1 DEF Init
<1>3. collectIssues(c).errors = {}
  BY <1>1, ConfigAssumption
<1>4. ASSUME NEW n \in DOMAIN c.member PROVE MemberOK(c.member[n])
  <2>1. c.member[n].iface \in ToSet(IfaceOrder)
    <3>1. n \notin collectIssues(c).errors
      BY <1>3
    <3> QED
      BY <3>1 DEF collectIssues
  <2>2. c.member[n].metric \in Nat /\ c.member[n].weight \in Nat
    BY <1>1, ConfigAssumption
  <2> QED
    BY <2>1, <2>2 DEF MemberOK
<1>5. ASSUME NEW p \in DOMAIN c.policy PROVE ListOK(c.policy[p].use_member)
  <2>1. PICK use, D : use = c.policy[p].use_member /\ D = DOMAIN c.member
    OBVIOUS
  <2>2. use \in Seq(D)
    BY <1>1, <2>1, ConfigAssumption
  <2>3. use # <<>>
    <3>1. p \notin collectIssues(c).errors
      BY <1>3
    <3> QED
      BY <2>1, <3>1 DEF collectIssues
  <2>4. Len(use) \in Nat /\ DOMAIN use = 1..Len(use) /\ Len(use) # 0
    BY <2>2, <2>3, LenProperties, EmptySeq
  <2> QED
    BY <2>1, <2>4 DEF ListOK
<1>6. Readable(c)
  BY <1>4, <1>5 DEF Readable, MembersOK, PoliciesOK
<1>7. InfoOK(memberInfo)
  BY <1>2, <1>6, InfoBuilt DEF Readable
<1>8. GoodState(state)
  BY <1>2, NewIsGood
<1> QED
  BY <1>2, <1>6, <1>7, <1>8 DEF ReadInv

\* The steps that leave the configurations alone.
LEMMA ReadStays ==
    ASSUME ReadInv, UNCHANGED <<saved, cache, memberInfo>>, GoodState(state')
    PROVE  ReadInv'
<1>1. PICK a, b, i, s : a = saved /\ b = cache /\ i = memberInfo /\ s = state'
  OBVIOUS
<1>2. Readable(a) /\ Readable(b) /\ InfoOK(i) /\ GoodState(s)
  BY <1>1 DEF ReadInv
<1>3. saved' = a /\ cache' = b /\ memberInfo' = i /\ state' = s
  BY <1>1
<1> QED
  BY <1>2, <1>3 DEF ReadInv

\* The editor and the dialogs.
LEMMA ReadEdit ==
    ASSUME ReadInv,
           \/ EditRow \/ EditTier \/ addTier \/ typeName \/ changeLastResort
           \/ selectPolicy \/ handleAdd \/ handleEdit \/ hideModal \/ toggleAutoDelete
    PROVE  ReadInv'
<1>1. GoodState(state) /\ InfoOK(memberInfo) /\ PoliciesOK(cache.policy)
  BY DEF ReadInv, Readable
<1>2. ASSUME NEW p \in DOMAIN cache.policy, NEW s, s = stateFromPolicy(cache, memberInfo, p)
      PROVE  GoodState(s)
  <2>1. ListOK(cache.policy[p].use_member)
    BY <1>1 DEF PoliciesOK
  <2> QED
    BY <1>1, <1>2, <2>1, OpenedIsGood
<1>3. CASE EditRow \/ EditTier \/ addTier \/ typeName \/ changeLastResort \/ selectPolicy
  <2>1. Editing
    BY <1>3, IsEditing
  <2>2. UNCHANGED <<saved, cache, memberInfo>>
    BY <2>1 DEF Editing, page
  <2>3. CASE EditRow
    <3>0. PICK t \in DOMAIN state.tiers : \E k \in DOMAIN state.tiers[t] :
            \/ changeFamily(t, k) \/ changeIface(t, k)
            \/ typePercent(t, k)  \/ removeEntry(t, k)
      BY <2>3 DEF EditRow
    <3>1. PICK k \in DOMAIN state.tiers[t] :
            \/ changeFamily(t, k) \/ changeIface(t, k)
            \/ typePercent(t, k)  \/ removeEntry(t, k)
      BY <3>0
    <3>2. GoodState(state')
      BY <1>1, <3>1, ChangeFamilyKeeps, ChangeIfaceKeeps, TypePercentKeeps, RemoveEntryKeeps
    <3> QED
      BY <2>2, <3>2, ReadStays
  <2>4. CASE EditTier \/ addTier
    <3>1. GoodState(state')
      BY <1>1, <2>4, AddEntryKeeps, TierKeeps DEF EditTier
    <3> QED
      BY <2>2, <3>1, ReadStays
  <2>5. CASE typeName \/ changeLastResort
    BY <1>1, <2>2, <2>5, ControlsKeep, ReadStays
  <2>6. CASE selectPolicy
    <3>1. \E s : /\ state' = [s EXCEPT !.tiers = Rendered(s.tiers)]
                 /\ \/ s = newState(<<>>)
                    \/ \E p \in DOMAIN cache.policy : s = stateFromPolicy(cache, memberInfo, p)
      BY Zenon, <2>6 DEF selectPolicy, setValue
    <3>2. PICK s : /\ state' = [s EXCEPT !.tiers = Rendered(s.tiers)]
                   /\ \/ s = newState(<<>>)
                      \/ \E p \in DOMAIN cache.policy : s = stateFromPolicy(cache, memberInfo, p)
      BY <3>1
    <3>3. GoodState(s)
      BY <1>2, <3>2, NewIsGood
    <3>4. PICK d : d = state' /\ d = [s EXCEPT !.tiers = Rendered(s.tiers)]
      BY <3>2
    <3>5. GoodState(d)
      BY <3>3, <3>4, RenderedState
    <3> QED
      BY <2>2, <3>4, <3>5, ReadStays
  <2> QED
    BY <1>3, <2>3, <2>4, <2>5, <2>6
<1>4. CASE handleAdd \/ handleEdit
  <2>1. UNCHANGED <<saved, cache, memberInfo>>
    BY <1>4 DEF handleAdd, handleEdit, openBuilder, page
  <2>2. \E s : /\ state' = [s EXCEPT !.tiers = Rendered(s.tiers)]
               /\ \/ \E n \in Names : s = newState(n)
                  \/ \E p \in DOMAIN cache.policy : s = stateFromPolicy(cache, memberInfo, p)
    BY Zenon, <1>4 DEF handleAdd, handleEdit, openBuilder
  <2>3. PICK s : /\ state' = [s EXCEPT !.tiers = Rendered(s.tiers)]
                 /\ \/ \E n \in Names : s = newState(n)
                    \/ \E p \in DOMAIN cache.policy : s = stateFromPolicy(cache, memberInfo, p)
    BY <2>2
  <2>4. GoodState(s)
    BY <1>2, <2>3, NewIsGood
  <2>5. PICK d : d = state' /\ d = [s EXCEPT !.tiers = Rendered(s.tiers)]
    BY <2>3
  <2>6. GoodState(d)
    BY <2>4, <2>5, RenderedState
  <2> QED
    BY <2>1, <2>5, <2>6, ReadStays
<1>5. CASE hideModal \/ toggleAutoDelete
  <2>1. UNCHANGED <<saved, cache, memberInfo>> /\ state' = state
    BY <1>5 DEF hideModal, toggleAutoDelete, page
  <2>2. GoodState(state')
    BY <1>1, <2>1
  <2> QED
    BY <2>1, <2>2, ReadStays
<1> QED
  BY <1>3, <1>4, <1>5

\* The steps that change a configuration, from what it is after them.
LEMMA ReadChanges ==
    ASSUME ReadInv, NEW a, NEW b, NEW i, Readable(a), Readable(b), InfoOK(i),
           saved' = a, cache' = b, memberInfo' = i, state' = state
    PROVE  ReadInv'
<1>1. PICK s : s = state
  OBVIOUS
<1>2. GoodState(s) /\ state' = s
  BY <1>1 DEF ReadInv
<1> QED
  BY <1>2 DEF ReadInv

\* Save is clicked in the builder.
LEMMA ReadApply ==
    ASSUME ReadInv, applyPolicy PROVE ReadInv'
<1>1. PICK c, s, spec, d : /\ c = cache /\ s = state /\ spec = getValue(c, s)
                           /\ d = Applied(c, spec, autoDelete)
  OBVIOUS
<1>2. /\ isValid(c, s) /\ cache' = d
      /\ UNCHANGED <<saved, memberInfo, state>>
  BY <1>1 DEF applyPolicy
<1>3. Readable(d)
  BY <1>1, <1>2, AppliedReadable DEF ReadInv
<1>4. PICK a, i : a = saved /\ i = memberInfo
  OBVIOUS
<1>5. Readable(a) /\ InfoOK(i)
  BY <1>4 DEF ReadInv
<1> QED
  BY <1>2, <1>3, <1>4, <1>5, ReadChanges

\* Members are deleted.
LEMMA WithoutKeeps ==
    ASSUME NEW f, MembersOK(f), NEW D, NEW g, g = Without(f, D) PROVE MembersOK(g)
BY DEF MembersOK, Without, Restrict

\* Delete selected is clicked in the orphan dialog.
LEMMA ReadDelete ==
    ASSUME BuilderInv, ReadInv, deleteSelected PROVE ReadInv'
<1>1. PICK c, ticked, f, d : /\ c = cache /\ f = Without(c.member, ticked)
                             /\ d = cache' /\ d = [c EXCEPT !.member = f]
  BY DEF deleteSelected
<1>2. IsConfig(c) /\ Readable(c)
  BY <1>1 DEF BuilderInv, ConfigOK, ReadInv
<1>3. d.member = f /\ d.policy = c.policy
  BY <1>1, <1>2 DEF IsConfig
<1>4. Readable(d)
  BY <1>1, <1>2, <1>3, WithoutKeeps DEF Readable
<1>5. PICK a, i : a = saved /\ i = memberInfo
  OBVIOUS
<1>6. Readable(a) /\ InfoOK(i)
  BY <1>5 DEF ReadInv
<1>7. cache' = d /\ saved' = a /\ memberInfo' = i /\ state' = state
  BY <1>1, <1>5 DEF deleteSelected
<1> QED
  BY <1>4, <1>6, <1>7, ReadChanges

\* The save is answered, or the page is loaded again.
LEMMA ReadAnswer ==
    ASSUME ReadInv, saveDone \/ saveFailed \/ dismissOrphans PROVE ReadInv'
<1>1. PICK a, c, i, j, k : /\ a = saved /\ c = cache /\ i = memberInfo
                           /\ j = buildMemberInfo(c) /\ k = buildMemberInfo(a)
  OBVIOUS
<1>2. Readable(a) /\ Readable(c) /\ InfoOK(i)
  BY <1>1 DEF ReadInv
<1>3. InfoOK(j) /\ InfoOK(k)
  BY <1>1, <1>2, InfoBuilt DEF Readable
<1>4. CASE saveDone
  <2>1. saved' = c /\ cache' = c /\ (memberInfo' = i \/ memberInfo' = j) /\ state' = state
    BY <1>1, <1>4 DEF saveDone, reload
  <2> QED
    BY <1>2, <1>3, <2>1, ReadChanges
<1>5. CASE saveFailed
  <2>1. saved' = a /\ cache' = c /\ memberInfo' = i /\ state' = state
    BY <1>1, <1>5 DEF saveFailed, page
  <2> QED
    BY <1>2, <2>1, ReadChanges
<1>6. CASE dismissOrphans
  <2>1. saved' = a /\ cache' = a /\ memberInfo' = k /\ state' = state
    BY <1>1, <1>6 DEF dismissOrphans, reload
  <2> QED
    BY <1>2, <1>3, <2>1, ReadChanges
<1> QED
  BY <1>4, <1>5, <1>6

\* A member gets other values.
LEMMA EditedMember ==
    ASSUME NEW f, MembersOK(f), NEW n, NEW v, MemberOK(v), NEW g, g = [f EXCEPT ![n] = v]
    PROVE  MembersOK(g)
BY DEF MembersOK

\* Save is clicked on the Members page.
LEMMA ReadEditMember ==
    ASSUME BuilderInv, ReadInv, editMember PROVE ReadInv'
<1>1. PICK n \in DOMAIN saved.member, i \in ToSet(IfaceOrder), m \in 1..MaxTiers, w \in Weights :
        saved' = [saved EXCEPT !.member[n] = [iface |-> i, metric |-> m, weight |-> w]]
  BY DEF editMember
<1>2. PICK c, v, f, d, info :
        /\ c = saved /\ v = [iface |-> i, metric |-> m, weight |-> w]
        /\ f = [c.member EXCEPT ![n] = v] /\ d = [c EXCEPT !.member = f]
        /\ info = buildMemberInfo(d)
  OBVIOUS
<1>3. saved' = d
  BY <1>1, <1>2
<1>4. MemberOK(v)
  <2>1. MaxTiers \in Nat /\ Weights \subseteq Nat
    BY Zenon, BoundsAssumption
  <2>2. m \in Int /\ w \in Nat
    BY <2>1
  <2>3. v.iface = i /\ v.metric = m /\ v.weight = w
    BY <1>2
  <2> QED
    BY <2>2, <2>3 DEF MemberOK
<1>5. IsConfig(c) /\ Readable(c)
  BY <1>2 DEF BuilderInv, ConfigOK, ReadInv
<1>6. d.member = f /\ d.policy = c.policy
  BY <1>2, <1>5 DEF IsConfig
<1>7. Readable(d)
  BY <1>2, <1>4, <1>5, <1>6, EditedMember DEF Readable
<1>8. InfoOK(info)
  BY <1>2, <1>7, InfoBuilt DEF Readable
<1>9. cache' = d /\ memberInfo' = info /\ state' = state
  BY <1>2, <1>3 DEF editMember, reload
<1> QED
  BY <1>3, <1>7, <1>8, <1>9, ReadChanges

\* A step, or none.
LEMMA ReadNext == BuilderInv /\ ReadInv /\ [Next]_vars => ReadInv'
<1>1. ReadInv /\ UNCHANGED vars => ReadInv'
  <2> SUFFICES ASSUME ReadInv, UNCHANGED vars PROVE ReadInv'
    OBVIOUS
  <2>1. UNCHANGED <<saved, cache, memberInfo>> /\ state' = state
    BY DEF vars
  <2>2. GoodState(state')
    BY <2>1 DEF ReadInv
  <2> QED
    BY <2>1, <2>2, ReadStays
<1> QED
  BY <1>1, ReadEdit, ReadApply, ReadDelete, ReadAnswer, ReadEditMember DEF Next

\* The router, the cache, the page and the editor stay readable, whatever is
\* drawn, saved, lost or deleted.
THEOREM ReadInvariant == Spec => []ReadInv
BY ReadInit, ReadNext, BuilderInvariant, PTL DEF Spec

\* A configuration that can be read is one without errors, and both columns
\* of the grid show what the builder shows.
LEMMA ReadableAgrees ==
    ASSUME NEW c, NoDangling(c), Readable(c)
    PROVE  /\ collectIssues(c).errors = {}
           /\ \A p \in DOMAIN c.policy, fam \in ToSet(Families) :
                LET info  == buildMemberInfo(c)
                    tiers == stateFromPolicy(c, info, p).tiers
                IN familyDesc(c, info, p, fam)
                     = NonEmpty([t \in DOMAIN tiers |-> ofFamily(tiers[t], fam)])
<1>1. collectIssues(c).errors = {}
  <2>1. \A n \in DOMAIN c.member : c.member[n].iface \in ToSet(IfaceOrder)
    BY DEF Readable, MembersOK, MemberOK
  <2>2. ASSUME NEW p \in DOMAIN c.policy PROVE c.policy[p].use_member # <<>>
    <3>1. ListOK(c.policy[p].use_member)
      BY DEF Readable, PoliciesOK
    <3>2. PICK use : use = c.policy[p].use_member
      OBVIOUS
    <3>3. PICK l \in Nat \ {0} : DOMAIN use = 1..l
      BY <3>1, <3>2 DEF ListOK
    <3>4. 1 \in DOMAIN use
      BY <3>3
    <3>5. use # <<>>
      BY <3>4
    <3> QED
      BY <3>2, <3>5
  <2>3. \A p \in DOMAIN c.policy : ToSet(c.policy[p].use_member) \subseteq DOMAIN c.member
    BY DEF NoDangling
  <2> QED
    BY <2>1, <2>2, <2>3 DEF collectIssues
<1>2. ASSUME NEW p \in DOMAIN c.policy, NEW fam \in ToSet(Families),
             NEW info, info = buildMemberInfo(c),
             NEW tiers, tiers = stateFromPolicy(c, info, p).tiers
      PROVE  familyDesc(c, info, p, fam)
               = NonEmpty([t \in DOMAIN tiers |-> ofFamily(tiers[t], fam)])
  <2>1. fam \in {"ipv4", "ipv6"}
    BY DEF Families, ToSet
  <2>a. ListOK(c.policy[p].use_member)
    BY DEF Readable, PoliciesOK
  <2>b. PICK use : use = c.policy[p].use_member
    OBVIOUS
  <2>2. PICK l \in Nat : DOMAIN use = 1..l
    BY <2>a, <2>b DEF ListOK
  <2>3. InfoOK(info)
    BY <1>2, InfoBuilt DEF Readable
  <2>4. \A k \in 1..l : use[k] \in DOMAIN info => info[use[k]].metric \in Int
    BY <2>3 DEF InfoOK, KnownOK, MemberOK
  <2> QED
    BY <1>2, <2>1, <2>2, <2>b, <2>4, GridIsBuilder
<1> QED
  BY <1>1, <1>2

\* Whatever was saved, lost, retried or deleted as an orphan, the router's
\* configuration has no error and the grid shows what the builder opens with,
\* for all interfaces, names, shares, weights and configurations.
THEOREM SavedAlwaysReadable == Spec => []SavedIsReadable
<1>1. BuilderInv /\ ReadInv => SavedIsReadable
  <2> SUFFICES ASSUME BuilderInv, ReadInv PROVE SavedIsReadable
    OBVIOUS
  <2>1. NoDangling(saved) /\ Readable(saved)
    BY DEF BuilderInv, ConfigOK, ReadInv
  <2> QED
    BY <2>1, ReadableAgrees DEF SavedIsReadable
<1> QED
  BY <1>1, BuilderInvariant, ReadInvariant, PTL

-----------------------------------------------------------------------------
(***************************************************************************)
(* What is saved is what was drawn.                                        *)
(***************************************************************************)
\* The name a save gives to a wanted member.
NameOf(c, m) ==
    LET found == findExistingMember(c, m.iface, m.metric, m.weight)
    IN IF found # {} THEN CHOOSE n \in found : TRUE ELSE GeneratedName(m)
IsNew(c, m) == findExistingMember(c, m.iface, m.metric, m.weight) = {}
AsMember(m) == [iface |-> m.iface, metric |-> m.metric, weight |-> m.weight]

\* A save names the wanted members so, creates the new ones, and drops none
\* of those it names.
LEMMA SavedNames ==
    ASSUME NEW c, NEW s, NEW spec, spec = getValue(c, s), NEW w, w = WantedMembers(s)
    PROVE  /\ spec.useMembers = [k \in DOMAIN w |-> NameOf(c, w[k])]
           /\ \A m : m \in spec.membersToCreate <=> m \in ToSet(w) /\ IsNew(c, m)
           /\ \A n \in spec.orphans : n \notin ToSet(spec.useMembers)
<1>1. spec.useMembers = [k \in DOMAIN w |-> NameOf(c, w[k])]
  BY DEF getValue, NameOf
<1>2. spec.membersToCreate = {m \in ToSet(w) : IsNew(c, m)}
  BY DEF getValue, IsNew
<1>3. \A n \in spec.orphans : n \notin ToSet(spec.useMembers)
  <2>1. PICK p, old, use, o : /\ o = spec.orphans /\ use = spec.useMembers
                              /\ o = Orphans(c, p, old, use)
    BY GetValue
  <2> QED
    BY <2>1, IsOrphan
<1> QED
  BY <1>1, <1>2, <1>3

\* A name that is found is the name of such a member.
LEMMA FoundName ==
    ASSUME NEW c, NEW m, ~IsNew(c, m), NEW n, n = NameOf(c, m)
    PROVE  n \in DOMAIN c.member /\ c.member[n] = AsMember(m)
<1>1. PICK found : found = findExistingMember(c, m.iface, m.metric, m.weight)
  OBVIOUS
<1>2. found # {}
  BY <1>1 DEF IsNew
<1>3. n = CHOOSE x \in found : TRUE
  BY <1>1, <1>2 DEF NameOf
<1>4. n \in found
  <2>1. \E x \in found : TRUE
    BY <1>2
  <2> QED
    BY Zenon, <1>3, <2>1
<1> QED
  BY <1>1, <1>4 DEF findExistingMember, AsMember

\* The member that is created under a generated name.
LEMMA GeneratedMember ==
    ASSUME NEW m, NEW n, n = GeneratedName(m)
    PROVE  [iface |-> n[1], metric |-> n[2], weight |-> n[3]] = AsMember(m)
BY DEF GeneratedName, AsMember

\* No interface is called "".
LEMMA HasIface ==
    ASSUME NEW m, MemberOK(m) PROVE m.iface # ""
<1>1. "" \notin ToSet(IfaceOrder)
  BY Zenon, BoundsAssumption
<1> QED
  BY <1>1 DEF MemberOK

\* After the save every wanted member is there under its name: one that was
\* found is neither deleted nor written over.
LEMMA Kept ==
    ASSUME NEW c, NEW s, isValid(c, s), GoodState(s), NEW auto,
           NEW spec, spec = getValue(c, s), NEW d, d = Applied(c, spec, auto),
           NEW w, w = WantedMembers(s), NEW k \in DOMAIN w, NEW n, n = NameOf(c, w[k])
    PROVE  n \in DOMAIN d.member /\ d.member[n] = AsMember(w[k])
<1>1. PICK m, made, gone, use :
        /\ m = w[k] /\ made = {GeneratedName(x) : x \in spec.membersToCreate}
        /\ gone = (IF auto THEN spec.orphans ELSE {}) /\ use = spec.useMembers
  OBVIOUS
<1>2. /\ use = [j \in DOMAIN w |-> NameOf(c, w[j])]
      /\ \A x : x \in spec.membersToCreate <=> x \in ToSet(w) /\ IsNew(c, x)
      /\ \A x \in spec.orphans : x \notin ToSet(use)
  BY <1>1, SavedNames
<1>3. m \in ToSet(w) /\ n \in ToSet(use)
  BY <1>1, <1>2 DEF ToSet
<1>4. n \notin gone
  BY <1>1, <1>2, <1>3
<1>5. d.member = [x \in (DOMAIN c.member \cup made) \ gone |->
                    IF x \in made THEN [iface |-> x[1], metric |-> x[2], weight |-> x[3]]
                    ELSE c.member[x]]
  BY <1>1 DEF Applied
<1>6. CASE IsNew(c, m)
  <2>1. n = GeneratedName(m)
    BY <1>1, <1>6 DEF NameOf, IsNew
  <2>2. n \in made
    BY <1>1, <1>2, <1>3, <1>6, <2>1
  <2>3. n \in DOMAIN d.member /\ d.member[n] = [iface |-> n[1], metric |-> n[2], weight |-> n[3]]
    BY <1>4, <1>5, <2>2
  <2> QED
    BY <1>1, <2>1, <2>3, GeneratedMember
<1>7. CASE ~IsNew(c, m)
  <2>1. n \in DOMAIN c.member /\ c.member[n] = AsMember(m)
    BY <1>1, <1>7, FoundName
  <2>2. n \notin made
    <3> SUFFICES ASSUME NEW x \in spec.membersToCreate, n = GeneratedName(x) PROVE FALSE
      BY <1>1
    <3>1. x \in ToSet(w) /\ IsNew(c, x)
      BY <1>2
    <3>2. MemberOK(x)
      BY <3>1, WantedOK
    <3>3. NoCollision(c, w)
      BY ValidNames
    <3> QED
      BY <2>1, <3>1, <3>2, <3>3, HasIface DEF NoCollision, IsNew
  <2> QED
    BY <1>1, <1>4, <1>5, <2>1, <2>2
<1> QED
  BY <1>6, <1>7

\* So the table made from the saved configuration has every wanted member.
LEMMA Reread ==
    ASSUME NEW c, NEW s, isValid(c, s), GoodState(s), NEW auto,
           NEW spec, spec = getValue(c, s), NEW d, d = Applied(c, spec, auto),
           NEW w, w = WantedMembers(s), NEW info, info = buildMemberInfo(d)
    PROVE  LooksUp(spec.useMembers, info, w)
<1>1. PICK use : use = spec.useMembers
  OBVIOUS
<1>2. use = [k \in DOMAIN w |-> NameOf(c, w[k])]
  BY <1>1, SavedNames
<1>3. ASSUME NEW k \in DOMAIN w
      PROVE  use[k] \in DOMAIN info /\ info[use[k]] = InfoOf(w[k])
  <2>1. PICK n, m : n = NameOf(c, w[k]) /\ m = w[k]
    OBVIOUS
  <2>2. use[k] = n
    BY <1>2, <2>1
  <2>3. n \in DOMAIN d.member /\ d.member[n] = AsMember(m)
    BY <2>1, Kept
  <2>4. MemberOK(m)
    <3>1. m \in ToSet(w)
      BY <2>1 DEF ToSet
    <3> QED
      BY <3>1, WantedOK
  <2>5. n \in DOMAIN info /\ info[n] = InfoOf(m)
    BY <2>3, <2>4, InfoOfMember DEF AsMember, MemberOK
  <2> QED
    BY <2>1, <2>2, <2>5
<1>4. use = [k \in DOMAIN w |-> use[k]]
  BY <1>2
<1> QED
  BY <1>1, <1>3, <1>4 DEF LooksUp

\* A configuration shows a policy as tiers were drawn.
Shows(c, p, tiers) ==
    EntriesByFamily(stateFromPolicy(c, buildMemberInfo(c), p).tiers) = EntriesByFamily(tiers)

\* The configuration after a save shows the policy as it was drawn.
LEMMA ShownAgain ==
    ASSUME NEW c, NEW s, isValid(c, s), GoodState(s), NEW auto,
           NEW spec, spec = getValue(c, s), NEW d, d = Applied(c, spec, auto)
    PROVE  Shows(d, spec.policyName, s.tiers)
<1>1. PICK w, tiers, p : w = WantedMembers(s) /\ tiers = s.tiers /\ p = spec.policyName
  OBVIOUS
<1>2. PICK info : info = buildMemberInfo(d)
  OBVIOUS
<1>3. HasRow(tiers) /\ ValidTiers(tiers)
  BY <1>1, ValidState
<1>4. LooksUp(spec.useMembers, info, w)
  BY <1>1, <1>2, Reread
<1>5. d.policy[p].use_member = spec.useMembers
  BY <1>1, AppliedConfig
<1>6. LooksUp(d.policy[p].use_member, info, w)
  BY <1>4, <1>5
<1>7. PICK again : again = stateFromPolicy(d, info, p).tiers
  OBVIOUS
<1>8. EntriesByFamily(again) = EntriesByFamily(tiers)
  BY <1>1, <1>3, <1>6, <1>7, PolicyBack
<1> QED
  BY <1>1, <1>2, <1>7, <1>8 DEF Shows

\* While a save is in flight the cache shows the policy as it was drawn.
DrawnInv ==
    (sent # Nothing /\ sent.kind = "policy") => Shows(cache, sent.name, sent.tiers)

\* The steps that leave the cache and the save alone.
LEMMA DrawnStays ==
    ASSUME DrawnInv, UNCHANGED <<cache, sent>> PROVE DrawnInv'
<1>1. PICK c, x : c = cache /\ x = sent
  OBVIOUS
<1>2. cache' = c /\ sent' = x /\ ((x # Nothing /\ x.kind = "policy") => Shows(c, x.name, x.tiers))
  BY <1>1 DEF DrawnInv
<1> QED
  BY <1>2 DEF DrawnInv

\* Save is clicked.
LEMMA DrawnApply ==
    ASSUME ReadInv, applyPolicy PROVE DrawnInv'
<1>1. PICK c, s, spec, d : /\ c = cache /\ s = state /\ spec = getValue(c, s)
                           /\ d = Applied(c, spec, autoDelete)
  OBVIOUS
<1>2. /\ isValid(c, s) /\ cache' = d
      /\ sent'.name = spec.policyName /\ sent'.tiers = s.tiers
  BY <1>1 DEF applyPolicy
<1>3. GoodState(s)
  BY <1>1 DEF ReadInv
<1>4. Shows(d, spec.policyName, s.tiers)
  BY <1>1, <1>2, <1>3, ShownAgain
<1> QED
  BY <1>2, <1>4 DEF DrawnInv

\* No other step changes the cache while a save is in flight.
LEMMA DrawnNext == ReadInv /\ DrawnInv /\ [Next]_vars => DrawnInv'
<1> SUFFICES ASSUME ReadInv, DrawnInv, [Next]_vars PROVE DrawnInv'
  OBVIOUS
<1>1. CASE \/ EditRow \/ EditTier \/ addTier \/ typeName \/ changeLastResort \/ selectPolicy
  <2>1. Editing
    BY <1>1, IsEditing
  <2>2. UNCHANGED <<cache, sent>>
    BY <2>1 DEF Editing, page
  <2> QED
    BY <2>2, DrawnStays
<1>2. CASE \/ handleAdd \/ handleEdit \/ hideModal \/ toggleAutoDelete
  <2>1. UNCHANGED <<cache, sent>>
    BY <1>2 DEF handleAdd, handleEdit, openBuilder, hideModal, toggleAutoDelete, page
  <2> QED
    BY <2>1, DrawnStays
<1>3. CASE applyPolicy
  BY <1>3, DrawnApply
<1>4. CASE deleteSelected
  <2>1. sent'.kind = "orphans"
    BY <1>4 DEF deleteSelected
  <2> QED
    BY <2>1 DEF DrawnInv
<1>5. CASE saveDone \/ saveFailed \/ dismissOrphans \/ editMember
  <2>1. sent' = Nothing
    BY <1>5 DEF saveDone, saveFailed, dismissOrphans, editMember
  <2> QED
    BY <2>1 DEF DrawnInv
<1>6. CASE UNCHANGED vars
  <2>1. UNCHANGED <<cache, sent>>
    BY <1>6 DEF vars
  <2> QED
    BY <2>1, DrawnStays
<1> QED
  BY <1>1, <1>2, <1>3, <1>4, <1>5, <1>6 DEF Next

\* Nothing is in flight when the page is loaded.
LEMMA DrawnInit == Init => DrawnInv
BY DEF Init, DrawnInv

\* The cache shows the policy of the save in flight as it was drawn, whatever is
\* edited, lost or opened until the save is answered.
THEOREM DrawnInvariant == Spec => []DrawnInv
BY DrawnInit, DrawnNext, ReadInvariant, PTL DEF Spec

\* A policy that was saved is shown again exactly as it was drawn, for all
\* interfaces, shares, numbers of tiers and configurations: the shares survive
\* the way through reduced weights, found or created members, and back.
THEOREM SavedAlwaysAsDrawn == Spec => SavedAsDrawn
<1>1. ASSUME DrawnInv, saveDone, sent.kind = "policy"
      PROVE  EntriesByFamily(stateFromPolicy(saved', buildMemberInfo(saved'), sent.name).tiers)
               = EntriesByFamily(sent.tiers)
  <2>1. PICK c, x : c = cache /\ x = sent
    OBVIOUS
  <2>2. saved' = c /\ x # Nothing /\ x.kind = "policy"
    BY <1>1, <2>1 DEF saveDone
  <2>3. Shows(c, x.name, x.tiers)
    BY <1>1, <2>1, <2>2 DEF DrawnInv
  <2> QED
    BY <2>1, <2>2, <2>3 DEF Shows
<1>2. DrawnInv /\ [Next]_vars =>
        [(saveDone /\ sent.kind = "policy") =>
           EntriesByFamily(stateFromPolicy(saved', buildMemberInfo(saved'), sent.name).tiers)
             = EntriesByFamily(sent.tiers)]_vars
  BY <1>1
<1> QED
  BY <1>2, DrawnInvariant, PTL DEF Spec, SavedAsDrawn
=============================================================================
