------------------------ MODULE NetSpeedTestProofs ------------------------
(***************************************************************************)
(* The pages of luci-app-netspeedtest: OneTestAtATime and ServerAsAsked,   *)
(* for any number of checks, clicks and faults.                            *)
(*                                                                         *)
(* OneTestAtATime rests on the lock alone (ScriptInv), the saved settings  *)
(* on a save that runs alone (SaveInv).  That the Homebox process ends up  *)
(* as asked needs more: while an operation is in progress the toggle       *)
(* clicked last drives the process, only it may still start a server, and  *)
(* commands that kill are under way only where a stop was asked and the    *)
(* process may die (ToggleInv).                                            *)
(***************************************************************************)
EXTENDS NetSpeedTest, SequenceTheorems, FiniteSetTheorems, TLAPS

-----------------------------------------------------------------------------
\* RemoveAt takes one element out and moves the later ones down.
LEMMA RemoveAtShape ==
  ASSUME NEW S, NEW s \in Seq(S), NEW i \in 1..Len(s)
  PROVE  /\ RemoveAt(s, i) \in Seq(S)
         /\ Len(RemoveAt(s, i)) = Len(s) - 1
         /\ \A j \in 1..(Len(s) - 1) :
              RemoveAt(s, i)[j] = s[IF j < i THEN j ELSE j + 1]
<1> DEFINE a == SubSeq(s, 1, i - 1)
           b == SubSeq(s, i + 1, Len(s))
<1>1. Len(s) \in Nat /\ \A k \in 1..Len(s) : s[k] \in S
  OBVIOUS
<1>2. /\ a \in Seq(S) /\ Len(a) = i - 1
      /\ \A k \in 1..(i - 1) : a[k] = s[k]
  <2>1. \A k \in 1..(i - 1) : s[k] \in S
    BY <1>1
  <2>2. /\ a \in Seq(S) /\ Len(a) = IF 1 <= i - 1 THEN i - 1 - 1 + 1 ELSE 0
        /\ \A k \in 1..(i - 1 - 1 + 1) : a[k] = s[1 + k - 1]
    BY <1>1, <2>1, SubSeqProperties
  <2> QED
    BY <1>1, <2>2
<1>3. /\ b \in Seq(S) /\ Len(b) = Len(s) - i
      /\ \A k \in 1..(Len(s) - i) : b[k] = s[i + k]
  <2>1. \A k \in (i + 1)..Len(s) : s[k] \in S
    BY <1>1
  <2>2. /\ b \in Seq(S)
        /\ Len(b) = IF i + 1 <= Len(s) THEN Len(s) - (i + 1) + 1 ELSE 0
        /\ \A k \in 1..(Len(s) - (i + 1) + 1) : b[k] = s[i + 1 + k - 1]
    BY <1>1, <2>1, SubSeqProperties
  <2> HIDE DEF b
  <2>3. \A k \in 1..(Len(s) - i) : b[k] = s[i + k]
    <3> TAKE k \in 1..(Len(s) - i)
    <3>1. k \in 1..(Len(s) - (i + 1) + 1) /\ i + 1 + k - 1 = i + k
      BY <1>1
    <3> QED
      BY <2>2, <3>1
  <2> QED
    BY <1>1, <2>2, <2>3
<1> HIDE DEF a, b
<1>4. /\ a \o b \in Seq(S) /\ Len(a \o b) = Len(a) + Len(b)
      /\ \A k \in 1..(Len(a) + Len(b)) :
           (a \o b)[k] = IF k <= Len(a) THEN a[k] ELSE b[k - Len(a)]
  BY <1>2, <1>3, ConcatProperties
<1>5. RemoveAt(s, i) = a \o b
  BY DEF RemoveAt, a, b
<1>6. \A j \in 1..(Len(s) - 1) : (a \o b)[j] = s[IF j < i THEN j ELSE j + 1]
  <2> TAKE j \in 1..(Len(s) - 1)
  <2>1. (a \o b)[j] = IF j <= i - 1 THEN a[j] ELSE b[j - (i - 1)]
    BY <1>1, <1>2, <1>3, <1>4
  <2>2. CASE j < i
    BY <1>1, <1>2, <2>1, <2>2
  <2>3. CASE ~(j < i)
    <3>1. j - (i - 1) \in 1..(Len(s) - i) /\ i + (j - (i - 1)) = j + 1
      BY <1>1, <2>3
    <3> QED
      BY <1>1, <1>3, <2>1, <2>3, <3>1
  <2> QED
    BY <2>2, <2>3
<1>7. Len(a \o b) = Len(s) - 1
  BY <1>1, <1>2, <1>3, <1>4
<1> QED
  BY <1>4, <1>5, <1>6, <1>7

-----------------------------------------------------------------------------
Stages == {"check", "stale", "lock", "gave up"} \cup Holders
Copies == [id : Nat, stage : Stages]

\* The copies of the script, and the lock that one of them holds.
ScriptInv ==
    /\ clicks \in Nat /\ scripts \in Seq(Copies)
    /\ \A i, j \in 1..Len(scripts) :
         scripts[i].stage \in Holders /\ scripts[j].stage \in Holders => i = j

\* A copy that ends leaves the others as they are.
LEMMA ScriptEnds ==
  ASSUME ScriptInv, NEW i \in 1..Len(scripts), scripts' = RemoveAt(scripts, i), clicks' \in Nat
  PROVE  ScriptInv'
<1>1. scripts \in Seq(Copies)
  BY DEF ScriptInv
<1>2. /\ scripts' \in Seq(Copies)
      /\ Len(scripts') = Len(scripts) - 1
      /\ \A j \in 1..(Len(scripts) - 1) :
           scripts'[j] = scripts[IF j < i THEN j ELSE j + 1]
  BY <1>1, RemoveAtShape
<1>3. ASSUME NEW j \in 1..Len(scripts'), NEW k \in 1..Len(scripts'),
             scripts'[j].stage \in Holders, scripts'[k].stage \in Holders
      PROVE  j = k
  <2>1. Len(scripts) \in Nat
    BY <1>1
  <2> DEFINE f(n) == IF n < i THEN n ELSE n + 1
  <2>2. f(j) \in 1..Len(scripts) /\ f(k) \in 1..Len(scripts)
    BY <1>2, <2>1
  <2>3. f(j) = f(k)
    BY <1>2, <1>3, <2>2 DEF ScriptInv
  <2> QED
    BY <1>2, <2>1, <2>3
<1> QED
  BY <1>2, <1>3 DEF ScriptInv

\* A copy that goes on: it has the lock, takes none, or takes a free one.
LEMMA ScriptReaches ==
  ASSUME ScriptInv, NEW i \in 1..Len(scripts), NEW st \in Stages, Reach(i, st), clicks' \in Nat,
         scripts[i].stage \in Holders \/ st \notin Holders \/ ~Locked
  PROVE  ScriptInv'
<1>1. scripts \in Seq(Copies) /\ scripts[i] \in Copies /\ Len(scripts) \in Nat
  BY DEF ScriptInv
<1>2. PICK c : c = [scripts[i] EXCEPT !.stage = st]
  OBVIOUS
<1>3. c \in Copies /\ c.stage = st
  BY <1>1, <1>2 DEF Copies
<1>4. scripts' = [scripts EXCEPT ![i] = c]
  BY <1>1, <1>2 DEF Reach
<1>5. /\ scripts' \in Seq(Copies) /\ Len(scripts') = Len(scripts) /\ scripts'[i] = c
      /\ \A j \in 1..Len(scripts) : j # i => scripts'[j] = scripts[j]
  BY <1>1, <1>3, <1>4
<1>6. CASE ~Locked
  <2>1. \A j \in 1..Len(scripts) : scripts[j].stage \notin Holders
    BY <1>6 DEF Locked
  <2> QED
    BY <1>5, <2>1 DEF ScriptInv
<1>7. CASE st \notin Holders
  BY <1>3, <1>5, <1>7 DEF ScriptInv
<1>8. CASE scripts[i].stage \in Holders
  BY <1>5, <1>8 DEF ScriptInv
<1> QED
  BY <1>6, <1>7, <1>8

LEMMA ScriptStep == ASSUME ScriptInv, [Next]_vars PROVE ScriptInv'
<1>0. scripts \in Seq(Copies) /\ Len(scripts) \in Nat /\ clicks \in Nat
  BY DEF ScriptInv
<1>1. CASE UNCHANGED scripts /\ clicks' \in Nat
  BY <1>1 DEF ScriptInv
<1>2. CASE startSpeedTest
  <2>1. PICK c : c = [id |-> clicks', stage |-> "check"]
    OBVIOUS
  <2>2. clicks' \in Nat /\ c \in Copies /\ c.stage \notin Holders /\ scripts' = Append(scripts, c)
    <3>1. clicks' \in Nat /\ scripts' = Append(scripts, c)
      BY <1>0, <1>2, <2>1 DEF startSpeedTest
    <3>2. c.stage = "check" /\ c \in Copies
      BY <2>1, <3>1 DEF Copies, Stages
    <3> QED
      BY <3>1, <3>2 DEF Holders
  <2>3. /\ scripts' \in Seq(Copies)
        /\ Len(scripts') = Len(scripts) + 1
        /\ \A j \in 1..Len(scripts) : scripts'[j] = scripts[j]
        /\ scripts'[Len(scripts) + 1] = c
    BY <1>0, <2>2
  <2>4. \A j \in 1..Len(scripts') : scripts'[j].stage \in Holders => j \in 1..Len(scripts)
    BY <1>0, <2>2, <2>3
  <2> QED
    BY <2>2, <2>3, <2>4 DEF ScriptInv
<1>3. ASSUME NEW i \in 1..Len(scripts), ScriptGoes(i) \/ ScriptKilled(i)
      PROVE  ScriptInv'
  <2>0. clicks' \in Nat
    BY <1>0, <1>3 DEF ScriptGoes, check_running, removeStale, takeLock, writePid, main_test,
         cleanup, OrphanEnds, ScriptKilled
  <2>1. CASE check_running(i)
    <3>1. Reach(i, "lock") \/ Reach(i, "stale") \/ Reach(i, "gave up")
      BY <2>1 DEF check_running, GiveUp
    <3> QED
      BY <2>0, <3>1, ScriptReaches DEF Stages, Holders
  <2>2. CASE removeStale(i)
    BY <2>0, <2>2, ScriptReaches DEF removeStale, Stages, Holders
  <2>3. CASE takeLock(i)
    <3>1. Reach(i, "gave up") \/ (~Locked /\ Reach(i, "pid"))
      BY <2>3 DEF takeLock, GiveUp
    <3> QED
      BY <2>0, <3>1, ScriptReaches DEF Stages, Holders
  <2>4. CASE writePid(i)
    BY <2>0, <2>4, ScriptReaches DEF writePid, Stages, Holders
  <2>5. CASE main_test(i)
    BY <2>0, <2>5, ScriptReaches DEF main_test, Stages, Holders
  <2>6. CASE cleanup(i) \/ OrphanEnds(i)
    BY <2>0, <2>6, ScriptEnds DEF cleanup, OrphanEnds
  <2>7. CASE ScriptKilled(i)
    <3>1. (scripts[i].stage = "test" /\ Reach(i, "orphan")) \/ scripts' = RemoveAt(scripts, i)
      BY <2>7 DEF ScriptKilled
    <3> QED
      BY <2>0, <3>1, ScriptEnds, ScriptReaches DEF Stages, Holders
  <2> QED
    BY <1>3, <2>1, <2>2, <2>3, <2>4, <2>5, <2>6, <2>7 DEF ScriptGoes
<1>4. \/ UNCHANGED scripts /\ clicks' \in Nat
      \/ startSpeedTest
      \/ \E i \in 1..Len(scripts) : ScriptGoes(i) \/ ScriptKilled(i)
  <2>1. CASE Toggling
    BY <1>0, <2>1 DEF Toggling, ToggleStep, killFirst, spawn, stop_service, killall, doCheck,
         lastCheck, applyCheck, wan
  <2>2. CASE \E i \in 1..Len(loops) : commandFails(i)
    BY <1>0, <2>2 DEF commandFails, wan
  <2>3. CASE \E t \in Tools : ProcessDies(t) \/ Navigate(t)
    BY <1>0, <2>3 DEF ProcessDies, Navigate, wan
  <2>4. CASE UNCHANGED vars
    BY <1>0, <2>4 DEF vars, wan
  <2>5. CASE clickToggle \/ checkProcess \/ pollAnswer \/ Respawn \/ Ages \/ poll_status
    <3>1. CASE clickToggle
      BY <1>0, <3>1 DEF clickToggle, wan
    <3>2. CASE checkProcess \/ Respawn \/ Ages \/ poll_status
      BY <1>0, <3>2 DEF checkProcess, Respawn, Ages, poll_status, wan
    <3>3. CASE pollAnswer
      BY <1>0, <3>3 DEF pollAnswer, wan
    <3> QED
      BY <2>5, <3>1, <3>2, <3>3
  <2>6. CASE \/ \E on \in BOOLEAN : saveClick(on)
             \/ \E i \in 1..Len(saving) : saveConfiguration(i) \/ enableService(i) \/ saveFails(i)
    <3>1. ASSUME NEW on \in BOOLEAN, saveClick(on)
          PROVE  UNCHANGED scripts /\ clicks' \in Nat
      BY <1>0, <3>1 DEF saveClick, wan
    <3>2. ASSUME NEW i \in 1..Len(saving), saveConfiguration(i) \/ enableService(i) \/ saveFails(i)
          PROVE  UNCHANGED scripts /\ clicks' \in Nat
      BY <1>0, <3>2 DEF saveConfiguration, enableService, saveFails, wan
    <3> QED
      BY <2>6, <3>1, <3>2
  <2>7. CASE Scripts
    BY <2>7 DEF Scripts
  <2> QED
    BY <2>1, <2>2, <2>3, <2>4, <2>5, <2>6, <2>7 DEF Next
<1> QED
  BY <1>1, <1>2, <1>3, <1>4

LEMMA ScriptAlways == Spec => []ScriptInv
<1>1. Init => ScriptInv
  BY DEF Init, ScriptInv
<1> QED
  BY <1>1, ScriptStep, PTL DEF Spec

\* However fast Start Speed Test is clicked, whatever copies give up and
\* whichever are killed, at most one copy of netspeedtest.sh has the lock.
THEOREM OneTestAlways == Spec => []OneTestAtATime
<1>1. ScriptInv => OneTestAtATime
  <2> SUFFICES ASSUME ScriptInv PROVE OneTestAtATime
    OBVIOUS
  <2> DEFINE T == {i \in 1..Len(scripts) : scripts[i].stage \in Holders}
  <2>1. \A i, j \in T : i = j
    BY DEF ScriptInv
  <2>2. SUFFICES Cardinality(T) <= 1
    BY DEF OneTestAtATime
  <2> HIDE DEF T
  <2>3. CASE T = {}
    <3>1. Cardinality({}) = 0
      BY FS_EmptySet
    <3> QED
      BY <2>3, <3>1
  <2>4. CASE T # {}
    <3>1. PICK i : i \in T
      BY <2>4
    <3>2. T = {i}
      BY <2>1, <3>1
    <3>3. Cardinality({i}) = 1
      BY FS_Singleton
    <3> QED
      BY <3>2, <3>3
  <2> QED
    BY <2>3, <2>4
<1> QED
  BY <1>1, ScriptAlways, PTL

-----------------------------------------------------------------------------
Saves == [tool : Tools, on : BOOLEAN, stage : {"write", "rc"}, cut : BOOLEAN]

\* A save that runs alone leaves the init script as the file says once both
\* its commands have run: between them the file is the newer of the two.
SaveInv ==
    /\ saving \in Seq(Saves)
    /\ \A i \in 1..Len(saving) : saving[i].tool = "iperf3" => ~saving[i].on
    /\ sound /\ saving = <<>> => rc = (config["homebox"] = "1")
    /\ sound => /\ Len(saving) <= 1
                /\ \A i \in 1..Len(saving) :
                     /\ ~saving[i].cut
                     /\ saving[i].stage = "rc" => saving[i].on = (config["homebox"] = "1")

\* A save that ends leaves the others as they are.
LEMMA SaveEnds ==
  ASSUME SaveInv, NEW i \in 1..Len(saving), saving' = RemoveAt(saving, i)
  PROVE  /\ saving' \in Seq(Saves) /\ Len(saving') = Len(saving) - 1 /\ Len(saving) \in Nat
         /\ \A j \in 1..Len(saving') : saving'[j].tool = "iperf3" => ~saving'[j].on
<1>1. saving \in Seq(Saves) /\ Len(saving) \in Nat
  BY DEF SaveInv
<1>2. /\ saving' \in Seq(Saves) /\ Len(saving') = Len(saving) - 1
      /\ \A j \in 1..(Len(saving) - 1) : saving'[j] = saving[IF j < i THEN j ELSE j + 1]
  BY <1>1, RemoveAtShape
<1>3. ASSUME NEW j \in 1..Len(saving') PROVE saving'[j].tool = "iperf3" => ~saving'[j].on
  <2>1. PICK k : k = IF j < i THEN j ELSE j + 1
    OBVIOUS
  <2>2. k \in 1..Len(saving) /\ saving'[j] = saving[k]
    BY <1>1, <1>2, <2>1
  <2> QED
    BY <2>2 DEF SaveInv
<1> QED
  BY <1>1, <1>2, <1>3

LEMMA SaveClicked ==
  ASSUME SaveInv, NEW on \in BOOLEAN, saveClick(on)
  PROVE  SaveInv'
<1>1. PICK r : r = [tool |-> page, on |-> on, stage |-> "write", cut |-> FALSE]
  OBVIOUS
<1>2. /\ r \in Saves /\ r.stage = "write" /\ ~r.cut /\ (r.tool = "iperf3" => ~r.on)
      /\ saving' = Append(saving, r) /\ sound' = (saving = <<>>)
  BY <1>1 DEF saveClick, Saves
<1>3. saving \in Seq(Saves) /\ Len(saving) \in Nat
  BY DEF SaveInv
<1>4. /\ saving' \in Seq(Saves) /\ Len(saving') = Len(saving) + 1
      /\ saving'[Len(saving) + 1] = r
      /\ \A j \in 1..Len(saving) : saving'[j] = saving[j]
  BY <1>2, <1>3
<1>5. \A j \in 1..Len(saving') : j \in 1..Len(saving) \/ j = Len(saving) + 1
  BY <1>3, <1>4
<1>6. \A j \in 1..Len(saving') : saving'[j].tool = "iperf3" => ~saving'[j].on
  BY <1>2, <1>4, <1>5 DEF SaveInv
<1>7. saving' # <<>>
  BY <1>3, <1>4
<1>8. ASSUME sound'
      PROVE  Len(saving') <= 1 /\ \A j \in 1..Len(saving') : saving'[j] = r
  <2>0. saving = <<>>
    BY <1>2, <1>8, Zenon
  <2>1. Len(saving) = 0
    BY <2>0
  <2>2. Len(saving') = 1 /\ saving'[1] = r
    BY <1>4, <2>1
  <2> QED
    BY <2>2
<1>9. \A j \in 1..Len(saving') : sound' => ~saving'[j].cut /\ saving'[j].stage # "rc"
  BY <1>2, <1>8
<1> QED
  BY <1>4, <1>6, <1>7, <1>8, <1>9 DEF SaveInv

LEMMA SaveWritten ==
  ASSUME SaveInv, NEW i \in 1..Len(saving), saveConfiguration(i)
  PROVE  SaveInv'
<1>1. saving \in Seq(Saves) /\ Len(saving) \in Nat /\ saving[i] \in Saves
  BY DEF SaveInv
<1>2. UNCHANGED sound
  BY DEF saveConfiguration
<1>3. CASE saving[i].cut
  <2>1. saving' = RemoveAt(saving, i) /\ ~sound
    BY <1>3 DEF saveConfiguration, SaveInv
  <2> QED
    BY <1>2, <2>1, SaveEnds DEF SaveInv
<1>4. CASE ~saving[i].cut
  <2>1. PICK r : r = [saving[i] EXCEPT !.stage = "rc"]
    OBVIOUS
  <2>2. /\ r \in Saves /\ ~r.cut /\ r.tool = saving[i].tool /\ r.on = saving[i].on
    BY <1>1, <1>4, <2>1 DEF Saves
  <2>3. saving' = [saving EXCEPT ![i] = r]
    BY <1>1, <1>4, <2>1 DEF saveConfiguration
  <2>4. /\ saving' \in Seq(Saves) /\ Len(saving') = Len(saving) /\ saving'[i] = r
        /\ \A j \in 1..Len(saving) : j # i => saving'[j] = saving[j]
    BY <1>1, <2>2, <2>3
  <2>5. config'["homebox"] = IF "homebox" # saving[i].tool THEN "absent"
                             ELSE IF saving[i].on THEN "1" ELSE "0"
    BY DEF saveConfiguration, Tools
  <2>6. r.on = (config'["homebox"] = "1")
    <3>1. saving[i].tool \in {"homebox", "iperf3"} /\ saving[i].on \in BOOLEAN
          /\ (saving[i].tool = "iperf3" => ~saving[i].on)
      BY <1>1 DEF Saves, Tools, SaveInv
    <3>2. CASE saving[i].on
      BY <2>2, <2>5, <3>1, <3>2
    <3>3. CASE ~saving[i].on
      BY <2>2, <2>5, <3>1, <3>3
    <3> QED
      BY <3>2, <3>3
  <2>7. \A j \in 1..Len(saving) : saving'[j].tool = "iperf3" => ~saving'[j].on
    BY <2>2, <2>4 DEF SaveInv
  <2>8. ASSUME sound PROVE Len(saving') <= 1 /\ \A j \in 1..Len(saving') : saving'[j] = r
    <3>1. Len(saving) <= 1
      BY <2>8 DEF SaveInv
    <3>2. \A j \in 1..Len(saving) : j = i
      BY <1>1, <3>1
    <3> QED
      BY <2>4, <3>1, <3>2
  <2>9. saving' # <<>>
    BY <1>1, <2>4
  <2> QED
    BY <1>2, <2>2, <2>4, <2>6, <2>7, <2>8, <2>9 DEF SaveInv
<1> QED
  BY <1>3, <1>4

LEMMA SaveEnabled ==
  ASSUME SaveInv, NEW i \in 1..Len(saving), enableService(i)
  PROVE  SaveInv'
<1>1. saving' = RemoveAt(saving, i) /\ UNCHANGED <<config, sound>>
      /\ rc' = saving[i].on /\ saving[i].stage = "rc"
  BY DEF enableService
<1>2. /\ saving' \in Seq(Saves) /\ Len(saving') = Len(saving) - 1 /\ Len(saving) \in Nat
      /\ \A j \in 1..Len(saving') : saving'[j].tool = "iperf3" => ~saving'[j].on
  BY <1>1, SaveEnds
<1>3. ASSUME sound
      PROVE  Len(saving') = 0 /\ rc' = (config["homebox"] = "1")
  BY <1>1, <1>2, <1>3 DEF SaveInv
<1> QED
  BY <1>1, <1>2, <1>3 DEF SaveInv

LEMMA SaveLeft ==
  ASSUME SaveInv, NEW t \in Tools, Navigate(t)
  PROVE  SaveInv'
<1>1. saving \in Seq(Saves) /\ Len(saving) \in Nat /\ \A j \in 1..Len(saving) : saving[j] \in Saves
  BY DEF SaveInv
<1>2. /\ saving' = [j \in 1..Len(saving) |-> [saving[j] EXCEPT !.cut = TRUE]]
      /\ sound' = (sound /\ saving = <<>>) /\ UNCHANGED <<config, rc>>
  BY DEF Navigate
<1>3. \A j \in 1..Len(saving) :
        LET r == [saving[j] EXCEPT !.cut = TRUE]
        IN  r \in Saves /\ r.tool = saving[j].tool /\ r.on = saving[j].on
  BY <1>1 DEF Saves
<1>4. saving' \in Seq(Saves) /\ Len(saving') = Len(saving)
  <2>1. saving' \in [1..Len(saving) -> Saves]
    BY <1>2, <1>3
  <2>2. saving' \in Seq(Saves)
    BY <1>1, <2>1, SeqDef
  <2> QED
    BY <1>1, <2>1, <2>2
<1>5. \A j \in 1..Len(saving') : saving'[j].tool = "iperf3" => ~saving'[j].on
  BY <1>2, <1>3, <1>4 DEF SaveInv
<1>6. sound' => Len(saving') = 0 /\ rc = (config["homebox"] = "1")
  <2>1. saving = <<>> => Len(saving) = 0
    OBVIOUS
  <2> QED
    BY <1>2, <1>4, <2>1 DEF SaveInv
<1> QED
  BY <1>2, <1>4, <1>5, <1>6 DEF SaveInv

LEMMA SaveStep == ASSUME SaveInv, [Next]_vars PROVE SaveInv'
<1>1. CASE UNCHANGED conf
  BY <1>1 DEF SaveInv, conf
<1>2. ASSUME NEW on \in BOOLEAN, saveClick(on)
      PROVE  SaveInv'
  BY <1>2, SaveClicked
<1>3. ASSUME NEW i \in 1..Len(saving), saveConfiguration(i) \/ enableService(i)
      PROVE  SaveInv'
  BY <1>3, SaveWritten, SaveEnabled
<1>4. ASSUME NEW i \in 1..Len(saving), saveFails(i)
      PROVE  SaveInv'
  BY <1>4, SaveEnds DEF saveFails, SaveInv
<1>5. ASSUME NEW t \in Tools, Navigate(t)
      PROVE  SaveInv'
  BY <1>5, SaveLeft
<1> HIDE DEF SaveInv
<1>6. CASE Toggling
  BY <1>1, <1>6 DEF Toggling, ToggleStep, killFirst, spawn, stop_service, killall, doCheck,
       lastCheck, applyCheck
<1>7. CASE \E i \in 1..Len(loops) : commandFails(i)
  BY <1>1, <1>7 DEF commandFails
<1>8. CASE \E t \in Tools : ProcessDies(t)
  BY <1>1, <1>8 DEF ProcessDies
<1>9. CASE UNCHANGED vars
  BY <1>1, <1>9 DEF vars
<1>10. CASE clickToggle \/ checkProcess \/ pollAnswer \/ Respawn
  BY <1>1, <1>10 DEF clickToggle, checkProcess, pollAnswer, Respawn
<1>11. CASE startSpeedTest \/ Ages \/ poll_status
  BY <1>1, <1>11 DEF startSpeedTest, Ages, poll_status
<1>12. CASE Scripts \/ \E i \in 1..Len(scripts) : ScriptKilled(i)
  BY <1>1, <1>12 DEF Scripts, ScriptGoes, check_running, removeStale, takeLock, writePid,
       main_test, cleanup, OrphanEnds, ScriptKilled
<1> QED
  BY <1>2, <1>3, <1>4, <1>5, <1>6, <1>7, <1>8, <1>9, <1>10, <1>11, <1>12 DEF Next

-----------------------------------------------------------------------------
Starting == {"kill", "spawn"}
Looking == {"check", "last", "apply"}
Toggles ==
    [tool : Tools, action : {"start", "stop"}, stage : Commands \cup Looking,
     n : Nat, saw : BOOLEAN, left : BOOLEAN]

ToggleType ==
    /\ proc \in [Tools -> BOOLEAN] /\ running \in BOOLEAN
    /\ op \in {"none", "start", "stop"} /\ want \in {"none", "start", "stop"}
    /\ loops \in Seq(Toggles)

up == proc["homebox"]

\* What every toggle still under way may do: only the last one may start the
\* server, and one that kills does so while a stop is in progress or after it,
\* when no server runs.  Nothing but a kill is left without a page.
Fits(l, last) ==
    /\ l.tool = "homebox"
    /\ l.left => l.stage \in StopCommands
    /\ l.stage \in Starting => op = "start" /\ last
    /\ l.stage \in StopCommands => op = "stop" \/ (op = "none" /\ ~up)

\* The toggle of the operation in progress: a start finds no server until it
\* has spawned one, and what it looks at afterwards is the outcome.
Driving(l) ==
    /\ ~l.left /\ l.action = op
    /\ l.stage \in Starting => ~up
    /\ l.stage \in Looking => up = (op = "start")
    /\ l.stage = "apply" => l.saw = (op = "start")

\* The button is on: the page shows the process, which is as the last click asked.
Idle == running = up /\ (want # "none" => up = (want = "start"))

\* The button is off.
Busy ==
    /\ want = op /\ running = (op = "stop")
    /\ loops # <<>> /\ Driving(loops[Len(loops)])

ToggleInv ==
    calm =>
      /\ ToggleType
      /\ page = "homebox" =>
           /\ op = "none" => Idle
           /\ op # "none" => Busy
           /\ \A i \in 1..Len(loops) : Fits(loops[i], i = Len(loops))

LEMMA InitToggle == ASSUME Init PROVE ToggleInv
<1>1. page \in Tools \cup {"wan"} /\ procd \in BOOLEAN
  BY DEF Init
<1>2. proc \in [Tools -> BOOLEAN]
  <2>1. proc = [homebox |-> procd, iperf3 |-> FALSE]
    BY DEF Init
  <2>2. DOMAIN proc = Tools /\ proc = [t \in DOMAIN proc |-> proc[t]]
    BY <2>1 DEF Tools
  <2>3. proc["homebox"] = procd /\ proc["iperf3"] = FALSE
    BY <2>1
  <2>4. \A t \in Tools : proc[t] \in BOOLEAN
    BY <1>1, <2>3 DEF Tools
  <2> QED
    BY <2>2, <2>4
<1>3. running \in BOOLEAN
  BY <1>2 DEF Init
<1>4. ToggleType
  <2>1. loops \in Seq(Toggles)
    BY DEF Init
  <2> QED
    BY <1>2, <1>3, <2>1 DEF Init, ToggleType
<1>5. page = "homebox" => running = up
  BY <1>2 DEF Init, Tools, up
<1> QED
  BY <1>4, <1>5 DEF Init, ToggleInv, Idle

-----------------------------------------------------------------------------
(* One lemma for each kind of step of a toggle.                            *)

Kept == UNCHANGED <<page, running, op, want, calm>>

LEMMA Typed ==
  ASSUME ToggleType, NEW i \in 1..Len(loops)
  PROVE  /\ loops \in Seq(Toggles) /\ Len(loops) \in Nat /\ loops[i] \in Toggles
         /\ loops[i].tool \in Tools /\ loops[i].stage \in Commands \cup Looking
         /\ up \in BOOLEAN
<1>1. loops \in Seq(Toggles) /\ loops[i] \in Toggles
  BY DEF ToggleType
<1> QED
  BY <1>1 DEF Toggles, ToggleType, Tools, up

\* A toggle goes on: what it becomes must fit, and the process changes only as
\* the operation in progress allows.
LEMMA Advanced ==
  ASSUME calm, ToggleInv, Kept, NEW i \in 1..Len(loops), NEW r \in Toggles,
         loops' = [loops EXCEPT ![i] = r],
         proc' \in [Tools -> BOOLEAN],
         page = "homebox" =>
           /\ up' = up \/ (op = "stop" /\ ~up') \/ (op = "start" /\ i = Len(loops))
           /\ Fits(r, i = Len(loops))'
           /\ op # "none" /\ i = Len(loops) => Driving(r)'
  PROVE  ToggleInv'
<1>0. loops \in Seq(Toggles) /\ Len(loops) \in Nat /\ ToggleType
  BY DEF ToggleInv, ToggleType
<1>1. /\ loops' \in Seq(Toggles) /\ Len(loops') = Len(loops) /\ loops'[i] = r
      /\ loops' # <<>>
      /\ \A j \in 1..Len(loops) : j # i => loops'[j] = loops[j]
  BY <1>0
<1>2. ToggleType'
  BY <1>0, <1>1 DEF ToggleType, Kept
<1>3. ASSUME page = "homebox"
      PROVE  /\ op = "none" => Idle'
             /\ op # "none" => Busy'
             /\ \A j \in 1..Len(loops) : Fits(loops[j], j = Len(loops))'
  <2>0. UNCHANGED <<op, running, want>> /\ up \in BOOLEAN /\ up' \in BOOLEAN
    BY <1>0, <1>2 DEF Kept, ToggleType, Tools, up
  <2>1. ASSUME op = "none" PROVE Idle'
    <3>1. Idle /\ up' = up
      BY <1>3, <2>1 DEF ToggleInv
    <3> QED
      BY <2>0, <3>1 DEF Idle
  <2>2. ASSUME op # "none" PROVE Busy'
    <3>1. Busy
      BY <1>3, <2>2 DEF ToggleInv
    <3>2. Driving(loops[Len(loops)])'
      <4>1. CASE i = Len(loops)
        <5>1. loops'[Len(loops')] = r /\ Driving(r)'
          BY <1>1, <1>3, <2>2, <4>1
        <5> QED
          BY <5>1 DEF Driving
      <4>2. CASE i # Len(loops)
        <5>1. PICK l : l = loops[Len(loops)]
          OBVIOUS
        <5>2. loops'[Len(loops')] = l /\ Driving(l) /\ Fits(l, TRUE)
          <6>1. Len(loops) \in 1..Len(loops)
            BY <1>0
          <6>2. Driving(l)
            BY <3>1, <5>1 DEF Busy
          <6>3. Fits(l, Len(loops) = Len(loops))
            BY <1>3, <5>1, <6>1 DEF ToggleInv
          <6> QED
            BY <1>1, <4>2, <5>1, <6>1, <6>2, <6>3
        <5>3. up' = up \/ (op = "stop" /\ ~up')
          BY <1>3, <4>2
        <5>4. Driving(l)'
          BY <2>0, <5>2, <5>3 DEF Driving, Fits
        <5> QED
          BY <5>2, <5>4 DEF Driving
      <4> QED
        BY <4>1, <4>2
    <3> QED
      BY <1>1, <2>0, <3>1, <3>2 DEF Busy, Driving
  <2>3. ASSUME NEW j \in 1..Len(loops)
        PROVE  Fits(loops[j], j = Len(loops))'
    <3>1. CASE j = i
      BY <1>1, <1>3, <3>1 DEF Fits
    <3>2. CASE j # i
      <4>1. Fits(loops[j], j = Len(loops)) /\ loops'[j] = loops[j]
        BY <1>1, <1>3, <3>2 DEF ToggleInv
      <4>2. op = "none" => up' = up
        BY <1>3
      <4> QED
        BY <1>1, <2>0, <4>1, <4>2 DEF Fits
    <3> QED
      BY <3>1, <3>2
  <2> QED
    BY <2>1, <2>2, <2>3
<1> QED
  BY <1>1, <1>2, <1>3 DEF ToggleInv, Kept

\* A command that nobody waits for has run: a kill, on the Homebox page.
LEMMA Dropped ==
  ASSUME calm, ToggleInv, Kept, NEW i \in 1..Len(loops),
         loops' = RemoveAt(loops, i), proc' \in [Tools -> BOOLEAN],
         page = "homebox" => loops[i].left /\ loops[i].stage \in StopCommands /\ ~up'
  PROVE  ToggleInv'
<1>0. loops \in Seq(Toggles) /\ Len(loops) \in Nat /\ ToggleType
  BY DEF ToggleInv, ToggleType
<1>1. /\ loops' \in Seq(Toggles) /\ Len(loops') = Len(loops) - 1
      /\ \A j \in 1..(Len(loops) - 1) :
           loops'[j] = loops[IF j < i THEN j ELSE j + 1]
  BY <1>0, RemoveAtShape
<1>2. ToggleType'
  BY <1>0, <1>1 DEF ToggleType, Kept
<1>3. ASSUME page = "homebox"
      PROVE  /\ op = "none" => Idle'
             /\ op # "none" => Busy'
             /\ \A j \in 1..Len(loops') : Fits(loops[j], j = Len(loops))'
  <2>0. UNCHANGED <<op, running, want>> /\ up \in BOOLEAN /\ up' = FALSE /\ running \in BOOLEAN
        /\ op \in {"none", "start", "stop"}
    BY <1>0, <1>2, <1>3 DEF Kept, ToggleType, Tools, up
  <2>1. op = "stop" \/ (op = "none" /\ ~up)
    BY <1>3 DEF ToggleInv, Fits
  <2>2. ASSUME op = "none" PROVE Idle'
    <3>1. Idle /\ ~up
      BY <1>3, <2>1, <2>2 DEF ToggleInv
    <3> QED
      BY <2>0, <3>1 DEF Idle
  <2>3. ASSUME op # "none" PROVE Busy'
    <3>1. Busy /\ op = "stop"
      BY <1>3, <2>1, <2>3 DEF ToggleInv
    <3>2. PICK l : l = loops[Len(loops)]
      OBVIOUS
    <3>3. i # Len(loops)
      BY <1>3, <3>1 DEF Busy, Driving
    <3>4. /\ Len(loops) - 1 \in 1..(Len(loops) - 1) /\ ~(Len(loops) - 1 < i)
          /\ (Len(loops) - 1) + 1 = Len(loops)
      BY <1>0, <3>3
    <3>5. loops'[Len(loops')] = l
      BY <1>1, <3>2, <3>4
    <3>6. loops' # <<>>
      BY <1>1, <3>4
    <3>7. Fits(l, TRUE) /\ Driving(l)
      <4>1. Len(loops) \in 1..Len(loops)
        BY <1>0
      <4>2. Fits(l, Len(loops) = Len(loops))
        BY <1>3, <3>2, <4>1 DEF ToggleInv
      <4> QED
        BY <3>1, <3>2, <4>2 DEF Busy
    <3>8. Driving(l)'
      BY <2>0, <3>1, <3>7 DEF Driving, Fits
    <3> QED
      BY <2>0, <3>1, <3>5, <3>6, <3>8 DEF Busy, Driving
  <2>4. ASSUME NEW j \in 1..Len(loops')
        PROVE  Fits(loops[j], j = Len(loops))'
    <3>1. PICK k : k = IF j < i THEN j ELSE j + 1
      OBVIOUS
    <3>2. k \in 1..Len(loops) /\ loops'[j] = loops[k] /\ (k = Len(loops) => j = Len(loops'))
      BY <1>0, <1>1, <3>1
    <3>3. Fits(loops[k], k = Len(loops))
      BY <1>3, <3>2 DEF ToggleInv
    <3>4. loops[k].stage \notin Starting
      BY <2>1, <3>3 DEF Fits
    <3> QED
      BY <2>0, <2>1, <3>2, <3>3, <3>4 DEF Fits
  <2> QED
    BY <2>2, <2>3, <2>4
<1> QED
  BY <1>2, <1>3 DEF ToggleInv, Kept

GoesTo(i, st) == loops' = [loops EXCEPT ![i].stage = st]

LEMMA Staged ==
  ASSUME ToggleType, NEW i \in 1..Len(loops), NEW st \in Commands \cup Looking
  PROVE  \E r \in Toggles :
           /\ GoesTo(i, st) => loops' = [loops EXCEPT ![i] = r]
           /\ r.tool = loops[i].tool /\ r.action = loops[i].action /\ r.stage = st
           /\ r.left = loops[i].left
<1>1. loops \in Seq(Toggles) /\ loops[i] \in Toggles
  BY DEF ToggleType
<1>2. PICK r : r = [loops[i] EXCEPT !.stage = st]
  OBVIOUS
<1>3. /\ r \in Toggles /\ r.tool = loops[i].tool /\ r.action = loops[i].action
      /\ r.stage = st /\ r.left = loops[i].left
  BY <1>1, <1>2 DEF Toggles
<1>4. GoesTo(i, st) => loops' = [loops EXCEPT ![i] = r]
  BY <1>1, <1>2 DEF GoesTo
<1> QED
  BY <1>3, <1>4

\* What holds of a toggle of the Homebox page before it acts.
LEMMA Before ==
  ASSUME calm, ToggleInv, page = "homebox", NEW i \in 1..Len(loops)
  PROVE  /\ Fits(loops[i], i = Len(loops))
         /\ op # "none" /\ i = Len(loops) => Driving(loops[i])
BY DEF ToggleInv, Busy

LEMMA KillStep ==
  ASSUME calm, ToggleInv, NEW i \in 1..Len(loops), killFirst(i)
  PROVE  ToggleInv'
<1>1. /\ ToggleType /\ loops[i].stage = "kill" /\ Then(i, "spawn") /\ Kept
      /\ proc' = [proc EXCEPT !["homebox"] = FALSE]
  BY DEF killFirst, Kept, ui, hist, ToggleInv
<1>2. proc' \in [Tools -> BOOLEAN] /\ up' = FALSE /\ UNCHANGED op
  BY <1>1 DEF ToggleType, Tools, up, Kept
<1>3. PICK r \in Toggles :
        /\ GoesTo(i, "spawn") => loops' = [loops EXCEPT ![i] = r]
        /\ r.tool = loops[i].tool /\ r.action = loops[i].action /\ r.stage = "spawn"
        /\ r.left = loops[i].left
  BY <1>1, Staged DEF Commands
<1>4. page = "homebox" =>
        /\ op = "start" /\ i = Len(loops) /\ ~up /\ ~loops[i].left
        /\ Fits(r, i = Len(loops))' /\ Driving(r)'
  <2> SUFFICES ASSUME page = "homebox"
               PROVE  /\ op = "start" /\ i = Len(loops) /\ ~up /\ ~loops[i].left
                      /\ Fits(r, i = Len(loops))' /\ Driving(r)'
    OBVIOUS
  <2>1. op = "start" /\ i = Len(loops) /\ loops[i].tool = "homebox"
    BY <1>1, Before DEF Fits, Starting
  <2>2. ~up /\ ~loops[i].left /\ loops[i].action = op
    BY <1>1, <2>1, Before DEF Driving, Starting
  <2>3. i = Len(loops')
    BY <1>1, <2>1, <2>2 DEF Then, ToggleType
  <2>4. Fits(r, i = Len(loops))'
    BY <1>2, <1>3, <2>1, <2>2, <2>3 DEF Fits, StopCommands
  <2>5. Driving(r)'
    BY <1>2, <1>3, <2>2 DEF Driving, Looking
  <2> QED
    BY <2>1, <2>2, <2>4, <2>5
<1>5. CASE loops[i].left
  <2>1. loops' = RemoveAt(loops, i) /\ page # "homebox"
    BY <1>1, <1>4, <1>5 DEF Then
  <2> QED
    BY <1>1, <1>2, <2>1, Dropped
<1>6. CASE ~loops[i].left
  <2>1. loops' = [loops EXCEPT ![i] = r]
    BY <1>1, <1>3, <1>6 DEF Then, GoesTo
  <2> QED
    BY <1>1, <1>2, <1>4, <2>1, Advanced
<1> QED
  BY <1>5, <1>6

LEMMA SpawnStep ==
  ASSUME calm, calm', ToggleInv, NEW i \in 1..Len(loops), spawn(i)
  PROVE  ToggleInv'
<1>1. /\ ToggleType /\ loops[i].stage = "spawn" /\ Then(i, FirstLook(i)) /\ Kept
      /\ proc' = [proc EXCEPT ![loops[i].tool] = TRUE]
  BY DEF spawn, Kept, ui, hist, ToggleInv
<1>2. /\ proc' \in [Tools -> BOOLEAN] /\ UNCHANGED op
      /\ loops[i].tool = "homebox" => up' = TRUE
  BY <1>1, Typed DEF ToggleType, up, Kept
<1>3. PICK st \in Looking : st = FirstLook(i) /\ st # "apply"
  BY DEF FirstLook, Looking
<1>4. PICK r \in Toggles :
        /\ GoesTo(i, st) => loops' = [loops EXCEPT ![i] = r]
        /\ r.tool = loops[i].tool /\ r.action = loops[i].action /\ r.stage = st
        /\ r.left = loops[i].left
  BY <1>1, Staged
<1>5. page = "homebox" =>
        /\ op = "start" /\ i = Len(loops) /\ ~loops[i].left
        /\ Fits(r, i = Len(loops))' /\ Driving(r)'
  <2> SUFFICES ASSUME page = "homebox"
               PROVE  /\ op = "start" /\ i = Len(loops) /\ ~loops[i].left
                      /\ Fits(r, i = Len(loops))' /\ Driving(r)'
    OBVIOUS
  <2>1. op = "start" /\ i = Len(loops) /\ loops[i].tool = "homebox"
    BY <1>1, Before DEF Fits, Starting
  <2>2. ~loops[i].left /\ loops[i].action = op
    BY <1>1, <2>1, Before DEF Driving
  <2>3. r.stage \notin StopCommands /\ r.stage \notin Starting /\ r.stage # "apply"
    BY <1>3, <1>4 DEF StopCommands, Starting, Looking
  <2>4. Fits(r, i = Len(loops))'
    BY <1>4, <2>1, <2>2, <2>3 DEF Fits
  <2>5. Driving(r)'
    BY <1>2, <1>4, <2>1, <2>2, <2>3 DEF Driving
  <2> QED
    BY <2>1, <2>2, <2>4, <2>5
<1>6. CASE loops[i].left
  <2>1. loops' = RemoveAt(loops, i) /\ page # "homebox"
    BY <1>1, <1>5, <1>6 DEF Then
  <2> QED
    BY <1>1, <1>2, <2>1, Dropped
<1>7. CASE ~loops[i].left
  <2>1. loops' = [loops EXCEPT ![i] = r]
    BY <1>1, <1>3, <1>4, <1>7 DEF Then, GoesTo
  <2> QED
    BY <1>1, <1>2, <1>5, <2>1, Advanced
<1> QED
  BY <1>6, <1>7

\* The init script deletes the service: a process that stops was to stop.
LEMMA DeleteStep ==
  ASSUME calm, ToggleInv, NEW i \in 1..Len(loops), stop_service(i)
  PROVE  ToggleInv'
<1>1. /\ ToggleType /\ loops[i].stage = "delete" /\ Kept
      /\ GoesTo(i, "killall")
      /\ proc' = proc \/ proc' = [proc EXCEPT !["homebox"] = FALSE]
  BY DEF stop_service, Kept, ui, hist, ToggleInv, GoesTo
<1>2. /\ proc' \in [Tools -> BOOLEAN] /\ UNCHANGED op /\ up \in BOOLEAN
      /\ up' = up \/ up' = FALSE
  BY <1>1 DEF ToggleType, up, Kept, Tools
<1>3. PICK r \in Toggles :
        /\ loops' = [loops EXCEPT ![i] = r]
        /\ r.tool = loops[i].tool /\ r.action = loops[i].action /\ r.stage = "killall"
        /\ r.left = loops[i].left
  BY <1>1, Staged DEF Commands, StopCommands
<1>4. ASSUME page = "homebox"
      PROVE  /\ up' = up \/ (op = "stop" /\ ~up')
             /\ Fits(r, i = Len(loops))'
             /\ op # "none" /\ i = Len(loops) => Driving(r)'
  <2>1. loops[i].tool = "homebox" /\ (op = "stop" \/ (op = "none" /\ ~up))
    BY <1>1, <1>4, Before DEF Fits, StopCommands
  <2>2. up' = up \/ (op = "stop" /\ ~up')
    BY <1>2, <2>1
  <2>3. /\ r.stage \in StopCommands /\ r.stage \notin Starting
        /\ r.stage \notin Looking /\ r.stage # "apply"
    BY <1>3 DEF StopCommands, Starting, Looking
  <2>4. Fits(r, i = Len(loops))'
    BY <1>2, <1>3, <2>1, <2>2, <2>3 DEF Fits
  <2>5. ASSUME op # "none", i = Len(loops) PROVE Driving(r)'
    BY <1>2, <1>3, <1>4, <2>3, <2>5, Before DEF Driving
  <2> QED
    BY <2>2, <2>4, <2>5
<1> QED
  BY <1>1, <1>2, <1>3, <1>4, Advanced

LEMMA KillallStep ==
  ASSUME calm, ToggleInv, NEW i \in 1..Len(loops), killall(i)
  PROVE  ToggleInv'
<1>1. /\ ToggleType /\ loops[i].stage = "killall" /\ Then(i, FirstLook(i)) /\ Kept
      /\ proc' = [proc EXCEPT ![loops[i].tool] = FALSE]
  BY DEF killall, Kept, ui, hist, ToggleInv
<1>2. /\ proc' \in [Tools -> BOOLEAN] /\ UNCHANGED op /\ up \in BOOLEAN
      /\ loops[i].tool = "homebox" => up' = FALSE
  BY <1>1, Typed DEF ToggleType, up, Kept
<1>3. PICK st \in Looking : st = FirstLook(i) /\ st # "apply"
  BY DEF FirstLook, Looking
<1>4. PICK r \in Toggles :
        /\ GoesTo(i, st) => loops' = [loops EXCEPT ![i] = r]
        /\ r.tool = loops[i].tool /\ r.action = loops[i].action /\ r.stage = st
        /\ r.left = loops[i].left
  BY <1>1, Staged
<1>5. page = "homebox" =>
        loops[i].tool = "homebox" /\ ~up' /\ (op = "stop" \/ (op = "none" /\ ~up))
  BY <1>1, <1>2, Before DEF Fits, StopCommands
<1>6. CASE loops[i].left
  <2>1. loops' = RemoveAt(loops, i) /\ loops[i].stage \in StopCommands
    BY <1>1, <1>6 DEF Then, StopCommands
  <2> QED
    BY <1>1, <1>2, <1>5, <1>6, <2>1, Dropped
<1>7. CASE ~loops[i].left
  <2>1. loops' = [loops EXCEPT ![i] = r]
    BY <1>1, <1>3, <1>4, <1>7 DEF Then, GoesTo
  <2>2. r.stage \notin StopCommands /\ r.stage \notin Starting /\ r.stage # "apply"
    BY <1>3, <1>4 DEF StopCommands, Starting, Looking
  <2>3. ASSUME page = "homebox"
        PROVE  /\ up' = up \/ (op = "stop" /\ ~up')
               /\ Fits(r, i = Len(loops))'
               /\ op # "none" /\ i = Len(loops) => Driving(r)'
    <3>1. up' = up \/ (op = "stop" /\ ~up')
      BY <1>2, <1>5, <2>3
    <3>2. Fits(r, i = Len(loops))'
      BY <1>4, <1>5, <1>7, <2>2, <2>3 DEF Fits
    <3>3. ASSUME op # "none", i = Len(loops) PROVE Driving(r)'
      BY <1>2, <1>4, <1>5, <1>7, <2>2, <2>3, <3>3, Before DEF Driving
    <3> QED
      BY <3>1, <3>2, <3>3
  <2> QED
    BY <1>1, <1>2, <2>1, <2>3, Advanced
<1> QED
  BY <1>6, <1>7

LEMMA CheckStep ==
  ASSUME calm, ToggleInv, NEW i \in 1..Len(loops), doCheck(i)
  PROVE  ToggleInv'
<1>1. ToggleType /\ loops[i].stage = "check" /\ Kept /\ proc' = proc
  BY DEF doCheck, Kept, ui, hist, server, ToggleInv
<1>2. loops[i] \in Toggles /\ proc \in [Tools -> BOOLEAN] /\ UNCHANGED op /\ up' = up
  BY <1>1 DEF ToggleType, up, Kept
<1>3. PICK l : l = loops[i]
  OBVIOUS
<1>4. l.stage = "check" /\ l.n \in Nat /\ l \in Toggles
  BY <1>1, <1>2, <1>3 DEF Toggles
<1>5. PICK r : /\ loops' = [loops EXCEPT ![i] = r]
               /\ \/ r = [l EXCEPT !.stage = "apply", !.saw = FALSE] /\ l.action = "stop"
                  \/ r = [l EXCEPT !.n = l.n + 1]
                  \/ r = [l EXCEPT !.stage = "last"]
  BY <1>3 DEF doCheck
<1>6. /\ r \in Toggles /\ r.tool = l.tool /\ r.action = l.action /\ r.left = l.left
      /\ r.stage \in Looking
      /\ r.stage = "apply" => r.saw = FALSE /\ l.action = "stop"
  <2>1. CASE r = [l EXCEPT !.stage = "apply", !.saw = FALSE] /\ l.action = "stop"
    BY <1>4, <2>1 DEF Toggles, Looking
  <2>2. CASE r = [l EXCEPT !.n = l.n + 1]
    BY <1>4, <2>2 DEF Toggles, Looking
  <2>3. CASE r = [l EXCEPT !.stage = "last"]
    BY <1>4, <2>3 DEF Toggles, Looking
  <2> QED
    BY <1>5, <2>1, <2>2, <2>3
<1>7. r.stage \notin StopCommands /\ r.stage \notin Starting
      /\ l.stage \in Looking /\ l.stage \notin StopCommands
  BY <1>4, <1>6 DEF StopCommands, Starting, Looking
<1>8. ASSUME page = "homebox"
      PROVE  /\ Fits(r, i = Len(loops))'
             /\ op # "none" /\ i = Len(loops) => Driving(r)'
  <2>1. r.tool = "homebox" /\ ~r.left
    BY <1>3, <1>6, <1>7, <1>8, Before DEF Fits
  <2>2. Fits(r, i = Len(loops))'
    BY <1>2, <1>7, <2>1 DEF Fits
  <2>3. ASSUME op # "none", i = Len(loops) PROVE Driving(r)'
    <3>1. Driving(l)
      BY <1>3, <1>8, <2>3, Before
    <3>2. l.action = op /\ up = (op = "start")
      BY <1>7, <3>1 DEF Driving
    <3> QED
      BY <1>2, <1>6, <1>7, <2>1, <3>2 DEF Driving
  <2> QED
    BY <2>2, <2>3
<1> QED
  BY <1>1, <1>2, <1>5, <1>6, <1>8, Advanced

LEMMA LastStep ==
  ASSUME calm, ToggleInv, NEW i \in 1..Len(loops), lastCheck(i)
  PROVE  ToggleInv'
<1>1. ToggleType /\ loops[i].stage = "last" /\ Kept /\ proc' = proc
  BY DEF lastCheck, Kept, ui, hist, server, ToggleInv
<1>2. /\ loops \in Seq(Toggles) /\ loops[i] \in Toggles /\ proc \in [Tools -> BOOLEAN]
      /\ UNCHANGED op /\ up' = up /\ loops[i].tool \in Tools
  BY <1>1, Typed DEF ToggleType, up, Kept
<1>3. PICK r : r = [loops[i] EXCEPT !.stage = "apply", !.saw = proc[loops[i].tool]]
  OBVIOUS
<1>4. loops' = [loops EXCEPT ![i] = r]
  BY <1>2, <1>3 DEF lastCheck
<1>5. proc[loops[i].tool] \in BOOLEAN
  BY <1>2
<1>6. /\ r \in Toggles /\ r.tool = loops[i].tool /\ r.action = loops[i].action
      /\ r.left = loops[i].left /\ r.stage = "apply" /\ r.saw = proc[loops[i].tool]
  BY <1>2, <1>3, <1>5 DEF Toggles, Looking
<1>7. /\ r.stage \notin StopCommands /\ r.stage \notin Starting
      /\ loops[i].stage \in Looking /\ loops[i].stage \notin StopCommands
  BY <1>1, <1>6 DEF StopCommands, Starting, Looking
<1>8. ASSUME page = "homebox"
      PROVE  /\ Fits(r, i = Len(loops))'
             /\ op # "none" /\ i = Len(loops) => Driving(r)'
  <2>1. r.tool = "homebox" /\ ~r.left
    BY <1>6, <1>7, <1>8, Before DEF Fits
  <2>2. Fits(r, i = Len(loops))'
    BY <1>2, <1>7, <2>1 DEF Fits
  <2>3. ASSUME op # "none", i = Len(loops) PROVE Driving(r)'
    <3>1. loops[i].action = op /\ up = (op = "start")
      BY <1>7, <1>8, <2>3, Before DEF Driving
    <3>2. r.saw = up
      BY <1>6, <2>1 DEF up
    <3> QED
      BY <1>2, <1>6, <1>7, <2>1, <3>1, <3>2 DEF Driving
  <2> QED
    BY <2>2, <2>3
<1> QED
  BY <1>1, <1>2, <1>4, <1>6, <1>8, Advanced

LEMMA ApplyStep ==
  ASSUME calm, calm', ToggleInv, NEW i \in 1..Len(loops), applyCheck(i)
  PROVE  ToggleInv'
<1>0. ToggleType /\ up \in BOOLEAN
  BY Typed DEF ToggleInv
<1>1. loops \in Seq(Toggles) /\ loops[i] \in Toggles /\ Len(loops) \in Nat
  BY <1>0 DEF ToggleType
<1>2. /\ loops' \in Seq(Toggles) /\ Len(loops') = Len(loops) - 1
      /\ \A j \in 1..(Len(loops) - 1) :
           loops'[j] = loops[IF j < i THEN j ELSE j + 1]
  BY <1>1, RemoveAtShape DEF applyCheck
<1>3. PICK w : w = loops[i].saw
  OBVIOUS
<1>4. /\ w \in BOOLEAN /\ running \in BOOLEAN
      /\ op \in {"none", "start", "stop"} /\ want \in {"none", "start", "stop"}
  BY <1>0, <1>1, <1>3 DEF Toggles, ToggleType
<1>5. running' = w /\ op' = "none" /\ UNCHANGED <<page, proc, want>> /\ up' = up
  BY <1>3 DEF applyCheck, server, up
<1>6. ToggleType'
  BY <1>0, <1>2, <1>4, <1>5 DEF ToggleType
<1>7. ASSUME page = "homebox"
      PROVE  Idle' /\ \A j \in 1..Len(loops') : Fits(loops[j], j = Len(loops))'
  <2>1. loops[i].stage = "apply" /\ loops[i].tool = "homebox"
    BY <1>7, Before DEF applyCheck, Fits
  <2>2. (w # running => up = w) /\ (op = "none" \/ i = Len(loops))
    BY <1>3, <1>5, <2>1 DEF applyCheck, up
  <2>3. up = w /\ (want # "none" => up = (want = "start")) /\ (op = "stop" => ~up)
    <3>1. CASE op = "none"
      <4>1. running = up /\ (want # "none" => up = (want = "start"))
        BY <1>7, <3>1 DEF ToggleInv, Idle
      <4> QED
        BY <1>0, <1>4, <2>2, <3>1, <4>1
    <3>2. CASE op # "none"
      <4>1. want = op /\ Driving(loops[i])
        BY <1>7, <2>2, <3>2 DEF ToggleInv, Busy
      <4>2. up = (op = "start") /\ w = (op = "start")
        BY <1>3, <2>1, <4>1 DEF Driving, Looking
      <4> QED
        BY <3>2, <4>1, <4>2
    <3> QED
      BY <3>1, <3>2
  <2>4. ASSUME NEW j \in 1..Len(loops') PROVE Fits(loops[j], j = Len(loops))'
    <3>1. PICK k : k = IF j < i THEN j ELSE j + 1
      OBVIOUS
    <3>2. k \in 1..Len(loops) /\ loops'[j] = loops[k] /\ k # i
      BY <1>1, <1>2, <3>1
    <3>3. Fits(loops[k], k = Len(loops))
      BY <1>7, <3>2 DEF ToggleInv
    <3>4. loops[k].stage \notin Starting
      BY <2>2, <3>2, <3>3 DEF Fits
    <3> QED
      BY <1>5, <2>3, <3>2, <3>3, <3>4 DEF Fits
  <2> QED
    BY <1>5, <2>3, <2>4 DEF Idle
<1> QED
  BY <1>5, <1>6, <1>7 DEF ToggleInv

-----------------------------------------------------------------------------
(* Clicks, the poll, faults, and leaving the page.                         *)

LEMMA ChainType ==
  ASSUME page \in Tools, NEW a \in {"start", "stop"}, NEW st \in Commands, NEW b \in BOOLEAN
  PROVE  /\ Chain(a, st, b) \in Toggles
         /\ Chain(a, st, b).tool = page /\ Chain(a, st, b).action = a
         /\ Chain(a, st, b).stage = st /\ Chain(a, st, b).left = b
BY DEF Chain, Toggles

\* What a click adds: one toggle that fits at the end, before it perhaps a kill
\* that nobody waits for.
LEMMA Clicked ==
  ASSUME page \in Tools, NEW a \in {"start", "stop"}
  PROVE  \E c \in Seq(Toggles) :
           /\ c = controlService(a) /\ Len(c) \in {1, 2}
           /\ page = "homebox" =>
                /\ \A j \in 1..Len(c) : c[j].tool = "homebox"
                /\ a = "start" => Len(c) = 1 /\ c[1].stage = "kill"
                /\ a = "stop" => \A j \in 1..Len(c) : c[j].stage \in StopCommands
                /\ c[Len(c)].action = a /\ ~c[Len(c)].left
                /\ a = "start" => ~c[1].left
<1>1. CASE a = "start"
  <2>1. PICK st \in Commands : st = IF page = "homebox" THEN "kill" ELSE "spawn"
    BY DEF Commands
  <2>2. PICK r \in Toggles : r = Chain("start", st, FALSE) /\ r.tool = page
                             /\ r.action = "start" /\ r.stage = st /\ r.left = FALSE
    <3>1. /\ Chain("start", st, FALSE) \in Toggles
          /\ Chain("start", st, FALSE).tool = page /\ Chain("start", st, FALSE).action = "start"
          /\ Chain("start", st, FALSE).stage = st /\ Chain("start", st, FALSE).left = FALSE
      BY ChainType
    <3> QED
      BY <3>1
  <2>3. controlService(a) = <<r>>
    BY <1>1, <2>1, <2>2 DEF controlService
  <2>4. <<r>> \in Seq(Toggles) /\ Len(<<r>>) = 1 /\ <<r>>[1] = r
    OBVIOUS
  <2>5. \A j \in 1..Len(<<r>>) : <<r>>[j] = r
    BY <2>4
  <2> QED
    BY <1>1, <2>1, <2>2, <2>3, <2>4, <2>5
<1>2. CASE a = "stop" /\ page = "homebox"
  <2>0. PICK k \in Commands, d \in Commands : k = "killall" /\ d = "delete"
    BY DEF Commands, StopCommands
  <2>1. PICK r \in Toggles : r = Chain("stop", k, TRUE) /\ r.tool = page /\ r.stage = k
    <3>1. /\ Chain("stop", k, TRUE) \in Toggles
          /\ Chain("stop", k, TRUE).tool = page /\ Chain("stop", k, TRUE).stage = k
      BY ChainType
    <3> QED
      BY <3>1
  <2>2. PICK q \in Toggles : q = Chain("stop", d, FALSE) /\ q.tool = page
                             /\ q.action = "stop" /\ q.stage = d /\ q.left = FALSE
    <3>1. /\ Chain("stop", d, FALSE) \in Toggles
          /\ Chain("stop", d, FALSE).tool = page /\ Chain("stop", d, FALSE).action = "stop"
          /\ Chain("stop", d, FALSE).stage = d /\ Chain("stop", d, FALSE).left = FALSE
      BY ChainType
    <3> QED
      BY <3>1
  <2>3. controlService(a) = <<r, q>>
    BY <1>2, <2>0, <2>1, <2>2 DEF controlService
  <2>4. <<r, q>> \in Seq(Toggles) /\ Len(<<r, q>>) = 2 /\ <<r, q>>[1] = r /\ <<r, q>>[2] = q
    OBVIOUS
  <2>5. \A j \in 1..Len(<<r, q>>) : <<r, q>>[j] = r \/ <<r, q>>[j] = q
    BY <2>4
  <2> QED
    BY <1>2, <2>0, <2>1, <2>2, <2>3, <2>4, <2>5 DEF StopCommands
<1>3. CASE a = "stop" /\ page # "homebox"
  <2>1. PICK r \in Toggles : r = Chain("stop", "killall", FALSE)
    BY ChainType DEF Commands, StopCommands
  <2>2. controlService(a) = <<r>>
    BY <1>3, <2>1 DEF controlService
  <2>3. <<r>> \in Seq(Toggles) /\ Len(<<r>>) = 1
    OBVIOUS
  <2> QED
    BY <1>3, <2>2, <2>3
<1> QED
  BY <1>1, <1>2, <1>3

LEMMA ClickStep ==
  ASSUME calm, calm', ToggleInv, clickToggle
  PROVE  ToggleInv'
<1>1. PICK a \in {"start", "stop"} : a = IF running THEN "stop" ELSE "start"
  OBVIOUS
<1>2. /\ page \in Tools /\ loops' = loops \o controlService(a)
      /\ UNCHANGED <<page, proc, running>> /\ up' = up
      /\ page = "homebox" => op = "none" /\ op' = updateStatus(running, a) /\ want' = a
      /\ page # "homebox" => op' = op /\ want' = want
      /\ a = "start" => ~UnderWay(StopCommands)
  BY <1>1 DEF clickToggle, clickAllowed, server, up
<1>3. PICK c \in Seq(Toggles) :
        /\ c = controlService(a) /\ Len(c) \in {1, 2}
        /\ page = "homebox" =>
             /\ \A j \in 1..Len(c) : c[j].tool = "homebox"
             /\ a = "start" => Len(c) = 1 /\ c[1].stage = "kill"
             /\ a = "stop" => \A j \in 1..Len(c) : c[j].stage \in StopCommands
             /\ c[Len(c)].action = a /\ ~c[Len(c)].left
             /\ a = "start" => ~c[1].left
  BY <1>2, Clicked
<1>4. ToggleType /\ running \in BOOLEAN /\ loops \in Seq(Toggles) /\ Len(loops) \in Nat
  BY DEF ToggleInv, ToggleType
<1>5. /\ loops' \in Seq(Toggles) /\ Len(loops') = Len(loops) + Len(c)
      /\ \A j \in 1..(Len(loops) + Len(c)) :
           loops'[j] = IF j <= Len(loops) THEN loops[j] ELSE c[j - Len(loops)]
  BY <1>2, <1>3, <1>4, ConcatProperties
<1>6. updateStatus(running, a) = a
  BY <1>1, <1>4 DEF updateStatus
<1>7. op' \in {"none", "start", "stop"} /\ want' \in {"none", "start", "stop"}
  BY <1>2, <1>4, <1>6 DEF ToggleType
<1>8. ToggleType'
  BY <1>2, <1>4, <1>5, <1>7 DEF ToggleType
<1>9. ASSUME page = "homebox"
      PROVE  /\ op' # "none" /\ Busy'
             /\ \A j \in 1..Len(loops') : Fits(loops[j], j = Len(loops))'
  <2>1. Idle /\ op' = a /\ want' = a /\ up = running /\ running = (a = "stop")
    BY <1>1, <1>2, <1>4, <1>6, <1>9 DEF ToggleInv, Idle
  <2>2. Len(loops') - Len(loops) = Len(c) /\ loops'[Len(loops')] = c[Len(c)] /\ loops' # <<>>
    <3>1. Len(c) \in Nat /\ Len(c) > 0
      BY <1>3
    <3>2. Len(loops') \in 1..(Len(loops) + Len(c)) /\ ~(Len(loops') <= Len(loops))
          /\ Len(loops') - Len(loops) = Len(c)
      BY <1>4, <1>5, <3>1
    <3> QED
      BY <1>5, <3>2
  <2>3. PICK l : l = c[Len(c)]
    OBVIOUS
  <2>4. l.stage \notin Looking
    <3>1. l.stage = "kill" \/ l.stage \in StopCommands
      BY <1>3, <1>9, <2>3
    <3> QED
      BY <3>1 DEF StopCommands, Looking
  <2>5. l.stage # "apply" /\ (l.stage \in Starting => ~up)
    <3>1. a = "stop" => l.stage \in StopCommands
      BY <1>3, <1>9, <2>3
    <3> QED
      BY <2>1, <2>4, <3>1 DEF Looking, Starting, StopCommands
  <2>6. ~l.left /\ l.action = a
    BY <1>3, <1>9, <2>3
  <2>7. Driving(l)'
    BY <1>2, <2>1, <2>4, <2>5, <2>6 DEF Driving
  <2>8. Busy'
    BY <1>2, <2>1, <2>2, <2>3, <2>7 DEF Busy, Driving
  <2>9. ASSUME NEW j \in 1..Len(loops') PROVE Fits(loops[j], j = Len(loops))'
    <3>1. CASE j <= Len(loops)
      <4>1. j \in 1..Len(loops) /\ loops'[j] = loops[j]
        BY <1>4, <1>5, <2>9, <3>1
      <4>2. Fits(loops[j], j = Len(loops))
        BY <1>9, <4>1 DEF ToggleInv
      <4>3. loops[j].stage \notin Starting
        BY <1>2, <1>9, <4>2 DEF Fits
      <4>4. a = "start" => loops[j].stage \notin StopCommands
        BY <1>2, <4>1 DEF UnderWay
      <4> QED
        BY <2>1, <4>1, <4>2, <4>3, <4>4 DEF Fits
    <3>2. CASE ~(j <= Len(loops))
      <4>1. PICK k : k = j - Len(loops)
        OBVIOUS
      <4>2. k \in 1..Len(c) /\ loops'[j] = c[k] /\ (k = Len(c) => j = Len(loops'))
        BY <1>3, <1>4, <1>5, <2>9, <3>2, <4>1
      <4>3. CASE a = "start"
        <5>1. k = 1 /\ c[k].stage = "kill" /\ j = Len(loops') /\ ~c[k].left
              /\ c[k].tool = "homebox"
          BY <1>3, <1>9, <4>2, <4>3
        <5> QED
          BY <2>1, <4>2, <4>3, <5>1 DEF Fits, StopCommands
      <4>4. CASE a = "stop"
        <5>1. c[k].stage \in StopCommands /\ c[k].tool = "homebox"
          BY <1>3, <1>9, <4>2, <4>4
        <5>2. c[k].stage \notin Starting
          BY <5>1 DEF Starting, StopCommands
        <5> QED
          BY <2>1, <4>2, <4>4, <5>1, <5>2 DEF Fits
      <4> QED
        BY <4>3, <4>4
    <3> QED
      BY <3>1, <3>2
  <2> QED
    BY <2>1, <2>8, <2>9
<1> QED
  BY <1>2, <1>8, <1>9 DEF ToggleInv

LEMMA PollStep ==
  ASSUME calm, calm', ToggleInv, pollAnswer
  PROVE  ToggleInv'
<1>0. ToggleType
  BY DEF ToggleInv
<1>1. PICK seen \in BOOLEAN : seen = (polled = "up")
  OBVIOUS
<1>2. /\ UNCHANGED <<page, proc, loops, want>> /\ up' = up
      /\ seen = running => running' = running /\ op' = op
      /\ seen # running => running' = seen /\ op' = updateStatus(seen, op)
  BY <1>1 DEF pollAnswer, server, up
<1>3. running' # running => proc[page] = seen
  BY <1>1 DEF pollAnswer
<1>4. /\ running \in BOOLEAN /\ up \in BOOLEAN /\ op \in {"none", "start", "stop"}
  BY <1>0 DEF ToggleType, Tools, up
<1>5. CASE seen = running
  BY <1>2, <1>5 DEF ToggleType, ToggleInv, Idle, Busy, Driving, Fits
<1>6. CASE seen # running
  <2>1. running' = seen /\ op' = updateStatus(seen, op) /\ seen = ~running
    BY <1>1, <1>2, <1>4, <1>6
  <2>2. op' \in {"none", "start", "stop"}
    BY <1>4, <2>1 DEF updateStatus
  <2>3. ToggleType'
    BY <1>0, <1>1, <1>2, <2>1, <2>2 DEF ToggleType
  <2>4. ASSUME page = "homebox"
        PROVE  /\ op' = "none" /\ Idle'
               /\ \A j \in 1..Len(loops) : Fits(loops[j], j = Len(loops))'
    <3>1. up = seen /\ up = ~running
      BY <1>3, <1>4, <2>1, <2>4 DEF up
    <3>2. op # "none"
      <4> SUFFICES ASSUME op = "none" PROVE FALSE
        OBVIOUS
      <4>1. running = up
        BY <2>4 DEF ToggleInv, Idle
      <4> QED
        BY <1>4, <3>1, <4>1
    <3>3. want = op /\ running = (op = "stop") /\ loops # <<>> /\ Driving(loops[Len(loops)])
      BY <2>4, <3>2 DEF ToggleInv, Busy
    <3>4. op' = "none"
      BY <1>4, <2>1, <3>2, <3>3 DEF updateStatus
    <3>5. up = (want = "start") /\ running' = up /\ (op = "stop" => ~up) /\ (op = "start" => up)
      BY <1>4, <2>1, <3>1, <3>2, <3>3
    <3>6. ASSUME NEW j \in 1..Len(loops) PROVE Fits(loops[j], j = Len(loops))'
      <4>1. Fits(loops[j], j = Len(loops))
        BY <2>4 DEF ToggleInv
      <4>2. loops[j].stage \notin Starting
        BY <3>3, <3>5, <4>1 DEF Fits, Driving
      <4> QED
        BY <1>2, <3>2, <3>4, <3>5, <4>1, <4>2 DEF Fits
    <3> QED
      BY <1>2, <3>4, <3>5, <3>6 DEF Idle
  <2> QED
    BY <1>2, <2>3, <2>4 DEF ToggleInv
<1> QED
  BY <1>5, <1>6

\* A new page looks before it shows; with a command still to run nothing more
\* is claimed.
LEMMA NavigateStep ==
  ASSUME calm, calm', ToggleInv, NEW t \in Tools, Navigate(t)
  PROVE  ToggleInv'
<1>1. /\ page' = t /\ running' = proc[t] /\ op' = "none" /\ loops' = <<>>
      /\ want' = "none" /\ UNCHANGED proc
  BY DEF Navigate, server
<1>2. ToggleType
  BY DEF ToggleInv
<1>3. running' \in BOOLEAN /\ loops' \in Seq(Toggles)
  BY <1>1, <1>2 DEF ToggleType
<1>4. ToggleType'
  BY <1>1, <1>2, <1>3 DEF ToggleType
<1>5. page' = "homebox" => Idle'
  BY <1>1 DEF Idle, up
<1>6. \A j \in 1..Len(loops') : Fits(loops[j], j = Len(loops))'
  BY <1>1
<1> QED
  BY <1>1, <1>4, <1>5, <1>6 DEF ToggleInv

LEMMA ToggleSteps ==
  ASSUME ToggleInv, [Next]_vars
  PROVE  ToggleInv'
<1>1. SUFFICES ASSUME calm' PROVE ToggleInv'
  BY DEF ToggleInv
<1>2. CASE calm /\ UNCHANGED <<page, proc, running, op, loops, want>>
  BY <1>2 DEF ToggleType, ToggleInv, Idle, Busy, Driving, Fits, up
<1>3. CASE clickToggle \/ pollAnswer
  <2>1. calm
    BY <1>1, <1>3 DEF clickToggle, pollAnswer
  <2> QED
    BY <1>1, <1>3, <2>1, ClickStep, PollStep
<1>4. ASSUME NEW i \in 1..Len(loops), ToggleStep(i)
      PROVE  ToggleInv'
  <2>1. calm
    <3>1. CASE spawn(i)
      BY <1>1, <3>1 DEF spawn
    <3>2. CASE applyCheck(i)
      BY <1>1, <3>2 DEF applyCheck
    <3>3. CASE killFirst(i) \/ stop_service(i) \/ killall(i) \/ doCheck(i) \/ lastCheck(i)
      BY <1>1, <3>3 DEF killFirst, stop_service, killall, doCheck, lastCheck, hist
    <3> QED
      BY <1>4, <3>1, <3>2, <3>3 DEF ToggleStep
  <2> QED
    BY <1>1, <1>4, <2>1, KillStep, SpawnStep, DeleteStep, KillallStep, CheckStep, LastStep,
       ApplyStep DEF ToggleStep
<1>5. CASE \/ \E i \in 1..Len(loops) : commandFails(i)
           \/ \E t \in Tools : ProcessDies(t)
           \/ Respawn
  BY <1>1, <1>5 DEF commandFails, ProcessDies, Respawn
<1>6. ASSUME NEW t \in Tools, Navigate(t)
      PROVE  ToggleInv'
  <2>1. calm
    BY <1>1, <1>6 DEF Navigate
  <2> QED
    BY <1>1, <1>6, <2>1, NavigateStep
<1> HIDE DEF ToggleInv
<1>7. CASE checkProcess
  BY <1>1, <1>2, <1>7 DEF checkProcess, server, hist
<1>8. ASSUME NEW i \in 1..Len(saving), saveConfiguration(i) \/ enableService(i) \/ saveFails(i)
      PROVE  ToggleInv'
  BY <1>1, <1>2, <1>8 DEF saveConfiguration, enableService, saveFails, server, ui, hist
<1>9. ASSUME NEW on \in BOOLEAN, saveClick(on)
      PROVE  ToggleInv'
  BY <1>1, <1>2, <1>9 DEF saveClick, server, ui, hist
<1>10. CASE startSpeedTest \/ Ages \/ poll_status
  BY <1>1, <1>2, <1>10 DEF startSpeedTest, Ages, poll_status, server, ui, hist
<1>11. CASE Scripts \/ \E i \in 1..Len(scripts) : ScriptKilled(i)
  BY <1>1, <1>2, <1>11 DEF Scripts, ScriptGoes, check_running, removeStale, takeLock, writePid,
     main_test, cleanup, OrphanEnds, ScriptKilled, server, ui, hist
<1>12. CASE UNCHANGED vars
  BY <1>1, <1>2, <1>12 DEF vars, server, ui, hist
<1> QED
  BY <1>3, <1>4, <1>5, <1>6, <1>7, <1>8, <1>9, <1>10, <1>11, <1>12 DEF Next, Toggling

-----------------------------------------------------------------------------
\* The inductive invariant behind ServerAsAsked: the saves in progress, and the
\* toggles in progress on the Homebox page with the process they drive.
THEOREM PageInvariant == Spec => [](SaveInv /\ ToggleInv)
<1>1. Init => SaveInv
  <2> SUFFICES ASSUME Init PROVE SaveInv
    OBVIOUS
  <2>1. config["homebox"] = IF procd THEN "1" ELSE "0"
    BY DEF Init
  <2>2. procd \in BOOLEAN /\ rc = procd
    BY DEF Init
  <2>3. rc = (config["homebox"] = "1")
    BY <2>1, <2>2
  <2> QED
    BY <2>3 DEF Init, SaveInv
<1> QED
  BY <1>1, InitToggle, SaveStep, ToggleSteps, PTL DEF Spec

\* Whatever clicks, polls, late answers and late commands overlap, the Homebox
\* process ends as the last click asked, except after the events its comment
\* lists, and after a save that ran alone the init script is enabled as the
\* file says.
THEOREM ServerAlwaysAsAsked == Spec => []ServerAsAsked
<1>1. SaveInv /\ ToggleInv => ServerAsAsked
  <2> SUFFICES ASSUME SaveInv, ToggleInv PROVE ServerAsAsked
    OBVIOUS
  <2>1. saving = <<>> /\ sound => rc = (config["homebox"] = "1")
    BY DEF SaveInv
  <2>2. ASSUME page = "homebox", calm, loops = <<>>, want # "none"
        PROVE  proc["homebox"] = (want = "start")
    <3>1. op = "none"
      BY <2>2 DEF ToggleInv, Busy
    <3> QED
      BY <2>2, <3>1 DEF ToggleInv, Idle, up
  <2> QED
    BY <2>1, <2>2 DEF ServerAsAsked
<1> QED
  BY <1>1, PageInvariant, PTL
=============================================================================
